CONSTANTS
  Slots = {s1, s2, s3}
  Identities = {alice, bob}
  Handlers = {h1, h2, h3}
  NoSlot = NoSlot
  MaxPerIdentity = 1
  IdleTimeout = TRUE
SPECIFICATION Spec
SYMMETRY Symmetry
INVARIANTS OneDriver DrivenIsNotOrphaned OrphanCap RestingIsRecoverable NoLeakedShell
PROPERTY DrivenStaysRegistered
