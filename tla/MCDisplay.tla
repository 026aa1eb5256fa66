----------------------------- MODULE MCDisplay ------------------------------
(* What the user types and what is shown: the replay buffer and the        *)
(* terminal of a session, its out-of-band controls, the client's screen,   *)
(* its predictor and the path of its input, each on its own.  `machine`    *)
(* says which of them runs; the others stay in an initial state.           *)
EXTENDS OutputBuffer

CONSTANTS
  TermSizes, MaxDim, LineCap, Counts, Positions, SgrInputs, MaxResets, TermOps,
  ScreenSizes, ScreenGlyphs, Lines, ScreenOps,
  PredictSizes, Batches, Prompts, Rtts, Mode, MaxKeys, MaxFrames, MaxResizes,
  CSI_SHIFT_PAGEUP, CSI_SHIFT_PAGEDOWN, Bytes, MaxTyped,
  PtyReads, Titles, Clips, Links, Refused, OSC_ACCUMULATION_MAX, MAX_TITLE_BYTES,
  OSC_52_MAX_BYTES, Status, NoControl, MaxRaw, WireCap, MaxReads

VARIABLES
  machine,
  term, resets, nested, panics, termops,
  srv, base, confirmed, physical, tty, view, banner, pred, dirty, moved, wide, ops,
  overlay, screen, wasAlt, inbox, shell, keys, resizes, matched, answered, lines,
  phase, pending, escape, sent, listening, typed,
  in_osc, osc_byte_count, pending_esc, vte, pend, attached, wire, shown, tracked, cut, due,
  lost, pumped, reads

termVars == <<term, resets, nested, panics, termops>>
screenVars == <<srv, base, confirmed, physical, tty, view, banner, pred, dirty, moved, wide, ops>>
predictVars ==
  <<overlay, screen, wasAlt, inbox, shell, keys, resizes, matched, answered, lines>>
inputVars == <<phase, pending, escape, sent, listening, typed>>
oscVars ==
  <<in_osc, osc_byte_count, pending_esc, vte, pend, attached, wire, shown, tracked, cut, due,
    lost, pumped, reads>>

Term == INSTANCE Terminal WITH Sizes <- TermSizes, MaxOps <- TermOps, ops <- termops
Screen == INSTANCE ClientScreen
  WITH Sizes <- ScreenSizes, Glyphs <- ScreenGlyphs, MaxOps <- ScreenOps
Predict == INSTANCE Predictor WITH Sizes <- PredictSizes
Input == INSTANCE InputPath WITH MaxBytes <- MaxTyped
Osc == INSTANCE OscFilter WITH Reads <- PtyReads, None <- NoControl

ASSUME TermAssumption == Term!TerminalAssumption
ASSUME ScreenSideAssumption == Screen!ScreenAssumption
ASSUME PredictAssumption == Predict!PredictorAssumption
ASSUME TypedAssumption == Input!InputAssumption
ASSUME ControlAssumption == Osc!OscAssumption

(* Sizes down to no row and to no column, a count at the u16 limit, and    *)
(* 24-bit and out-of-range colours among the pen's inputs.                 *)
MCTermSizes == {<<2, 2>>, <<3, 1>>, <<1, 0>>, <<0, 1>>}
MCCounts == {0, 65535}
MCPositions == {<<1, 2>>}
MCSgrInputs == {<<7>>, <<38, 2, 1, 1, 1, 31>>, <<48, 5, 300>>, <<>>}

MCScreenSizes == {<<3, 1>>, <<2, 2>>}
MCLines == {<<"a", "b">>}

(* Keys and pastes, one of them cut by a control key, and every motion.    *)
MCPredictSizes == {<<3, 2>>, <<2, 1>>}
MCBatches ==
  {<<"a">>, <<"W">>, <<"a", "b">>, <<"a", "b", "a", "b", "a">>,
   <<"a", "b", "a", "b", "Tab">>, <<"PasteStart">>, <<"PasteEnd">>}
    \cup {<<m>> : m \in {"Backspace", "Left", "Right", "Home", "End", "Enter"}}

(* The two paging sequences, without the bytes nothing else uses.          *)
MCUp == <<"ESC", "5", "~">>
MCDown == <<"ESC", "6", "~">>

(* Introducers and terminators whole and cut, a reset before an OSC in the *)
(* same read, and sequences the server or the client drops.                *)
MCPtyReads ==
  {<<c>> : c \in {"x", "ESC", "]", "\\", "BEL", "9D", "c"}}
    \cup {<<"ESC", "]", c>> : c \in {"T1", "C"}}
    \cup {<<"ESC", "]", c, "BEL">> : c \in {"T2", "D", "?", "L"}}
    \cup {<<"ESC", "\\", "x">>, <<"x", "x", "BEL">>, <<"ESC", "c", "ESC", "]", "T1">>}

One(S) == CHOOSE x \in S : TRUE

MCInit ==
  /\ machine \in {"buffer", "terminal", "screen", "predictor", "input", "osc"}
  /\ Init /\ Term!Init /\ Screen!Init /\ Predict!Init /\ Input!Init /\ Osc!Init
  /\ machine # "terminal" => term = Term!New(2, 2)
  /\ machine # "screen" => srv = Screen!MakeGrid(One(ScreenSizes)[1], One(ScreenSizes)[2])
  /\ screen.size = <<3, 2>>

MCNext ==
  /\ UNCHANGED machine
  /\ \/ /\ machine = "buffer" /\ Next
        /\ UNCHANGED <<termVars, screenVars, predictVars, inputVars, oscVars>>
     \/ /\ machine = "terminal" /\ Term!Next
        /\ UNCHANGED <<vars, screenVars, predictVars, inputVars, oscVars>>
     \/ /\ machine = "screen" /\ Screen!Next
        /\ UNCHANGED <<vars, termVars, predictVars, inputVars, oscVars>>
     \/ /\ machine = "predictor" /\ Predict!Next
        /\ UNCHANGED <<vars, termVars, screenVars, inputVars, oscVars>>
     \/ /\ machine = "input" /\ Input!Next
        /\ UNCHANGED <<vars, termVars, screenVars, predictVars, oscVars>>
     \/ /\ machine = "osc" /\ Osc!Next
        /\ UNCHANGED <<vars, termVars, screenVars, predictVars, inputVars>>

MCSpec ==
  /\ MCInit
  /\ [][MCNext]_<<machine, vars, termVars, screenVars, predictVars, inputVars, oscVars>>
-----------------------------------------------------------------------------
(* See Terminal: what the alternate screen shows never gets into the       *)
(* primary screen or the history, and a full reset forgets both.           *)
ScreensApart == Term!ScreensApart /\ Term!ResetForgets

(* See Terminal: the scrollback pages a client asks for one after another  *)
(* tile the history.                                                       *)
PagesTile == Term!PagesTile

(* See Terminal: through every resize and reset the cursor, the grid and   *)
(* the saved screen fit each other, no erasure leaves a grid that has      *)
(* columns, and the arguments of an extended colour never act as codes.    *)
TerminalIsSound == Term!TypeOK /\ Term!ColourArgsAreNotCodes

(* See Terminal: feeding it never panics.                                  *)
AdvanceReturns == Term!AdvanceReturns

(* See ClientScreen: rows without wide glyphs are the server's.            *)
NarrowRowsAgree == Screen!NarrowRowsAgree

(* See ClientScreen: what the physical grid claims is on the terminal,     *)
(* except from a change of the window until the grid is next forgotten,    *)
(* and nothing else is there until a write fails, the window changes or    *)
(* history is painted.                                                     *)
TtyShowsPhysical == Screen!PhysicalIsOnTty /\ Screen!TtyIsPhysical

(* See Predictor: what is shown before its echo belongs to a line on which *)
(* a prediction was already seen to come true.                             *)
ShownWasMatched == Predict!ShownWasMatched

(* See Predictor: every prediction waits for a frame still to come and is  *)
(* for a cell of the screen.                                               *)
PredictionsFit == Predict!PendingIsFresh /\ Predict!OverlayFitsScreen

(* See InputPath: what is sent is what was typed, less the sequences the   *)
(* client takes for itself, and only an escape quits.                      *)
InputArrives == Input!SentIsTyped /\ Input!QuitIsEscape

(* See OscFilter: a sequence the scanner counts from its start is bounded, *)
(* and the latest control of each kind reaches the client's terminal.      *)
ControlsArrive == Osc!TrackedIsBounded /\ Osc!ControlsArrive

(* See Predictor: keys typed without echo are not shown.                   *)
NoEchoHidden == Predict!NoEchoHidden
=============================================================================
