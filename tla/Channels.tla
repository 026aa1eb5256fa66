------------------------------ MODULE Channels ------------------------------
(***************************************************************************)
(* The scrollback channel of one attachment: the client's pump and its     *)
(* drain task (main.rs, client channel.rs), the server's pump and its      *)
(* sender task (server.rs, server channel.rs), the bounded queues between  *)
(* pump and task on either side, the control stream and the channel's own  *)
(* stream, and the byte credit that bounds what the sender may write.      *)
(*                                                                         *)
(* The client opens one channel, id 2, before its pump loop.  A line of    *)
(* history is its number in the order of output.  A request counts lines   *)
(* back from the newest, which is another line after more output.  Loss of *)
(* the connection ends both pumps; the tasks notice and end after them.    *)
(*                                                                         *)
(* Either task reads its stream in a select!: another event drops a read   *)
(* that is half done, with the bytes it has, and what is read from then on *)
(* does not begin where a message does (see Framing).                      *)
(***************************************************************************)
EXTENDS Integers, Sequences, FiniteSets

CONSTANTS
  Window,       \* INITIAL_CREDIT
  Chunk,        \* CREDIT_REPLENISH_CHUNK
  PageSizes,    \* the sizes a page may have
  PageLines,    \* lines a request asks for (count: 256)
  LineCap,      \* SCROLLBACK_LINE_CAP
  EventCap,     \* queue of ChannelEvents, pump to sender task
  ServerCap,    \* channel_ctrl queue, tasks to the server's pump
  ClientCap,    \* scrollback_ctrl queue, drain task to the client's pump
  PageCap,      \* page queue, drain task to the client's pump
  ReqCap,       \* request queue, client's pump to drain task
  StreamCap,    \* pages the channel's stream takes before a write blocks (external)
  MaxPageUps,   \* bound: times the user pages up
  MaxLines      \* bound: lines of output, with those there at the start

ASSUME ChannelsAssumption ==
  /\ Window \in Nat \ {0} /\ Chunk \in 1 .. Window /\ PageSizes \subseteq Nat \ {0}
  /\ {PageLines, LineCap, EventCap, ServerCap, ClientCap, PageCap, ReqCap, StreamCap}
       \subseteq Nat \ {0}
  /\ MaxPageUps \in Nat /\ MaxLines \in Nat
  /\ Window <= EventCap * Chunk   \* 256 KiB, 64 events, 128 KiB

VARIABLES
  \* The client.
  cpump,        \* "start", "opening", "run", "done"
  drain,        \* run_scrollback_drain_task: where it is, bytes drained since the last grant,
                \* bytes of the grant it is sending
  reqq, pageq, cctrl,
  view,         \* ScrollbackView: active, lines (oldest first), pending_request,
                \* total_available
  pageups,
  pageRead,     \* the drain task's read of a page: "aligned" (none half done), "partial", or
                \* "torn" (one was dropped half done)
  \* The streams.
  c2s, s2c,     \* the control stream
  up, down,     \* the channel's stream: requests, pages
  bound,        \* "none", "flight" (opened, prefix written), "bound", "reset"
  upEOF, downEOF,
  \* The server.
  spump,        \* "run", "Stream" or "ChannelClose" (blocked sending that event), "ended"
  mapped,       \* the channel is in channel_map
  task,         \* run_scrollback_sender_task: where it is, remaining_credit, page to send
  reqRead,      \* its read of a request, as pageRead
  evq, sctrl,
  printed,      \* the terminal's scrollback: the lines dropped + 1 .. printed
  dropped,
  \* Auxiliary.
  reentered,    \* a page of an earlier view may still be under way
  entered       \* printed, when the view was entered

history    == <<printed, dropped>>
clientVars == <<cpump, drain, reqq, pageq, cctrl, view, pageups, pageRead, reentered, entered>>
streamVars == <<c2s, s2c, up, down, bound, upEOF, downEOF>>
serverVars == <<spump, mapped, task, reqRead, evq, sctrl, history>>
vars == <<clientVars, streamVars, serverVars>>

Live == [active |-> FALSE, held |-> <<>>, pending |-> FALSE, total |-> 0]
NoPage == [lines |-> <<>>, total |-> 0, size |-> 0]

Open  == [t |-> "ChannelOpen", n |-> 0]
Close == [t |-> "ChannelClose", n |-> 0]
Accept == [t |-> "ChannelAccept", n |-> 0]
Reject == [t |-> "ChannelReject", n |-> 0]
Credit(n) == [t |-> "ScrollbackCredit", n |-> n]
Stream == [t |-> "Stream", n |-> 0]

\* A try_send: a full queue drops the message.
TrySend(q, cap, m) == IF Len(q) < cap THEN Append(q, m) ELSE q

Init ==
  /\ cpump = "start" /\ drain = [pc |-> "off", drained |-> 0, grant |-> 0]
  /\ reqq = <<>> /\ pageq = <<>> /\ cctrl = <<>>
  /\ view = Live /\ pageups = 0 /\ pageRead = "aligned" /\ reentered = FALSE /\ entered = 0
  /\ c2s = <<>> /\ s2c = <<>> /\ up = <<>> /\ down = <<>>
  /\ bound = "none" /\ upEOF = FALSE /\ downEOF = FALSE
  /\ spump = "run" /\ mapped = FALSE
  /\ task = [pc |-> "off", credit |-> 0, page |-> NoPage]
  /\ reqRead = "aligned" /\ evq = <<>> /\ sctrl = <<>>
  /\ printed \in 0 .. LineCap /\ dropped = 0

Ended == spump = "ended"

-----------------------------------------------------------------------------
(* The client's pump.                                                      *)

\* open_channel, first half: ask on the control stream.
SendChannelOpen ==
  /\ cpump = "start"
  /\ cpump' = "opening"
  /\ c2s' = Append(c2s, Open)
  /\ UNCHANGED <<drain, reqq, pageq, cctrl, view, pageups, pageRead, reentered, entered, s2c,
                 up, down, bound, upEOF, downEOF, serverVars>>

\* open_channel, second half: on ChannelAccept open the stream, write its prefix and
\* start the drain task; otherwise go on without scrollback.
AwaitChannelAccept ==
  /\ cpump = "opening" /\ s2c # <<>>
  /\ cpump' = "run"
  /\ s2c' = Tail(s2c)
  /\ IF Head(s2c) = Accept
     THEN bound' = "flight" /\ drain' = [drain EXCEPT !.pc = "loop"]
     ELSE UNCHANGED <<bound, drain>>
  /\ UNCHANGED <<reqq, pageq, cctrl, view, pageups, pageRead, reentered, entered, c2s, up,
                 down, upEOF, downEOF, serverVars>>

\* The server's other channel frames are ignored.
IgnoreFrame ==
  /\ cpump = "run" /\ s2c # <<>>
  /\ s2c' = Tail(s2c)
  /\ UNCHANGED <<clientVars, c2s, up, down, bound, upEOF, downEOF, serverVars>>

\* scrollback_available is set once and never cleared.
ScrollbackAvailable == drain.pc # "off"

\* The drain task holds the receiver: when it is gone a try_send fails.
RequestPage(from) ==
  reqq' = IF drain.pc = "gone" THEN reqq ELSE TrySend(reqq, ReqCap, from)

\* Shift-PageUp in Live mode.
EnterScrollback ==
  /\ cpump = "run" /\ ~view.active /\ pageups < MaxPageUps
  /\ ScrollbackAvailable
  /\ view' = [active |-> TRUE, held |-> <<>>, pending |-> TRUE, total |-> 0]
  /\ RequestPage(0)
  /\ pageups' = pageups + 1
  /\ reentered' = (reentered \/ pageups > 0)
  /\ entered' = printed
  /\ UNCHANGED <<cpump, drain, pageq, cctrl, pageRead, streamVars, serverVars>>

\* Mutant: the next page is asked for although one is under way.
MayPrefetchAgain == Len(view.held) < view.total

\* No request is under way and the server has more than is held.
MayPrefetch == ~view.pending /\ Len(view.held) < view.total

\* Shift-PageUp in Active mode.
PageUp ==
  /\ cpump = "run" /\ view.active /\ pageups < MaxPageUps
  /\ IF MayPrefetch
     THEN view' = [view EXCEPT !.pending = TRUE] /\ RequestPage(Len(view.held))
     ELSE UNCHANGED <<view, reqq>>
  /\ pageups' = pageups + 1
  /\ UNCHANGED <<cpump, drain, pageq, cctrl, pageRead, reentered, entered, streamVars,
                 serverVars>>

\* Shift-PageDown past the newest line, any other key, or a fresh datagram.
SnapBack ==
  /\ cpump = "run" /\ view.active
  /\ view' = Live
  /\ UNCHANGED <<cpump, drain, reqq, pageq, cctrl, pageups, pageRead, reentered, entered,
                 streamVars, serverVars>>

\* The page arm: an Active view takes whatever page arrives, Live drops it.
RecvPage ==
  /\ cpump = "run" /\ pageq # <<>>
  /\ pageq' = Tail(pageq)
  /\ view' = IF view.active
             THEN [active |-> TRUE, held |-> Head(pageq).lines \o view.held,
                   pending |-> FALSE, total |-> Head(pageq).total]
             ELSE view
  /\ UNCHANGED <<cpump, drain, reqq, cctrl, pageups, pageRead, reentered, entered, streamVars,
                 serverVars>>

\* The control arm: credits and the close go out on the control stream.
ForwardControl ==
  /\ cpump = "run" /\ cctrl # <<>>
  /\ cctrl' = Tail(cctrl)
  /\ c2s' = Append(c2s, Head(cctrl))
  /\ UNCHANGED <<cpump, drain, reqq, pageq, view, pageups, pageRead, reentered, entered, s2c,
                 up, down, bound, upEOF, downEOF, serverVars>>

-----------------------------------------------------------------------------
(* The drain task.                                                         *)

Drain(pc) == drain' = [drain EXCEPT !.pc = pc]

\* What is left of the credit is granted before the stream is closed.
Exit(d) == IF d.drained > 0 THEN [pc |-> "flush", drained |-> 0, grant |-> d.drained]
           ELSE [pc |-> "finish", drained |-> 0, grant |-> 0]

\* A request goes out on the channel's own stream; a page half read is dropped for it.
DrainRequest ==
  /\ drain.pc = "loop" /\ reqq # <<>>
  /\ reqq' = Tail(reqq)
  /\ pageRead' = IF pageRead = "partial" THEN "torn" ELSE pageRead
  /\ IF bound = "reset" \/ Ended
     THEN drain' = Exit(drain) /\ UNCHANGED up
     ELSE up' = Append(up, Head(reqq)) /\ UNCHANGED drain
  /\ UNCHANGED <<cpump, pageq, cctrl, view, pageups, reentered, entered, c2s, s2c, down, bound,
                 upEOF, downEOF, serverVars>>

\* Mutant: the grant is measured by the page's payload, not by its frame.
PayloadBytes(page) == page.size - 1

WireBytes(page) == page.size

\* Mutant: a grant waits for more than a chunk.
ReplenishAbove(drained) == drained > Chunk

Replenish(drained) == drained >= Chunk

\* A part of a page is read; the rest has not arrived.
DrainReads ==
  /\ drain.pc = "loop" /\ down # <<>> /\ pageRead = "aligned"
  /\ pageRead' = "partial"
  /\ UNCHANGED <<cpump, drain, reqq, pageq, cctrl, view, pageups, reentered, entered,
                 streamVars, serverVars>>

\* Bytes of a message are counted, and granted by the chunk.
CountBytes(n) ==
  LET drained == drain.drained + n
  IN drain' = IF cpump = "done" THEN Exit([drain EXCEPT !.drained = drained])
              ELSE IF Replenish(drained) THEN [pc |-> "grant", drained |-> 0, grant |-> drained]
              ELSE [drain EXCEPT !.drained = drained]

\* A page: forwarded unless the pump's queue is full, and counted.
DrainPage ==
  /\ drain.pc = "loop" /\ down # <<>>
  /\ down' = Tail(down)
  /\ pageRead' = IF pageRead = "torn" THEN "torn" ELSE "aligned"
  /\ pageq' = TrySend(pageq, PageCap, Head(down))
  /\ CountBytes(WireBytes(Head(down)))
  /\ UNCHANGED <<cpump, reqq, cctrl, view, pageups, reentered, entered, c2s, s2c, up, bound,
                 upEOF, downEOF, serverVars>>

\* A line that is none.
Garbage(n) == [lines |-> <<0>>, total |-> 1, size |-> n]

\* After a dropped read: the bytes of a page are taken for the beginning of a longer
\* message, for none at all, or for some message, which may be a page.
DrainMisreads ==
  /\ drain.pc = "loop" /\ down # <<>> /\ pageRead = "torn"
  /\ down' = Tail(down)
  /\ \/ UNCHANGED <<drain, pageq>>
     \/ drain' = Exit(drain) /\ UNCHANGED pageq
     \/ \E n \in PageSizes : /\ CountBytes(n)
                            /\ pageq' \in {pageq, TrySend(pageq, PageCap, Garbage(n))}
  /\ UNCHANGED <<cpump, reqq, cctrl, view, pageups, pageRead, reentered, entered, c2s, s2c, up,
                 bound, upEOF, downEOF, serverVars>>

\* The stream has ended or failed, or the pump is gone.
DrainEnds ==
  /\ drain.pc = "loop"
  /\ (down = <<>> /\ downEOF) \/ bound = "reset" \/ Ended \/ (cpump = "done" /\ reqq = <<>>)
  /\ drain' = Exit(drain)
  /\ UNCHANGED <<cpump, reqq, pageq, cctrl, view, pageups, pageRead, reentered, entered,
                 streamVars, serverVars>>

\* The awaited send of a grant: into the pump's queue, or refused by a pump that is gone.
DrainGrants ==
  /\ drain.pc \in {"grant", "flush"}
  /\ \/ /\ cpump = "done"
        /\ UNCHANGED cctrl
        /\ drain' = [pc |-> "finish", drained |-> 0, grant |-> 0]
     \/ /\ cpump # "done" /\ Len(cctrl) < ClientCap
        /\ cctrl' = Append(cctrl, Credit(drain.grant))
        /\ drain' = [pc |-> IF drain.pc = "grant" THEN "loop" ELSE "finish",
                     drained |-> 0, grant |-> 0]
  /\ UNCHANGED <<cpump, reqq, pageq, view, pageups, pageRead, reentered, entered, streamVars,
                 serverVars>>

\* finish and the bounded wait for the peer; then ChannelClose through the pump.
DrainFinishes ==
  /\ drain.pc = "finish"
  /\ upEOF' = TRUE
  /\ Drain("report")
  /\ UNCHANGED <<cpump, reqq, pageq, cctrl, view, pageups, pageRead, reentered, entered, c2s,
                 s2c, up, down, bound, downEOF, serverVars>>

DrainReports ==
  /\ drain.pc = "report"
  /\ \/ cpump = "done" /\ UNCHANGED cctrl
     \/ cpump # "done" /\ Len(cctrl) < ClientCap /\ cctrl' = Append(cctrl, Close)
  /\ Drain("gone")
  /\ reqq' = <<>>
  /\ UNCHANGED <<cpump, pageq, view, pageups, pageRead, reentered, entered, streamVars,
                 serverVars>>

-----------------------------------------------------------------------------
(* The server's pump.                                                      *)

ServerReads(t) == spump = "run" /\ c2s # <<>> /\ Head(c2s).t = t /\ c2s' = Tail(c2s)

\* ChannelOpen of an accepted type: the map entry and the task; else ChannelReject.
RecvChannelOpen == \E supported \in BOOLEAN :
  /\ ServerReads("ChannelOpen")
  /\ IF supported /\ ~mapped
     THEN /\ s2c' = Append(s2c, Accept)
          /\ mapped' = TRUE
          /\ task' = [task EXCEPT !.pc = "bind"]
     ELSE /\ s2c' = Append(s2c, Reject)
          /\ UNCHANGED <<mapped, task>>
  /\ UNCHANGED <<clientVars, up, down, bound, upEOF, downEOF, spump, evq, sctrl, reqRead,
                 history>>

\* ScrollbackCredit: handed on with try_send.
RecvCredit ==
  /\ ServerReads("ScrollbackCredit")
  /\ evq' = IF mapped /\ task.pc # "gone" THEN TrySend(evq, EventCap, Head(c2s)) ELSE evq
  /\ UNCHANGED <<clientVars, s2c, up, down, bound, upEOF, downEOF, spump, mapped, task,
                 sctrl, reqRead, history>>

\* The awaited send of an event: the pump waits for room while the task runs.
HandOn(ev) ==
  CASE task.pc = "gone"     -> UNCHANGED <<evq, spump>>
    [] Len(evq) < EventCap  -> evq' = Append(evq, ev) /\ UNCHANGED spump
    [] OTHER                -> spump' = ev.t /\ UNCHANGED evq

\* ChannelClose of the client.
RecvChannelClose ==
  /\ ServerReads("ChannelClose")
  /\ mapped' = FALSE
  /\ IF mapped THEN HandOn(Close) ELSE UNCHANGED <<evq, spump>>
  /\ UNCHANGED <<clientVars, s2c, up, down, bound, upEOF, downEOF, task, sctrl, reqRead,
                 history>>

\* The accept_bi arm: the stream goes to the task of its prefix; without one it is reset.
BindStream ==
  /\ spump = "run" /\ bound = "flight"
  /\ IF mapped /\ task.pc # "gone"
     THEN bound' = "bound" /\ HandOn(Stream)
     ELSE bound' = "reset" /\ UNCHANGED <<evq, spump>>
  /\ UNCHANGED <<clientVars, c2s, s2c, up, down, upEOF, downEOF, mapped, task, sctrl,
                 reqRead, history>>

\* The pump's blocked send goes through, or fails because the task is gone.
PumpResumes ==
  /\ spump \in {"Stream", "ChannelClose"}
  /\ task.pc = "gone" \/ Len(evq) < EventCap
  /\ spump' = "run"
  /\ evq' = IF task.pc = "gone" THEN evq ELSE Append(evq, [t |-> spump, n |-> 0])
  /\ UNCHANGED <<clientVars, streamVars, mapped, task, sctrl, reqRead, history>>

\* A frame of the task: its ChannelClose takes it out of the map.
WriteControl ==
  /\ spump = "run" /\ sctrl # <<>>
  /\ sctrl' = Tail(sctrl)
  /\ mapped' = FALSE
  /\ s2c' = Append(s2c, Head(sctrl))
  /\ UNCHANGED <<clientVars, c2s, up, down, bound, upEOF, downEOF, spump, task, evq,
                 reqRead, history>>

\* The connection is lost, the shell exits or the client closes: both pumps end.
SessionEnds ==
  /\ ~Ended
  /\ spump' = "ended" /\ cpump' = "done"
  /\ mapped' = FALSE
  /\ view' = Live
  /\ UNCHANGED <<drain, reqq, pageq, cctrl, pageups, pageRead, reentered, entered, streamVars,
                 task, reqRead, evq, sctrl, history>>

-----------------------------------------------------------------------------
(* The sender task.                                                        *)

Task(pc) == task' = [task EXCEPT !.pc = pc]

\* Mutant: the end of the queue is taken for an empty one.
TaskEventNeverEnds == IF evq # <<>> THEN Head(evq) ELSE [t |-> "none", n |-> 0]

\* The next event; none will come once the pump has dropped its sender.
TaskEvent == IF evq # <<>> THEN Head(evq)
             ELSE IF Ended THEN Close ELSE [t |-> "none", n |-> 0]

\* Waiting for its stream: credits are skipped.
AwaitStream ==
  /\ task.pc = "bind" /\ TaskEvent.t # "none"
  /\ evq' = IF evq = <<>> THEN evq ELSE Tail(evq)
  /\ CASE TaskEvent.t = "Stream" ->
            task' = [task EXCEPT !.pc = "serve", !.credit = Window]
       [] TaskEvent.t = "ChannelClose" -> Task("report")
       [] OTHER -> UNCHANGED task
  /\ UNCHANGED <<clientVars, streamVars, spump, mapped, sctrl, reqRead, history>>

\* Serving or waiting for credit: a grant, or the close.  A request half read is dropped.
TaskEvents ==
  /\ task.pc \in {"serve", "wait"} /\ TaskEvent.t # "none"
  /\ evq' = IF evq = <<>> THEN evq ELSE Tail(evq)
  /\ task' = CASE TaskEvent.t = "ChannelClose" -> [task EXCEPT !.pc = "finish"]
               [] TaskEvent.t = "ScrollbackCredit" ->
                    LET more == task.credit + TaskEvent.n
                    IN [task EXCEPT !.credit = more,
                          !.pc = IF @ = "wait" /\ more >= task.page.size THEN "write" ELSE @]
               [] OTHER -> task
  /\ reqRead' = IF reqRead = "partial" /\ task'.pc = "serve" THEN "torn" ELSE reqRead
  /\ UNCHANGED <<clientVars, streamVars, spump, mapped, sctrl, history>>

\* A part of a request is read.
SenderReads ==
  /\ task.pc = "serve" /\ task.credit > 0 /\ up # <<>> /\ reqRead = "aligned"
  /\ reqRead' = "partial"
  /\ UNCHANGED <<clientVars, streamVars, spump, mapped, task, evq, sctrl, history>>

\* scrollback_lines: up to PageLines lines, the newest of them `from` before the newest.
LinesBefore(from) ==
  LET newest == printed - from
      oldest == IF newest - (PageLines - 1) > dropped THEN newest - (PageLines - 1) ELSE dropped + 1
  IN  IF from >= printed - dropped THEN <<>>
      ELSE [k \in 1 .. newest - oldest + 1 |-> oldest + (k - 1)]

\* The page is made of what the history holds now; it waits for the credit it needs.
MakePage(from) == \E size \in PageSizes :
  task' = [task EXCEPT
             !.page = [lines |-> LinesBefore(from), total |-> printed - dropped, size |-> size],
             !.pc = IF task.credit < size THEN "wait" ELSE "write"]

\* A request, taken only with credit left.
ServeRequest ==
  /\ task.pc = "serve" /\ task.credit > 0 /\ up # <<>>
  /\ up' = Tail(up)
  /\ reqRead' = IF reqRead = "torn" THEN "torn" ELSE "aligned"
  /\ MakePage(Head(up))
  /\ UNCHANGED <<clientVars, c2s, s2c, down, bound, upEOF, downEOF, spump, mapped, evq, sctrl,
                 history>>

\* After a dropped read: the bytes of a request are taken for the beginning of a longer
\* message or for another one and ignored, for none at all, or for some request.
SenderMisreads ==
  /\ task.pc = "serve" /\ task.credit > 0 /\ up # <<>> /\ reqRead = "torn"
  /\ up' = Tail(up)
  /\ \/ UNCHANGED task
     \/ Task("finish")
     \/ \E from \in 0 .. MaxLines : MakePage(from)
  /\ UNCHANGED <<clientVars, c2s, s2c, down, bound, upEOF, downEOF, spump, mapped, reqRead, evq,
                 sctrl, history>>

\* write_all, once the stream takes it; the page is paid for after it.
WritePage ==
  /\ task.pc = "write" /\ ~Ended /\ drain.pc # "gone" /\ Len(down) < StreamCap
  /\ down' = Append(down, task.page)
  /\ task' = [pc |-> "serve", credit |-> task.credit - task.page.size, page |-> NoPage]
  /\ UNCHANGED <<clientVars, c2s, s2c, up, bound, upEOF, downEOF, spump, mapped, evq,
                 sctrl, reqRead, history>>

\* The client's end of the stream is closed or lost, or 30 s passed without credit.
SenderEnds ==
  /\ \/ task.pc = "serve" /\ task.credit > 0 /\ up = <<>> /\ (upEOF \/ Ended)
     \/ task.pc = "write" /\ (Ended \/ drain.pc = "gone")
     \/ task.pc = "wait"
  /\ Task("finish")
  /\ UNCHANGED <<clientVars, streamVars, spump, mapped, evq, sctrl, reqRead, history>>

TaskFinishes ==
  /\ task.pc = "finish"
  /\ downEOF' = TRUE
  /\ Task("report")
  /\ UNCHANGED <<clientVars, c2s, s2c, up, down, bound, upEOF, spump, mapped, evq, sctrl,
                 reqRead, history>>

\* ChannelClose through the pump; the task's queue goes with it.
TaskReports ==
  /\ task.pc = "report"
  /\ \/ Ended /\ UNCHANGED sctrl
     \/ ~Ended /\ Len(sctrl) < ServerCap /\ sctrl' = Append(sctrl, Close)
  /\ task' = [pc |-> "gone", credit |-> 0, page |-> NoPage]
  /\ evq' = <<>>
  /\ UNCHANGED <<clientVars, streamVars, spump, mapped, reqRead, history>>

-----------------------------------------------------------------------------
(* The shell's output.                                                     *)

\* A line leaves the screen at the top, by output or because the window shrank.
ScrollUp ==
  /\ ~Ended /\ printed < MaxLines
  /\ printed' = printed + 1
  /\ dropped' = IF printed' - dropped > LineCap THEN dropped + 1 ELSE dropped
  /\ UNCHANGED <<clientVars, streamVars, spump, mapped, task, reqRead, evq, sctrl>>

\* CSI 3 J and ESC c.
ClearScrollback ==
  /\ ~Ended
  /\ dropped' = printed
  /\ UNCHANGED <<clientVars, streamVars, spump, mapped, task, reqRead, evq, sctrl, printed>>

-----------------------------------------------------------------------------
ClientPump == SendChannelOpen \/ AwaitChannelAccept \/ IgnoreFrame \/ RecvPage \/ ForwardControl
User == EnterScrollback \/ PageUp \/ SnapBack
DrainTask == DrainRequest \/ DrainReads \/ DrainPage \/ DrainMisreads \/ DrainEnds \/ DrainGrants
             \/ DrainFinishes \/ DrainReports
ServerPump == RecvChannelOpen \/ RecvCredit \/ RecvChannelClose \/ BindStream \/ PumpResumes
              \/ WriteControl
SenderTask == AwaitStream \/ TaskEvents \/ SenderReads \/ ServeRequest \/ SenderMisreads
              \/ WritePage \/ SenderEnds \/ TaskFinishes \/ TaskReports
Output == ScrollUp \/ ClearScrollback

Done == Ended /\ drain.pc \in {"off", "gone"} /\ task.pc \in {"off", "gone"} /\ UNCHANGED vars

Next == ClientPump \/ User \/ DrainTask \/ ServerPump \/ SenderTask \/ Output \/ SessionEnds
        \/ Done

Spec == Init /\ [][Next]_vars

(* Every task and pump that can go on does; users and failures need not.   *)
FairSpec ==
  /\ Spec
  /\ WF_vars(ClientPump) /\ WF_vars(ServerPump)
  /\ WF_vars(DrainTask) /\ WF_vars(SenderTask)
-----------------------------------------------------------------------------
(* Properties.                                                             *)

\* The sum of a sequence of numbers: its elements counted out in units.
Sum(s) == Cardinality(UNION {{i} \X (1 .. s[i]) : i \in DOMAIN s})

Grants(q) == [i \in DOMAIN q |-> q[i].n]
PageSizesOf(q) == [i \in DOMAIN q |-> q[i].size]

Granted == Sum(Grants(cctrl)) + Sum(Grants(c2s)) + Sum(Grants(evq))
PageBytes == Sum(PageSizesOf(down))
Serving == task.pc \in {"serve", "wait", "write"}

(* Byte credit is conserved while both pumps run and the drain task dropped no read:   *)
(* what the sender may still write, what is under way, what was drained and what was   *)
(* granted always make up the window.  In particular no grant is dropped by the pump's *)
(* try_send into the task's bounded queue: the chunk is large enough that the grants   *)
(* under way fit.                                                                      *)
CreditConserved ==
  Serving /\ ~Ended /\ pageRead # "torn" =>
    task.credit + PageBytes + drain.drained + drain.grant + Granted = Window

(* As long as the drain task dropped no read, a page is held back for good, until the  *)
(* 30 s timeout closes the channel, only if it is larger than what the window keeps    *)
(* when less than a chunk is drained: the client grants the rest only with the next    *)
(* page.                                                                               *)
OnlyLargePagesStarve ==
  /\ task.pc = "wait" /\ down = <<>> /\ Granted = 0 /\ drain.pc = "loop"
  /\ pageRead # "torn"
  => task.page.size > Window - (Chunk - 1)

(* While the view waits for a page, the channel works and no read was dropped, a       *)
(* request or a page is under way that will answer it, whatever full queues dropped    *)
(* and however often the user left the view and came back.                             *)
PendingIsAnswered ==
  /\ view.active /\ view.pending
  /\ drain.pc \in {"loop", "grant"} /\ task.pc \in {"bind", "serve", "wait", "write"}
  /\ pageRead # "torn" /\ reqRead # "torn"
  => reqq # <<>> \/ up # <<>> \/ down # <<>> \/ pageq # <<>> \/ task.page # NoPage

(* Lines that leave out none between them: each is at its place, counted from the      *)
(* newest of the history when the view was entered, line `old`, or newer by at most    *)
(* what was printed since, up to line `new`.  Without output each line is there once.  *)
Tiles(lines, old, new) ==
  /\ \A i \in DOMAIN lines :
       LET back == Len(lines) - i
       IN  old - back <= lines[i] /\ lines[i] <= new - back
  /\ \A i \in 1 .. Len(lines) - 1 : lines[i + 1] <= lines[i] + 1

(* The lines an Active view holds tile the history, whatever was printed, evicted and  *)
(* cleared between the requests, as long as the view was entered once and the sender   *)
(* dropped no request it was reading.                                                  *)
PagesTileView == reentered \/ reqRead = "torn" \/ Tiles(view.held, entered, printed)

(* The drain task drops a page it is reading only for a request of a view that was     *)
(* left and entered again, or after the sender read a request from dropped bytes.      *)
TornByReentry == pageRead = "torn" => reentered \/ reqRead = "torn"

(* A view that waits for a page is answered, the lines it holds tile the history, and  *)
(* prefetching alone never makes the drain task lose its place in the stream.          *)
PagesArrive == PendingIsAnswered /\ PagesTileView /\ TornByReentry

(* Once the client's end of the channel is gone, or the session has ended, the sender  *)
(* task ends and its map entry goes: the close is never lost, and the two pumps and    *)
(* the two tasks never all wait for each other's queues.                               *)
ChannelEnds ==
  (drain.pc = "gone" \/ Ended) ~> (task.pc \in {"off", "gone"} /\ ~mapped)

(* main.rs, on scrollback_available: "Shift-PageUp only transitions to Active when a   *)
(* working drain task exists".                                                         *)
ActiveHasDrain == [][~view.active /\ view'.active => drain.pc \notin {"off", "gone"}]_vars
=============================================================================
