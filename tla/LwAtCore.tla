------------------------------ MODULE LwAtCore ------------------------------
(***************************************************************************)
(* lw_at_core.c with the +++ guard of lw_at_transmit.c: one main loop that *)
(* calls lw_at_process and the data-mode API, interrupted by lw_at_feed    *)
(* and by the timer callback.  Main-loop code is cut at its accesses to    *)
(* what the interrupts also touch; each interrupt is one step.  The ring   *)
(* is the byte queue LwAtStream implements, plus the physical read index   *)
(* that exit_mark and peek depend on.                                      *)
(***************************************************************************)
EXTENDS Integers, Sequences

CONSTANTS
  Token,        \* what the host sends: commands, data bytes, Plus and Eol
  Plus,         \* '+'
  Eol,          \* the line terminator, one cell
  Handler,      \* registered command |-> what its handler does (see Outcomes)
  Size,         \* rx_buf_size
  LineSize,     \* line_buf_size
  Segments,     \* segments the host sends
  MaxFeeds,     \* bound: calls of lw_at_feed
  GuardValues,  \* values the application may set with lw_at_guard_set
  AppExit,      \* when the application may call lw_at_data_exit: "never", "stream"
                \* (in a STREAM session with no exit pending) or "any" time in data mode
  Isr           \* which of "feed" and "timer" run as interrupts, between any two
                \* main-loop accesses; the other runs between main-loop calls.
                \* README.md:61 allows {"feed"}, core.c:547 also "timer".

Min2(a, b) == IF a <= b THEN a ELSE b

\* lw_at_data_enter_cfg_t; guard 0 asks for the default, 1 is a real duration.
Sessions == [policy : {"FIXED", "STREAM"}, length : Nat, guard : {0, 1}, abort : BOOLEAN]

\* A handler returns rc; it may ask for data mode and confirm at once ("sync")
\* or leave the confirmation to the main loop ("async").
Outcomes == [rc : {"OK", "ERROR", "DONE"}, enter : {"no"}]
            \cup [rc : {"OK", "ERROR", "DONE"}, enter : {"sync", "async"}, sess : Sessions]

ASSUME SizeAssumption == Size \in Nat /\ Size >= 2
ASSUME LineSizeAssumption == LineSize \in Nat \ {0}
ASSUME TokenAssumption == Plus \in Token /\ Eol \in Token /\ Plus # Eol
ASSUME SegmentsAssumption == Segments \subseteq Seq(Token) /\ <<>> \notin Segments
ASSUME BoundsAssumption == /\ MaxFeeds \in Nat /\ GuardValues \subseteq {0, 1}
                           /\ AppExit \in {"never", "stream", "any"} /\ Isr \subseteq {"feed", "timer"}
\* lw_at_data_enter refuses a FIXED session of length 0; such a handler only fails.
ASSUME HandlerAssumption ==
  /\ DOMAIN Handler \subseteq Token \ {Eol}
  /\ \A c \in DOMAIN Handler :
       /\ Handler[c] \in Outcomes
       /\ Handler[c].enter # "no" /\ Handler[c].sess.policy = "FIXED"
            => Handler[c].sess.length > 0

VARIABLES
  stream,  \* lw_at_stream_t: unread bytes q, index tail, overflow, pending
  at,      \* lw_at_t
  timer,   \* the one-shot software timer: "off", or the duration it was armed with
  main,    \* the main loop: pc and the locals of the call it is in
  out,     \* last output to the host; n flips with each so that repeats show
  hist     \* history, read by properties only

vars == <<stream, at, timer, main, out, hist>>

NoSession == [policy |-> "FIXED", length |-> 0, guard |-> 0, abort |-> FALSE]

Idle == [pc |-> "idle", caller |-> "process", chunk |-> 0, mark |-> 0,
         flag |-> 0, rc |-> "OK"]

\* lw_at_init
Init ==
  /\ stream = [q |-> <<>>, tail |-> 0, overflow |-> 0, pending |-> 0]
  /\ at = [mode |-> "COMMAND", sess |-> NoSession, data_got |-> 0, enter_req |-> 0,
           exit_req |-> 0, exit_mark |-> 0, silent |-> 0, plus_cnt |-> 0, guard_ms |-> 1]
  /\ timer = "off"
  /\ main = Idle
  /\ out = [k |-> "none", n |-> 0]
  /\ hist = [feeds |-> 0, quiet |-> FALSE, lead |-> FALSE, burst |-> 0]

-----------------------------------------------------------------------------
(* The ring, as the core uses it.  A cell carries, as history, whether it was *)
(* fed as session data or as command bytes.                                   *)

HeadIdx(s) == (s.tail + Len(s.q)) % Size

Consumed(s, n) == [s EXCEPT !.q = SubSeq(@, n + 1, Len(@)), !.tail = (@ + n) % Size]

\* Fault: all Size cells are filled.
StoredToTheBrim(s, cells) ==
  LET n == Min2(Len(cells), Size - Len(s.q))
  IN  [s EXCEPT !.q = @ \o SubSeq(cells, 1, n),
                !.overflow = IF n < Len(cells) THEN 1 ELSE @]

\* lw_at_stream_feed: what fits, and `overflow` when that is not everything.
Stored(s, cells) ==
  LET n == Min2(Len(cells), Size - 1 - Len(s.q))
  IN  [s EXCEPT !.q = @ \o SubSeq(cells, 1, n),
                !.overflow = IF n < Len(cells) THEN 1 ELSE @]

\* lw_at_stream_peek: the run up to the physical end of the buffer.
Contiguous(s) == Min2(Len(s.q), Size - s.tail)

\* core_bytes_to_mark
BytesToMark(s, mark) == IF mark >= s.tail THEN mark - s.tail ELSE Size - s.tail + mark

\* The first line is q[1..p-1], ended by q[p].
FirstEol(q, p) == /\ p \in 1 .. Len(q) /\ q[p].b = Eol
                  /\ \A j \in 1 .. p - 1 : q[j].b # Eol
HasLine(q) == \E p \in 1 .. Len(q) : FirstEol(q, p)

Fixed  == at.sess.policy = "FIXED"
Stream == at.sess.policy = "STREAM"
UsePlus == Stream \/ at.sess.abort
Guarded == at.sess.guard > 0

\* What the byte at queue position pos is when it is fed: a command byte, session
\* data, or "late", beyond a FIXED length or behind a settled exit.
Class(pos) == IF at.mode = "COMMAND" THEN "cmd"
              ELSE IF /\ at.exit_req = 0
                      /\ Fixed => at.data_got + pos <= at.sess.length
                   THEN "data" ELSE "late"
Put(s, seg) == Stored(s, [k \in 1 .. Len(seg) |-> [b |-> seg[k], cls |-> Class(Len(s.q) + k)]])

-----------------------------------------------------------------------------
(* Interrupt: lw_at_feed *)

MayRun(who) == who \in Isr \/ main.pc = "idle"

\* The timer is reloaded after every segment; a session without guard leaves it
\* alone and is silent at once.
Rearmed == IF at.mode = "COMMAND" THEN "idle" ELSE IF Guarded THEN "guard" ELSE timer
SilentAfterFeed == IF at.mode = "DATA" /\ ~Guarded THEN 1 ELSE 0

\* History: bytes since the guard last expired (4: not just up to three '+'), and
\* whether it had expired when the first of them came.
FeedHistory(seg) ==
  LET plain == at.mode = "COMMAND" \/ at.exit_req = 1
      n     == hist.burst + Len(seg)
      pluses == \A k \in 1 .. Len(seg) : seg[k] = Plus
  IN  [feeds |-> hist.feeds + 1,
       quiet |-> FALSE,
       lead  |-> IF hist.burst = 0 /\ ~plain THEN hist.quiet ELSE hist.lead,
       burst |-> IF plain THEN hist.burst ELSE IF pluses /\ n <= 3 THEN n ELSE 4]

Received(seg, s, guardState) ==
  /\ stream' = s
  /\ at' = [guardState EXCEPT !.silent = SilentAfterFeed]
  /\ timer' = Rearmed
  /\ hist' = FeedHistory(seg)
  /\ UNCHANGED <<main, out>>

Transmitting == at.mode = "DATA" /\ at.exit_req = 0 /\ UsePlus

\* Command bytes, bytes after a settled exit, and sessions without an escape.
FeedPlain(seg) == /\ ~Transmitting
                  /\ Received(seg, Put(stream, seg), at)

Pluses(n) == [k \in 1 .. n |-> Plus]

\* Fault: exit_mark is taken after the segment is stored.
FeedExitMarkLate(seg) ==
  LET late == Stored(stream, [k \in 1 .. Len(seg) |-> [b |-> seg[k], cls |-> "late"]])
  IN  /\ Transmitting /\ at.plus_cnt = 3 /\ at.silent = 1
      /\ Received(seg, late, [at EXCEPT !.plus_cnt = 0, !.exit_mark = HeadIdx(late),
                                        !.exit_req = 1])

\* lw_at_transmit_feed: three held '+' followed by silence end the session; this
\* segment is already command data, beyond exit_mark.
FeedExit(seg) ==
  /\ Transmitting /\ at.plus_cnt = 3 /\ at.silent = 1
  /\ Received(seg,
              Stored(stream, [k \in 1 .. Len(seg) |-> [b |-> seg[k], cls |-> "late"]]),
              [at EXCEPT !.plus_cnt = 0, !.exit_mark = HeadIdx(stream), !.exit_req = 1])

\* Leading '+' of seg that join `held` earlier ones, up to three in all.
LeadingPluses(seg, held) ==
  CHOOSE n \in 0 .. Min2(Len(seg), 3 - held) :
    /\ \A k \in 1 .. n : seg[k] = Plus
    /\ n < Min2(Len(seg), 3 - held) => seg[n + 1] # Plus

\* Fault: a run may start without a silence before it.
HoldAnytime(seg, held) == LeadingPluses(seg, held)

\* A run of '+' starts only at the front of a segment and after a silence.
Hold(seg, held) == IF held = 0 /\ at.silent = 0 THEN 0 ELSE LeadingPluses(seg, held)

\* lw_at_transmit_feed otherwise.  `held` survive from earlier segments; `hold` more
\* join them from the front of this one; any other byte gives them all back.
FeedTransmit(seg) ==
  LET broken == at.plus_cnt = 3
      held   == IF broken THEN 0 ELSE at.plus_cnt
      start  == IF broken THEN Put(stream, Pluses(3)) ELSE stream
      hold   == Hold(seg, held)
  IN  /\ Transmitting /\ ~(broken /\ at.silent = 1)
      /\ IF hold = Len(seg)
         THEN Received(seg, start, [at EXCEPT !.plus_cnt = held + hold])
         ELSE Received(seg,
                       Put(Put(start, Pluses(held + hold)), SubSeq(seg, hold + 1, Len(seg))),
                       [at EXCEPT !.plus_cnt = 0])

Feed == /\ MayRun("feed") /\ hist.feeds < MaxFeeds
        /\ \E seg \in Segments : FeedPlain(seg) \/ FeedExit(seg) \/ FeedTransmit(seg)

-----------------------------------------------------------------------------
(* Interrupt: at_timer_expired.  No delay is assumed beyond "not before arming". *)

Expire == MayRun("timer") /\ timer # "off" /\ timer' = "off" /\ UNCHANGED <<main, out>>

TimerCommand ==
  /\ Expire /\ at.mode = "COMMAND"
  /\ stream' = [stream EXCEPT !.pending = 1]
  /\ UNCHANGED <<at, hist>>

\* Fault (BUG-001): a partial run survives the silence.
TimerGuardKeepsRun ==
  /\ Expire /\ at.mode = "DATA" /\ UsePlus
  /\ at' = IF at.plus_cnt = 3
           THEN [at EXCEPT !.silent = 1, !.plus_cnt = 0,
                           !.exit_mark = HeadIdx(stream), !.exit_req = 1]
           ELSE [at EXCEPT !.silent = 1]
  /\ hist' = IF timer = "guard"
             THEN [hist EXCEPT !.quiet = TRUE, !.lead = FALSE, !.burst = 0]
             ELSE hist
  /\ UNCHANGED stream

TimerGuard ==
  /\ Expire /\ at.mode = "DATA" /\ UsePlus
  /\ at' = IF at.plus_cnt = 3
           THEN [at EXCEPT !.silent = 1, !.plus_cnt = 0,
                           !.exit_mark = HeadIdx(stream), !.exit_req = 1]
           ELSE [at EXCEPT !.silent = 1, !.plus_cnt = 0]
  /\ hist' = IF timer = "guard"
             THEN [hist EXCEPT !.quiet = TRUE, !.lead = FALSE, !.burst = 0]
             ELSE hist
  /\ UNCHANGED stream

TimerFixed ==
  /\ Expire /\ at.mode = "DATA" /\ ~UsePlus
  /\ UNCHANGED <<stream, at, hist>>

Timer == TimerCommand \/ TimerGuard \/ TimerFixed
-----------------------------------------------------------------------------
(* Main loop: building blocks *)

From(pc) == main.pc = pc
Goto(pc) == main' = [main EXCEPT !.pc = pc]
Return   == main' = Idle

Say(k) == out' = IF k = "DONE" THEN out ELSE [k |-> k, n |-> 1 - out.n]

ClearOverflow == stream' = [stream EXCEPT !.overflow = 0]

\* peek, then on_chunk with at most `limit` bytes; consume follows at pc.
Deliver(limit, pc) ==
  /\ main' = [main EXCEPT !.pc = pc, !.chunk = Min2(Contiguous(stream), limit)]
  /\ UNCHANGED <<stream, at, timer, out, hist>>

\* consume after on_chunk returned; FIXED counts what it delivered.
Release(pc) ==
  /\ stream' = Consumed(stream, main.chunk)
  /\ at' = IF Fixed THEN [at EXCEPT !.data_got = @ + main.chunk] ELSE at
  /\ main' = [main EXCEPT !.pc = pc, !.chunk = 0]
  /\ UNCHANGED <<timer, out, hist>>

-----------------------------------------------------------------------------
(* lw_at_process: entry *)

\* Fault: a pending exit is not looked at.
ProcessIgnoresExit ==
  /\ From("idle")
  /\ \/ at.mode = "COMMAND" /\ Goto("pending_read")
     \/ at.mode = "DATA" /\ Fixed /\ Goto("fixed_enter")
     \/ at.mode = "DATA" /\ Stream /\ Goto("stream_enter")
  /\ UNCHANGED <<stream, at, timer, out, hist>>

Process ==
  /\ From("idle")
  /\ \/ at.mode = "COMMAND" /\ Goto("pending_read")
     \/ at.mode = "DATA" /\ at.exit_req = 1 /\ Goto("leave")
     \/ at.mode = "DATA" /\ at.exit_req = 0 /\ Fixed /\ Goto("fixed_enter")
     \/ at.mode = "DATA" /\ at.exit_req = 0 /\ Stream /\ Goto("stream_enter")
  /\ UNCHANGED <<stream, at, timer, out, hist>>

-----------------------------------------------------------------------------
(* core_data_process_fixed, core_data_process_stream *)

SessionEnter ==
  /\ \/ From("fixed_enter") /\ Goto("fixed")
     \/ From("stream_enter") /\ Goto("stream")
  /\ ClearOverflow /\ UNCHANGED <<at, timer, out, hist>>

\* Fault: the chunk is not cut to what the session still wants.
FixedDeliverUncut ==
  /\ From("fixed") /\ at.data_got < at.sess.length /\ stream.q # <<>>
  /\ Deliver(Size, "fixed_release")

FixedDeliver ==
  /\ From("fixed") /\ at.data_got < at.sess.length /\ stream.q # <<>>
  /\ Deliver(at.sess.length - at.data_got, "fixed_release")

\* Fault: what was delivered is not counted.
FixedReleaseUncounted ==
  /\ From("fixed_release")
  /\ stream' = Consumed(stream, main.chunk)
  /\ main' = [main EXCEPT !.pc = "fixed", !.chunk = 0]
  /\ UNCHANGED <<at, timer, out, hist>>

FixedRelease == From("fixed_release") /\ Release("fixed")

FixedWait ==
  /\ From("fixed") /\ at.data_got < at.sess.length /\ stream.q = <<>>
  /\ Return /\ UNCHANGED <<stream, at, timer, out, hist>>

\* Fault: one byte short counts as complete.
FixedFullEarly ==
  /\ From("fixed") /\ at.data_got + 1 >= at.sess.length
  /\ main' = [main EXCEPT !.pc = "clear_plus", !.rc = "OK"]
  /\ UNCHANGED <<stream, at, timer, out, hist>>

FixedFull ==
  /\ From("fixed") /\ at.data_got >= at.sess.length
  /\ main' = [main EXCEPT !.pc = "clear_plus", !.rc = "OK"]
  /\ UNCHANGED <<stream, at, timer, out, hist>>

StreamDeliver == From("stream") /\ stream.q # <<>> /\ Deliver(Size, "stream_release")

StreamRelease == From("stream_release") /\ Release("stream")

StreamWait == /\ From("stream") /\ stream.q = <<>>
              /\ Return /\ UNCHANGED <<stream, at, timer, out, hist>>

-----------------------------------------------------------------------------
(* core_data_leave_marked, core_drain_to_mark *)

\* exit_mark is read as an argument of the drain, which first discards overflow.
Leave ==
  /\ From("leave")
  /\ main' = [main EXCEPT !.pc = "drain", !.mark = at.exit_mark,
                          !.rc = IF Fixed THEN "ERROR" ELSE "OK"]
  /\ ClearOverflow /\ UNCHANGED <<at, timer, out, hist>>

\* Fault: the drain runs past the mark.
DrainDeliverUncut ==
  /\ From("drain") /\ stream.tail # main.mark /\ stream.q # <<>>
  /\ Deliver(Size, "drain_release")

DrainDeliver ==
  /\ From("drain") /\ stream.tail # main.mark /\ stream.q # <<>>
  /\ Deliver(BytesToMark(stream, main.mark), "drain_release")

\* data_got is added up after the loop; nothing reads it in between.
DrainRelease == From("drain_release") /\ Release("drain")

\* Fault: the drain stops wherever the ring wraps.
DrainDoneAtWrap ==
  /\ From("drain") /\ (stream.tail \in {main.mark, 0} \/ stream.q = <<>>)
  /\ Goto("clear_plus") /\ UNCHANGED <<stream, at, timer, out, hist>>

DrainDone ==
  /\ From("drain") /\ (stream.tail = main.mark \/ stream.q = <<>>)
  /\ Goto("clear_plus") /\ UNCHANGED <<stream, at, timer, out, hist>>

-----------------------------------------------------------------------------
(* core_data_to_command, then on_done and the final result *)

ClearPlus ==
  /\ From("clear_plus") /\ Goto("clear_exit")
  /\ at' = [at EXCEPT !.plus_cnt = 0]
  /\ UNCHANGED <<stream, timer, out, hist>>

ClearExit ==
  /\ From("clear_exit") /\ Goto("clear_overflow")
  /\ at' = [at EXCEPT !.exit_req = 0]
  /\ UNCHANGED <<stream, timer, out, hist>>

ClearSessionOverflow ==
  /\ From("clear_overflow") /\ Goto("keep_pending")
  /\ ClearOverflow /\ UNCHANGED <<at, timer, out, hist>>

\* Fault: what a FIXED session leaves in the ring is not flagged.
KeepPendingNever ==
  /\ From("keep_pending") /\ Goto("to_command")
  /\ stream' = [stream EXCEPT !.pending = 0]
  /\ UNCHANGED <<at, timer, out, hist>>

\* Both ends of a FIXED session keep what is left for this round; STREAM does not.
KeepPending ==
  /\ From("keep_pending") /\ Goto("to_command")
  /\ stream' = [stream EXCEPT !.pending = IF Fixed /\ stream.q # <<>> THEN 1 ELSE 0]
  /\ UNCHANGED <<at, timer, out, hist>>

ToCommand ==
  /\ From("to_command") /\ Goto("session_result")
  /\ at' = [at EXCEPT !.mode = "COMMAND"]
  /\ hist' = [hist EXCEPT !.quiet = FALSE, !.lead = FALSE, !.burst = 0]
  /\ UNCHANGED <<stream, timer, out>>

SessionResult ==
  /\ From("session_result")
  /\ Say(main.rc)
  /\ IF main.caller = "process" THEN Goto("pending_read") ELSE Return
  /\ UNCHANGED <<stream, at, timer, hist>>

-----------------------------------------------------------------------------
(* lw_at_process: the pending and overflow gates.  Each take reads, then clears. *)

PendingRead ==
  /\ From("pending_read")
  /\ main' = [main EXCEPT !.pc = "pending_clear", !.flag = stream.pending]
  /\ UNCHANGED <<stream, at, timer, out, hist>>

PendingClear ==
  /\ From("pending_clear")
  /\ stream' = [stream EXCEPT !.pending = 0]
  /\ IF main.flag = 0 THEN Return ELSE Goto("overflow_read")
  /\ UNCHANGED <<at, timer, out, hist>>

OverflowRead ==
  /\ From("overflow_read")
  /\ main' = [main EXCEPT !.pc = "overflow_clear", !.flag = stream.overflow]
  /\ UNCHANGED <<stream, at, timer, out, hist>>

OverflowClear ==
  /\ From("overflow_clear")
  /\ ClearOverflow
  /\ main' = [main EXCEPT !.pc = IF main.flag = 1 THEN "void_tail" ELSE "lines", !.flag = 0]
  /\ UNCHANGED <<at, timer, out, hist>>

\* lw_at_stream_reset and ERROR, for an overflow and for a residue without a line.
VoidTail ==
  /\ From("void_tail") /\ Goto("void_overflow")
  /\ stream' = [stream EXCEPT !.q = <<>>, !.tail = HeadIdx(stream)]
  /\ UNCHANGED <<at, timer, out, hist>>

VoidOverflow ==
  /\ From("void_overflow") /\ Goto("void_pending")
  /\ ClearOverflow /\ UNCHANGED <<at, timer, out, hist>>

VoidPending ==
  /\ From("void_pending") /\ Goto("void_result")
  /\ stream' = [stream EXCEPT !.pending = 0]
  /\ UNCHANGED <<at, timer, out, hist>>

VoidResult ==
  /\ From("void_result") /\ Return /\ Say("ERROR")
  /\ UNCHANGED <<stream, at, timer, hist>>
-----------------------------------------------------------------------------
(* lw_at_process: the line loop, core_exec_line.  get_line reads head once and *)
(* owns the cells it scans, so with the handler it is one step.                *)

TakeLine(p) == stream' = Consumed(stream, p) /\ UNCHANGED hist

\* core_parse_line: anything but one registered command fails.
Outcome(p) == IF p = 2 /\ stream.q[1].b \in DOMAIN Handler
              THEN Handler[stream.q[1].b] ELSE [rc |-> "ERROR", enter |-> "no"]

\* lw_at_data_enter: guard_ms 0 takes the configured default.
Entered(sess) == [sess EXCEPT !.guard = IF @ = 0 THEN at.guard_ms ELSE @]

\* Too long for line_buf, or data mode was requested and not confirmed.
LineRefused(p) ==
  /\ p > LineSize \/ (p > 1 /\ at.enter_req = 1)
  /\ TakeLine(p) /\ Say("ERROR")
  /\ UNCHANGED <<at, timer, main>>

LineEmpty(p) ==
  /\ p = 1 /\ p <= LineSize
  /\ TakeLine(p) /\ UNCHANGED <<at, timer, main, out>>

\* Fault: commands still run while data mode is requested.
LineRunUngated(p) ==
  /\ p > 1 /\ p <= LineSize
  /\ Outcome(p).enter # "sync"
  /\ TakeLine(p) /\ Say(Outcome(p).rc)
  /\ at' = IF Outcome(p).enter = "no" THEN at
           ELSE [at EXCEPT !.sess = Entered(Outcome(p).sess),
                           !.enter_req = IF Outcome(p).rc = "ERROR" THEN 0 ELSE 1]
  /\ UNCHANGED <<timer, main>>

\* An asynchronous request survives the handler unless the handler failed.
LineRun(p) ==
  /\ p > 1 /\ p <= LineSize /\ at.enter_req = 0
  /\ Outcome(p).enter # "sync"
  /\ TakeLine(p) /\ Say(Outcome(p).rc)
  /\ at' = IF Outcome(p).enter = "no" THEN at
           ELSE [at EXCEPT !.sess = Entered(Outcome(p).sess),
                           !.enter_req = IF Outcome(p).rc = "ERROR" THEN 0 ELSE 1]
  /\ UNCHANGED <<timer, main>>

\* The handler calls lw_at_data_enter, then lw_at_data_confirm before it returns.
LineSync(p) ==
  /\ p > 1 /\ p <= LineSize /\ at.enter_req = 0
  /\ Outcome(p).enter = "sync"
  /\ TakeLine(p)
  /\ at' = [at EXCEPT !.sess = Entered(Outcome(p).sess)]
  /\ main' = [main EXCEPT !.pc = "confirm_tail", !.caller = "handler", !.rc = Outcome(p).rc]
  /\ UNCHANGED <<timer, out>>

Line == /\ From("lines")
        /\ \E p \in 1 .. Len(stream.q) :
             /\ FirstEol(stream.q, p)
             /\ LineRefused(p) \/ LineEmpty(p) \/ LineRun(p) \/ LineSync(p)

NoLine == /\ From("lines") /\ ~HasLine(stream.q)
          /\ Goto("residue") /\ UNCHANGED <<stream, at, timer, out, hist>>

Residue == /\ From("residue")
           /\ IF stream.q # <<>> THEN Goto("void_tail") ELSE Return
           /\ UNCHANGED <<stream, at, timer, out, hist>>

-----------------------------------------------------------------------------
(* lw_at_data_confirm, from its checks on *)

ConfirmTail ==
  /\ From("confirm_tail") /\ Goto("confirm_overflow")
  /\ stream' = [stream EXCEPT !.q = <<>>, !.tail = HeadIdx(stream)]
  /\ UNCHANGED <<at, timer, out, hist>>

ConfirmOverflow ==
  /\ From("confirm_overflow") /\ Goto("confirm_pending")
  /\ ClearOverflow /\ UNCHANGED <<at, timer, out, hist>>

ConfirmPending ==
  /\ From("confirm_pending") /\ Goto("confirm_state")
  /\ stream' = [stream EXCEPT !.pending = 0]
  /\ UNCHANGED <<at, timer, out, hist>>

\* Fault: data_to_command is trusted to have cleared exit_req.
ConfirmStateKeepsExit ==
  /\ From("confirm_state") /\ Goto("confirm_mode")
  /\ at' = [at EXCEPT !.plus_cnt = 0, !.data_got = 0,
                      !.silent = IF Guarded THEN 0 ELSE 1]
  /\ UNCHANGED <<stream, timer, out, hist>>

\* Of these fields an interrupt in command mode touches only silent.
ConfirmState ==
  /\ From("confirm_state") /\ Goto("confirm_mode")
  /\ at' = [at EXCEPT !.plus_cnt = 0, !.data_got = 0, !.exit_req = 0,
                      !.silent = IF Guarded THEN 0 ELSE 1]
  /\ UNCHANGED <<stream, timer, out, hist>>

ConfirmMode ==
  /\ From("confirm_mode") /\ Goto("confirm_arm")
  /\ at' = [at EXCEPT !.mode = "DATA"]
  /\ UNCHANGED <<stream, timer, out, hist>>

\* Fault (BUG-000): the command mode's idle timer keeps running.
ConfirmArmNot ==
  /\ From("confirm_arm")
  /\ Goto(IF main.caller = "handler" THEN "handler_result" ELSE "prompt")
  /\ UNCHANGED <<stream, at, timer, out, hist>>

ConfirmArm ==
  /\ From("confirm_arm")
  /\ Goto(IF main.caller = "handler" THEN "handler_result" ELSE "prompt")
  /\ timer' = IF Guarded THEN "guard" ELSE timer
  /\ UNCHANGED <<stream, at, out, hist>>

\* Back in core_exec_line: the handler's result goes out before the prompt.
HandlerResult ==
  /\ From("handler_result") /\ Goto("prompt") /\ Say(main.rc)
  /\ UNCHANGED <<stream, at, timer, hist>>

Prompt ==
  /\ From("prompt") /\ Return /\ Say("prompt")
  /\ UNCHANGED <<stream, at, timer, hist>>

-----------------------------------------------------------------------------
(* Calls the application makes between two lw_at_process *)

AppConfirm ==
  /\ From("idle") /\ at.mode = "COMMAND" /\ at.enter_req = 1
  /\ at' = [at EXCEPT !.enter_req = 0]
  /\ main' = [main EXCEPT !.pc = "confirm_tail", !.caller = "api"]
  /\ UNCHANGED <<stream, timer, out, hist>>

AppCancel ==
  /\ From("idle") /\ at.enter_req = 1
  /\ at' = [at EXCEPT !.enter_req = 0]
  /\ UNCHANGED <<stream, timer, main, out, hist>>

AppGuardSet ==
  /\ From("idle")
  /\ \E ms \in GuardValues : at' = [at EXCEPT !.guard_ms = ms]
  /\ UNCHANGED <<stream, timer, main, out, hist>>

\* lw_at_data_exit: the mark first, then the request.
AppExitMark ==
  /\ From("idle") /\ at.mode = "DATA"
  /\ AppExit = "any" \/ (AppExit = "stream" /\ Stream /\ at.exit_req = 0)
  /\ at' = [at EXCEPT !.exit_mark = HeadIdx(stream)]
  /\ main' = [main EXCEPT !.pc = "exit_request", !.caller = "api"]
  /\ UNCHANGED <<stream, timer, out, hist>>

AppExitRequest ==
  /\ From("exit_request") /\ Goto("leave")
  /\ at' = [at EXCEPT !.exit_req = 1]
  /\ UNCHANGED <<stream, timer, out, hist>>

-----------------------------------------------------------------------------

\* Steps that follow once a call has been made; Process itself is polled.
MainLoop ==
  \/ Process \/ SessionEnter
  \/ FixedDeliver \/ FixedRelease \/ FixedWait \/ FixedFull
  \/ StreamDeliver \/ StreamRelease \/ StreamWait
  \/ Leave \/ DrainDeliver \/ DrainRelease \/ DrainDone
  \/ ClearPlus \/ ClearExit \/ ClearSessionOverflow \/ KeepPending \/ ToCommand
  \/ SessionResult
  \/ PendingRead \/ PendingClear \/ OverflowRead \/ OverflowClear
  \/ VoidTail \/ VoidOverflow \/ VoidPending \/ VoidResult
  \/ Line \/ NoLine \/ Residue
  \/ ConfirmTail \/ ConfirmOverflow \/ ConfirmPending \/ ConfirmState
  \/ ConfirmMode \/ ConfirmArm \/ HandlerResult \/ Prompt
  \/ AppExitRequest

App == AppConfirm \/ AppCancel \/ AppGuardSet \/ AppExitMark

Next == Feed \/ Timer \/ MainLoop \/ App

Spec == Init /\ [][Next]_vars

\* The main loop keeps calling lw_at_process and an armed timer expires; the host
\* and the application owe nothing.
FairSpec == Spec /\ WF_vars(MainLoop) /\ SF_vars(Timer)
-----------------------------------------------------------------------------
(* Properties *)

Cell == [b : Token, cls : {"cmd", "data", "late"}]

Points == {"idle", "fixed_enter", "stream_enter", "fixed", "fixed_release",
           "stream", "stream_release", "leave", "drain", "drain_release",
           "clear_plus", "clear_exit", "clear_overflow", "keep_pending",
           "to_command", "session_result", "pending_read", "pending_clear",
           "overflow_read", "overflow_clear", "void_tail", "void_overflow",
           "void_pending", "void_result", "lines", "residue", "confirm_tail",
           "confirm_overflow", "confirm_pending", "confirm_state",
           "confirm_mode", "confirm_arm", "handler_result", "prompt",
           "exit_request"}

\* Every field keeps to its range; the ring never holds more than Size - 1 bytes.
TypeOK ==
  /\ stream \in [q : Seq(Cell), tail : 0 .. Size - 1, overflow : {0, 1}, pending : {0, 1}]
  /\ Len(stream.q) < Size
  /\ at \in [mode : {"COMMAND", "DATA"}, sess : Sessions, data_got : Nat,
             enter_req : {0, 1}, exit_req : {0, 1}, exit_mark : 0 .. Size - 1,
             silent : {0, 1}, plus_cnt : 0 .. 3, guard_ms : {0, 1}]
  /\ timer \in {"off", "idle", "guard"}
  /\ main \in [pc : Points, caller : {"process", "api", "handler"}, chunk : Nat,
               mark : 0 .. Size - 1, flag : {0, 1}, rc : {"OK", "ERROR", "DONE"}]
  /\ out \in [k : {"none", "OK", "ERROR", "prompt"}, n : {0, 1}]
  /\ hist \in [feeds : 0 .. MaxFeeds, quiet : BOOLEAN, lead : BOOLEAN,
               burst : 0 .. 4]

\* main points in on_chunk, the window being stream.q[1 .. main.chunk].
InChunk == main.pc \in {"fixed_release", "stream_release", "drain_release"}

\* The points between a granted data-mode request and its prompt.
Confirming == main.pc \in {"confirm_tail", "confirm_overflow", "confirm_pending",
                           "confirm_state", "confirm_mode", "confirm_arm"}

\* core_data_to_command has dropped the held '+'.
Leaving == main.pc \in {"clear_exit", "clear_overflow", "keep_pending", "to_command"}

\* on_chunk sees only session data: bytes sent before the session began, after the
\* escape, or beyond a FIXED length are never handed over as data.
Delivers(cls) == InChunk /\ \E k \in 1 .. main.chunk : stream.q[k].cls = cls
ChunkIsData == ~Delivers("cmd") /\ ~Delivers("late")

\* The second half by itself: what follows exit_mark stays in the ring for the
\* command parser (core.c:306).
LateBytesKept == ~Delivers("late")

\* Nothing of a session is left in the ring to be read as commands.
CommandsAreCommands ==
  at.mode = "COMMAND" => \A k \in 1 .. Len(stream.q) : stream.q[k].cls # "data"

\* While an exit is pending, exit_mark is exactly where data ends in the ring
\* (core.h:66), however much was fed or delivered since it was taken.
MarkSplits ==
  at.mode = "DATA" /\ at.exit_req = 1 =>
    \A k \in 1 .. Len(stream.q) :
      stream.q[k].cls = "data" <=> k <= BytesToMark(stream, at.exit_mark)

\* A FIXED window hands over no byte beyond its length, and OK stands for exactly
\* that many (core.c:398-421); only the drain of an exit may go further.
FixedExact ==
  at.mode = "DATA" /\ Fixed =>
    /\ main.pc = "fixed_release" => at.data_got + main.chunk <= at.sess.length
    /\ main.pc = "to_command" /\ main.rc = "OK" => at.data_got = at.sess.length

\* The held '+' are exactly the bytes of an unbroken run that began after a full
\* guard silence: pluses from before a silence (BUG-001) or after a shorter pause
\* (BUG-000) never count, and none is forgotten.
PlusRun ==
  at.mode = "DATA" /\ UsePlus /\ Guarded /\ at.exit_req = 0 /\ ~Leaving =>
    at.plus_cnt = IF hist.lead /\ hist.burst \in 1 .. 3 THEN hist.burst ELSE 0

\* Of its own accord a guarded session is asked to end exactly when the guard
\* expires on a silence, three '+' in one run, a silence.
EscapeExact ==
  [][at.mode = "DATA" /\ UsePlus /\ Guarded /\ main.pc = "idle" /\ main'.pc = "idle" =>
       (at.exit_req = 0 /\ at'.exit_req = 1
          <=> /\ at.exit_req = 0 /\ hist.lead /\ hist.burst = 3
              /\ timer = "guard" /\ timer' = "off")]_vars

\* `silent` stands for an expired guard, not for any expired timer: the command
\* mode's idle timer cannot satisfy a session's guard (BUG-000).
SilentIsGuard ==
  at.mode = "DATA" /\ UsePlus /\ Guarded /\ at.silent = 1 => hist.quiet

\* A session starts from nothing.  What feed and timer did while the last one was being closed
\* (core.c:350-358: '+' held again, even an escape that settles), or the count of an earlier
\* window, would end it early or hand its first bytes to the command parser.
NoLeftovers ==
  [][at.mode = "COMMAND" /\ at'.mode = "DATA" =>
       at'.plus_cnt = 0 /\ at'.exit_req = 0 /\ at'.data_got = 0]_vars

\* The dialogue with the host: see LwAtDialog.  A request is open from the handler's
\* result to the prompt; a session is open from there to its result line.
Phase ==
  IF \/ main.pc = "session_result"
     \/ at.mode = "DATA" /\ main.pc \notin {"confirm_arm", "handler_result", "prompt"}
  THEN "data"
  ELSE IF at.enter_req = 1 \/ main.pc = "prompt" \/ (main.caller = "api" /\ Confirming)
  THEN "gated"
  ELSE "command"

Dialog == INSTANCE LwAtDialog WITH phase <- Phase
ImplementsDialog == Dialog!Spec

\* Once the host pauses, a complete command line does not stay in the ring unread.  The
\* commands behind a FIXED window, which no timer of their own announces, are flagged
\* when it ends (core.c:353).  Excepted is what the code loses (core.c:377): a line fed,
\* to its last byte, while the exit of a STREAM session was pending.
LineServed ==
  /\ at.mode = "COMMAND" /\ HasLine(stream.q)
  /\ Fixed \/ \E k \in 1 .. Len(stream.q) : stream.q[k].cls = "cmd"
  ~> at.mode = "COMMAND" /\ ~HasLine(stream.q)

\* A pending exit is carried out, and so is a FIXED session whose bytes are all there.
ExitHappens == at.mode = "DATA" /\ at.exit_req = 1 ~> at.mode = "COMMAND"
FixedEnds ==
  /\ at.mode = "DATA" /\ Fixed /\ at.data_got + Len(stream.q) >= at.sess.length
  ~> at.mode = "COMMAND"
=============================================================================
