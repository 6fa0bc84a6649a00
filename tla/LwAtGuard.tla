----------------------------- MODULE LwAtGuard -----------------------------
(***************************************************************************)
(* LwAtCore with its two interrupts cut open: lw_at_transmit_feed and the  *)
(* data-mode branch of at_timer_expired access by access, as both write    *)
(* plus_cnt, silent and the exit request.  Left alone (Nested = {}) they   *)
(* do what LwAtCore says in one step; Nested lets one of them come in the  *)
(* middle of the other.                                                    *)
(***************************************************************************)
EXTENDS LwAtCore

CONSTANT Nested  \* which of "feed" and "timer" may interrupt the other one
ASSUME NestedAssumption == Nested \subseteq {"feed", "timer"}

VARIABLES
  fd,   \* lw_at_feed in progress: pc and locals; held, back: '+' held when the flush
        \* began and '+' it has stored since
  cb,   \* at_timer_expired in progress: "none", "test", "mark", "request", "clear"
  pre   \* history: stream, at, timer and hist when the one in progress began

guardVars == <<vars, fd, cb, pre>>

NoFeed == [pc |-> "none", seg |-> <<>>, i |-> 1, silent |-> 0, next |-> "none",
           held |-> 0, back |-> 0]
Now == [stream |-> stream, at |-> at, timer |-> timer, hist |-> hist]

GuardInit == Init /\ fd = NoFeed /\ cb = "none" /\ pre = <<>>

Quiet == fd.pc = "none" /\ cb = "none"
FeedGoes  == cb = "none" \/ "feed" \in Nested
TimerGoes == fd.pc = "none" \/ "timer" \in Nested

Remember == pre' = IF Quiet' THEN <<>> ELSE IF Quiet THEN Now ELSE pre

\* A step of something that is not cut open.
Whole == UNCHANGED <<fd, cb>> /\ Remember

-----------------------------------------------------------------------------
(* lw_at_feed *)

\* Nothing to interrupt: the segment goes to the ring as it is.
PlainFeed ==
  /\ MayRun("feed") /\ hist.feeds < MaxFeeds /\ fd.pc = "none" /\ FeedGoes
  /\ \E seg \in Segments : FeedPlain(seg)
  /\ Whole

FeedCall ==
  /\ MayRun("feed") /\ hist.feeds < MaxFeeds /\ fd.pc = "none" /\ FeedGoes
  /\ Transmitting
  /\ \E seg \in Segments :
       /\ fd' = [NoFeed EXCEPT !.pc = "begin", !.seg = seg, !.silent = at.silent]
       /\ hist' = FeedHistory(seg)
  /\ UNCHANGED <<stream, at, timer, main, out, cb>> /\ Remember

\* A step of the feed in progress from pc to the point `to`.
FeedFrom(pc) == fd.pc = pc /\ FeedGoes
FeedRest == UNCHANGED <<main, out, hist, cb>> /\ Remember
FeedTo(to) == fd' = [fd EXCEPT !.pc = to]

\* Put back what is held, then go on at `next`.
FlushTo(next) == fd' = [fd EXCEPT !.pc = "flush", !.next = next,
                                  !.held = at.plus_cnt, !.back = 0]

\* The escape is complete: silence, three '+', silence.  Its writes are one step; the
\* timer that set `silent` is not armed again before the feed is over.
FeedEscape ==
  /\ FeedFrom("begin") /\ at.plus_cnt = 3 /\ fd.silent = 1
  /\ at' = [at EXCEPT !.plus_cnt = 0, !.exit_mark = HeadIdx(stream), !.exit_req = 1]
  /\ stream' = Stored(stream, [k \in 1 .. Len(fd.seg) |-> [b |-> fd.seg[k], cls |-> "late"]])
  /\ FeedTo("silent")
  /\ UNCHANGED timer /\ FeedRest

FeedBegin ==
  /\ FeedFrom("begin") /\ ~(at.plus_cnt = 3 /\ fd.silent = 1)
  /\ IF at.plus_cnt = 3 THEN FlushTo("scan") ELSE FeedTo("scan")
  /\ UNCHANGED <<stream, at, timer>> /\ FeedRest

\* One more '+' of the run, or the first one: at the front and after a silence.
FeedHold ==
  /\ FeedFrom("scan") /\ fd.i <= Len(fd.seg) /\ fd.seg[fd.i] = Plus
  /\ at.plus_cnt \in {1, 2} \/ (at.plus_cnt = 0 /\ fd.i = 1 /\ fd.silent = 1)
  /\ at' = [at EXCEPT !.plus_cnt = @ + 1]
  /\ fd' = [fd EXCEPT !.i = @ + 1]
  /\ UNCHANGED <<stream, timer>> /\ FeedRest

\* Any other byte: the rest of the segment is data, behind the '+' held so far.
FeedBreak ==
  /\ FeedFrom("scan") /\ fd.i <= Len(fd.seg)
  /\ IF at.plus_cnt = 0
     THEN ~(fd.seg[fd.i] = Plus /\ fd.i = 1 /\ fd.silent = 1) /\ FeedTo("rest")
     ELSE ~(fd.seg[fd.i] = Plus /\ at.plus_cnt < 3) /\ FlushTo("rest")
  /\ UNCHANGED <<stream, at, timer>> /\ FeedRest

FeedScanned ==
  /\ FeedFrom("scan") /\ fd.i > Len(fd.seg) /\ FeedTo("silent")
  /\ UNCHANGED <<stream, at, timer>> /\ FeedRest

\* transmit_flush_plus: test, store, count down.
FlushByte ==
  /\ FeedFrom("flush") /\ at.plus_cnt > 0
  /\ stream' = Put(stream, Pluses(1))
  /\ fd' = [fd EXCEPT !.pc = "count", !.back = @ + 1]
  /\ UNCHANGED <<at, timer>> /\ FeedRest

\* Fault: what is put back is not counted down.
FlushCountNot ==
  /\ FeedFrom("count") /\ FeedTo("flush")
  /\ UNCHANGED <<stream, at, timer>> /\ FeedRest

\* uint8_t
FlushCount ==
  /\ FeedFrom("count") /\ FeedTo("flush")
  /\ at' = [at EXCEPT !.plus_cnt = (@ - 1) % 256]
  /\ UNCHANGED <<stream, timer>> /\ FeedRest

FlushEnd ==
  /\ FeedFrom("flush") /\ at.plus_cnt = 0 /\ FeedTo(fd.next)
  /\ UNCHANGED <<stream, at, timer>> /\ FeedRest

\* Fault: the whole segment is stored, with the '+' already put back.
FeedStoreWhole ==
  /\ FeedFrom("rest") /\ FeedTo("silent")
  /\ stream' = Put(stream, fd.seg)
  /\ UNCHANGED <<at, timer>> /\ FeedRest

FeedStoreRest ==
  /\ FeedFrom("rest") /\ FeedTo("silent")
  /\ stream' = Put(stream, SubSeq(fd.seg, fd.i, Len(fd.seg)))
  /\ UNCHANGED <<at, timer>> /\ FeedRest

FeedSilent ==
  /\ FeedFrom("silent") /\ FeedTo("arm")
  /\ at' = [at EXCEPT !.silent = SilentAfterFeed]
  /\ UNCHANGED <<stream, timer>> /\ FeedRest

FeedArm ==
  /\ FeedFrom("arm") /\ fd' = NoFeed
  /\ timer' = Rearmed
  /\ UNCHANGED <<stream, at>> /\ FeedRest

FeedStep == \/ FeedEscape \/ FeedBegin \/ FeedHold \/ FeedBreak \/ FeedScanned
            \/ FlushByte \/ FlushCount \/ FlushEnd \/ FeedStoreRest
            \/ FeedSilent \/ FeedArm

-----------------------------------------------------------------------------
(* at_timer_expired *)

\* Command mode, and sessions without an escape.
PlainTimer == /\ cb = "none" /\ TimerGoes
              /\ TimerCommand \/ TimerFixed
              /\ Whole

TimerCall ==
  /\ cb = "none" /\ TimerGoes
  /\ Expire /\ at.mode = "DATA" /\ UsePlus
  /\ at' = [at EXCEPT !.silent = 1]
  /\ hist' = IF timer = "guard"
             THEN [hist EXCEPT !.quiet = TRUE, !.lead = FALSE, !.burst = 0] ELSE hist
  /\ cb' = "test"
  /\ UNCHANGED <<stream, fd>> /\ Remember

TimerFrom(pc) == cb = pc /\ TimerGoes
TimerRest == UNCHANGED <<stream, timer, main, out, hist, fd>> /\ Remember

\* Three '+' end the session, fewer are dropped.
TimerTest ==
  /\ TimerFrom("test")
  /\ cb' = CASE at.plus_cnt = 3 -> "mark" [] at.plus_cnt = 0 -> "none" [] OTHER -> "clear"
  /\ UNCHANGED at /\ TimerRest

TimerMark    == /\ TimerFrom("mark") /\ cb' = "request"
                /\ at' = [at EXCEPT !.exit_mark = HeadIdx(stream)] /\ TimerRest
TimerRequest == /\ TimerFrom("request") /\ cb' = "clear"
                /\ at' = [at EXCEPT !.exit_req = 1] /\ TimerRest
TimerClear   == /\ TimerFrom("clear") /\ cb' = "none"
                /\ at' = [at EXCEPT !.plus_cnt = 0] /\ TimerRest

TimerStep == TimerTest \/ TimerMark \/ TimerRequest \/ TimerClear

MainStep == Quiet /\ (MainLoop \/ App) /\ Whole

GuardNext == \/ PlainFeed \/ FeedCall \/ FeedStep
             \/ PlainTimer \/ TimerCall \/ TimerStep
             \/ MainStep

GuardSpec == GuardInit /\ [][GuardNext]_guardVars

-----------------------------------------------------------------------------
(* Properties *)

\* What LwAtCore sees: an interrupt in progress has not happened yet.
Seen == IF Quiet THEN Now ELSE pre
Core == INSTANCE LwAtCore WITH stream <- Seen.stream, at <- Seen.at,
                               timer <- Seen.timer, hist <- Seen.hist

\* lw_at_transmit_feed and at_timer_expired, byte by byte and write by write, come to
\* what LwAtCore's Feed and Timer say: the closed form of '+' detection is the loop's.
ImplementsCore == Core!Spec

\* transmit_flush_plus puts back the '+' that were held back (transmit.c:33), no more.
Restored == fd.back <= fd.held
-----------------------------------------------------------------------------
(* What an interrupt in progress has done so far *)

FeedLocals ==
  [pc : {"none", "begin", "scan", "flush", "count", "rest", "silent", "arm"},
   seg : Segments \cup {<<>>}, i : Nat \ {0}, silent : {0, 1},
   next : {"none", "scan", "rest"}, held : 0 .. 3, back : Nat]

\* The '+' held when lw_at_transmit_feed looks at the first byte, and the ring then.
Broken == pre.at.plus_cnt = 3
Held   == IF Broken THEN 0 ELSE pre.at.plus_cnt
Start  == IF Broken THEN Core!Put(pre.stream, Pluses(3)) ELSE pre.stream

\* The run of '+': `Joined` of them are from the front of the segment.
Joined  == fd.i - 1
Run     == /\ ~(Broken /\ fd.silent = 1)
           /\ fd.i <= Len(fd.seg) + 1 /\ Held + Joined <= 3
           /\ \A k \in 1 .. Joined : fd.seg[k] = Plus
           /\ Joined > 0 => Held > 0 \/ fd.silent = 1
RunEnds == /\ Run /\ fd.i <= Len(fd.seg)
           /\ \/ fd.seg[fd.i] # Plus
              \/ Held + Joined = 3
              \/ Held + Joined = 0 /\ fd.silent = 0

\* lw_at_t with n '+' held, the ring with all of the run given back.
Holding(n) == [pre.at EXCEPT !.plus_cnt = n]
Back       == Core!Put(Start, Pluses(Held + Joined))

\* The segment is dealt with: what is left are silent and the timer.
Fed(s, guardState) ==
  \/ /\ Broken /\ fd.silent = 1
     /\ s = Stored(pre.stream,
                   [k \in 1 .. Len(fd.seg) |-> [b |-> fd.seg[k], cls |-> "late"]])
     /\ guardState = [Holding(0) EXCEPT !.exit_mark = HeadIdx(pre.stream), !.exit_req = 1]
  \/ /\ Run /\ fd.i = Len(fd.seg) + 1
     /\ s = Start /\ guardState = Holding(Held + Joined)
  \/ /\ RunEnds
     /\ s = Core!Put(Back, SubSeq(fd.seg, fd.i, Len(fd.seg))) /\ guardState = Holding(0)

\* What of the '+' that are put back is still held; a stored one is counted next.
StillHeld == fd.held - fd.back + IF fd.pc = "count" THEN 1 ELSE 0

\* What stays as it was when the feed began, and what each point adds.
FeedCalled ==
  /\ cb = "none" /\ MayRun("feed") /\ pre.hist.feeds < MaxFeeds
  /\ fd.seg \in Segments /\ fd.silent = pre.at.silent
  /\ Core!Transmitting
  /\ timer = pre.timer /\ hist = Core!FeedHistory(fd.seg)
FeedReached ==
  /\ fd.pc = "begin" => fd.i = 1 /\ stream = pre.stream /\ at = pre.at
  /\ fd.pc = "scan"  => Run /\ stream = Start /\ at = Holding(Held + Joined)
  /\ fd.pc \in {"flush", "count"} =>
       /\ StillHeld \in 0 .. 3 /\ at = Holding(StillHeld)
       /\ fd.pc = "count" => StillHeld > 0
       /\ \/ /\ fd.next = "scan" /\ Run /\ Broken /\ fd.i = 1 /\ fd.held = 3
             /\ stream = Core!Put(pre.stream, Pluses(fd.back))
          \/ /\ fd.next = "rest" /\ RunEnds /\ fd.held = Held + Joined
             /\ stream = Core!Put(Start, Pluses(fd.back))
  /\ fd.pc = "rest" => RunEnds /\ stream = Back /\ at = Holding(0)
  /\ fd.pc \in {"silent", "arm"} => Fed(stream, [at EXCEPT !.silent = pre.at.silent])
  /\ fd.pc = "arm" => at.silent = Core!SilentAfterFeed
FeedSoFar == fd.pc # "none" => FeedCalled /\ FeedReached

Expired == [pre.at EXCEPT !.silent = 1]

TimerCalled ==
  /\ fd.pc = "none" /\ MayRun("timer") /\ pre.timer # "off" /\ timer = "off"
  /\ pre.at.mode = "DATA" /\ Core!UsePlus
  /\ stream = pre.stream
  /\ hist = IF pre.timer = "guard"
            THEN [pre.hist EXCEPT !.quiet = TRUE, !.lead = FALSE, !.burst = 0]
            ELSE pre.hist
TimerReached ==
  \/ cb = "test" /\ at = Expired
  \/ cb = "mark" /\ Broken /\ at = Expired
  \/ cb = "request" /\ Broken /\ at = [Expired EXCEPT !.exit_mark = HeadIdx(pre.stream)]
  \/ /\ cb = "clear" /\ Broken
     /\ at = [Expired EXCEPT !.exit_mark = HeadIdx(pre.stream), !.exit_req = 1]
  \/ cb = "clear" /\ ~Broken /\ at = Expired
TimerSoFar == cb # "none" => TimerCalled /\ TimerReached

\* At each access of lw_at_transmit_feed, transmit_flush_plus and at_timer_expired the ring,
\* plus_cnt, silent and the exit request are what LwAtCore's step will make of them, as far as
\* it has come: no '+' of a run is lost, doubled or out of order on the way.  Inductive if the
\* interrupts do not interrupt each other.
SoFar == TypeOK /\ Core!TypeOK /\ fd \in FeedLocals /\ FeedSoFar /\ TimerSoFar
=============================================================================
