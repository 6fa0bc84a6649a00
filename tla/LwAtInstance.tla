---------------------------- MODULE LwAtInstance ----------------------------
(***************************************************************************)
(* The life of the library instance on the Windows port: lw_at_init,       *)
(* lw_at_feed, lw_at_process and lw_at_deinit called one at a time by the  *)
(* main thread, and at_timer_expired run by a pool thread at any moment,   *)
(* in command mode.  The timer is that of LwAtPortWin, step by step.       *)
(***************************************************************************)
EXTENDS LwAtPortWin

CONSTANT MaxLines  \* bound: complete lines in the ring
ASSUME MaxLinesAssumption == MaxLines \in Nat

VARIABLES
  inited, pending,  \* at_instance: inited, stream.pending
  idle_cb,          \* 1: cfg.cbs.idle_cb is set
  lines,            \* complete lines in the ring
  apc,              \* main thread: the call of the library it is in
  flag,             \* value read by pending_take
  cbpc,             \* at_timer_expired of each arming: "start", "check", "notify", "end"
  epoch,            \* history: armings made before the last memset of the instance
  by,               \* history: the arming whose expiry set pending last
  lost,             \* history: since the last arming pending_take cleared an expiry
                    \* that came after it had read 0
  failed            \* history: the last timer_arm failed

inst     == <<inited, pending, idle_cb, lines>>
hist     == <<epoch, by, lost, failed>>
instVars == <<inst, apc, flag, cbpc, hist>>
vars     == <<portVars, instVars>>

Init ==
  /\ PortInit
  /\ inited = 0 /\ pending = 0 /\ idle_cb = 0 /\ lines = 0
  /\ apc = "idle" /\ flag = 0 /\ cbpc = [h \in Arms |-> "start"]
  /\ epoch = 0 /\ by = 0 /\ lost = FALSE /\ failed = FALSE

\* lw_at_memset of at_instance.
Clear == inited' = 0 /\ pending' = 0 /\ idle_cb' = 0 /\ lines' = 0 /\ epoch' = arms

-----------------------------------------------------------------------------
(* Main thread *)

\* lw_at_init; a second call is refused (ERR_STATE).
InitClear ==
  /\ apc = "idle" /\ inited = 0
  /\ Clear /\ apc' = "init"
  /\ UNCHANGED <<portVars, flag, cbpc, by, lost, failed>>

InitReady ==
  /\ apc = "init"
  /\ inited' = 1 /\ idle_cb' \in {0, 1} /\ apc' = "idle"
  /\ UNCHANGED <<portVars, pending, lines, flag, cbpc, hist>>

\* lw_at_feed of a segment that completes n lines.
FeedStore ==
  /\ apc = "idle" /\ inited = 1 /\ arms < MaxArms
  /\ \E n \in 0 .. MaxLines - lines : lines' = lines + n
  /\ apc' = "feed"
  /\ UNCHANGED <<portVars, inited, pending, idle_cb, flag, cbpc, hist>>

FeedArm ==
  /\ apc = "feed" /\ ArmCall
  /\ apc' = "feed_arm" /\ lost' = FALSE /\ failed' = FALSE
  /\ UNCHANGED <<inst, flag, cbpc, epoch, by>>

\* The result of timer_arm is ignored.
FeedReturn ==
  /\ apc = "feed_arm" /\ pc = "idle" /\ apc' = "idle"
  /\ UNCHANGED <<portVars, inst, flag, cbpc, hist>>

\* lw_at_process in command mode: lw_at_stream_pending_take reads, then clears.
ProcessRead ==
  /\ apc = "idle" /\ inited = 1
  /\ flag' = pending /\ apc' = "process"
  /\ UNCHANGED <<portVars, inst, cbpc, hist>>

ProcessClear ==
  /\ apc = "process"
  /\ pending' = 0 /\ flag' = 0
  /\ apc' = IF flag = 1 THEN "lines" ELSE "idle"
  /\ lost' = (lost \/ (flag = 0 /\ pending = 1))
  /\ UNCHANGED <<portVars, inited, idle_cb, lines, cbpc, epoch, by, failed>>

\* Fault: one line per call.
ProcessOneLine ==
  /\ apc = "lines"
  /\ lines' = (IF lines > 0 THEN lines - 1 ELSE 0) /\ apc' = "idle"
  /\ UNCHANGED <<portVars, inited, pending, idle_cb, flag, cbpc, hist>>

\* Every complete line is taken and answered.
ProcessLines ==
  /\ apc = "lines"
  /\ lines' = 0 /\ apc' = "idle"
  /\ UNCHANGED <<portVars, inited, pending, idle_cb, flag, cbpc, hist>>

\* Fault: lw_at_deinit without timer_stop.
DeinitCallNoStop ==
  /\ apc = "idle" /\ inited = 1
  /\ apc' = "deinit"
  /\ UNCHANGED <<portVars, inst, flag, cbpc, hist>>

\* lw_at_deinit: stop the timer of an initialised instance, then clear it (the
\* memset of one that is not initialised changes nothing).
DeinitCall ==
  /\ apc = "idle" /\ inited = 1
  /\ StopCall /\ apc' = "deinit"
  /\ UNCHANGED <<inst, flag, cbpc, hist>>

DeinitClear ==
  /\ apc = "deinit" /\ pc = "idle"
  /\ Clear /\ apc' = "idle"
  /\ UNCHANGED <<portVars, flag, cbpc, by, lost, failed>>

-----------------------------------------------------------------------------
(* Pool thread: at_timer_expired(NULL) called by the port for arming h *)

CbPending(h) ==
  /\ pool[h] = "called" /\ cbpc[h] = "start"
  /\ pending' = 1 /\ by' = h
  /\ cbpc' = [cbpc EXCEPT ![h] = "check"]
  /\ UNCHANGED <<portVars, inited, idle_cb, lines, apc, flag, epoch, lost, failed>>

\* idle_cb is read twice: for the test, then for the call.
CbCheck(h) ==
  /\ cbpc[h] = "check"
  /\ cbpc' = [cbpc EXCEPT ![h] = IF idle_cb = 1 THEN "notify" ELSE "end"]
  /\ UNCHANGED <<portVars, inst, apc, flag, hist>>

\* Fault: idle_cb calls back into a function that stops or reloads the timer.
CbNotifyStops(h) ==
  /\ cbpc[h] = "notify" /\ StopCall
  /\ cbpc' = [cbpc EXCEPT ![h] = "stopping"]
  /\ UNCHANGED <<inst, apc, flag, hist>>

\* The application's idle_cb only takes note, as lw_at.h asks.
CbNotify(h) ==
  /\ cbpc[h] = "notify"
  /\ cbpc' = [cbpc EXCEPT ![h] = "end"]
  /\ UNCHANGED <<portVars, inst, apc, flag, hist>>

CbReturn(h) ==
  /\ cbpc[h] = "end" /\ Finish(h)
  /\ UNCHANGED instVars

CbEnter(h) == (Fire(h) \/ ReadCb(h) \/ ReadUser(h)) /\ UNCHANGED instVars

CbStep(h) == CbEnter(h) \/ CbPending(h) \/ CbCheck(h) \/ CbNotify(h) \/ CbReturn(h)

PortCall == \/ CallStep /\ UNCHANGED instVars
            \/ ArmFail /\ failed' = TRUE /\ UNCHANGED <<inst, apc, flag, cbpc, epoch, by, lost>>

\* What the main thread does next inside a call of the library.
MainStep == InitReady \/ FeedArm \/ FeedReturn \/ ProcessClear \/ ProcessLines \/ DeinitClear

Next == \/ InitClear \/ FeedStore \/ ProcessRead \/ DeinitCall \/ MainStep \/ PortCall
        \/ \E h \in Arms : CbStep(h)

Spec == Init /\ [][Next]_vars

\* The main loop keeps calling lw_at_process (main.c), calls run on, a timer that
\* is due fires and the pool runs its callback.
FairSpec == /\ Spec
            /\ WF_vars(ProcessRead) /\ WF_vars(MainStep) /\ WF_vars(PortCall)
            /\ \A h \in Arms : WF_vars(CbStep(h))

-----------------------------------------------------------------------------
(* Properties *)

\* lw_at_deinit (timer_stop before memset): once it has returned no timer is set and
\* no callback runs, so nothing touches the cleared instance or the next one.
DeinitQuiet == inited = 0 /\ apc \in {"idle", "init"} => \A h \in Arms : ~Live(h)

\* An expiry of a former life of the instance never makes the present one take lines.
NoStaleExpiry == pending = 1 => by > epoch

\* at_timer_expired tests idle_cb and then calls it: it is not cleared in between.
NoNullCall == \A h \in Arms : cbpc[h] = "notify" => idle_cb = 1

\* timer_arm and timer_stop wait for a running callback and still always return.
CallsReturn == pc # "idle" ~> pc = "idle"

\* lw_at_feed / at_timer_expired / lw_at_process: a complete line is taken in the end;
\* it stays behind only when pending_take wipes out the expiry (until the next feed)
\* or when timer_arm failed.
LineAnswered == lines > 0 ~> (lines = 0 \/ lost \/ failed)
=============================================================================
