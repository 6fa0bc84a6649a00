---------------------------- MODULE LwAtPortWin ----------------------------
(***************************************************************************)
(* port/lw_at_port_win.c: the one-shot timer on the Windows thread pool.   *)
(* timer_arm and timer_stop run in the main thread, the callbacks in pool  *)
(* threads, and both read and write g_timer_cb and g_timer_user without a  *)
(* lock.  The number of a timer_arm call stands for the handle the call    *)
(* creates and for the cb and user it was given; 0 is NULL.                *)
(*                                                                         *)
(* External, from how the port uses it: CreateTimerQueueTimer makes a      *)
(* timer that may fire before the handle is stored, or fails and stores    *)
(* nothing; DeleteTimerQueueTimer cancels a timer that has not fired and   *)
(* waits for the callback of one that has.                                 *)
(***************************************************************************)
EXTENDS Integers

CONSTANT MaxArms  \* bound: calls of timer_arm
ASSUME MaxArmsAssumption == MaxArms \in Nat

VARIABLES
  g_timer, g_timer_cb, g_timer_user,
  pool,  \* the timer of each arming: "none", "pending", then its callback:
         \* "entered", "read" (cb read), "called" (inside cb), "over"
  seen,  \* what that callback read: [cb, user]
  arms,  \* timer_arm calls so far
  pc     \* main thread: "idle" outside the two functions

globals  == <<g_timer, g_timer_cb, g_timer_user>>
portVars == <<globals, pool, seen, arms, pc>>

Arms == 1 .. MaxArms
InCallback(h) == pool[h] \in {"entered", "read", "called"}

PortInit ==
  /\ g_timer = 0 /\ g_timer_cb = 0 /\ g_timer_user = 0
  /\ pool = [h \in Arms |-> "none"]
  /\ seen = [h \in Arms |-> [cb |-> 0, user |-> 0]]
  /\ arms = 0 /\ pc = "idle"

-----------------------------------------------------------------------------
(* Main thread *)

\* Fault: the timer of the arming before is forgotten, not deleted.
ArmCallKeepsOld ==
  /\ pc = "idle" /\ arms < MaxArms
  /\ arms' = arms + 1 /\ pc' = "arm_cb"
  /\ UNCHANGED <<globals, pool, seen>>

\* Both functions first delete the timer they still hold, and wait for it.
ArmCall ==
  /\ pc = "idle" /\ arms < MaxArms
  /\ arms' = arms + 1
  /\ pc' = IF g_timer = 0 THEN "arm_cb" ELSE "arm_delete"
  /\ UNCHANGED <<globals, pool, seen>>

\* Fault: only the callback pointer is withdrawn.
StopCallNoDelete ==
  /\ pc = "idle" /\ pc' = "stop_cb"
  /\ UNCHANGED <<globals, pool, seen, arms>>

StopCall ==
  /\ pc = "idle"
  /\ pc' = IF g_timer = 0 THEN "stop_cb" ELSE "stop_delete"
  /\ UNCHANGED <<globals, pool, seen, arms>>

Delete ==
  /\ pc \in {"arm_delete", "stop_delete"}
  /\ pool' = [pool EXCEPT ![g_timer] = IF @ = "pending" THEN "over" ELSE @]
  /\ pc' = IF pc = "arm_delete" THEN "arm_wait" ELSE "stop_wait"
  /\ UNCHANGED <<globals, seen, arms>>

\* Fault: NULL instead of INVALID_HANDLE_VALUE, the call does not wait.
DeletedNoWait ==
  /\ pc \in {"arm_wait", "stop_wait"}
  /\ g_timer' = 0
  /\ pc' = IF pc = "arm_wait" THEN "arm_cb" ELSE "stop_cb"
  /\ UNCHANGED <<g_timer_cb, g_timer_user, pool, seen, arms>>

\* INVALID_HANDLE_VALUE: blocks until the callback has returned.
Deleted ==
  /\ pc \in {"arm_wait", "stop_wait"} /\ ~InCallback(g_timer)
  /\ g_timer' = 0
  /\ pc' = IF pc = "arm_wait" THEN "arm_cb" ELSE "stop_cb"
  /\ UNCHANGED <<g_timer_cb, g_timer_user, pool, seen, arms>>

ArmCb ==
  /\ pc = "arm_cb" /\ pc' = "arm_user" /\ g_timer_cb' = arms
  /\ UNCHANGED <<g_timer, g_timer_user, pool, seen, arms>>

ArmUser ==
  /\ pc = "arm_user" /\ pc' = "arm_create" /\ g_timer_user' = arms
  /\ UNCHANGED <<g_timer, g_timer_cb, pool, seen, arms>>

ArmCreate ==
  /\ pc = "arm_create" /\ pc' = "arm_store"
  /\ pool' = [pool EXCEPT ![arms] = "pending"]
  /\ UNCHANGED <<globals, seen, arms>>

\* timer_arm returns 0.
ArmStore ==
  /\ pc = "arm_store" /\ pc' = "idle" /\ g_timer' = arms
  /\ UNCHANGED <<g_timer_cb, g_timer_user, pool, seen, arms>>

\* CreateTimerQueueTimer failed: timer_arm returns -1.
ArmFail ==
  /\ pc = "arm_create" /\ pc' = "idle" /\ g_timer_cb' = 0
  /\ UNCHANGED <<g_timer, g_timer_user, pool, seen, arms>>

\* timer_stop returns.
StopCb ==
  /\ pc = "stop_cb" /\ pc' = "idle" /\ g_timer_cb' = 0
  /\ UNCHANGED <<g_timer, g_timer_user, pool, seen, arms>>

\* The steps of a call that goes well.
CallStep == Delete \/ Deleted \/ ArmCb \/ ArmUser \/ ArmCreate \/ ArmStore \/ StopCb

-----------------------------------------------------------------------------
(* Pool thread: port_win_timer_callback of the timer of arming h *)

Fire(h) ==
  /\ pool[h] = "pending" /\ pool' = [pool EXCEPT ![h] = "entered"]
  /\ UNCHANGED <<globals, seen, arms, pc>>

ReadCb(h) ==
  /\ pool[h] = "entered" /\ pool' = [pool EXCEPT ![h] = "read"]
  /\ seen' = [seen EXCEPT ![h].cb = g_timer_cb]
  /\ UNCHANGED <<globals, arms, pc>>

\* if (cb != NULL) cb(user)
ReadUser(h) ==
  /\ pool[h] = "read"
  /\ seen' = [seen EXCEPT ![h].user = g_timer_user]
  /\ pool' = [pool EXCEPT ![h] = IF seen[h].cb # 0 THEN "called" ELSE "over"]
  /\ UNCHANGED <<globals, arms, pc>>

\* cb has returned.
Finish(h) ==
  /\ pool[h] = "called" /\ pool' = [pool EXCEPT ![h] = "over"]
  /\ UNCHANGED <<globals, seen, arms, pc>>

PoolStep(h) == Fire(h) \/ ReadCb(h) \/ ReadUser(h) \/ Finish(h)

PortNext == ArmCall \/ StopCall \/ CallStep \/ ArmFail \/ \E h \in Arms : PoolStep(h)
PortSpec == PortInit /\ [][PortNext]_portVars

-----------------------------------------------------------------------------
(* Properties *)

Live(h) == pool[h] = "pending" \/ InCallback(h)

\* The callback runs for the arming whose cb it called.
RunsFor(h) == IF pool[h] = "called" THEN seen[h].cb ELSE h

Timer == INSTANCE LwAtTimer WITH
  armed   <- {h \in Arms : pool[h] = "pending"},
  running <- {RunsFor(h) : h \in {k \in Arms : InCallback(k)}},
  call    <- CASE pc = "idle" -> "none"
               [] pc = "arm_store" -> "armed"
               [] pc \in {"stop_delete", "stop_wait", "stop_cb"} -> "stop"
               [] OTHER -> "arm",
  made    <- arms

\* The port keeps the contract of lw_at.h: what timer_arm replaced or timer_stop
\* stopped never fires later, and an expiry runs the callback it was armed with.
ImplementsTimer == Timer!Spec

\* A callback never pairs one arming's cb with another's user, nor misses its cb
\* because timer_arm or timer_stop wrote the globals in between.
CallbackIsItsOwn ==
  \A h \in Arms : /\ pool[h] = "called" => seen[h] = [cb |-> h, user |-> h]
                  /\ pool[h] = "read" => seen[h].cb = h

PcValues == {"idle", "arm_delete", "arm_wait", "arm_cb", "arm_user", "arm_create",
             "arm_store", "stop_delete", "stop_wait", "stop_cb"}
PoolValues == {"none", "pending", "entered", "read", "called", "over"}

PortTypeOK ==
  /\ g_timer \in 0 .. MaxArms /\ g_timer_cb \in 0 .. MaxArms
  /\ g_timer_user \in 0 .. MaxArms
  /\ pool \in [Arms -> PoolValues]
  /\ seen \in [Arms -> [cb : 0 .. MaxArms, user : 0 .. MaxArms]]
  /\ arms \in 0 .. MaxArms /\ pc \in PcValues

\* The timer the main thread has yet to delete, or whose handle it has yet to store.
Held == IF pc = "arm_store" THEN arms ELSE g_timer

\* Why the unlocked globals are safe: at most the held timer is live, the globals
\* are its own while it is, and they are rewritten only when none is.
OneLive == \A h \in Arms : Live(h) => h = Held /\ g_timer_cb = h /\ g_timer_user = h

\* What the main thread knows at each point of timer_arm and timer_stop.
AtPoint ==
  /\ pc \in {"arm_cb", "arm_user", "arm_create", "arm_store", "stop_cb"} => g_timer = 0
  /\ pc \in {"arm_delete", "arm_wait", "stop_delete", "stop_wait"} => g_timer # 0
  /\ pc \in {"arm_wait", "stop_wait"} => pool[g_timer] # "pending"
  /\ pc \in {"arm_delete", "arm_wait", "arm_cb", "arm_user", "arm_create"} =>
       arms >= 1 /\ g_timer < arms /\ pool[arms] = "none"
  /\ pc = "arm_store" => arms >= 1
  /\ pc \in {"arm_user", "arm_create", "arm_store"} => g_timer_cb = arms
  /\ pc \in {"arm_create", "arm_store"} => g_timer_user = arms

PortInv ==
  /\ PortTypeOK
  /\ OneLive
  /\ \A h \in Arms : pool[h] # "none" => h <= arms
  /\ g_timer <= arms
  /\ AtPoint
  /\ CallbackIsItsOwn
=============================================================================
