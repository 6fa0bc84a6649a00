----------------------------- MODULE LwAtTimer -----------------------------
(***************************************************************************)
(* What the library relies on when it calls port.timer_arm and             *)
(* port.timer_stop (lw_at_port_ops_t in lw_at.h): one one-shot timer, arming *)
(* it again replaces the earlier arming, and once a call has returned an   *)
(* arming it replaced or stopped neither fires nor is still in its         *)
(* callback.  An arming is known by its number.                            *)
(***************************************************************************)
EXTENDS Integers

VARIABLES
  armed,    \* armings that may still fire
  running,  \* armings whose callback is running on their behalf
  call,     \* "none", "arm" (not armed yet), "armed" (armed, not returned), "stop"
  made      \* number of the last timer_arm call

vars == <<armed, running, call, made>>

Init == armed = {} /\ running = {} /\ call = "none" /\ made = 0

BeginArm  == call = "none" /\ call' = "arm" /\ made' = made + 1
             /\ UNCHANGED <<armed, running>>

BeginStop == call = "none" /\ call' = "stop" /\ UNCHANGED <<armed, running, made>>

\* Inside a call the outstanding arming is given up.
Cancel == call \in {"arm", "stop"} /\ armed' = {} /\ UNCHANGED <<running, call, made>>

\* The new arming exists; nothing of an earlier one does.
Set == /\ call = "arm" /\ armed = {} /\ running = {}
       /\ armed' = {made} /\ call' = "armed" /\ UNCHANGED <<running, made>>

\* timer_arm returns 0.
EndArm == call = "armed" /\ call' = "none" /\ UNCHANGED <<armed, running, made>>

\* timer_stop returns, or timer_arm returns a failure: all is quiet.
EndQuiet == /\ call \in {"arm", "stop"} /\ armed = {} /\ running = {}
            /\ call' = "none" /\ UNCHANGED <<armed, running, made>>

\* An arming fires once, with the callback and user pointer it was made with.
Fire(c) == /\ c \in armed
           /\ armed' = armed \ {c} /\ running' = running \cup {c}
           /\ UNCHANGED <<call, made>>

Return(c) == /\ c \in running /\ running' = running \ {c}
             /\ UNCHANGED <<armed, call, made>>

Next == \/ BeginArm \/ BeginStop \/ Cancel \/ Set \/ EndArm \/ EndQuiet
        \/ \E c \in armed : Fire(c)
        \/ \E c \in running : Return(c)

Spec == Init /\ [][Next]_vars
=============================================================================
