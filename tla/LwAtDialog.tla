----------------------------- MODULE LwAtDialog -----------------------------
(***************************************************************************)
(* The dialogue the host sees, free of buffers, timers and flags: which    *)
(* result line or prompt the library may print in which phase.  LwAtCore   *)
(* is shown to implement it.                                               *)
(***************************************************************************)
EXTENDS Integers

VARIABLES
  phase,  \* "command", "gated" (data mode requested, prompt not printed), "data"
  out     \* the last output; n flips with every output so that repeats show

vars == <<phase, out>>

Say(k) == out' = [k |-> k, n |-> 1 - out.n]

Init == phase = "command" /\ out = [k |-> "none", n |-> 0]

\* A command line, a voided frame or an overflow gets one result.
Answer == /\ phase = "command" /\ UNCHANGED phase
          /\ Say("OK") \/ Say("ERROR")

\* A successful command asks for data mode; its handler may have answered itself.
Request == /\ phase = "command" /\ phase' = "gated"
           /\ Say("OK") \/ UNCHANGED out

\* Until the request is settled no command succeeds.
Refuse == phase = "gated" /\ UNCHANGED phase /\ Say("ERROR")

Cancel == phase = "gated" /\ phase' = "command" /\ UNCHANGED out

Prompt == phase = "gated" /\ phase' = "data" /\ Say("prompt")

\* Inside data mode the library is silent until the one result that ends it.
Finish == /\ phase = "data" /\ phase' = "command"
          /\ Say("OK") \/ Say("ERROR")

Next == Answer \/ Request \/ Refuse \/ Cancel \/ Prompt \/ Finish

Spec == Init /\ [][Next]_vars
=============================================================================
