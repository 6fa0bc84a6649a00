----------------------------- MODULE LwAtNameMap -----------------------------
(***************************************************************************)
(* What the command dictionary promises, free of nodes and pointers: a map *)
(* from names to entries that takes a whole table or nothing of it.        *)
(* LwAtCmdDict is shown to implement it.                                   *)
(***************************************************************************)
EXTENDS Integers, Sequences

CONSTANTS
  Table,  \* command tables
  Name,   \* command names
  Nil,    \* no name, no entry
  Cmds    \* the names of a table's entries

VARIABLES
  map,     \* name |-> <<table, index>>, for the names registered
  result   \* of the last call; <<>> while none has been made

vars == <<map, result>>

\* The names of t, when they are names and all different.
Names(t) == {Cmds[t][i] : i \in DOMAIN Cmds[t]}
WellFormed(t) == /\ Cmds[t] # <<>> /\ Nil \notin Names(t)
                 /\ \A i, j \in DOMAIN Cmds[t] : Cmds[t][i] = Cmds[t][j] => i = j

Entry(t, n) == <<t, CHOOSE i \in DOMAIN Cmds[t] : Cmds[t][i] = n>>

Init == map = [n \in {} |-> Nil] /\ result = <<>>

Clear == map' = [n \in {} |-> Nil] /\ UNCHANGED result

Add(t) == /\ WellFormed(t) /\ Names(t) \cap DOMAIN map = {}
          /\ map' = [n \in DOMAIN map \cup Names(t) |->
                       IF n \in Names(t) THEN Entry(t, n) ELSE map[n]]
          /\ result' = <<"registered", t, "OK">>

\* Refused for a reason, and without effect.
Refuse(t) == /\ \/ ~WellFormed(t) /\ result' = <<"registered", t, "PARAM">>
                \/ /\ \E n \in DOMAIN map : map[n][1] = t
                   /\ result' = <<"registered", t, "STATE">>
                \/ /\ Names(t) \cap DOMAIN map # {}
                   /\ \A n \in DOMAIN map : map[n][1] # t
                   /\ result' = <<"registered", t, "PARAM">>
             /\ UNCHANGED map

Find(n) == /\ result' = <<"found", n, IF n \in DOMAIN map THEN map[n] ELSE Nil>>
           /\ UNCHANGED map

Next == \/ Clear
        \/ \E t \in Table : Add(t) \/ Refuse(t)
        \/ \E n \in Name : Find(n)

Spec == Init /\ [][Next]_vars
=============================================================================
