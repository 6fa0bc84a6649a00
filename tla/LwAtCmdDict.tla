----------------------------- MODULE LwAtCmdDict -----------------------------
(***************************************************************************)
(* lw_at_cmd_dict.c: tables linked through their own next fields behind a  *)
(* static head.  Loops over the list take one step per node; the `next` of *)
(* a table is never cleared, so after a reset it still points somewhere.   *)
(***************************************************************************)
EXTENDS Integers, Sequences

CONSTANTS
  Table,  \* the callers' table nodes
  Name,   \* command names
  Nil,    \* NULL
  DictHead,   \* dict_head
  Cmds,   \* cmds and num of each table: the sequence of its entries' names
  Links   \* what the callers may have left in the next fields of their tables

ASSUME NilAssumption == Nil \notin Table \cup Name \cup {DictHead}
ASSUME DictHeadAssumption == DictHead \notin Table
ASSUME CmdsAssumption == Cmds \in [Table -> Seq(Name \cup {Nil})]
ASSUME LinksAssumption == Links \subseteq [Table -> Table \cup {Nil}]

VARIABLES
  next,    \* the link fields
  pc,      \* the call in progress, "idle" between calls
  table,   \* its argument: the table to register, or
  name,    \* the name to find
  node,    \* the node its loop has reached
  result,  \* of the last call
  chain    \* history: the tables registered, latest first

locals == <<pc, table, name, node>>
vars == <<next, pc, table, name, node, result, chain>>

\* dict_check_table: entries, no NULL name, no name twice.
Names(t) == {Cmds[t][i] : i \in DOMAIN Cmds[t]}
CheckTable(t) == /\ Cmds[t] # <<>> /\ Nil \notin Names(t)
                 /\ \A i, j \in DOMAIN Cmds[t] : Cmds[t][i] = Cmds[t][j] => i = j

Init ==
  /\ \E links \in Links :
       next = [x \in Table \cup {DictHead} |-> IF x = DictHead THEN Nil ELSE links[x]]
  /\ pc = "idle" /\ table = Nil /\ name = Nil /\ node = Nil
  /\ result = <<>> /\ chain = <<>>

Return(r) == /\ pc' = "idle" /\ table' = Nil /\ name' = Nil /\ node' = Nil
             /\ result' = r
Registered(t, rc) == Return(<<"registered", t, rc>>)
Loop(c) == pc' = c /\ node' = next[DictHead]
Advance == node' = next[node] /\ UNCHANGED <<next, pc, table, name, result, chain>>

Reset == /\ pc = "idle"
         /\ next' = [next EXCEPT ![DictHead] = Nil]
         /\ chain' = <<>>
         /\ UNCHANGED <<locals, result>>

-----------------------------------------------------------------------------
(* lw_at_cmd_dict_register *)

Register(t) ==
  /\ pc = "idle" /\ CheckTable(t)
  /\ Loop("listed") /\ table' = t
  /\ UNCHANGED <<next, name, result, chain>>

RegisterMalformed(t) ==
  /\ pc = "idle" /\ ~CheckTable(t)
  /\ Registered(t, "PARAM")
  /\ UNCHANGED <<next, chain>>

\* dict_node_in_list
ListedNext == pc = "listed" /\ node \notin {Nil, table} /\ Advance

ListedFound == /\ pc = "listed" /\ node = table
               /\ Registered(table, "STATE")
               /\ UNCHANGED <<next, chain>>

ListedEnd == /\ pc = "listed" /\ node = Nil
             /\ Loop("cross")
             /\ UNCHANGED <<next, table, name, result, chain>>

Clashes(t, u) == Names(t) \cap Names(u) # {}

\* dict_check_cross
\* Fault: a clash with the table registered last is passed over.
CrossNextSkips ==
  /\ pc = "cross" /\ node # Nil /\ (~Clashes(table, node) \/ node = next[DictHead])
  /\ Advance

CrossNext == pc = "cross" /\ node # Nil /\ ~Clashes(table, node) /\ Advance

CrossFound == /\ pc = "cross" /\ node # Nil /\ Clashes(table, node)
              /\ Registered(table, "PARAM")
              /\ UNCHANGED <<next, chain>>

\* Fault: the head is linked first, then the table to what the head points at.
LinkSwapped == /\ pc = "cross" /\ node = Nil
               /\ next' = [next EXCEPT ![table] = table, ![DictHead] = table]
               /\ chain' = <<table>> \o chain
               /\ Registered(table, "OK")

Link == /\ pc = "cross" /\ node = Nil
        /\ next' = [next EXCEPT ![table] = next[DictHead], ![DictHead] = table]
        /\ chain' = <<table>> \o chain
        /\ Registered(table, "OK")

-----------------------------------------------------------------------------
(* lw_at_cmd_dict_find *)

FindStart(n) == /\ pc = "idle"
                /\ Loop("find") /\ name' = n
                /\ UNCHANGED <<next, table, result, chain>>

\* The first entry of t with that name.
FirstEntry(t, n) == CHOOSE i \in DOMAIN Cmds[t] : /\ Cmds[t][i] = n
                                                  /\ \A j \in 1 .. i - 1 : Cmds[t][j] # n

FindNext == pc = "find" /\ node # Nil /\ name \notin Names(node) /\ Advance

FindFound == /\ pc = "find" /\ node # Nil /\ name \in Names(node)
             /\ Return(<<"found", name, <<node, FirstEntry(node, name)>>>>)
             /\ UNCHANGED <<next, chain>>

\* Fault: find gives up at the last node of the list.
FindEndEarly == /\ pc = "find" /\ node \in {Nil} \cup {t \in Table : next[t] = Nil}
                /\ Return(<<"found", name, Nil>>)
                /\ UNCHANGED <<next, chain>>

FindEnd == /\ pc = "find" /\ node = Nil
           /\ Return(<<"found", name, Nil>>)
           /\ UNCHANGED <<next, chain>>

Step == \/ ListedNext \/ ListedFound \/ ListedEnd
        \/ CrossNext \/ CrossFound \/ Link
        \/ FindNext \/ FindFound \/ FindEnd

Next == \/ Reset \/ Step
        \/ \E t \in Table : Register(t) \/ RegisterMalformed(t)
        \/ \E n \in Name : FindStart(n)

Spec == Init /\ [][Next]_vars

\* A call that has begun goes on.
FairSpec == Spec /\ WF_vars(Step)
-----------------------------------------------------------------------------
(* Properties *)

TypeOK ==
  /\ next \in [Table \cup {DictHead} -> Table \cup {Nil}]
  /\ chain \in Seq(Table)
  /\ pc \in {"idle", "listed", "cross", "find"}
  /\ pc \in {"listed", "cross"} => table \in Table
  /\ pc = "find" => name \in Name
  /\ node \in Table \cup {Nil}

\* The k-th node of the list, Nil behind the last.
At(k) == IF k <= Len(chain) THEN chain[k] ELSE Nil

\* Following the links from the head visits the registered tables and ends,
\* whatever the next fields of other tables hold.
Linked == /\ next[DictHead] = At(1)
          /\ \A k \in 1 .. Len(chain) : next[chain[k]] = At(k + 1)

\* No table is in the list twice, and no name is in two tables.
Distinct == \A i, j \in 1 .. Len(chain) :
              i # j => chain[i] # chain[j] /\ ~Clashes(chain[i], chain[j])

AllChecked == \A i \in 1 .. Len(chain) : CheckTable(chain[i])

\* The loops stand at a node of the list and have rejected all nodes before it.
ListedInv ==
  pc = "listed" =>
    /\ CheckTable(table)
    /\ \E k \in 1 .. Len(chain) + 1 :
         node = At(k) /\ \A j \in 1 .. k - 1 : chain[j] # table
CrossInv ==
  pc = "cross" =>
    /\ CheckTable(table) /\ \A i \in 1 .. Len(chain) : chain[i] # table
    /\ \E k \in 1 .. Len(chain) + 1 :
         node = At(k) /\ \A j \in 1 .. k - 1 : ~Clashes(table, chain[j])
FindInv ==
  pc = "find" =>
    \E k \in 1 .. Len(chain) + 1 :
      node = At(k) /\ \A j \in 1 .. k - 1 : name \notin Names(chain[j])

\* The inductive invariant.  It is what the three checks of register are for
\* (lw_at_cmd_dict.c:118-134): the list stays a list and find has one answer.
IInv == TypeOK /\ Linked /\ Distinct /\ AllChecked
        /\ ListedInv /\ CrossInv /\ FindInv

\* The names in list c, the table in c that has name n, and the entry to be found.
ListedIn(c) == {n \in Name : \E i \in 1 .. Len(c) : n \in Names(c[i])}
OwnerIn(c, n) == CHOOSE t \in Table : /\ \E i \in 1 .. Len(c) : c[i] = t
                                      /\ n \in Names(t)
EntryIn(c, n) == LET t == OwnerIn(c, n)
                 IN  <<t, CHOOSE k \in DOMAIN Cmds[t] : Cmds[t][k] = n>>
MapOf(c) == [n \in ListedIn(c) |-> EntryIn(c, n)]

\* The list implements a map from names to entries: register adds a table whole
\* or refuses it without effect, and find returns the one entry of that name.
NM == INSTANCE LwAtNameMap WITH map <- MapOf(chain)
ImplementsNameMap == NM!Spec

\* Every register and every find returns: the list never closes into a cycle.
Returns == pc # "idle" ~> pc = "idle"
=============================================================================
