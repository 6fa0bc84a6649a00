-------------------------- MODULE LwAtCmdDictProofs --------------------------
(* The dictionary is a list and implements a name map, for every set of   *)
(* tables, whatever their entries and their next fields.                  *)
EXTENDS LwAtCmdDict, SequenceTheorems, TLAPS

\* Prepending shifts every position by one.
LEMMA Prepended ==
  ASSUME NEW S, NEW s \in Seq(S), NEW x \in S
  PROVE  /\ <<x>> \o s \in Seq(S)
         /\ Len(<<x>> \o s) = Len(s) + 1
         /\ (<<x>> \o s)[1] = x
         /\ \A i \in 1 .. Len(s) : (<<x>> \o s)[i + 1] = s[i]
<1>1. <<x>> \in Seq(S) /\ Len(<<x>>) = 1 /\ <<x>>[1] = x
  OBVIOUS
<1>2. /\ <<x>> \o s \in Seq(S)
      /\ Len(<<x>> \o s) = Len(<<x>>) + Len(s)
      /\ \A i \in 1 .. Len(<<x>>) + Len(s) :
           (<<x>> \o s)[i] = IF i <= Len(<<x>>) THEN <<x>>[i] ELSE s[i - Len(<<x>>)]
  BY <1>1, ConcatProperties, Zenon
<1>3. Len(s) \in Nat
  BY LenProperties
<1> QED  BY <1>1, <1>2, <1>3

\* Names t is made of are names, except for Nil.
LEMMA NamesAreNames ==
  ASSUME NEW t \in Table
  PROVE  Names(t) \subseteq Name \cup {Nil}
<1>1. Cmds[t] \in Seq(Name \cup {Nil})
  BY CmdsAssumption
<1> QED  BY <1>1 DEF Names

LEMMA InitIInv == Init => IInv
<1> SUFFICES ASSUME Init PROVE IInv
  OBVIOUS
<1>1. PICK links \in Links :
        next = [x \in Table \cup {DictHead} |-> IF x = DictHead THEN Nil ELSE links[x]]
  BY DEF Init
<1>2. links \in [Table -> Table \cup {Nil}]
  BY LinksAssumption
<1>3. chain = <<>> /\ Len(chain) = 0 /\ chain \in Seq(Table)
  BY DEF Init
<1>4. next \in [Table \cup {DictHead} -> Table \cup {Nil}] /\ next[DictHead] = Nil
  BY <1>1, <1>2, DictHeadAssumption
<1> QED  BY <1>3, <1>4 DEF Init, IInv, TypeOK, Linked, At, Distinct, AllChecked,
                           ListedInv, CrossInv, FindInv

-----------------------------------------------------------------------------
(* The loops *)

\* The list is not touched: what is true of it stays true.
LEMMA ListUntouched ==
  ASSUME IInv, UNCHANGED <<next, chain>>
  PROVE  Linked' /\ Distinct' /\ AllChecked'
BY DEF IInv, Linked, At, Distinct, AllChecked

\* A node of the list that is not Nil has a position, and its next field is the
\* node one further.
LEMMA NextNode ==
  ASSUME IInv, node # Nil, NEW k \in 1 .. Len(chain) + 1, node = At(k)
  PROVE  /\ k \in 1 .. Len(chain) /\ node = chain[k] /\ next[node] = At(k + 1)
         /\ k + 1 \in 1 .. Len(chain) + 1
         /\ next[node] \in Table \cup {Nil}
         /\ \A j \in 1 .. (k + 1) - 1 : j \in 1 .. k - 1 \/ j = k
<1>1. chain \in Seq(Table) /\ Len(chain) \in Nat
  BY LenProperties DEF IInv, TypeOK
<1>2. k \in 1 .. Len(chain) /\ node = chain[k]
  BY <1>1 DEF At
<1>3. chain[k] \in Table
  BY <1>1, <1>2, ElementOfSeq
<1> QED  BY <1>1, <1>2, <1>3 DEF IInv, Linked, TypeOK

LEMMA FirstNode ==
  ASSUME IInv
  PROVE  1 \in 1 .. Len(chain) + 1 /\ next[DictHead] = At(1) /\ next[DictHead] \in Table \cup {Nil}
<1>1. chain \in Seq(Table) /\ Len(chain) \in Nat
  BY LenProperties DEF IInv, TypeOK
<1> QED  BY <1>1 DEF IInv, Linked, TypeOK
-----------------------------------------------------------------------------
(* Each action preserves the invariant. *)

\* A call that returns leaves no loop to speak of.
LEMMA ReturnIInv ==
  ASSUME IInv, UNCHANGED <<next, chain>>, pc' = "idle", node' = Nil
  PROVE  IInv'
<1>1. TypeOK'
  BY DEF IInv, TypeOK
<1>2. Linked' /\ Distinct' /\ AllChecked'
  BY ListUntouched
<1> QED  BY <1>1, <1>2 DEF IInv, ListedInv, CrossInv, FindInv

LEMMA ResetIInv == IInv /\ Reset => IInv'
<1> SUFFICES ASSUME IInv, Reset PROVE IInv'
  OBVIOUS
<1>1. chain' = <<>> /\ Len(chain') = 0 /\ chain' \in Seq(Table)
  BY DEF Reset
<1>2. /\ next' \in [Table \cup {DictHead} -> Table \cup {Nil}]
      /\ next'[DictHead] = Nil
  BY DEF Reset, IInv, TypeOK
<1>3. TypeOK'
  BY <1>1, <1>2 DEF Reset, IInv, TypeOK, locals
<1> QED  BY <1>1, <1>2, <1>3 DEF Reset, locals, IInv, Linked, At, Distinct, AllChecked,
                                 ListedInv, CrossInv, FindInv

LEMMA RegisterIInv ==
  ASSUME IInv, NEW t \in Table, Register(t)
  PROVE  IInv'
<1>1. 1 \in 1 .. Len(chain) + 1 /\ node' = At(1) /\ node' \in Table \cup {Nil}
  BY FirstNode DEF Register, Loop
<1>2. TypeOK'
  BY <1>1 DEF Register, Loop, IInv, TypeOK
<1>3. Linked' /\ Distinct' /\ AllChecked'
  BY ListUntouched DEF Register
<1>4. ListedInv'
  <2>1. node' = At(1)' /\ 1 \in 1 .. Len(chain') + 1
    BY <1>1 DEF Register, At
  <2>2. CheckTable(table')
    BY DEF Register
  <2>3. \A j \in 1 .. 1 - 1 : chain'[j] # table'
    OBVIOUS
  <2> QED  BY <2>1, <2>2, <2>3 DEF ListedInv, CheckTable, Names
<1>5. CrossInv' /\ FindInv'
  BY DEF Register, Loop, CrossInv, FindInv
<1> QED  BY <1>2, <1>3, <1>4, <1>5 DEF IInv

LEMMA ListedNextIInv == IInv /\ ListedNext => IInv'
<1> SUFFICES ASSUME IInv, ListedNext PROVE IInv'
  OBVIOUS
<1>1. PICK k \in 1 .. Len(chain) + 1 :
        node = At(k) /\ \A j \in 1 .. k - 1 : chain[j] # table
  BY DEF ListedNext, IInv, ListedInv
<1>2. /\ k \in 1 .. Len(chain) /\ node = chain[k] /\ next[node] = At(k + 1)
      /\ k + 1 \in 1 .. Len(chain) + 1
      /\ next[node] \in Table \cup {Nil}
      /\ \A j \in 1 .. (k + 1) - 1 : j \in 1 .. k - 1 \/ j = k
  BY <1>1, NextNode DEF ListedNext
<1>3. TypeOK'
  BY <1>2 DEF ListedNext, Advance, IInv, TypeOK
<1>4. Linked' /\ Distinct' /\ AllChecked'
  BY ListUntouched DEF ListedNext, Advance
<1>5. ListedInv'
  <2>1. node' = At(k + 1)' /\ chain' = chain /\ table' = table
    BY <1>2 DEF ListedNext, Advance, At
  <2>2. \A j \in 1 .. (k + 1) - 1 : chain[j] # table
    BY <1>1, <1>2 DEF ListedNext
  <2>3. CheckTable(table)
    BY DEF ListedNext, IInv, ListedInv
  <2> QED  BY <1>2, <2>1, <2>2, <2>3 DEF ListedInv, CheckTable, Names
<1>6. CrossInv' /\ FindInv'
  BY DEF ListedNext, Advance, CrossInv, FindInv
<1> QED  BY <1>3, <1>4, <1>5, <1>6 DEF IInv

LEMMA ListedEndIInv == IInv /\ ListedEnd => IInv'
<1> SUFFICES ASSUME IInv, ListedEnd PROVE IInv'
  OBVIOUS
<1>1. 1 \in 1 .. Len(chain) + 1 /\ node' = At(1) /\ node' \in Table \cup {Nil}
  BY FirstNode DEF ListedEnd, Loop
<1>2. TypeOK'
  BY <1>1 DEF ListedEnd, Loop, IInv, TypeOK
<1>3. Linked' /\ Distinct' /\ AllChecked'
  BY ListUntouched DEF ListedEnd
<1>4. CrossInv'
  <2>1. PICK k \in 1 .. Len(chain) + 1 :
          node = At(k) /\ \A j \in 1 .. k - 1 : chain[j] # table
    BY DEF ListedEnd, IInv, ListedInv
  <2>2. k > Len(chain)
    <3>1. chain \in Seq(Table) /\ Len(chain) \in Nat
      BY LenProperties DEF IInv, TypeOK
    <3> SUFFICES ASSUME k <= Len(chain) PROVE FALSE
      BY <3>1
    <3>2. node = chain[k] /\ chain[k] \in Table
      BY <2>1, <3>1, ElementOfSeq DEF At
    <3> QED  BY <3>2, NilAssumption DEF ListedEnd
  <2>3. \A i \in 1 .. Len(chain) : chain[i] # table
    <3>1. Len(chain) \in Nat
      BY LenProperties DEF IInv, TypeOK
    <3> QED  BY <2>1, <2>2, <3>1
  <2>4. CheckTable(table)
    BY DEF ListedEnd, IInv, ListedInv
  <2>5. \A j \in 1 .. 1 - 1 : ~Clashes(table, chain[j])
    OBVIOUS
  <2>6. chain' = chain /\ table' = table /\ node' = At(1)'
    BY <1>1 DEF ListedEnd, At
  <2> QED  BY <1>1, <2>3, <2>4, <2>5, <2>6 DEF CrossInv, CheckTable, Names, Clashes
<1>5. ListedInv' /\ FindInv'
  BY DEF ListedEnd, Loop, ListedInv, FindInv
<1> QED  BY <1>2, <1>3, <1>4, <1>5 DEF IInv

LEMMA CrossNextIInv == IInv /\ CrossNext => IInv'
<1> SUFFICES ASSUME IInv, CrossNext PROVE IInv'
  OBVIOUS
<1>1. PICK k \in 1 .. Len(chain) + 1 :
        node = At(k) /\ \A j \in 1 .. k - 1 : ~Clashes(table, chain[j])
  BY DEF CrossNext, IInv, CrossInv
<1>2. /\ k \in 1 .. Len(chain) /\ node = chain[k] /\ next[node] = At(k + 1)
      /\ k + 1 \in 1 .. Len(chain) + 1
      /\ next[node] \in Table \cup {Nil}
      /\ \A j \in 1 .. (k + 1) - 1 : j \in 1 .. k - 1 \/ j = k
  BY <1>1, NextNode DEF CrossNext
<1>3. TypeOK'
  BY <1>2 DEF CrossNext, Advance, IInv, TypeOK
<1>4. Linked' /\ Distinct' /\ AllChecked'
  BY ListUntouched DEF CrossNext, Advance
<1>5. CrossInv'
  <2>1. node' = At(k + 1)' /\ chain' = chain /\ table' = table
    BY <1>2 DEF CrossNext, Advance, At
  <2>2. \A j \in 1 .. (k + 1) - 1 : ~Clashes(table, chain[j])
    BY <1>1, <1>2 DEF CrossNext
  <2>3. CheckTable(table) /\ \A i \in 1 .. Len(chain) : chain[i] # table
    BY DEF CrossNext, IInv, CrossInv
  <2>4. CheckTable(table)' /\ \A i \in 1 .. Len(chain') : chain'[i] # table'
    BY <2>1, <2>3 DEF CheckTable, Names
  <2>5. \A j \in 1 .. (k + 1) - 1 : ~Clashes(table, chain[j])'
    BY <2>1, <2>2
  <2> QED  BY <1>2, <2>1, <2>4, <2>5 DEF CrossInv
<1>6. ListedInv' /\ FindInv'
  BY DEF CrossNext, Advance, ListedInv, FindInv
<1> QED  BY <1>3, <1>4, <1>5, <1>6 DEF IInv

LEMMA FindStartIInv ==
  ASSUME IInv, NEW n \in Name, FindStart(n)
  PROVE  IInv'
<1>1. 1 \in 1 .. Len(chain) + 1 /\ node' = At(1) /\ node' \in Table \cup {Nil}
  BY FirstNode DEF FindStart, Loop
<1>2. TypeOK'
  BY <1>1 DEF FindStart, Loop, IInv, TypeOK
<1>3. Linked' /\ Distinct' /\ AllChecked'
  BY ListUntouched DEF FindStart
<1>4. FindInv'
  <2>1. node' = At(1)' /\ 1 \in 1 .. Len(chain') + 1
    BY <1>1 DEF FindStart, At
  <2>2. \A j \in 1 .. 1 - 1 : name' \notin Names(chain[j])'
    OBVIOUS
  <2> QED  BY <2>1, <2>2 DEF FindInv
<1>5. ListedInv' /\ CrossInv'
  BY DEF FindStart, Loop, ListedInv, CrossInv
<1> QED  BY <1>2, <1>3, <1>4, <1>5 DEF IInv

LEMMA FindNextIInv == IInv /\ FindNext => IInv'
<1> SUFFICES ASSUME IInv, FindNext PROVE IInv'
  OBVIOUS
<1>1. PICK k \in 1 .. Len(chain) + 1 :
        node = At(k) /\ \A j \in 1 .. k - 1 : name \notin Names(chain[j])
  BY DEF FindNext, IInv, FindInv
<1>2. /\ k \in 1 .. Len(chain) /\ node = chain[k] /\ next[node] = At(k + 1)
      /\ k + 1 \in 1 .. Len(chain) + 1
      /\ next[node] \in Table \cup {Nil}
      /\ \A j \in 1 .. (k + 1) - 1 : j \in 1 .. k - 1 \/ j = k
  BY <1>1, NextNode DEF FindNext
<1>3. TypeOK'
  BY <1>2 DEF FindNext, Advance, IInv, TypeOK
<1>4. Linked' /\ Distinct' /\ AllChecked'
  BY ListUntouched DEF FindNext, Advance
<1>5. FindInv'
  <2>1. node' = At(k + 1)' /\ chain' = chain /\ name' = name
    BY <1>2 DEF FindNext, Advance, At
  <2>2. \A j \in 1 .. (k + 1) - 1 : name \notin Names(chain[j])
    BY <1>1, <1>2 DEF FindNext
  <2>3. \A j \in 1 .. (k + 1) - 1 : (name \notin Names(chain[j]))'
    BY <2>1, <2>2 DEF Names
  <2> QED  BY <1>2, <2>1, <2>3 DEF FindInv
<1>6. ListedInv' /\ CrossInv'
  BY DEF FindNext, Advance, ListedInv, CrossInv
<1> QED  BY <1>3, <1>4, <1>5, <1>6 DEF IInv

\* At the end of a loop every table of the list has been passed.
LEMMA EndOfList ==
  ASSUME IInv, node = Nil, NEW k \in 1 .. Len(chain) + 1, node = At(k)
  PROVE  \A i \in 1 .. Len(chain) : i \in 1 .. k - 1
<1>1. chain \in Seq(Table) /\ Len(chain) \in Nat
  BY LenProperties DEF IInv, TypeOK
<1>2. k > Len(chain)
  <2> SUFFICES ASSUME k <= Len(chain) PROVE FALSE
    BY <1>1
  <2>1. node = chain[k] /\ chain[k] \in Table
    BY <1>1, ElementOfSeq DEF At
  <2> QED  BY <2>1, NilAssumption
<1> QED  BY <1>1, <1>2

\* What cross has established when it links.
LEMMA Unclashed ==
  ASSUME IInv, pc = "cross", node = Nil
  PROVE  /\ table \in Table /\ CheckTable(table)
         /\ \A i \in 1 .. Len(chain) : /\ chain[i] # table
                                       /\ ~Clashes(table, chain[i])
                                       /\ ~Clashes(chain[i], table)
<1>1. PICK k \in 1 .. Len(chain) + 1 :
        node = At(k) /\ \A j \in 1 .. k - 1 : ~Clashes(table, chain[j])
  BY DEF IInv, CrossInv
<1>2. \A i \in 1 .. Len(chain) : ~Clashes(table, chain[i])
  BY <1>1, EndOfList
<1>3. \A i \in 1 .. Len(chain) : ~Clashes(chain[i], table)
  BY <1>2 DEF Clashes
<1> QED  BY <1>2, <1>3 DEF IInv, CrossInv, TypeOK

LEMMA LinkIInv == IInv /\ Link => IInv'
<1> SUFFICES ASSUME IInv, Link PROVE IInv'
  OBVIOUS
<1>1. /\ table \in Table /\ CheckTable(table)
      /\ \A i \in 1 .. Len(chain) : /\ chain[i] # table
                                    /\ ~Clashes(table, chain[i])
                                    /\ ~Clashes(chain[i], table)
  BY Unclashed DEF Link
<1>2. chain \in Seq(Table) /\ Len(chain) \in Nat
  BY LenProperties DEF IInv, TypeOK
<1>3. /\ chain' \in Seq(Table) /\ Len(chain') = Len(chain) + 1 /\ chain'[1] = table
      /\ \A i \in 1 .. Len(chain) : chain'[i + 1] = chain[i]
  BY <1>1, <1>2, Prepended DEF Link
<1>4. \A i \in 1 .. Len(chain') : i = 1 \/ (i - 1 \in 1 .. Len(chain) /\ chain'[i] = chain[i - 1])
  <2> SUFFICES ASSUME NEW i \in 1 .. Len(chain'), i # 1
               PROVE  i - 1 \in 1 .. Len(chain) /\ chain'[i] = chain[i - 1]
    OBVIOUS
  <2>1. i - 1 \in 1 .. Len(chain) /\ (i - 1) + 1 = i
    BY <1>2, <1>3
  <2> QED  BY <1>3, <2>1
<1>5. /\ next' \in [Table \cup {DictHead} -> Table \cup {Nil}]
      /\ next'[DictHead] = table /\ next'[table] = next[DictHead]
      /\ \A u \in Table : u # table => next'[u] = next[u]
  BY <1>1, DictHeadAssumption DEF Link, IInv, TypeOK
<1>6. TypeOK'
  BY <1>3, <1>5 DEF Link, Registered, Return, TypeOK
<1>7. Linked'
  <2>1. next'[DictHead] = At(1)'
    BY <1>2, <1>3, <1>5 DEF At
  <2> SUFFICES ASSUME NEW i \in 1 .. Len(chain')
               PROVE  next'[chain'[i]] = At(i + 1)'
    BY <2>1 DEF Linked
  <2>2. CASE i = 1
    <3>1. next'[chain'[i]] = At(1)
      BY <1>3, <1>5, <2>2 DEF IInv, Linked
    <3>2. At(2)' = At(1)
      <4>1. CASE Len(chain) = 0
        BY <1>3, <4>1 DEF At
      <4>2. CASE Len(chain) # 0
        <5>1. 1 \in 1 .. Len(chain) /\ chain'[1 + 1] = chain[1]
          BY <1>2, <1>3, <4>2
        <5> QED  BY <1>2, <1>3, <5>1 DEF At
      <4> QED  BY <4>1, <4>2
    <3> QED  BY <2>2, <3>1, <3>2
  <2>3. CASE i # 1
    <3>1. i - 1 \in 1 .. Len(chain) /\ chain'[i] = chain[i - 1]
      BY <1>4, <2>3
    <3>2. chain[i - 1] \in Table /\ chain[i - 1] # table
      BY <1>1, <1>2, <3>1, ElementOfSeq
    <3>3. next'[chain'[i]] = At((i - 1) + 1)
      BY <1>5, <3>1, <3>2 DEF IInv, Linked
    <3>4. At(i + 1)' = At(i)
      <4>1. CASE i <= Len(chain)
        BY <1>2, <1>3, <4>1 DEF At
      <4>2. CASE i > Len(chain)
        BY <1>2, <1>3, <4>2 DEF At
      <4> QED  BY <1>2, <4>1, <4>2
    <3> QED  BY <3>3, <3>4
  <2> QED  BY <2>2, <2>3
<1>8. Distinct'
  <2> SUFFICES ASSUME NEW i \in 1 .. Len(chain'), NEW j \in 1 .. Len(chain'), i # j
               PROVE  chain'[i] # chain'[j] /\ ~Clashes(chain'[i], chain'[j])
    BY DEF Distinct, Clashes, Names
  <2>1. CASE i = 1
    BY <1>1, <1>3, <1>4, <2>1
  <2>2. CASE j = 1
    BY <1>1, <1>3, <1>4, <2>2
  <2>3. CASE i # 1 /\ j # 1
    <3>1. /\ i - 1 \in 1 .. Len(chain) /\ chain'[i] = chain[i - 1]
          /\ j - 1 \in 1 .. Len(chain) /\ chain'[j] = chain[j - 1]
      BY <1>4, <2>3
    <3>2. i - 1 # j - 1
      OBVIOUS
    <3> QED  BY <3>1, <3>2 DEF IInv, Distinct
  <2> QED  BY <2>1, <2>2, <2>3
<1>9. AllChecked'
  <2> SUFFICES ASSUME NEW i \in 1 .. Len(chain') PROVE CheckTable(chain'[i])
    BY DEF AllChecked, CheckTable, Names
  <2> QED  BY <1>1, <1>3, <1>4 DEF IInv, AllChecked
<1>10. ListedInv' /\ CrossInv' /\ FindInv'
  BY DEF Link, Registered, Return, ListedInv, CrossInv, FindInv
<1> QED  BY <1>6, <1>7, <1>8, <1>9, <1>10 DEF IInv

\* Every step preserves the invariant.
LEMMA StepIInv == IInv /\ [Next]_vars => IInv'
<1> SUFFICES ASSUME IInv, [Next]_vars PROVE IInv'
  OBVIOUS
<1>1. CASE UNCHANGED vars
  <2>1. TypeOK'
    BY <1>1 DEF vars, IInv, TypeOK
  <2>2. Linked' /\ Distinct' /\ AllChecked'
    BY <1>1, ListUntouched DEF vars
  <2>3. ListedInv' /\ CrossInv' /\ FindInv'
    BY <1>1 DEF vars, IInv, ListedInv, CrossInv, FindInv, At
  <2> QED  BY <2>1, <2>2, <2>3 DEF IInv
<1>2. CASE Reset
  BY <1>2, ResetIInv
<1>3. ASSUME NEW t \in Table, Register(t) PROVE IInv'
  BY <1>3, RegisterIInv
<1>4. ASSUME NEW t \in Table, RegisterMalformed(t) PROVE IInv'
  BY <1>4, ReturnIInv DEF RegisterMalformed, Registered, Return
<1>5. CASE ListedNext
  BY <1>5, ListedNextIInv
<1>6. CASE ListedFound
  BY <1>6, ReturnIInv DEF ListedFound, Registered, Return
<1>7. CASE ListedEnd
  BY <1>7, ListedEndIInv
<1>8. CASE CrossNext
  BY <1>8, CrossNextIInv
<1>9. CASE CrossFound
  BY <1>9, ReturnIInv DEF CrossFound, Registered, Return
<1>10. CASE Link
  BY <1>10, LinkIInv
<1>11. ASSUME NEW n \in Name, FindStart(n) PROVE IInv'
  BY <1>11, FindStartIInv
<1>12. CASE FindNext
  BY <1>12, FindNextIInv
<1>13. CASE FindFound
  BY <1>13, ReturnIInv DEF FindFound, Return
<1>14. CASE FindEnd
  BY <1>14, ReturnIInv DEF FindEnd, Return
<1> QED
  BY <1>1, <1>2, <1>3, <1>4, <1>5, <1>6, <1>7, <1>8, <1>9, <1>10, <1>11, <1>12,
     <1>13, <1>14 DEF Next, Step

\* For every set of tables the dictionary stays a list without repetition in which
\* no two tables share a name (lw_at_cmd_dict.c:118-134).
THEOREM DictSafe == Spec => []IInv
<1> QED  BY InitIInv, StepIInv, PTL DEF Spec
-----------------------------------------------------------------------------
(* The list implements the name map. *)

\* A list without shared names gives each name one owner.
LEMMA OwnerIs ==
  ASSUME NEW c \in Seq(Table),
         \A i, j \in 1 .. Len(c) : i # j => ~Clashes(c[i], c[j]),
         NEW k \in 1 .. Len(c), NEW n \in Names(c[k])
  PROVE  OwnerIn(c, n) = c[k]
<1> DEFINE P(t) == (\E i \in 1 .. Len(c) : c[i] = t) /\ n \in Names(t)
<1>1. c[k] \in Table /\ P(c[k])
  BY ElementOfSeq
<1>2. ASSUME NEW t \in Table, P(t) PROVE t = c[k]
  <2>1. PICK i \in 1 .. Len(c) : c[i] = t
    BY <1>2
  <2>2. CASE i = k
    BY <2>1, <2>2
  <2>3. CASE i # k
    BY <1>2, <2>1, <2>3 DEF Clashes
  <2> QED  BY <2>2, <2>3
<1>3. OwnerIn(c, n) = CHOOSE t \in Table : P(t)
  BY DEF OwnerIn
<1> HIDE DEF P
<1> QED  BY <1>1, <1>2, <1>3

\* In a table without double names the first entry of a name is the only one.
LEMMA FirstEntryIs ==
  ASSUME NEW t \in Table, CheckTable(t), NEW n \in Names(t)
  PROVE  FirstEntry(t, n) = CHOOSE k \in DOMAIN Cmds[t] : Cmds[t][k] = n
<1>1. PICK i \in DOMAIN Cmds[t] : Cmds[t][i] = n
  BY DEF Names
<1>2. \A j \in DOMAIN Cmds[t] : Cmds[t][j] = n => j = i
  BY <1>1 DEF CheckTable
<1>3. Cmds[t] \in Seq(Name \cup {Nil}) /\ i \in 1 .. Len(Cmds[t])
  BY <1>1, CmdsAssumption
<1>4. \A j \in 1 .. i - 1 : j \in DOMAIN Cmds[t] /\ j # i
  BY <1>3
<1> DEFINE F(k) == Cmds[t][k] = n /\ \A j \in 1 .. k - 1 : Cmds[t][j] # n
<1>5. F(i) /\ \A k \in DOMAIN Cmds[t] : F(k) => k = i
  BY <1>1, <1>2, <1>4
<1>6. (CHOOSE k \in DOMAIN Cmds[t] : F(k)) = i
  <2> HIDE DEF F
  <2> QED  BY <1>1, <1>5
<1>7. (CHOOSE k \in DOMAIN Cmds[t] : Cmds[t][k] = n) = i
  BY <1>1, <1>2
<1> QED  BY <1>6, <1>7 DEF FirstEntry

\* The names of a list are those of its tables.
LEMMA NamesListed ==
  ASSUME NEW c \in Seq(Table), NEW k \in 1 .. Len(c), CheckTable(c[k])
  PROVE  /\ Names(c[k]) # {} /\ Names(c[k]) \subseteq ListedIn(c)
         /\ DOMAIN MapOf(c) = ListedIn(c)
<1>1. c[k] \in Table
  BY ElementOfSeq
<1>2. Names(c[k]) \subseteq Name
  BY <1>1, NamesAreNames DEF CheckTable
<1>3. Cmds[c[k]] \in Seq(Name \cup {Nil}) /\ Cmds[c[k]] # <<>>
  BY <1>1, CmdsAssumption DEF CheckTable
<1>4. 1 \in DOMAIN Cmds[c[k]]
  BY <1>3
<1>5. Names(c[k]) # {}
  BY <1>4 DEF Names
<1> QED  BY <1>2, <1>5 DEF ListedIn, MapOf

LEMMA InitNameMap == Init => NM!Init
<1> SUFFICES ASSUME Init PROVE NM!Init
  OBVIOUS
<1>1. chain = <<>> /\ Len(chain) = 0
  BY DEF Init
<1>2. ListedIn(chain) = {}
  BY <1>1 DEF ListedIn
<1>3. MapOf(chain) = [n \in {} |-> Nil]
  BY <1>2 DEF MapOf
<1> QED  BY <1>3 DEF Init, NM!Init

\* Reset empties the map.
LEMMA ResetClears == Reset => NM!Clear
<1> SUFFICES ASSUME Reset PROVE NM!Clear
  OBVIOUS
<1>1. chain' = <<>> /\ Len(chain') = 0
  BY DEF Reset
<1>2. ListedIn(chain') = {}
  BY <1>1 DEF ListedIn
<1>3. MapOf(chain') = [n \in {} |-> Nil]
  BY <1>2 DEF MapOf
<1>4. MapOf(chain)' = MapOf(chain')
  OBVIOUS
<1> QED  BY <1>3, <1>4 DEF Reset, NM!Clear

\* What the invariant says of the list as a sequence.
LEMMA ListFacts ==
  ASSUME IInv
  PROVE  /\ chain \in Seq(Table) /\ Len(chain) \in Nat
         /\ \A i, j \in 1 .. Len(chain) : i # j => ~Clashes(chain[i], chain[j])
         /\ \A i \in 1 .. Len(chain) : chain[i] \in Table /\ CheckTable(chain[i])
<1>1. chain \in Seq(Table) /\ Len(chain) \in Nat
  BY LenProperties DEF IInv, TypeOK
<1> QED  BY <1>1, ElementOfSeq DEF IInv, Distinct, AllChecked

\* The map's value at a name of the k-th table.
LEMMA MapValue ==
  ASSUME IInv, NEW k \in 1 .. Len(chain), NEW n \in Names(chain[k])
  PROVE  /\ n \in DOMAIN MapOf(chain)
         /\ MapOf(chain)[n] = <<chain[k], FirstEntry(chain[k], n)>>
         /\ MapOf(chain)[n][1] = chain[k]
<1>1. OwnerIn(chain, n) = chain[k]
  BY ListFacts, OwnerIs
<1>2. FirstEntry(chain[k], n) =
        CHOOSE j \in DOMAIN Cmds[chain[k]] : Cmds[chain[k]][j] = n
  BY ListFacts, FirstEntryIs
<1>3. n \in ListedIn(chain) /\ DOMAIN MapOf(chain) = ListedIn(chain)
  BY ListFacts, NamesListed
<1>4. MapOf(chain)[n] = EntryIn(chain, n)
  BY <1>3 DEF MapOf
<1>5. EntryIn(chain, n) = <<chain[k], FirstEntry(chain[k], n)>>
  BY <1>1, <1>2 DEF EntryIn
<1> QED  BY <1>3, <1>4, <1>5

\* Conversely, every name of the map is one of some table of the list.
LEMMA MapDomain ==
  ASSUME NEW n \in DOMAIN MapOf(chain)
  PROVE  \E k \in 1 .. Len(chain) : n \in Names(chain[k])
BY DEF MapOf, ListedIn
LEMMA MalformedRefused ==
  ASSUME NEW t \in Table, RegisterMalformed(t)
  PROVE  NM!Refuse(t)
<1>1. ~NM!WellFormed(t)
  BY DEF RegisterMalformed, CheckTable, Names, NM!WellFormed, NM!Names
<1>2. result' = <<"registered", t, "PARAM">> /\ MapOf(chain)' = MapOf(chain)
  BY DEF RegisterMalformed, Registered, Return
<1> QED  BY <1>1, <1>2 DEF NM!Refuse

LEMMA ListedFoundRefused == IInv /\ ListedFound => NM!Refuse(table)
<1> SUFFICES ASSUME IInv, ListedFound PROVE NM!Refuse(table)
  OBVIOUS
<1>1. PICK k \in 1 .. Len(chain) + 1 : node = At(k)
  BY DEF ListedFound, IInv, ListedInv
<1>2. table \in Table /\ node # Nil
  BY NilAssumption DEF ListedFound, IInv, TypeOK
<1>3. k \in 1 .. Len(chain) /\ node = chain[k]
  BY <1>1, <1>2, NextNode
<1>4. Names(chain[k]) # {}
  BY <1>3, ListFacts, NamesListed
<1>5. \E n \in DOMAIN MapOf(chain) : MapOf(chain)[n][1] = table
  BY <1>3, <1>4, MapValue DEF ListedFound
<1>6. result' = <<"registered", table, "STATE">> /\ MapOf(chain)' = MapOf(chain)
  BY DEF ListedFound, Registered, Return
<1> QED  BY <1>5, <1>6 DEF NM!Refuse

LEMMA CrossFoundRefused == IInv /\ CrossFound => NM!Refuse(table)
<1> SUFFICES ASSUME IInv, CrossFound PROVE NM!Refuse(table)
  OBVIOUS
<1>1. PICK k \in 1 .. Len(chain) + 1 : node = At(k)
  BY DEF CrossFound, IInv, CrossInv
<1>2. k \in 1 .. Len(chain) /\ node = chain[k]
  BY <1>1, NextNode DEF CrossFound
<1>3. Names(table) \cap DOMAIN MapOf(chain) # {}
  <2>1. PICK n \in Names(table) : n \in Names(chain[k])
    BY <1>2 DEF CrossFound, Clashes
  <2> QED  BY <1>2, <2>1, MapValue
<1>4. \A n \in DOMAIN MapOf(chain) : MapOf(chain)[n][1] # table
  <2> SUFFICES ASSUME NEW n \in DOMAIN MapOf(chain)
               PROVE  MapOf(chain)[n][1] # table
    OBVIOUS
  <2>1. PICK j \in 1 .. Len(chain) : n \in Names(chain[j])
    BY MapDomain
  <2>2. chain[j] # table
    BY DEF CrossFound, IInv, CrossInv
  <2> QED  BY <2>1, <2>2, MapValue
<1>5. result' = <<"registered", table, "PARAM">> /\ MapOf(chain)' = MapOf(chain)
  BY DEF CrossFound, Registered, Return
<1>6. NM!Names(table) = Names(table)
  BY DEF Names, NM!Names
<1> QED  BY <1>3, <1>4, <1>5, <1>6 DEF NM!Refuse

LEMMA LinkAdds == IInv /\ IInv' /\ Link => NM!Add(table)
<1> SUFFICES ASSUME IInv, IInv', Link PROVE NM!Add(table)
  OBVIOUS
<1> DEFINE c == <<table>> \o chain
<1>1. /\ table \in Table /\ CheckTable(table)
      /\ \A i \in 1 .. Len(chain) : chain[i] # table /\ ~Clashes(table, chain[i])
  BY Unclashed DEF Link
<1>2. /\ c \in Seq(Table) /\ Len(c) = Len(chain) + 1 /\ c[1] = table
      /\ \A i \in 1 .. Len(chain) : c[i + 1] = chain[i]
  BY <1>1, ListFacts, Prepended
<1>3. chain' = c
  BY DEF Link
<1> HIDE DEF c
<1>4. \A i, j \in 1 .. Len(c) : i # j => ~Clashes(c[i], c[j])
  BY <1>3 DEF IInv, Distinct
<1>5. \A i \in 1 .. Len(c) : CheckTable(c[i])
  BY <1>3 DEF IInv, AllChecked
<1>6. \A i \in 1 .. Len(chain) : i + 1 \in 1 .. Len(c)
  BY <1>2, ListFacts
<1>7. 1 \in 1 .. Len(c)
  BY <1>2, ListFacts
<1>8. Names(table) \cap DOMAIN MapOf(chain) = {}
  <2> SUFFICES ASSUME NEW n \in Names(table), n \in DOMAIN MapOf(chain) PROVE FALSE
    OBVIOUS
  <2>1. PICK j \in 1 .. Len(chain) : n \in Names(chain[j])
    BY MapDomain
  <2> QED  BY <1>1, <2>1 DEF Clashes
<1>9. ListedIn(c) = ListedIn(chain) \cup Names(table)
  <2>1. Names(table) \subseteq ListedIn(c)
    BY <1>2, <1>5, <1>7, NamesListed
  <2>2. ListedIn(chain) \subseteq ListedIn(c)
    BY <1>2, <1>6 DEF ListedIn
  <2>3. ASSUME NEW n \in ListedIn(c), n \notin Names(table) PROVE n \in ListedIn(chain)
    <3>1. PICK i \in 1 .. Len(c) : n \in Names(c[i])
      BY DEF ListedIn
    <3>2. i # 1
      BY <1>2, <2>3, <3>1
    <3>3. i - 1 \in 1 .. Len(chain) /\ (i - 1) + 1 = i
      BY <1>2, <3>2, ListFacts
    <3>4. c[i] = chain[i - 1]
      BY <1>2, <3>3
    <3> QED  BY <3>1, <3>3, <3>4 DEF ListedIn
  <2> QED  BY <2>1, <2>2, <2>3
<1>10. ASSUME NEW n \in Names(table)
       PROVE  MapOf(c)[n] = NM!Entry(table, n)
  <2>1. OwnerIn(c, n) = table
    BY <1>2, <1>4, <1>7, OwnerIs
  <2>2. MapOf(c)[n] = EntryIn(c, n)
    BY <1>9 DEF MapOf
  <2> QED  BY <2>1, <2>2 DEF EntryIn, NM!Entry
<1>11. ASSUME NEW n \in ListedIn(chain)
       PROVE  MapOf(c)[n] = MapOf(chain)[n]
  <2>1. PICK k \in 1 .. Len(chain) : n \in Names(chain[k])
    BY DEF ListedIn
  <2>2. OwnerIn(chain, n) = chain[k]
    BY <2>1, ListFacts, OwnerIs
  <2>3. OwnerIn(c, n) = chain[k]
    <3>1. n \in Names(c[k + 1]) /\ k + 1 \in 1 .. Len(c) /\ c[k + 1] = chain[k]
      BY <1>2, <1>6, <2>1
    <3>2. OwnerIn(c, n) = c[k + 1]
      BY <1>2, <1>4, <3>1, OwnerIs
    <3> QED  BY <3>1, <3>2
  <2>4. EntryIn(c, n) = EntryIn(chain, n)
    BY <2>2, <2>3 DEF EntryIn
  <2> QED  BY <1>9, <2>4 DEF MapOf
<1>12. DOMAIN MapOf(chain) = ListedIn(chain) /\ DOMAIN MapOf(c) = ListedIn(c)
  BY DEF MapOf
<1>13. MapOf(c) = [n \in ListedIn(c) |-> MapOf(c)[n]]
  BY DEF MapOf
<1>14. NM!Names(table) = Names(table)
  BY DEF Names, NM!Names
<1> DEFINE added == [n \in DOMAIN MapOf(chain) \cup Names(table) |->
                      IF n \in Names(table) THEN NM!Entry(table, n) ELSE MapOf(chain)[n]]
<1>15. MapOf(c) = added
  <2>1. DOMAIN added = ListedIn(c)
    BY <1>9, <1>12
  <2>2. ASSUME NEW n \in ListedIn(c) PROVE MapOf(c)[n] = added[n]
    <3>1. CASE n \in Names(table)
      BY <1>9, <1>10, <1>12, <3>1
    <3>2. CASE n \notin Names(table)
      BY <1>9, <1>11, <1>12, <3>2
    <3> QED  BY <3>1, <3>2
  <2>3. added = [n \in ListedIn(c) |-> added[n]]
    BY <1>9, <1>12
  <2> HIDE DEF added
  <2> QED  BY <1>13, <2>2, <2>3
<1>16. MapOf(chain)' = added
  BY <1>3, <1>15
<1>17. NM!WellFormed(table)
  BY <1>1 DEF CheckTable, Names, NM!WellFormed, NM!Names
<1>18. result' = <<"registered", table, "OK">>
  BY DEF Link, Registered, Return
<1> QED  BY <1>8, <1>14, <1>16, <1>17, <1>18 DEF NM!Add

LEMMA FindFoundFinds == IInv /\ FindFound => NM!Find(name)
<1> SUFFICES ASSUME IInv, FindFound PROVE NM!Find(name)
  OBVIOUS
<1>1. PICK k \in 1 .. Len(chain) + 1 : node = At(k)
  BY DEF FindFound, IInv, FindInv
<1>2. k \in 1 .. Len(chain) /\ node = chain[k]
  BY <1>1, NextNode DEF FindFound
<1>3. name \in DOMAIN MapOf(chain) /\ MapOf(chain)[name] = <<node, FirstEntry(node, name)>>
  BY <1>2, MapValue DEF FindFound
<1>4. /\ result' = <<"found", name, <<node, FirstEntry(node, name)>>>>
      /\ MapOf(chain)' = MapOf(chain)
  BY DEF FindFound, Return
<1> QED  BY <1>3, <1>4 DEF NM!Find

LEMMA FindEndFinds == IInv /\ FindEnd => NM!Find(name)
<1> SUFFICES ASSUME IInv, FindEnd PROVE NM!Find(name)
  OBVIOUS
<1>1. PICK k \in 1 .. Len(chain) + 1 :
        node = At(k) /\ \A j \in 1 .. k - 1 : name \notin Names(chain[j])
  BY DEF FindEnd, IInv, FindInv
<1>2. \A i \in 1 .. Len(chain) : name \notin Names(chain[i])
  BY <1>1, EndOfList DEF FindEnd
<1>3. name \notin DOMAIN MapOf(chain)
  BY <1>2, MapDomain
<1>4. result' = <<"found", name, Nil>> /\ MapOf(chain)' = MapOf(chain)
  BY DEF FindEnd, Return
<1> QED  BY <1>3, <1>4 DEF NM!Find

\* The steps inside a loop change neither the map nor the last result.
LEMMA LoopStutters ==
  ASSUME UNCHANGED <<chain, result>>
  PROVE  UNCHANGED NM!vars
BY DEF NM!vars

LEMMA StepNameMap == IInv /\ IInv' /\ [Next]_vars => [NM!Next]_(NM!vars)
<1> SUFFICES ASSUME IInv, IInv', [Next]_vars PROVE [NM!Next]_(NM!vars)
  OBVIOUS
<1>1. CASE UNCHANGED vars
  BY <1>1, LoopStutters DEF vars
<1>2. CASE Reset
  BY <1>2, ResetClears DEF NM!Next
<1>3. ASSUME NEW t \in Table, Register(t) PROVE UNCHANGED NM!vars
  BY <1>3, LoopStutters DEF Register
<1>4. ASSUME NEW t \in Table, RegisterMalformed(t) PROVE NM!Next
  BY <1>4, MalformedRefused DEF NM!Next
<1>5. CASE ListedNext \/ ListedEnd \/ CrossNext \/ FindNext
  BY <1>5, LoopStutters DEF ListedNext, ListedEnd, CrossNext, FindNext, Advance
<1>6. CASE ListedFound
  BY <1>6, ListedFoundRefused DEF NM!Next, ListedFound, IInv, TypeOK
<1>7. CASE CrossFound
  BY <1>7, CrossFoundRefused DEF NM!Next, CrossFound, IInv, TypeOK
<1>8. CASE Link
  BY <1>8, LinkAdds DEF NM!Next, Link, IInv, TypeOK
<1>9. ASSUME NEW n \in Name, FindStart(n) PROVE UNCHANGED NM!vars
  BY <1>9, LoopStutters DEF FindStart
<1>10. CASE FindFound
  BY <1>10, FindFoundFinds DEF NM!Next, FindFound, IInv, TypeOK
<1>11. CASE FindEnd
  BY <1>11, FindEndFinds DEF NM!Next, FindEnd, IInv, TypeOK
<1> QED
  BY <1>1, <1>2, <1>3, <1>4, <1>5, <1>6, <1>7, <1>8, <1>9, <1>10, <1>11 DEF Next, Step

\* The linked list implements the name map: register takes a table whole or has no
\* effect, and find returns the one entry of its name (lw_at_cmd_dict.c:118-158).
THEOREM DictImplementsNameMap == Spec => ImplementsNameMap
<1> QED
  BY InitNameMap, StepNameMap, DictSafe, PTL DEF Spec, ImplementsNameMap, NM!Spec
=============================================================================
