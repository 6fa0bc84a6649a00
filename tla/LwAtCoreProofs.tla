--------------------------- MODULE LwAtCoreProofs ---------------------------
(***************************************************************************)
(* Proofs about the core for every ring and line size, every handler and   *)
(* every set of segments.                                                  *)
(***************************************************************************)
EXTENDS LwAtCore, SequenceTheorems, TLAPS

StreamT == [q : Seq(Cell), tail : 0 .. Size - 1, overflow : {0, 1}, pending : {0, 1}]
AtT == [mode : {"COMMAND", "DATA"}, sess : Sessions, data_got : Nat,
        enter_req : {0, 1}, exit_req : {0, 1}, exit_mark : 0 .. Size - 1,
        silent : {0, 1}, plus_cnt : 0 .. 3, guard_ms : {0, 1}]
MainT == [pc : Points, caller : {"process", "api", "handler"}, chunk : Nat,
          mark : 0 .. Size - 1, flag : {0, 1}, rc : {"OK", "ERROR", "DONE"}]
HistT == [feeds : 0 .. MaxFeeds, quiet : BOOLEAN, lead : BOOLEAN, burst : 0 .. 4]

StreamOK == stream \in StreamT /\ Len(stream.q) < Size
AtOK     == at \in AtT
MainOK   == main \in MainT
RestOK   == /\ timer \in {"off", "idle", "guard"}
            /\ out \in [k : {"none", "OK", "ERROR", "prompt"}, n : {0, 1}]
            /\ hist \in HistT

LEMMA TypeParts == TypeOK <=> StreamOK /\ AtOK /\ MainOK /\ RestOK
BY DEF TypeOK, StreamOK, AtOK, MainOK, RestOK, StreamT, AtT, MainT, HistT

-----------------------------------------------------------------------------
(* The ring *)

LEMMA HeadIdxType ==
  ASSUME NEW s \in StreamT PROVE HeadIdx(s) \in 0 .. Size - 1
<1> DEFINE a == s.tail + Len(s.q)
<1>1. s.q \in Seq(Cell) /\ s.tail \in 0 .. Size - 1
  BY DEF StreamT
<1>2. Len(s.q) \in Nat
  BY <1>1, LenProperties
<1>3. a \in Int
  BY <1>1, <1>2, SizeAssumption
<1> HIDE DEF a
<1>4. a % Size \in 0 .. Size - 1
  BY <1>3, SizeAssumption
<1> QED BY <1>4 DEF HeadIdx, a

LEMMA Min2Type ==
  ASSUME NEW a \in Nat, NEW b \in Nat
  PROVE  Min2(a, b) \in Nat /\ Min2(a, b) <= a /\ Min2(a, b) <= b
BY DEF Min2

LEMMA StreamFields ==
  ASSUME NEW s \in StreamT
  PROVE  /\ s.q \in Seq(Cell) /\ Len(s.q) \in Nat
         /\ s.tail \in 0 .. Size - 1 /\ s.overflow \in {0, 1} /\ s.pending \in {0, 1}
<1>1. s.q \in Seq(Cell)
  BY DEF StreamT
<1>2. Len(s.q) \in Nat
  BY <1>1, LenProperties
<1> QED BY <1>1, <1>2 DEF StreamT

LEMMA StoredType ==
  ASSUME NEW s \in StreamT, Len(s.q) < Size, NEW cells \in Seq(Cell)
  PROVE  Stored(s, cells) \in StreamT /\ Len(Stored(s, cells).q) < Size
<1> DEFINE n == Min2(Len(cells), Size - 1 - Len(s.q))
           u == SubSeq(cells, 1, n)
           o == IF n < Len(cells) THEN 1 ELSE s.overflow
<1>1. s.q \in Seq(Cell) /\ Len(s.q) \in Nat /\ Len(cells) \in Nat
  BY StreamFields, LenProperties
<1>2. n \in Nat /\ n <= Len(cells) /\ n <= Size - 1 - Len(s.q)
  <2>1. Size - 1 - Len(s.q) \in Nat
    BY <1>1, SizeAssumption
  <2> QED BY <1>1, <2>1, Min2Type
<1>3. \A i \in 1 .. n : cells[i] \in Cell
  BY <1>1, <1>2, ElementOfSeq
<1>4. Stored(s, cells) = [s EXCEPT !.q = s.q \o u, !.overflow = o]
  BY DEF Stored
<1> HIDE DEF n
<1>5. u \in Seq(Cell) /\ Len(u) = n
  BY <1>2, <1>3, SubSeqProperties
<1>6. o \in {0, 1}
  BY StreamFields
<1> HIDE DEF u, o
<1>7. s.q \o u \in Seq(Cell) /\ Len(s.q \o u) = Len(s.q) + n
  BY <1>1, <1>5, ConcatProperties, Zenon
<1> DEFINE w == s.q \o u
<1>8. w \in Seq(Cell) /\ Stored(s, cells) = [s EXCEPT !.q = w, !.overflow = o]
  BY <1>4, <1>7
<1> HIDE DEF w
<1>9. Stored(s, cells) \in StreamT /\ Stored(s, cells).q = w
  BY <1>6, <1>8 DEF StreamT
<1>10. Len(w) < Size
  BY <1>1, <1>2, <1>7, SizeAssumption DEF w
<1> QED BY <1>9, <1>10

LEMMA ConsumedType ==
  ASSUME NEW s \in StreamT, Len(s.q) < Size, NEW n \in Nat
  PROVE  Consumed(s, n) \in StreamT /\ Len(Consumed(s, n).q) < Size
<1> DEFINE u == SubSeq(s.q, n + 1, Len(s.q))
<1>1. s.q \in Seq(Cell) /\ Len(s.q) \in Nat
  BY LenProperties DEF StreamT
<1>2. \A i \in n + 1 .. Len(s.q) : s.q[i] \in Cell
  BY <1>1, ElementOfSeq
<1>3. u \in Seq(Cell) /\ Len(u) = IF n + 1 <= Len(s.q) THEN Len(s.q) - (n + 1) + 1 ELSE 0
  <2> DEFINE q == s.q
             a == n + 1
             z == Len(s.q)
  <2>1. a \in Int /\ z \in Int /\ \A i \in a .. z : q[i] \in Cell
    BY <1>1, <1>2
  <2> HIDE DEF a, z, q
  <2>2. SubSeq(q, a, z) \in Seq(Cell) /\ Len(SubSeq(q, a, z)) = IF a <= z THEN z - a + 1 ELSE 0
    BY <2>1, SubSeqProperties
  <2> QED BY <2>2 DEF a, z, q
<1> HIDE DEF u
<1>4. Consumed(s, n) = [s EXCEPT !.q = u, !.tail = (s.tail + n) % Size]
  BY DEF Consumed, u
<1>5. (s.tail + n) % Size \in 0 .. Size - 1
  BY SizeAssumption DEF StreamT
<1>6. Consumed(s, n) \in StreamT /\ Consumed(s, n).q = u
  BY <1>3, <1>4, <1>5 DEF StreamT
<1> QED BY <1>1, <1>3, <1>6, SizeAssumption

\* Segments and the '+' given back, as cells.
LEMMA CellsType ==
  ASSUME NEW n \in Nat, NEW b \in [1 .. n -> Token],
         NEW c \in [1 .. n -> {"cmd", "data", "late"}]
  PROVE  [k \in 1 .. n |-> [b |-> b[k], cls |-> c[k]]] \in Seq(Cell)
<1>1. [k \in 1 .. n |-> [b |-> b[k], cls |-> c[k]]] \in [1 .. n -> Cell]
  BY DEF Cell
<1> DEFINE f == [k \in 1 .. n |-> [b |-> b[k], cls |-> c[k]]]
<1>2. f \in [1 .. n -> Cell]
  BY <1>1
<1> HIDE DEF f
<1>3. f \in UNION {[1 .. m -> Cell] : m \in Nat}
  BY <1>2
<1>4. f \in Seq(Cell)
  BY <1>3, SeqDef, Zenon
<1> QED BY <1>4 DEF f

LEMMA SegmentType ==
  ASSUME NEW seg \in Segments
  PROVE  seg \in Seq(Token) /\ Len(seg) \in Nat /\ Len(seg) > 0
         /\ \A k \in 1 .. Len(seg) : seg[k] \in Token
<1>1. seg \in Seq(Token) /\ seg # <<>>
  BY SegmentsAssumption
<1> QED BY <1>1, EmptySeq, LenProperties, ElementOfSeq

LEMMA PutType ==
  ASSUME NEW s \in StreamT, Len(s.q) < Size, NEW seg \in Seq(Token)
  PROVE  Put(s, seg) \in StreamT /\ Len(Put(s, seg).q) < Size
<1> DEFINE c == [k \in 1 .. Len(seg) |-> Class(Len(s.q) + k)]
           cells == [k \in 1 .. Len(seg) |-> [b |-> seg[k], cls |-> Class(Len(s.q) + k)]]
<1>1. Len(seg) \in Nat /\ seg \in [1 .. Len(seg) -> Token]
  BY LenProperties
<1>2. c \in [1 .. Len(seg) -> {"cmd", "data", "late"}]
  BY DEF Class
<1>3. cells = [k \in 1 .. Len(seg) |-> [b |-> seg[k], cls |-> c[k]]]
  OBVIOUS
<1> HIDE DEF c
<1>4. [k \in 1 .. Len(seg) |-> [b |-> seg[k], cls |-> c[k]]] \in Seq(Cell)
  BY <1>1, <1>2, CellsType
<1>5. cells \in Seq(Cell)
  BY <1>3, <1>4, Zenon
<1> HIDE DEF cells
<1> QED BY <1>5, StoredType DEF Put, cells

LEMMA PlusesType ==
  ASSUME NEW n \in Nat PROVE Pluses(n) \in Seq(Token)
<1> DEFINE f == [k \in 1 .. n |-> Plus]
<1>1. f \in [1 .. n -> Token]
  BY TokenAssumption
<1> HIDE DEF f
<1>2. f \in UNION {[1 .. m -> Token] : m \in Nat}
  BY <1>1
<1>3. f \in Seq(Token)
  BY <1>2, SeqDef, Zenon
<1> QED BY <1>3 DEF f, Pluses

LEMMA LateCellsType ==
  ASSUME NEW seg \in Segments
  PROVE  [k \in 1 .. Len(seg) |-> [b |-> seg[k], cls |-> "late"]] \in Seq(Cell)
<1> DEFINE c == [k \in 1 .. Len(seg) |-> "late"]
           cells == [k \in 1 .. Len(seg) |-> [b |-> seg[k], cls |-> c[k]]]
<1>1. c \in [1 .. Len(seg) -> {"cmd", "data", "late"}]
  OBVIOUS
<1>2. Len(seg) \in Nat /\ seg \in [1 .. Len(seg) -> Token]
  BY SegmentType, LenProperties
<1>3. cells = [k \in 1 .. Len(seg) |-> [b |-> seg[k], cls |-> "late"]]
  OBVIOUS
<1> HIDE DEF c
<1>4. cells \in Seq(Cell)
  BY <1>1, <1>2, CellsType
<1> QED BY <1>3, <1>4, Zenon

-----------------------------------------------------------------------------
(* The '+' that a segment adds to those held *)

\* As many as fit: up to the first other byte, up to three in all.
LEMMA LeadingPlusesExact ==
  ASSUME NEW seg \in Segments, NEW held \in 0 .. 3
  PROVE  LET n == LeadingPluses(seg, held)
             m == Min2(Len(seg), 3 - held)
         IN  /\ n \in 0 .. m
             /\ \A k \in 1 .. n : seg[k] = Plus
             /\ n < m => seg[n + 1] # Plus
<1> DEFINE m == Min2(Len(seg), 3 - held)
           P(n) == /\ \A k \in 1 .. n : seg[k] = Plus
                   /\ n < m => seg[n + 1] # Plus
<1>1. m \in 0 .. 3
  <2> DEFINE b == 3 - held
  <2>1. Len(seg) \in Nat /\ b \in Nat /\ b <= 3
    BY SegmentType
  <2> HIDE DEF b
  <2>2. Min2(Len(seg), b) \in Nat /\ Min2(Len(seg), b) <= b
    BY <2>1, Min2Type
  <2> QED BY <2>1, <2>2 DEF m, b
<1> HIDE DEF m
<1>2. \E n \in 0 .. m : P(n)
  <2>1. CASE m = 0 \/ seg[1] # Plus
    <3>1. 0 \in 0 .. m /\ P(0)
      BY <1>1, <2>1
    <3> QED BY <3>1
  <2>2. CASE m > 0 /\ seg[1] = Plus /\ (m = 1 \/ seg[2] # Plus)
    <3>1. 1 \in 0 .. m /\ P(1)
      BY <1>1, <2>2
    <3> QED BY <3>1
  <2>3. CASE m > 1 /\ seg[1] = Plus /\ seg[2] = Plus /\ (m = 2 \/ seg[3] # Plus)
    <3>1. 2 \in 0 .. m /\ P(2)
      BY <1>1, <2>3
    <3> QED BY <3>1
  <2>4. CASE m = 3 /\ seg[1] = Plus /\ seg[2] = Plus /\ seg[3] = Plus
    <3>1. 3 \in 0 .. m /\ P(3)
      BY <1>1, <2>4
    <3> QED BY <3>1
  <2> QED BY <1>1, <2>1, <2>2, <2>3, <2>4
<1>3. LeadingPluses(seg, held) = CHOOSE n \in 0 .. m : P(n)
  BY DEF LeadingPluses, m
<1> HIDE DEF P
<1>4. LeadingPluses(seg, held) \in 0 .. m /\ P(LeadingPluses(seg, held))
  BY <1>2, <1>3, Zenon
<1> QED BY <1>4 DEF P, m

AllPlus(seg) == \A k \in 1 .. Len(seg) : seg[k] = Plus

\* The whole segment is held exactly if it is nothing but '+' and there is room for it.
LEMMA WholeSegmentHeld ==
  ASSUME NEW seg \in Segments, NEW held \in 0 .. 3
  PROVE  /\ LeadingPluses(seg, held) \in 0 .. 3 - held
         /\ LeadingPluses(seg, held) = Len(seg)
              <=> AllPlus(seg) /\ held + Len(seg) <= 3
<1> DEFINE n == LeadingPluses(seg, held)
           m == Min2(Len(seg), 3 - held)
<1>1. /\ n \in 0 .. m /\ \A k \in 1 .. n : seg[k] = Plus
      /\ n < m => seg[n + 1] # Plus
  BY LeadingPlusesExact
<1>2. Len(seg) \in Nat /\ 3 - held \in Nat
  BY SegmentType
<1>3. m \in Nat /\ m <= Len(seg) /\ m <= 3 - held /\ (Len(seg) <= 3 - held => m = Len(seg))
  BY <1>2 DEF Min2
<1> HIDE DEF n, m
<1>4. n \in 0 .. 3 - held
  BY <1>1, <1>2, <1>3
<1>5. n = Len(seg) => AllPlus(seg) /\ held + Len(seg) <= 3
  BY <1>1, <1>2, <1>3 DEF AllPlus
<1>6. AllPlus(seg) /\ held + Len(seg) <= 3 => n = Len(seg)
  BY <1>1, <1>2, <1>3 DEF AllPlus
<1> QED BY <1>4, <1>5, <1>6 DEF n

-----------------------------------------------------------------------------
(* Type correctness *)

LEMMA InitTypeOK == Init => TypeOK
<1> SUFFICES ASSUME Init PROVE TypeOK
  OBVIOUS
<1>1. StreamOK
  BY EmptySeq, SizeAssumption DEF Init, StreamOK, StreamT
<1>2. NoSession \in Sessions
  BY DEF NoSession, Sessions
<1>3. AtOK
  BY <1>2, SizeAssumption DEF Init, AtOK, AtT
<1>4. MainOK
  BY SizeAssumption DEF Init, Idle, MainOK, MainT, Points
<1>5. RestOK
  BY BoundsAssumption DEF Init, RestOK, HistT
<1> QED BY <1>1, <1>3, <1>4, <1>5, TypeParts

\* What feed stores in a session with an escape.
LEMMA TransmitStores ==
  ASSUME StreamOK, AtOK, NEW seg \in Segments, FeedTransmit(seg)
  PROVE  /\ StreamOK'
         /\ at'.plus_cnt \in 0 .. 3
<1> DEFINE broken == at.plus_cnt = 3
           held   == IF broken THEN 0 ELSE at.plus_cnt
           start  == IF broken THEN Put(stream, Pluses(3)) ELSE stream
           hold   == Hold(seg, held)
           rest   == SubSeq(seg, hold + 1, Len(seg))
<1>1. held \in 0 .. 3 /\ at.plus_cnt \in 0 .. 3
  BY DEF AtOK, AtT
<1>2. hold \in 0 .. 3 - held
  BY <1>1, WholeSegmentHeld DEF Hold
<1>3. start \in StreamT /\ Len(start.q) < Size
  BY PlusesType, PutType DEF StreamOK
<1>4. IF hold = Len(seg)
      THEN /\ stream' = start
           /\ at' = [[at EXCEPT !.plus_cnt = held + hold] EXCEPT !.silent = SilentAfterFeed]
      ELSE /\ stream' = Put(Put(start, Pluses(held + hold)), rest)
           /\ at' = [[at EXCEPT !.plus_cnt = 0] EXCEPT !.silent = SilentAfterFeed]
  BY DEF FeedTransmit, Received
<1> HIDE DEF held, start, hold
<1>5. rest \in Seq(Token)
  <2> DEFINE a == hold + 1
             z == Len(seg)
  <2>1. a \in Int /\ z \in Int /\ \A i \in a .. z : seg[i] \in Token
    BY <1>1, <1>2, SegmentType
  <2> HIDE DEF a, z
  <2>2. SubSeq(seg, a, z) \in Seq(Token)
    BY <2>1, SubSeqProperties
  <2> QED BY <2>2 DEF a, z
<1> HIDE DEF rest
<1>6. Pluses(held + hold) \in Seq(Token)
  BY <1>1, <1>2, PlusesType
<1>7. StreamOK'
  <2>1. CASE hold = Len(seg)
    BY <1>3, <1>4, <2>1 DEF StreamOK
  <2>2. CASE hold # Len(seg)
    <3> DEFINE mid == Put(start, Pluses(held + hold))
    <3>1. mid \in StreamT /\ Len(mid.q) < Size
      BY <1>3, <1>6, PutType
    <3> HIDE DEF mid
    <3>2. Put(mid, rest) \in StreamT /\ Len(Put(mid, rest).q) < Size
      BY <1>5, <3>1, PutType
    <3> QED BY <1>4, <2>2, <3>2 DEF StreamOK, mid
  <2> QED BY <2>1, <2>2
<1>8. at'.plus_cnt \in 0 .. 3
  <2>1. at'.plus_cnt \in {held + hold, 0}
    BY <1>4 DEF AtOK, AtT
  <2> QED BY <1>1, <1>2, <2>1
<1> QED BY <1>7, <1>8

LEMMA StepKeepsStreamOK == TypeOK /\ [Next]_vars => StreamOK'
<1> SUFFICES ASSUME TypeOK, [Next]_vars PROVE StreamOK'
  OBVIOUS
<1>0. StreamOK /\ AtOK /\ MainOK
  BY TypeParts
<1>1. CASE Feed
  <2> PICK seg \in Segments : FeedPlain(seg) \/ FeedExit(seg) \/ FeedTransmit(seg)
    BY <1>1 DEF Feed
  <2>1. CASE FeedPlain(seg)
    BY <1>0, <2>1, SegmentType, PutType DEF FeedPlain, Received, StreamOK
  <2>2. CASE FeedExit(seg)
    BY <1>0, <2>2, LateCellsType, StoredType DEF FeedExit, Received, StreamOK
  <2>3. CASE FeedTransmit(seg)
    BY <1>0, <2>3, TransmitStores
  <2> QED BY <2>1, <2>2, <2>3
\* Steps that write a flag of the ring.
<1>2. CASE \/ TimerCommand \/ SessionEnter \/ Leave \/ ClearSessionOverflow \/ KeepPending
           \/ PendingClear \/ OverflowClear \/ VoidOverflow \/ VoidPending
           \/ ConfirmOverflow \/ ConfirmPending
  <2>1. \/ \E o \in {0, 1} : stream' = [stream EXCEPT !.overflow = o]
        \/ \E p \in {0, 1} : stream' = [stream EXCEPT !.pending = p]
    BY <1>2 DEF TimerCommand, SessionEnter, Leave, ClearSessionOverflow, KeepPending,
                PendingClear, OverflowClear, VoidOverflow, VoidPending, ConfirmOverflow,
                ConfirmPending, ClearOverflow
  <2> QED BY <1>0, <2>1 DEF StreamOK, StreamT
\* Steps that empty the ring.
<1>3. CASE VoidTail \/ ConfirmTail
  <2>1. stream' = [stream EXCEPT !.q = <<>>, !.tail = HeadIdx(stream)]
    BY <1>3 DEF VoidTail, ConfirmTail
  <2>2. HeadIdx(stream) \in 0 .. Size - 1
    BY <1>0, HeadIdxType DEF StreamOK
  <2>3. <<>> \in Seq(Cell) /\ Len(<<>>) = 0
    BY EmptySeq
  <2> DEFINE e == <<>>
             t == HeadIdx(stream)
  <2> HIDE DEF e, t
  <2>4. stream' = [stream EXCEPT !.q = e, !.tail = t] /\ e \in Seq(Cell) /\ t \in 0 .. Size - 1
    BY <2>1, <2>2, <2>3 DEF e, t
  <2>5. stream' \in StreamT /\ stream'.q = e
    BY <1>0, <2>4 DEF StreamOK, StreamT
  <2> QED BY <2>3, <2>5, SizeAssumption DEF StreamOK, e
\* Steps that consume.
<1>4. CASE FixedRelease \/ StreamRelease \/ DrainRelease
  <2>1. stream' = Consumed(stream, main.chunk) /\ main.chunk \in Nat
    BY <1>0, <1>4 DEF FixedRelease, StreamRelease, DrainRelease, Release, MainOK, MainT
  <2> QED BY <1>0, <2>1, ConsumedType DEF StreamOK
<1>5. CASE Line
  <2>1. PICK p \in 1 .. Len(stream.q) : stream' = Consumed(stream, p)
    BY <1>5 DEF Line, LineRefused, LineEmpty, LineRun, LineSync, TakeLine
  <2>2. p \in Nat
    BY <1>0, StreamFields DEF StreamOK
  <2> QED BY <1>0, <2>1, <2>2, ConsumedType DEF StreamOK
\* The others leave it alone.
<1>6. CASE \/ TimerGuard \/ TimerFixed \/ App \/ Process
           \/ FixedDeliver \/ FixedWait \/ FixedFull \/ StreamDeliver \/ StreamWait
           \/ DrainDeliver \/ DrainDone \/ ClearPlus \/ ClearExit \/ ToCommand \/ SessionResult
           \/ PendingRead \/ OverflowRead \/ VoidResult \/ NoLine \/ Residue
           \/ ConfirmState \/ ConfirmMode \/ ConfirmArm \/ HandlerResult \/ Prompt
           \/ AppExitRequest \/ UNCHANGED vars
  <2>1. stream' = stream
    BY <1>6 DEF TimerGuard, TimerFixed, App, AppConfirm, AppCancel, AppGuardSet, AppExitMark,
       Process, FixedDeliver, FixedWait, FixedFull, StreamDeliver, StreamWait, DrainDeliver,
       DrainDone, ClearPlus, ClearExit, ToCommand, SessionResult, PendingRead, OverflowRead,
       VoidResult, NoLine, Residue, ConfirmState, ConfirmMode, ConfirmArm, HandlerResult,
       Prompt, AppExitRequest, Deliver, vars
  <2> QED BY <1>0, <2>1 DEF StreamOK
<1> QED
  BY <1>1, <1>2, <1>3, <1>4, <1>5, <1>6 DEF Next, Timer, MainLoop

\* What a line may ask for.
LEMMA OutcomeType ==
  ASSUME NEW p
  PROVE  /\ Outcome(p).rc \in {"OK", "ERROR", "DONE"}
         /\ Outcome(p).enter \in {"no", "sync", "async"}
         /\ Outcome(p).enter # "no" => Outcome(p).sess \in Sessions
<1>1. CASE p = 2 /\ stream.q[1].b \in DOMAIN Handler
  <2> DEFINE o == Handler[stream.q[1].b]
  <2>1. o \in Outcomes /\ Outcome(p) = o
    BY <1>1, HandlerAssumption DEF Outcome
  <2> HIDE DEF o
  <2> QED BY <2>1 DEF Outcomes
<1>2. CASE ~(p = 2 /\ stream.q[1].b \in DOMAIN Handler)
  <2>1. Outcome(p) = [rc |-> "ERROR", enter |-> "no"]
    BY <1>2 DEF Outcome
  <2> QED BY <2>1
<1> QED BY <1>1, <1>2

LEMMA EnteredType ==
  ASSUME NEW sess \in Sessions, AtOK
  PROVE  /\ Entered(sess) \in Sessions
         /\ Entered(sess).policy = sess.policy /\ Entered(sess).length = sess.length
<1> DEFINE g == IF sess.guard = 0 THEN at.guard_ms ELSE sess.guard
<1>1. Entered(sess) = [sess EXCEPT !.guard = g]
  BY DEF Entered
<1>2. g \in {0, 1}
  BY DEF AtOK, AtT, Sessions
<1> HIDE DEF g
<1> QED BY <1>1, <1>2 DEF Sessions

\* What a line does to the instance: nothing, or it enters a session.
LEMMA LineEnters ==
  ASSUME Line
  PROVE  \/ UNCHANGED at
         \/ \E p : /\ Outcome(p).enter # "no"
                   /\ \/ at' = [at EXCEPT !.sess = Entered(Outcome(p).sess)]
                      \/ \E r \in {0, 1} :
                           at' = [at EXCEPT !.sess = Entered(Outcome(p).sess), !.enter_req = r]
<1> PICK p \in 1 .. Len(stream.q) :
      LineRefused(p) \/ LineEmpty(p) \/ LineRun(p) \/ LineSync(p)
  BY DEF Line
<1>1. CASE LineRefused(p) \/ LineEmpty(p)
  BY <1>1 DEF LineRefused, LineEmpty
<1>2. CASE LineRun(p)
  BY <1>2 DEF LineRun
<1>3. CASE LineSync(p)
  BY <1>3 DEF LineSync
<1> QED BY <1>1, <1>2, <1>3

\* The combinations of fields that single steps write.
LEMMA AtFeedExit ==
  ASSUME NEW a \in AtT, NEW h \in 0 .. Size - 1, NEW s \in {0, 1}, NEW p \in 0 .. 3, NEW e \in {0, 1}
  PROVE  [a EXCEPT !.plus_cnt = p, !.exit_mark = h, !.exit_req = e, !.silent = s] \in AtT
BY DEF AtT

LEMMA AtTimer ==
  ASSUME NEW a \in AtT, NEW h \in 0 .. Size - 1, NEW s \in {0, 1}, NEW p \in 0 .. 3, NEW e \in {0, 1}
  PROVE  [a EXCEPT !.silent = s, !.plus_cnt = p, !.exit_mark = h, !.exit_req = e] \in AtT
BY DEF AtT

LEMMA AtSilent ==
  ASSUME NEW a \in AtT, NEW s \in {0, 1}, NEW p \in 0 .. 3
  PROVE  [a EXCEPT !.silent = s, !.plus_cnt = p] \in AtT
BY DEF AtT

LEMMA AtMark ==
  ASSUME NEW a \in AtT, NEW h \in 0 .. Size - 1
  PROVE  [a EXCEPT !.exit_mark = h] \in AtT
BY DEF AtT

LEMMA AtConfirm ==
  ASSUME NEW a \in AtT, NEW s \in {0, 1}, NEW p \in 0 .. 3, NEW d \in Nat, NEW e \in {0, 1}
  PROVE  [a EXCEPT !.plus_cnt = p, !.data_got = d, !.exit_req = e, !.silent = s] \in AtT
BY DEF AtT

LEMMA StepKeepsAtOK == TypeOK /\ [Next]_vars => AtOK'
<1> SUFFICES ASSUME TypeOK, [Next]_vars PROVE AtOK'
  OBVIOUS
<1>0. StreamOK /\ AtOK /\ MainOK
  BY TypeParts
<1>1. HeadIdx(stream) \in 0 .. Size - 1
  BY <1>0, HeadIdxType DEF StreamOK
<1>a. 0 \in 0 .. 3 /\ 0 \in {0, 1} /\ 1 \in {0, 1} /\ 0 \in Nat
  OBVIOUS
<1>2. CASE Feed
  <2> PICK seg \in Segments : FeedPlain(seg) \/ FeedExit(seg) \/ FeedTransmit(seg)
    BY <1>2 DEF Feed
  <2>1. CASE FeedPlain(seg)
    BY <1>0, <2>1 DEF FeedPlain, Received, SilentAfterFeed, AtOK, AtT
  <2>2. CASE FeedExit(seg)
    <3> DEFINE h == HeadIdx(stream)
               v == SilentAfterFeed
    <3>1. at' = [at EXCEPT !.plus_cnt = 0, !.exit_mark = h, !.exit_req = 1, !.silent = v]
      BY <2>2 DEF FeedExit, Received
    <3>2. h \in 0 .. Size - 1 /\ v \in {0, 1} /\ at \in AtT
      BY <1>0, <1>1 DEF SilentAfterFeed, AtOK
    <3> HIDE DEF h, v
    <3>3. [at EXCEPT !.plus_cnt = 0, !.exit_mark = h, !.exit_req = 1, !.silent = v] \in AtT
      BY <1>a, <3>2, AtFeedExit, Zenon
    <3> QED BY <3>1, <3>3 DEF AtOK
  <2>3. CASE FeedTransmit(seg)
    <3>1. \E n : at' = [[at EXCEPT !.plus_cnt = n] EXCEPT !.silent = SilentAfterFeed]
      BY <2>3 DEF FeedTransmit, Received
    <3>2. at'.plus_cnt \in 0 .. 3
      BY <1>0, <2>3, TransmitStores
    <3> QED BY <1>0, <3>1, <3>2 DEF SilentAfterFeed, AtOK, AtT
  <2> QED BY <2>1, <2>2, <2>3
<1>3. CASE TimerGuard \/ AppExitMark
  <2> DEFINE h == HeadIdx(stream)
  <2>1. \/ at' = [at EXCEPT !.silent = 1, !.plus_cnt = 0, !.exit_mark = h, !.exit_req = 1]
        \/ at' = [at EXCEPT !.silent = 1, !.plus_cnt = 0]
        \/ at' = [at EXCEPT !.exit_mark = h]
    BY <1>3 DEF TimerGuard, AppExitMark
  <2>2. h \in 0 .. Size - 1 /\ at \in AtT
    BY <1>0, <1>1 DEF AtOK
  <2> HIDE DEF h
  <2>3. /\ [at EXCEPT !.silent = 1, !.plus_cnt = 0, !.exit_mark = h, !.exit_req = 1] \in AtT
        /\ [at EXCEPT !.silent = 1, !.plus_cnt = 0] \in AtT
        /\ [at EXCEPT !.exit_mark = h] \in AtT
    BY <1>a, <2>2, AtTimer, AtSilent, AtMark, Zenon
  <2> QED BY <2>1, <2>3 DEF AtOK
<1>4. CASE FixedRelease \/ StreamRelease \/ DrainRelease
  <2>1. UNCHANGED at \/ at' = [at EXCEPT !.data_got = @ + main.chunk]
    BY <1>4 DEF FixedRelease, StreamRelease, DrainRelease, Release
  <2>2. main.chunk \in Nat
    BY <1>0 DEF MainOK, MainT
  <2> QED BY <1>0, <2>1, <2>2 DEF AtOK, AtT
<1>5. CASE Line
  <2>1. CASE UNCHANGED at
    BY <1>0, <2>1 DEF AtOK
  <2>2. CASE ~UNCHANGED at
    <3>1. PICK p : /\ Outcome(p).enter # "no"
                   /\ \/ at' = [at EXCEPT !.sess = Entered(Outcome(p).sess)]
                      \/ \E r \in {0, 1} :
                           at' = [at EXCEPT !.sess = Entered(Outcome(p).sess), !.enter_req = r]
      BY <1>5, <2>2, LineEnters
    <3> DEFINE e == Entered(Outcome(p).sess)
    <3>2. e \in Sessions
      BY <1>0, <3>1, OutcomeType, EnteredType
    <3> HIDE DEF e
    <3>3. \/ at' = [at EXCEPT !.sess = e]
          \/ \E r \in {0, 1} : at' = [at EXCEPT !.sess = e, !.enter_req = r]
      BY <3>1 DEF e
    <3> QED BY <1>0, <3>2, <3>3 DEF AtOK, AtT
  <2> QED BY <2>1, <2>2
<1>6. CASE \/ ClearPlus \/ ClearExit \/ ToCommand \/ ConfirmState \/ ConfirmMode
           \/ AppConfirm \/ AppCancel \/ AppGuardSet \/ AppExitRequest
  <2>1. CASE ClearPlus \/ ClearExit \/ ToCommand \/ ConfirmMode \/ AppConfirm \/ AppCancel
             \/ AppExitRequest
    BY <1>0, <2>1 DEF ClearPlus, ClearExit, ToCommand, ConfirmMode, AppConfirm, AppCancel,
       AppExitRequest, AtOK, AtT
  <2>2. CASE ConfirmState
    <3>1. \E v \in {0, 1} :
            at' = [at EXCEPT !.plus_cnt = 0, !.data_got = 0, !.exit_req = 0, !.silent = v]
      BY <2>2 DEF ConfirmState
    <3>2. \A v \in {0, 1} :
            [at EXCEPT !.plus_cnt = 0, !.data_got = 0, !.exit_req = 0, !.silent = v] \in AtT
      BY <1>0, <1>a, AtConfirm, Zenon DEF AtOK
    <3> QED BY <3>1, <3>2 DEF AtOK
  <2>3. CASE AppGuardSet
    BY <1>0, <2>3, BoundsAssumption DEF AppGuardSet, AtOK, AtT
  <2> QED BY <1>6, <2>1, <2>2, <2>3
<1>7. CASE \/ TimerCommand \/ TimerFixed \/ Process \/ SessionEnter
           \/ FixedDeliver \/ FixedWait \/ FixedFull \/ StreamDeliver \/ StreamWait \/ Leave
           \/ DrainDeliver \/ DrainDone \/ ClearSessionOverflow \/ KeepPending \/ SessionResult
           \/ PendingRead \/ PendingClear \/ OverflowRead \/ OverflowClear
           \/ VoidTail \/ VoidOverflow \/ VoidPending \/ VoidResult \/ NoLine \/ Residue
           \/ ConfirmTail \/ ConfirmOverflow \/ ConfirmPending \/ ConfirmArm
           \/ HandlerResult \/ Prompt \/ UNCHANGED vars
  <2>1. at' = at
    BY <1>7 DEF TimerCommand, TimerFixed, Process, SessionEnter, FixedDeliver, FixedWait,
       FixedFull, StreamDeliver, StreamWait, Leave, DrainDeliver, DrainDone,
       ClearSessionOverflow, KeepPending, SessionResult, PendingRead, PendingClear,
       OverflowRead, OverflowClear, VoidTail, VoidOverflow, VoidPending, VoidResult, NoLine,
       Residue, ConfirmTail, ConfirmOverflow, ConfirmPending, ConfirmArm, HandlerResult,
       Prompt, Deliver, vars
  <2> QED BY <1>0, <2>1 DEF AtOK
<1> QED
  BY <1>2, <1>3, <1>4, <1>5, <1>6, <1>7 DEF Next, Timer, MainLoop, App

\* The window handed to on_chunk has a length.
LEMMA DeliverType ==
  ASSUME StreamOK, MainOK, NEW limit \in Nat, NEW pc \in Points, Deliver(limit, pc)
  PROVE  MainOK' /\ main'.chunk <= limit
<1> DEFINE c == Contiguous(stream)
           n == Min2(c, limit)
<1>1. main' = [main EXCEPT !.pc = pc, !.chunk = n]
  BY DEF Deliver
<1>2. c \in Nat
  <2> DEFINE a == Len(stream.q)
             b == Size - stream.tail
  <2>1. a \in Nat /\ b \in Nat
    BY StreamFields, SizeAssumption DEF StreamOK
  <2> HIDE DEF a, b
  <2>2. Min2(a, b) \in Nat
    BY <2>1, Min2Type
  <2> QED BY <2>2 DEF Contiguous, a, b
<1>3. n \in Nat /\ n <= limit
  BY <1>2, Min2Type
<1> HIDE DEF n
<1> QED BY <1>1, <1>3 DEF MainOK, MainT

\* The combinations of locals that single steps write.
LEMMA MainChunk ==
  ASSUME NEW m \in MainT, NEW pc \in Points, NEW n \in Nat
  PROVE  [m EXCEPT !.pc = pc, !.chunk = n] \in MainT
BY DEF MainT

LEMMA MainMark ==
  ASSUME NEW m \in MainT, NEW pc \in Points, NEW k \in 0 .. Size - 1,
         NEW r \in {"OK", "ERROR", "DONE"}
  PROVE  [m EXCEPT !.pc = pc, !.mark = k, !.rc = r] \in MainT
BY DEF MainT

LEMMA MainFlag ==
  ASSUME NEW m \in MainT, NEW pc \in Points, NEW f \in {0, 1}
  PROVE  [m EXCEPT !.pc = pc, !.flag = f] \in MainT
BY DEF MainT

LEMMA MainCaller ==
  ASSUME NEW m \in MainT, NEW pc \in Points, NEW c \in {"process", "api", "handler"},
         NEW r \in {"OK", "ERROR", "DONE"}
  PROVE  [m EXCEPT !.pc = pc, !.caller = c, !.rc = r] \in MainT
BY DEF MainT

LEMMA BytesToMarkType ==
  ASSUME StreamOK, NEW mark \in 0 .. Size - 1
  PROVE  BytesToMark(stream, mark) \in Nat
<1>1. stream.tail \in 0 .. Size - 1
  BY StreamFields DEF StreamOK
<1> QED BY <1>1, SizeAssumption DEF BytesToMark

LEMMA StepKeepsMainOK == TypeOK /\ [Next]_vars => MainOK'
<1> SUFFICES ASSUME TypeOK, [Next]_vars PROVE MainOK'
  OBVIOUS
<1>0. StreamOK /\ AtOK /\ MainOK
  BY TypeParts
<1>m. main \in MainT
  BY <1>0 DEF MainOK
<1>1. CASE \/ Feed \/ Timer \/ AppCancel \/ AppGuardSet \/ UNCHANGED vars
  <2>1. main' = main
    BY <1>1 DEF Feed, FeedPlain, FeedExit, FeedTransmit, Received, Timer, TimerCommand,
       TimerGuard, TimerFixed, Expire, AppCancel, AppGuardSet, vars
  <2> QED BY <1>0, <2>1 DEF MainOK
<1>2. CASE FixedDeliver
  <2> DEFINE limit == at.sess.length - at.data_got
  <2>1. limit \in Nat
    BY <1>0, <1>2 DEF FixedDeliver, AtOK, AtT, Sessions
  <2>2. Deliver(limit, "fixed_release")
    BY <1>2 DEF FixedDeliver
  <2> HIDE DEF limit
  <2> QED BY <1>0, <2>1, <2>2, DeliverType DEF Points
<1>3. CASE StreamDeliver
  <2>1. Deliver(Size, "stream_release") /\ Size \in Nat
    BY <1>3, SizeAssumption DEF StreamDeliver
  <2> QED BY <1>0, <2>1, DeliverType DEF Points
<1>4. CASE DrainDeliver
  <2> DEFINE limit == BytesToMark(stream, main.mark)
  <2>1. limit \in Nat
    BY <1>0, BytesToMarkType DEF MainOK, MainT
  <2>2. Deliver(limit, "drain_release")
    BY <1>4 DEF DrainDeliver
  <2> HIDE DEF limit
  <2> QED BY <1>0, <2>1, <2>2, DeliverType DEF Points
\* Steps that go to another point, or return.
<1>5. CASE \/ Process \/ SessionEnter \/ FixedWait \/ StreamWait \/ DrainDone
           \/ ClearPlus \/ ClearExit \/ ClearSessionOverflow \/ KeepPending \/ ToCommand
           \/ SessionResult \/ PendingClear \/ VoidTail \/ VoidOverflow \/ VoidPending
           \/ VoidResult \/ NoLine \/ Residue \/ ConfirmTail \/ ConfirmOverflow
           \/ ConfirmPending \/ ConfirmState \/ ConfirmMode \/ ConfirmArm \/ HandlerResult
           \/ Prompt \/ AppExitRequest
  <2>1. main' = Idle \/ \E pc \in Points : main' = [main EXCEPT !.pc = pc]
    BY <1>5 DEF Process, SessionEnter, FixedWait, StreamWait, DrainDone, ClearPlus, ClearExit,
       ClearSessionOverflow, KeepPending, ToCommand, SessionResult, PendingClear, VoidTail,
       VoidOverflow, VoidPending, VoidResult, NoLine, Residue, ConfirmTail, ConfirmOverflow,
       ConfirmPending, ConfirmState, ConfirmMode, ConfirmArm, HandlerResult, Prompt,
       AppExitRequest, Goto, Return, Points
  <2> QED BY <1>0, <2>1, SizeAssumption DEF Idle, MainOK, MainT, Points
\* Steps that set a local.
<1>6. CASE \/ FixedRelease \/ StreamRelease \/ DrainRelease
           \/ FixedFull \/ Leave \/ PendingRead \/ OverflowRead \/ OverflowClear
           \/ AppConfirm \/ AppExitMark
  <2>1. CASE FixedRelease \/ StreamRelease \/ DrainRelease
    <3>1. \E pc \in Points : main' = [main EXCEPT !.pc = pc, !.chunk = 0]
      BY <2>1 DEF FixedRelease, StreamRelease, DrainRelease, Release, Points
    <3> QED BY <1>0, <3>1, MainChunk, Zenon DEF MainOK
  <2>2. CASE FixedFull \/ AppConfirm \/ AppExitMark \/ OverflowClear
    <3>1. \E pc \in Points :
            \/ main' = [main EXCEPT !.pc = pc, !.rc = "OK"]
            \/ main' = [main EXCEPT !.pc = pc, !.caller = "api"]
            \/ main' = [main EXCEPT !.pc = pc, !.flag = 0]
      BY <2>2 DEF FixedFull, AppConfirm, AppExitMark, OverflowClear, Points
    <3> QED BY <1>0, <3>1 DEF MainOK, MainT
  <2>3. CASE Leave
    <3>1. at.exit_mark \in 0 .. Size - 1
      BY <1>0 DEF AtOK, AtT
    <3>2. PICK pc \in Points, m \in 0 .. Size - 1, r \in {"OK", "ERROR", "DONE"} :
            main' = [main EXCEPT !.pc = pc, !.mark = m, !.rc = r]
      BY <2>3, <3>1 DEF Leave, Points
    <3>3. [main EXCEPT !.pc = pc, !.mark = m, !.rc = r] \in MainT
      BY <1>m, MainMark
    <3> QED BY <3>2, <3>3, Zenon DEF MainOK
  <2>4. CASE PendingRead \/ OverflowRead
    <3>1. stream.pending \in {0, 1} /\ stream.overflow \in {0, 1}
      BY <1>0, StreamFields DEF StreamOK
    <3>2. PICK pc \in Points, f \in {0, 1} : main' = [main EXCEPT !.pc = pc, !.flag = f]
      BY <2>4, <3>1 DEF PendingRead, OverflowRead, Points
    <3>3. [main EXCEPT !.pc = pc, !.flag = f] \in MainT
      BY <1>m, MainFlag
    <3> QED BY <3>2, <3>3, Zenon DEF MainOK
  <2> QED BY <1>6, <2>1, <2>2, <2>3, <2>4
<1>7. CASE Line
  <2> PICK p \in 1 .. Len(stream.q) :
        LineRefused(p) \/ LineEmpty(p) \/ LineRun(p) \/ LineSync(p)
    BY <1>7 DEF Line
  <2>1. \/ UNCHANGED main
        \/ main' = [main EXCEPT !.pc = "confirm_tail", !.caller = "handler", !.rc = Outcome(p).rc]
    BY DEF LineRefused, LineEmpty, LineRun, LineSync
  <2>2. Outcome(p).rc \in {"OK", "ERROR", "DONE"}
    BY OutcomeType
  <2>3. \/ UNCHANGED main
        \/ \E pc \in Points, c \in {"process", "api", "handler"}, r \in {"OK", "ERROR", "DONE"} :
             main' = [main EXCEPT !.pc = pc, !.caller = c, !.rc = r]
    BY <2>1, <2>2 DEF Points
  <2>4. CASE UNCHANGED main
    BY <1>0, <2>4, Zenon DEF MainOK
  <2>5. CASE \E pc \in Points, c \in {"process", "api", "handler"}, r \in {"OK", "ERROR", "DONE"} :
               main' = [main EXCEPT !.pc = pc, !.caller = c, !.rc = r]
    <3> PICK pc \in Points, c \in {"process", "api", "handler"}, r \in {"OK", "ERROR", "DONE"} :
               main' = [main EXCEPT !.pc = pc, !.caller = c, !.rc = r]
      BY <2>5
    <3>1. [main EXCEPT !.pc = pc, !.caller = c, !.rc = r] \in MainT
      BY <1>m, MainCaller
    <3> QED BY <3>1, Zenon DEF MainOK
  <2> QED BY <2>3, <2>4, <2>5
<1> QED
  BY <1>1, <1>2, <1>3, <1>4, <1>5, <1>6, <1>7 DEF Next, MainLoop, App

LEMMA HistoryType ==
  ASSUME hist \in HistT, hist.feeds < MaxFeeds, NEW seg \in Segments
  PROVE  FeedHistory(seg) \in HistT
<1> DEFINE f == hist.feeds + 1
           l == FeedHistory(seg).lead
           b == FeedHistory(seg).burst
<1>1. f \in 0 .. MaxFeeds
  BY BoundsAssumption DEF HistT
<1>2. l \in BOOLEAN
  <2>1. hist.lead \in BOOLEAN /\ hist.quiet \in BOOLEAN
    BY DEF HistT
  <2>2. l = hist.quiet \/ l = hist.lead
    BY Zenon DEF FeedHistory
  <2> QED BY <2>1, <2>2, Zenon
<1>3. b \in 0 .. 4
  <2>1. b = hist.burst \/ b = 4 \/ (b = hist.burst + Len(seg) /\ hist.burst + Len(seg) <= 3)
    BY DEF FeedHistory
  <2>2. hist.burst \in 0 .. 4 /\ Len(seg) \in Nat
    BY SegmentType DEF HistT
  <2> HIDE DEF b
  <2> QED BY <2>1, <2>2
<1>4. FeedHistory(seg) = [feeds |-> f, quiet |-> FALSE, lead |-> l, burst |-> b]
  BY Zenon DEF FeedHistory
<1> HIDE DEF f, l, b
<1> QED BY <1>1, <1>2, <1>3, <1>4 DEF HistT

LEMMA HistoryReset ==
  ASSUME NEW h \in HistT, NEW q \in BOOLEAN, NEW l \in BOOLEAN, NEW b \in 0 .. 4
  PROVE  [h EXCEPT !.quiet = q, !.lead = l, !.burst = b] \in HistT
BY DEF HistT

\* Steps that print.
LEMMA SayType ==
  ASSUME out \in [k : {"none", "OK", "ERROR", "prompt"}, n : {0, 1}],
         NEW k \in {"OK", "ERROR", "DONE", "prompt"}, Say(k)
  PROVE  out' \in [k : {"none", "OK", "ERROR", "prompt"}, n : {0, 1}]
<1>1. 1 - out.n \in {0, 1}
  OBVIOUS
<1>2. out' = out \/ (k # "DONE" /\ out' = [k |-> k, n |-> 1 - out.n])
  BY DEF Say
<1> QED BY <1>1, <1>2

LEMMA StepKeepsRestOK == TypeOK /\ [Next]_vars => RestOK'
<1> SUFFICES ASSUME TypeOK, [Next]_vars PROVE RestOK'
  OBVIOUS
<1>0. StreamOK /\ AtOK /\ MainOK /\ RestOK
  BY TypeParts
<1>a. 0 \in 0 .. 4 /\ TRUE \in BOOLEAN /\ FALSE \in BOOLEAN
  OBVIOUS
<1>h. hist \in HistT
  BY <1>0 DEF RestOK
<1>1. CASE Feed
  <2> PICK seg \in Segments : FeedPlain(seg) \/ FeedExit(seg) \/ FeedTransmit(seg)
    BY <1>1 DEF Feed
  <2>1. timer' = Rearmed /\ hist' = FeedHistory(seg) /\ out' = out
    BY DEF FeedPlain, FeedExit, FeedTransmit, Received
  <2>2. hist.feeds < MaxFeeds
    BY <1>1 DEF Feed
  <2>3. FeedHistory(seg) \in HistT
    BY <1>0, <2>2, HistoryType DEF RestOK
  <2> QED BY <1>0, <2>1, <2>3 DEF RestOK, Rearmed
<1>2. CASE Timer
  <2>1. timer' = "off" /\ out' = out
    BY <1>2 DEF Timer, TimerCommand, TimerGuard, TimerFixed, Expire
  <2>2. hist' = hist \/ hist' = [hist EXCEPT !.quiet = TRUE, !.lead = FALSE, !.burst = 0]
    BY <1>2 DEF Timer, TimerCommand, TimerGuard, TimerFixed
  <2>a. [hist EXCEPT !.quiet = TRUE, !.lead = FALSE, !.burst = 0] \in HistT
    BY <1>h, <1>a, HistoryReset
  <2>3. hist' \in HistT
    BY <1>h, <2>a, <2>2, Zenon
  <2>4. out \in [k : {"none", "OK", "ERROR", "prompt"}, n : {0, 1}]
    BY <1>0 DEF RestOK
  <2> QED BY <2>1, <2>3, <2>4, Zenon DEF RestOK
<1>3. CASE ToCommand
  <2>1. hist' = [hist EXCEPT !.quiet = FALSE, !.lead = FALSE, !.burst = 0]
    BY <1>3 DEF ToCommand
  <2>a. [hist EXCEPT !.quiet = FALSE, !.lead = FALSE, !.burst = 0] \in HistT
    BY <1>h, <1>a, HistoryReset
  <2>2. hist' \in HistT
    BY <2>a, <2>1, Zenon
  <2> QED BY <1>0, <1>3, <2>2 DEF RestOK, ToCommand
<1>4. CASE ConfirmArm
  <2>1. timer' \in {timer, "guard"} /\ out' = out /\ hist' = hist
    BY <1>4 DEF ConfirmArm
  <2> QED BY <1>0, <2>1 DEF RestOK
<1>5. CASE SessionResult \/ VoidResult \/ HandlerResult \/ Prompt
  <2>1. /\ timer' = timer /\ hist' = hist
        /\ \E k \in {"OK", "ERROR", "DONE", "prompt"} : Say(k)
    BY <1>0, <1>5 DEF SessionResult, VoidResult, HandlerResult, Prompt, MainOK, MainT
  <2> QED BY <1>0, <2>1, SayType DEF RestOK
<1>6. CASE Line
  <2> PICK p \in 1 .. Len(stream.q) :
        LineRefused(p) \/ LineEmpty(p) \/ LineRun(p) \/ LineSync(p)
    BY <1>6 DEF Line
  <2>1. timer' = timer /\ hist' = hist /\ (out' = out \/ Say("ERROR") \/ Say(Outcome(p).rc))
    BY DEF LineRefused, LineEmpty, LineRun, LineSync, TakeLine
  <2>2. out' \in [k : {"none", "OK", "ERROR", "prompt"}, n : {0, 1}]
    BY <1>0, <2>1, OutcomeType, SayType DEF RestOK
  <2> QED BY <1>0, <2>1, <2>2 DEF RestOK
<1>7. CASE \/ App \/ Process \/ SessionEnter \/ FixedDeliver \/ FixedRelease \/ FixedWait
           \/ FixedFull \/ StreamDeliver \/ StreamRelease \/ StreamWait \/ Leave
           \/ DrainDeliver \/ DrainRelease \/ DrainDone \/ ClearPlus \/ ClearExit
           \/ ClearSessionOverflow \/ KeepPending \/ PendingRead \/ PendingClear
           \/ OverflowRead \/ OverflowClear \/ VoidTail \/ VoidOverflow \/ VoidPending
           \/ NoLine \/ Residue \/ ConfirmTail \/ ConfirmOverflow \/ ConfirmPending
           \/ ConfirmState \/ ConfirmMode \/ AppExitRequest \/ UNCHANGED vars
  <2>1. timer' = timer /\ out' = out /\ hist' = hist
    BY <1>7 DEF App, AppConfirm, AppCancel, AppGuardSet, AppExitMark, Process, SessionEnter,
       FixedDeliver, FixedRelease, FixedWait, FixedFull, StreamDeliver, StreamRelease,
       StreamWait, Leave, DrainDeliver, DrainRelease, DrainDone, ClearPlus, ClearExit,
       ClearSessionOverflow, KeepPending, PendingRead, PendingClear, OverflowRead,
       OverflowClear, VoidTail, VoidOverflow, VoidPending, NoLine, Residue, ConfirmTail,
       ConfirmOverflow, ConfirmPending, ConfirmState, ConfirmMode, AppExitRequest, Deliver,
       Release, vars
  <2> QED BY <1>0, <2>1 DEF RestOK
<1> QED
  BY <1>1, <1>2, <1>3, <1>4, <1>5, <1>6, <1>7 DEF Next, MainLoop

LEMMA StepKeepsTypeOK == TypeOK /\ [Next]_vars => TypeOK'
<1> SUFFICES ASSUME TypeOK, [Next]_vars PROVE TypeOK'
  OBVIOUS
<1>1. StreamOK' /\ AtOK' /\ MainOK' /\ RestOK'
  BY StepKeepsStreamOK, StepKeepsAtOK, StepKeepsMainOK, StepKeepsRestOK
<1> QED
  BY <1>1 DEF TypeOK, StreamOK, AtOK, MainOK, RestOK, StreamT, AtT, MainT, HistT

\* Every field of the instance keeps to its range, and the ring never holds more than
\* Size - 1 bytes, whatever is fed, run and interrupted.
THEOREM CoreTypeOK == Spec => []TypeOK
<1>1. Init => TypeOK
  BY InitTypeOK
<1>2. TypeOK /\ [Next]_vars => TypeOK'
  BY StepKeepsTypeOK
<1> QED BY <1>1, <1>2, PTL DEF Spec

-----------------------------------------------------------------------------
(* A FIXED session is exact *)

\* The points that belong to each mode; at rest the main loop may be in both.
CommandPoints == {"session_result", "pending_read", "pending_clear", "overflow_read",
                  "overflow_clear", "void_tail", "void_overflow", "void_pending",
                  "void_result", "lines", "residue", "confirm_tail", "confirm_overflow",
                  "confirm_pending", "confirm_state", "confirm_mode"}
FixedPoints   == {"fixed_enter", "fixed", "fixed_release"}
StreamPoints  == {"stream_enter", "stream", "stream_release"}
DrainPoints   == {"drain", "drain_release"}
EndPoints     == {"clear_plus", "clear_exit", "clear_overflow", "keep_pending", "to_command"}
DataPoints    == FixedPoints \cup StreamPoints \cup DrainPoints \cup EndPoints
                 \cup {"leave", "confirm_arm", "handler_result", "prompt", "exit_request"}

Control ==
  /\ main.pc \in CommandPoints => at.mode = "COMMAND"
  /\ main.pc \in DataPoints => at.mode = "DATA"
  /\ main.pc \in FixedPoints => Fixed
  /\ main.pc \in StreamPoints => ~Fixed

\* A session starts from nothing; the count of a FIXED one from there to its result.
Counted ==
  /\ main.pc = "confirm_mode" => at.data_got = 0 /\ at.plus_cnt = 0 /\ at.exit_req = 0
  /\ at.mode = "DATA" /\ Fixed =>
       /\ main.pc \notin DrainPoints \cup EndPoints => at.data_got <= at.sess.length
       /\ main.pc = "fixed_release" => at.data_got + main.chunk <= at.sess.length
       /\ main.pc \in DrainPoints => main.rc = "ERROR"
       /\ main.pc \in EndPoints /\ main.rc = "OK" => at.data_got = at.sess.length

\* Neither interrupt enters or ends a session, or counts for it.
LEMMA InterruptsKeep ==
  ASSUME TypeOK, Feed \/ Timer
  PROVE  /\ main' = main
         /\ at'.mode = at.mode /\ at'.sess = at.sess /\ at'.data_got = at.data_got
         /\ at'.enter_req = at.enter_req
<1>1. CASE Feed
  <2> PICK seg \in Segments : FeedPlain(seg) \/ FeedExit(seg) \/ FeedTransmit(seg)
    BY <1>1 DEF Feed
  <2>1. main' = main
    BY DEF FeedPlain, FeedExit, FeedTransmit, Received
  <2>2. \/ at' = [at EXCEPT !.silent = SilentAfterFeed]
        \/ \E h : at' = [at EXCEPT !.plus_cnt = 0, !.exit_mark = h, !.exit_req = 1,
                                   !.silent = SilentAfterFeed]
        \/ \E n : at' = [at EXCEPT !.plus_cnt = n, !.silent = SilentAfterFeed]
    BY DEF FeedPlain, FeedExit, FeedTransmit, Received
  <2> QED BY <2>1, <2>2, TypeParts DEF AtOK, AtT
<1>2. CASE Timer
  <2>1. main' = main
    BY <1>2 DEF Timer, TimerCommand, TimerGuard, TimerFixed, Expire
  <2>2. \/ at' = at
        \/ \E h : at' = [at EXCEPT !.silent = 1, !.plus_cnt = 0, !.exit_mark = h, !.exit_req = 1]
        \/ at' = [at EXCEPT !.silent = 1, !.plus_cnt = 0]
    BY <1>2 DEF Timer, TimerCommand, TimerGuard, TimerFixed
  <2> QED BY <2>1, <2>2, TypeParts DEF AtOK, AtT
<1> QED BY <1>1, <1>2

\* In command mode they touch neither the held '+' nor the request to exit.
LEMMA CommandInterrupts ==
  ASSUME TypeOK, Feed \/ Timer, at.mode = "COMMAND"
  PROVE  at'.plus_cnt = at.plus_cnt /\ at'.exit_req = at.exit_req
<1>0. at \in AtT
  BY TypeParts DEF AtOK
<1>1. CASE Feed
  <2> PICK seg \in Segments : FeedPlain(seg) \/ FeedExit(seg) \/ FeedTransmit(seg)
    BY <1>1 DEF Feed
  <2>1. at' = [at EXCEPT !.silent = SilentAfterFeed]
    BY DEF FeedPlain, FeedExit, FeedTransmit, Received, Transmitting
  <2> QED BY <1>0, <2>1 DEF AtT
<1>2. CASE Timer
  <2>1. at' = at
    BY <1>2 DEF Timer, TimerCommand, TimerGuard, TimerFixed
  <2> QED BY <2>1
<1> QED BY <1>1, <1>2

LEMMA LineKeeps ==
  ASSUME TypeOK, Line
  PROVE  /\ at'.mode = at.mode /\ at'.data_got = at.data_got
         /\ main'.pc \in {"lines", "confirm_tail"}
<1>1. \/ at' = at
      \/ \E e : at' = [at EXCEPT !.sess = e]
      \/ \E e, r : at' = [at EXCEPT !.sess = e, !.enter_req = r]
  BY DEF Line, LineRefused, LineEmpty, LineRun, LineSync
<1>2. main' = main \/ \E c, r : main' = [main EXCEPT !.pc = "confirm_tail", !.caller = c, !.rc = r]
  BY DEF Line, LineRefused, LineEmpty, LineRun, LineSync
<1>3. main.pc = "lines"
  BY DEF Line, From
<1> QED BY <1>1, <1>2, <1>3, TypeParts DEF AtOK, AtT, MainOK, MainT

LEMMA StepKeepsControl == TypeOK /\ Control /\ [Next]_vars => Control'
<1> SUFFICES ASSUME TypeOK, Control, [Next]_vars PROVE Control'
  OBVIOUS
<1>0. StreamOK /\ AtOK /\ MainOK
  BY TypeParts
<1> USE DEF CommandPoints, DataPoints, FixedPoints, StreamPoints, DrainPoints, EndPoints, From, Goto, Fixed
<1>1. CASE Feed \/ Timer
  BY <1>1, InterruptsKeep DEF Control
<1>2. CASE Line
  <2>1. /\ at.mode = "COMMAND" /\ at'.mode = "COMMAND"
        /\ main'.pc \in {"lines", "confirm_tail"}
    BY <1>2, LineKeeps DEF Control, Line
  <2> QED BY <2>1 DEF Control
\* Steps that return.
<1>3. CASE FixedWait \/ StreamWait \/ VoidResult \/ Prompt
  <2>1. main'.pc = "idle"
    BY <1>3 DEF FixedWait, StreamWait, VoidResult, Prompt, Return, Idle
  <2> QED BY <2>1 DEF Control
\* Steps that leave the instance alone.
<1>4. CASE \/ Process \/ SessionEnter \/ FixedFull \/ Leave \/ DrainDone
           \/ ClearSessionOverflow \/ KeepPending \/ SessionResult \/ PendingRead
           \/ PendingClear \/ OverflowRead \/ OverflowClear \/ VoidTail \/ VoidOverflow
           \/ VoidPending \/ NoLine \/ Residue \/ ConfirmTail \/ ConfirmOverflow
           \/ ConfirmPending \/ ConfirmArm \/ HandlerResult \/ UNCHANGED vars
  <2>1. at' = at
    BY <1>4 DEF Process, SessionEnter, FixedFull, Leave, DrainDone, ClearSessionOverflow,
       KeepPending, SessionResult, PendingRead, PendingClear, OverflowRead, OverflowClear,
       VoidTail, VoidOverflow, VoidPending, NoLine, Residue, ConfirmTail, ConfirmOverflow,
       ConfirmPending, ConfirmArm, HandlerResult, vars
  <2>2. CASE Process
    <3>1. /\ at.mode = "COMMAND" => main'.pc = "pending_read"
          /\ at.mode = "DATA" /\ at.exit_req = 1 => main'.pc = "leave"
          /\ at.mode = "DATA" /\ at.exit_req = 0 /\ Fixed => main'.pc = "fixed_enter"
          /\ at.mode = "DATA" /\ at.exit_req = 0 /\ ~Fixed => main'.pc = "stream_enter"
      BY <1>0, <2>2 DEF Process, Stream, AtOK, AtT, Sessions, MainOK, MainT
    <3>2. at.mode \in {"COMMAND", "DATA"} /\ at.exit_req \in {0, 1}
      BY <1>0 DEF AtOK, AtT
    <3> QED BY <2>1, <3>1, <3>2 DEF Control
  <2>3. CASE SessionEnter \/ FixedFull \/ Leave \/ DrainDone \/ ClearSessionOverflow
             \/ KeepPending
    <3>1. \/ main.pc = "fixed_enter" /\ main'.pc = "fixed"
          \/ main.pc = "stream_enter" /\ main'.pc = "stream"
          \/ main.pc \in DataPoints /\ main'.pc \in DrainPoints \cup EndPoints
      BY <1>0, <2>3 DEF SessionEnter, FixedFull, Leave, DrainDone, ClearSessionOverflow,
         KeepPending, MainOK, MainT
    <3> QED BY <2>1, <3>1 DEF Control
  <2>5. CASE SessionResult \/ PendingRead \/ PendingClear \/ OverflowRead \/ OverflowClear
             \/ VoidTail \/ VoidOverflow \/ VoidPending \/ NoLine \/ Residue
    <3>1. main.pc \in CommandPoints /\ (main'.pc \in CommandPoints \/ main'.pc = "idle")
      <4>1. CASE SessionResult \/ PendingClear
        BY <1>0, <4>1 DEF SessionResult, PendingClear, Return, Idle, MainOK, MainT
      <4>2. CASE PendingRead \/ OverflowRead
        BY <1>0, <4>2 DEF PendingRead, OverflowRead, StreamOK, StreamT, MainOK, MainT
      <4>4. CASE OverflowClear
        BY <1>0, <4>4 DEF OverflowClear, MainOK, MainT
      <4>5. CASE NoLine \/ Residue
        BY <1>0, <4>5 DEF NoLine, Residue, Return, Idle, MainOK, MainT
      <4>3. CASE VoidTail \/ VoidOverflow \/ VoidPending
        BY <1>0, <4>3 DEF VoidTail, VoidOverflow, VoidPending, MainOK, MainT
      <4> QED BY <2>5, <4>1, <4>2, <4>3, <4>4, <4>5
    <3> QED BY <2>1, <3>1 DEF Control
  <2>4. CASE ConfirmTail \/ ConfirmOverflow \/ ConfirmPending \/ ConfirmArm \/ HandlerResult
             \/ UNCHANGED vars
    BY <1>0, <2>1, <2>4 DEF ConfirmTail, ConfirmOverflow, ConfirmPending, ConfirmArm,
       HandlerResult, Control, MainOK, MainT, vars
  <2> QED BY <1>4, <2>2, <2>3, <2>4, <2>5
\* Steps of on_chunk.
<1>5. CASE FixedDeliver \/ FixedRelease \/ StreamDeliver \/ StreamRelease
           \/ DrainDeliver \/ DrainRelease
  <2>1. at'.mode = at.mode /\ at'.sess = at.sess
    BY <1>0, <1>5 DEF FixedDeliver, FixedRelease, StreamDeliver, StreamRelease, DrainDeliver,
       DrainRelease, Deliver, Release, AtOK, AtT
  <2>2. \E pc, c : /\ main' = [main EXCEPT !.pc = pc, !.chunk = c]
                   /\ \/ main.pc \in FixedPoints /\ pc \in FixedPoints
                      \/ main.pc \in StreamPoints /\ pc \in StreamPoints
                      \/ main.pc \in DrainPoints /\ pc \in DrainPoints
    BY <1>5 DEF FixedDeliver, FixedRelease, StreamDeliver, StreamRelease, DrainDeliver,
       DrainRelease, Deliver, Release
  <2> QED BY <1>0, <2>1, <2>2 DEF Control, MainOK, MainT
\* Steps that write the instance.
<1>6. CASE \/ ClearPlus \/ ClearExit \/ ToCommand \/ ConfirmState \/ ConfirmMode
           \/ AppConfirm \/ AppCancel \/ AppGuardSet \/ AppExitMark \/ AppExitRequest
  <2>1. CASE ClearPlus \/ ClearExit \/ ConfirmState \/ AppExitMark \/ AppExitRequest
    <3>1. at'.mode = at.mode
      BY <1>0, <2>1 DEF ClearPlus, ClearExit, ConfirmState, AppExitMark, AppExitRequest, AtOK, AtT
    <3>2. \/ main.pc \in DataPoints /\ main'.pc \in EndPoints \cup {"leave"}
          \/ main.pc \in CommandPoints /\ main'.pc \in CommandPoints
          \/ at.mode = "DATA" /\ main'.pc = "exit_request"
      BY <1>0, <2>1 DEF ClearPlus, ClearExit, ConfirmState, AppExitMark, AppExitRequest,
         MainOK, MainT
    <3> QED BY <3>1, <3>2 DEF Control
  <2>2. CASE ToCommand \/ ConfirmMode \/ AppConfirm \/ AppCancel \/ AppGuardSet
    <3>1. CASE ToCommand \/ ConfirmMode
      BY <1>0, <3>1 DEF ToCommand, ConfirmMode, Control, AtOK, AtT, MainOK, MainT
    <3>2. CASE AppConfirm
      BY <1>0, <3>2 DEF AppConfirm, Control, AtOK, AtT, MainOK, MainT
    <3>3. CASE AppCancel \/ AppGuardSet
      <4>1. main' = main /\ main.pc = "idle"
        BY <3>3 DEF AppCancel, AppGuardSet
      <4> QED BY <4>1 DEF Control
    <3> QED BY <2>2, <3>1, <3>2, <3>3
  <2> QED BY <1>6, <2>1, <2>2
<1> QED
  BY <1>1, <1>2, <1>3, <1>4, <1>5, <1>6 DEF Next, MainLoop, App

\* The chunk a FIXED session hands over is cut to what it still wants.
LEMMA FixedChunk ==
  ASSUME StreamOK, AtOK, MainOK, FixedDeliver
  PROVE  /\ at' = at /\ main'.pc = "fixed_release"
         /\ at.data_got + main'.chunk <= at.sess.length /\ at.data_got <= at.sess.length
<1> DEFINE limit == at.sess.length - at.data_got
<1>1. limit \in Nat /\ at.data_got \in Nat /\ at.sess.length \in Nat
  BY DEF FixedDeliver, AtOK, AtT, Sessions
<1>2. Deliver(limit, "fixed_release")
  BY DEF FixedDeliver
<1>3. main'.chunk <= limit /\ main'.chunk \in Nat
  <2> HIDE DEF limit
  <2>1. MainOK' /\ main'.chunk <= limit
    BY <1>1, <1>2, DeliverType DEF Points
  <2> QED BY <2>1 DEF MainOK, MainT
<1>4. at' = at /\ main'.pc = "fixed_release"
  BY <1>2 DEF Deliver, MainOK, MainT
<1> QED BY <1>1, <1>3, <1>4

LEMMA StepKeepsCounted == TypeOK /\ Control /\ Counted /\ [Next]_vars => Counted'
<1> SUFFICES ASSUME TypeOK, Control, Counted, [Next]_vars PROVE Counted'
  OBVIOUS
<1>0. StreamOK /\ AtOK /\ MainOK
  BY TypeParts
<1>n. at.data_got \in Nat /\ at.sess.length \in Nat /\ main.chunk \in Nat
  BY <1>0 DEF AtOK, AtT, Sessions, MainOK, MainT
<1> USE DEF CommandPoints, DataPoints, FixedPoints, StreamPoints, DrainPoints, EndPoints, From,
            Goto, Fixed
<1>1. CASE Feed \/ Timer
  <2>1. at.mode = "COMMAND" => at'.plus_cnt = at.plus_cnt /\ at'.exit_req = at.exit_req
    BY <1>1, CommandInterrupts
  <2>2. main.pc = "confirm_mode" => at.mode = "COMMAND"
    BY DEF Control
  <2>3. /\ main' = main /\ at'.mode = at.mode /\ at'.sess = at.sess
        /\ at'.data_got = at.data_got
    BY <1>1, InterruptsKeep
  <2> QED BY <2>1, <2>2, <2>3 DEF Counted
<1>2. CASE Line
  <2>1. at'.mode = "COMMAND" /\ main'.pc \in {"lines", "confirm_tail"}
    BY <1>2, LineKeeps DEF Control, Line
  <2> QED BY <2>1 DEF Counted
<1>3. CASE FixedDeliver
  <2>1. /\ at' = at /\ main'.pc = "fixed_release"
        /\ at.data_got + main'.chunk <= at.sess.length /\ at.data_got <= at.sess.length
    BY <1>0, <1>3, FixedChunk
  <2> QED BY <2>1 DEF Counted
<1>4. CASE FixedRelease
  <2>1. /\ at'.mode = at.mode /\ at'.sess = at.sess /\ at'.data_got = at.data_got + main.chunk
        /\ main.pc = "fixed_release" /\ main'.pc = "fixed"
    BY <1>0, <1>4 DEF FixedRelease, Release, Control, AtOK, AtT, MainOK, MainT
  <2> QED BY <1>n, <2>1 DEF Control, Counted
<1>5. CASE FixedFull
  <2>1. /\ at' = at /\ main.pc = "fixed" /\ main'.pc = "clear_plus"
        /\ at.data_got >= at.sess.length
    BY <1>0, <1>5 DEF FixedFull, MainOK, MainT
  <2> QED BY <1>n, <2>1 DEF Control, Counted
<1>6. CASE Leave
  <2>1. /\ at' = at /\ main'.pc = "drain" /\ main'.rc = IF Fixed THEN "ERROR" ELSE "OK"
    BY <1>0, <1>6 DEF Leave, AtOK, AtT, MainOK, MainT
  <2> QED BY <2>1 DEF Counted
\* The drain of an exit counts on, but its result is no longer OK.
<1>7. CASE DrainDeliver \/ DrainRelease \/ DrainDone
  <2>1. /\ at'.mode = at.mode /\ at'.sess = at.sess /\ main.pc \in DrainPoints
    BY <1>0, <1>7 DEF DrainDeliver, DrainRelease, DrainDone, Deliver, Release, AtOK, AtT
  <2>2. main'.rc = main.rc /\ main'.pc \in DrainPoints \cup {"clear_plus"}
    BY <1>0, <1>7 DEF DrainDeliver, DrainRelease, DrainDone, Deliver, Release, MainOK, MainT
  <2>3. at.mode = "DATA"
    BY <2>1 DEF Control
  <2>4. Fixed => main.rc = "ERROR"
    BY <2>1, <2>3 DEF Counted
  <2> QED BY <2>1, <2>2, <2>4 DEF Counted
<1>8. CASE StreamDeliver \/ StreamRelease
  <2>1. /\ at'.mode = at.mode /\ at'.sess = at.sess /\ main.pc \in StreamPoints
        /\ main'.pc \in StreamPoints
    BY <1>0, <1>8 DEF StreamDeliver, StreamRelease, Deliver, Release, AtOK, AtT, MainOK, MainT
  <2> QED BY <2>1 DEF Control, Counted
<1>9. CASE ClearPlus \/ ClearExit \/ ClearSessionOverflow \/ KeepPending
  <2>1. /\ at'.mode = at.mode /\ at'.sess = at.sess /\ at'.data_got = at.data_got
        /\ main.pc \in EndPoints
    BY <1>0, <1>9 DEF ClearPlus, ClearExit, ClearSessionOverflow, KeepPending, AtOK, AtT
  <2>2. main'.rc = main.rc /\ main'.pc \in EndPoints
    BY <1>0, <1>9 DEF ClearPlus, ClearExit, ClearSessionOverflow, KeepPending, MainOK, MainT
  <2>3. at.mode = "DATA"
    BY <2>1 DEF Control
  <2> QED BY <2>1, <2>2, <2>3 DEF Counted
\* Steps that start or end a session.
<1>10. CASE ConfirmState
  <2>1. /\ at'.mode = "COMMAND" /\ at'.data_got = 0 /\ main'.pc = "confirm_mode"
        /\ at'.plus_cnt = 0 /\ at'.exit_req = 0
    BY <1>0, <1>10 DEF ConfirmState, Control, AtOK, AtT, MainOK, MainT
  <2> QED BY <2>1 DEF Counted
<1>11. CASE ConfirmMode
  <2>1. /\ at'.data_got = at.data_got /\ at'.sess = at.sess /\ main'.pc = "confirm_arm"
        /\ main.pc = "confirm_mode"
    BY <1>0, <1>11 DEF ConfirmMode, AtOK, AtT, MainOK, MainT
  <2> QED BY <1>n, <2>1 DEF Counted
<1>12. CASE ToCommand
  <2>1. at'.mode = "COMMAND" /\ main'.pc = "session_result"
    BY <1>0, <1>12 DEF ToCommand, AtOK, AtT, MainOK, MainT
  <2> QED BY <2>1 DEF Counted
\* Steps of command mode.
<1>13. CASE \/ SessionResult \/ PendingRead \/ PendingClear \/ OverflowRead \/ OverflowClear
            \/ VoidTail \/ VoidOverflow \/ VoidPending \/ VoidResult \/ NoLine \/ Residue
            \/ ConfirmTail \/ ConfirmOverflow \/ ConfirmPending \/ AppConfirm
  <2>1. at'.mode = at.mode /\ (main.pc \in CommandPoints \/ at.mode = "COMMAND")
    BY <1>0, <1>13 DEF SessionResult, PendingRead, PendingClear, OverflowRead, OverflowClear,
       VoidTail, VoidOverflow, VoidPending, VoidResult, NoLine, Residue, ConfirmTail,
       ConfirmOverflow, ConfirmPending, AppConfirm, AtOK, AtT
  <2>2. main'.pc # "confirm_mode"
    <3>1. CASE SessionResult \/ PendingClear \/ VoidResult \/ Residue
      BY <1>0, <3>1 DEF SessionResult, PendingClear, VoidResult, Residue, Return, Idle,
         MainOK, MainT
    <3>2. CASE PendingRead \/ OverflowRead
      BY <1>0, <3>2 DEF PendingRead, OverflowRead, StreamOK, StreamT, MainOK, MainT
    <3>3. CASE OverflowClear \/ VoidTail \/ VoidOverflow \/ VoidPending \/ NoLine
      BY <1>0, <3>3 DEF OverflowClear, VoidTail, VoidOverflow, VoidPending, NoLine, MainOK, MainT
    <3>4. CASE ConfirmTail \/ ConfirmOverflow \/ ConfirmPending \/ AppConfirm
      BY <1>0, <3>4 DEF ConfirmTail, ConfirmOverflow, ConfirmPending, AppConfirm, MainOK, MainT
    <3> QED BY <1>13, <3>1, <3>2, <3>3, <3>4
  <2>3. at'.mode = "COMMAND"
    BY <2>1 DEF Control
  <2> QED BY <2>2, <2>3 DEF Counted
\* Steps between the session's calls.
<1>14. CASE \/ Process \/ SessionEnter \/ FixedWait \/ StreamWait \/ ConfirmArm
            \/ HandlerResult \/ Prompt \/ AppCancel \/ AppGuardSet \/ AppExitMark
            \/ AppExitRequest \/ UNCHANGED vars
  <2>1. at'.mode = at.mode /\ at'.sess = at.sess /\ at'.data_got = at.data_got
    BY <1>0, <1>14 DEF Process, SessionEnter, FixedWait, StreamWait, ConfirmArm,
       HandlerResult, Prompt, AppCancel, AppGuardSet, AppExitMark, AppExitRequest, vars,
       AtOK, AtT
  <2>2. \/ main' = main /\ at'.plus_cnt = at.plus_cnt /\ at'.exit_req = at.exit_req
        \/ /\ main.pc \notin DrainPoints \cup EndPoints
           /\ main'.pc \notin DrainPoints \cup EndPoints \cup {"confirm_mode", "fixed_release"}
    <3>1. CASE Process \/ SessionEnter \/ ConfirmArm
      BY <1>0, <3>1 DEF Process, SessionEnter, ConfirmArm, MainOK, MainT
    <3>2. CASE FixedWait \/ StreamWait \/ HandlerResult \/ Prompt
      BY <1>0, <3>2 DEF FixedWait, StreamWait, HandlerResult, Prompt, Return, Idle, MainOK, MainT
    <3>3. CASE AppCancel \/ AppGuardSet \/ AppExitMark \/ AppExitRequest \/ UNCHANGED vars
      BY <1>0, <3>3 DEF AppCancel, AppGuardSet, AppExitMark, AppExitRequest, AtOK, AtT, MainOK,
         MainT, vars
    <3> QED BY <1>14, <3>1, <3>2, <3>3
  <2> QED BY <2>1, <2>2 DEF Counted
<1> QED
  BY <1>1, <1>2, <1>3, <1>4, <1>5, <1>6, <1>7, <1>8, <1>9, <1>10, <1>11, <1>12, <1>13, <1>14
  DEF Next, MainLoop, App

LEMMA CountInvariant == Spec => [](TypeOK /\ Control /\ Counted)
<1> DEFINE IInv == TypeOK /\ Control /\ Counted
<1>1. Init => IInv
  BY InitTypeOK DEF Init, Idle, NoSession, Control, Counted, CommandPoints, DataPoints,
     FixedPoints, StreamPoints, DrainPoints, EndPoints
<1>2. IInv /\ [Next]_vars => IInv'
  BY StepKeepsTypeOK, StepKeepsControl, StepKeepsCounted
<1> QED BY <1>1, <1>2, PTL DEF Spec

\* A FIXED session hands over exactly its length before it says OK, wherever feed and the
\* timer interrupt it; only the drain of an exit may count further, and ends in ERROR.
THEOREM CoreFixedExact == Spec => []FixedExact
<1>1. Counted => FixedExact
  BY DEF Counted, FixedExact, EndPoints
<1> QED BY <1>1, CountInvariant, PTL

\* The steps that leave requests, results and modes as they are.
LEMMA Bystanders ==
  ASSUME TypeOK, Next, ~Line, ~FixedFull, ~Leave, ~AppConfirm, ~AppCancel
  PROVE  /\ at'.enter_req = at.enter_req
         /\ \/ main' = Idle
            \/ main'.rc = main.rc /\ (main'.caller = main.caller \/ main.pc = "idle")
         /\ at'.mode = at.mode \/ ConfirmMode \/ ToCommand
<1>0. StreamOK /\ AtOK /\ MainOK
  BY TypeParts
<1>1. CASE Feed \/ Timer
  BY <1>1, InterruptsKeep
<1>2. CASE \/ ClearPlus \/ ClearExit \/ ToCommand \/ ConfirmState \/ ConfirmMode
           \/ AppGuardSet \/ AppExitMark \/ AppExitRequest
  <2>1. at'.enter_req = at.enter_req
    BY <1>0, <1>2 DEF ClearPlus, ClearExit, ToCommand, ConfirmState, ConfirmMode, AppGuardSet,
       AppExitMark, AppExitRequest, AtOK, AtT
  <2>2. main'.rc = main.rc /\ (main'.caller = main.caller \/ main.pc = "idle")
    BY <1>0, <1>2 DEF ClearPlus, ClearExit, ToCommand, ConfirmState, ConfirmMode, AppGuardSet,
       AppExitMark, AppExitRequest, Goto, From, MainOK, MainT
  <2>3. at'.mode = at.mode \/ ConfirmMode \/ ToCommand
    BY <1>0, <1>2 DEF ClearPlus, ClearExit, ConfirmState, AppGuardSet, AppExitMark,
       AppExitRequest, AtOK, AtT
  <2> QED BY <2>1, <2>2, <2>3
<1>3. CASE FixedRelease \/ StreamRelease \/ DrainRelease
  BY <1>0, <1>3 DEF FixedRelease, StreamRelease, DrainRelease, Release, AtOK, AtT, MainOK, MainT
<1>4. CASE \/ Process \/ SessionEnter \/ FixedDeliver \/ FixedWait \/ StreamDeliver
           \/ StreamWait \/ DrainDeliver \/ DrainDone \/ ClearSessionOverflow \/ KeepPending
           \/ SessionResult \/ PendingRead \/ PendingClear \/ OverflowRead \/ OverflowClear
           \/ VoidTail \/ VoidOverflow \/ VoidPending \/ VoidResult \/ NoLine \/ Residue
           \/ ConfirmTail \/ ConfirmOverflow \/ ConfirmPending \/ ConfirmArm
           \/ HandlerResult \/ Prompt
  <2>1. at' = at
    BY <1>4 DEF Process, SessionEnter, FixedDeliver, FixedWait, StreamDeliver, StreamWait,
       DrainDeliver, DrainDone, ClearSessionOverflow, KeepPending, SessionResult, PendingRead,
       PendingClear, OverflowRead, OverflowClear, VoidTail, VoidOverflow, VoidPending,
       VoidResult, NoLine, Residue, ConfirmTail, ConfirmOverflow, ConfirmPending, ConfirmArm,
       HandlerResult, Prompt, Deliver
  <2>2. \/ main' = Idle
        \/ \E pc : main' = [main EXCEPT !.pc = pc]
        \/ \E pc, c : main' = [main EXCEPT !.pc = pc, !.chunk = c]
        \/ \E pc, f : main' = [main EXCEPT !.pc = pc, !.flag = f]
    BY <1>4 DEF Process, SessionEnter, FixedDeliver, FixedWait, StreamDeliver, StreamWait,
       DrainDeliver, DrainDone, ClearSessionOverflow, KeepPending, SessionResult, PendingRead,
       PendingClear, OverflowRead, OverflowClear, VoidTail, VoidOverflow, VoidPending,
       VoidResult, NoLine, Residue, ConfirmTail, ConfirmOverflow, ConfirmPending, ConfirmArm,
       HandlerResult, Prompt, Deliver, Goto, Return
  <2>3. main' = Idle \/ (main'.rc = main.rc /\ main'.caller = main.caller)
    BY <1>0, <2>2 DEF MainOK, MainT
  <2> QED BY <2>1, <2>3
<1> QED
  BY <1>1, <1>2, <1>3, <1>4 DEF Next, MainLoop, App

\* Whatever feed and timer did to plus_cnt and exit_req while the last session was being closed,
\* the next one starts with no '+' held, no exit requested and nothing counted.
THEOREM CoreNoLeftovers == Spec => NoLeftovers
<1>1. TypeOK /\ Control /\ Counted /\ [Next]_vars
        => [at.mode = "COMMAND" /\ at'.mode = "DATA" =>
              at'.plus_cnt = 0 /\ at'.exit_req = 0 /\ at'.data_got = 0]_vars
  <2> SUFFICES ASSUME TypeOK, Control, Counted, [Next]_vars, at.mode = "COMMAND",
                      at'.mode = "DATA"
               PROVE  at'.plus_cnt = 0 /\ at'.exit_req = 0 /\ at'.data_got = 0
    OBVIOUS
  <2>0. at \in AtT
    BY TypeParts DEF AtOK
  <2>1. ConfirmMode
    <3>1. at' # at
      OBVIOUS
    <3>2. Next
      BY <3>1 DEF vars
    <3>3. ~Line
      BY LineKeeps
    <3>4. ~FixedFull /\ ~Leave
      BY <3>1 DEF FixedFull, Leave
    <3>5. ~AppConfirm /\ ~AppCancel
      BY <2>0 DEF AppConfirm, AppCancel, AtT
    <3>6. ~ToCommand
      BY <2>0 DEF ToCommand, AtT
    <3> QED BY <3>2, <3>3, <3>4, <3>5, <3>6, Bystanders
  <2>2. at.plus_cnt = 0 /\ at.exit_req = 0 /\ at.data_got = 0
    BY <2>1 DEF ConfirmMode, From, Counted
  <2>3. at' = [at EXCEPT !.mode = "DATA"]
    BY <2>1 DEF ConfirmMode
  <2> QED BY <2>0, <2>2, <2>3 DEF AtT
<1> QED BY <1>1, CountInvariant, PTL DEF Spec, NoLeftovers

-----------------------------------------------------------------------------
(* The dialogue with the host *)

\* No handler confirms data mode and then fails.
SyncSucceeds == \A c \in DOMAIN Handler : Handler[c].enter = "sync" => Handler[c].rc # "ERROR"

\* A request is open only in command mode, before it is confirmed; what a call still
\* has to print is known from the point it has reached.
Answering ==
  /\ at.enter_req = 1 =>
       at.mode = "COMMAND" /\ ~Confirming /\ main.pc # "session_result"
  /\ Confirming /\ main.caller = "handler" => main.rc # "ERROR"
  /\ main.pc = "handler_result" => main.caller = "handler" /\ main.rc # "ERROR"
  /\ main.pc \in DrainPoints \cup EndPoints \cup {"session_result"} => main.rc # "DONE"

\* Every step but these leaves the request and the result of the call alone.
\* The ways into the points that answer the host.
LEMMA Ways ==
  ASSUME TypeOK, Next
  PROVE  /\ Confirming' => Confirming \/ Line \/ AppConfirm
         /\ main'.pc = "handler_result" =>
              main' = main \/ (main.pc = "confirm_arm" /\ main.caller = "handler")
         /\ main'.pc \in DrainPoints \cup EndPoints \cup {"session_result"} =>
              main' = main \/ main.pc \in DrainPoints \cup EndPoints \/ Leave \/ FixedFull
<1>0. StreamOK /\ AtOK /\ MainOK
  BY TypeParts
<1> USE DEF DrainPoints, EndPoints, From, Goto, Confirming
<1>1. CASE Feed \/ Timer \/ AppCancel \/ AppGuardSet
  <2>1. main' = main
    BY <1>1, InterruptsKeep DEF AppCancel, AppGuardSet
  <2> QED BY <2>1
<1>2. CASE Line
  <2>1. main'.pc \in {"lines", "confirm_tail"}
    BY <1>2, LineKeeps
  <2> QED BY <1>2, <2>1
<1>3. CASE Process \/ SessionEnter
  <2>1. main'.pc \in {"pending_read", "leave", "fixed_enter", "stream_enter", "fixed", "stream"}
    BY <1>0, <1>3 DEF Process, SessionEnter, MainOK, MainT
  <2> QED BY <2>1
<1>4. CASE FixedDeliver \/ FixedRelease \/ StreamDeliver \/ StreamRelease
  <2>1. main'.pc \in {"fixed", "fixed_release", "stream", "stream_release"}
    BY <1>0, <1>4 DEF FixedDeliver, FixedRelease, StreamDeliver, StreamRelease, Deliver,
       Release, MainOK, MainT
  <2> QED BY <2>1
<1>5. CASE DrainDeliver \/ DrainRelease \/ DrainDone
  <2>1. main.pc \in DrainPoints /\ main'.pc \in DrainPoints \cup {"clear_plus"}
    BY <1>0, <1>5 DEF DrainDeliver, DrainRelease, DrainDone, Deliver, Release, MainOK, MainT
  <2> QED BY <2>1
<1>6. CASE ClearPlus \/ ClearExit \/ ClearSessionOverflow \/ KeepPending \/ ToCommand
  <2>1. main.pc \in EndPoints /\ main'.pc \in EndPoints \cup {"session_result"}
    BY <1>0, <1>6 DEF ClearPlus, ClearExit, ClearSessionOverflow, KeepPending, ToCommand,
       MainOK, MainT
  <2> QED BY <2>1
<1>7. CASE FixedFull \/ Leave
  <2>1. main'.pc \in {"clear_plus", "drain"}
    BY <1>0, <1>7 DEF FixedFull, Leave, AtOK, AtT, MainOK, MainT
  <2> QED BY <1>7, <2>1
<1>8. CASE AppConfirm \/ AppExitMark \/ AppExitRequest
  <2>1. main'.pc \in {"confirm_tail", "exit_request", "leave"}
    BY <1>0, <1>8 DEF AppConfirm, AppExitMark, AppExitRequest, MainOK, MainT
  <2>2. AppExitMark \/ AppExitRequest => main'.pc # "confirm_tail"
    BY <1>0 DEF AppExitMark, AppExitRequest, MainOK, MainT
  <2> QED BY <1>8, <2>1, <2>2
\* Steps of command mode, and those that return.
<1>9. CASE \/ SessionResult \/ PendingRead \/ PendingClear \/ OverflowRead \/ OverflowClear
           \/ VoidTail \/ VoidOverflow \/ VoidPending \/ VoidResult \/ NoLine \/ Residue
           \/ FixedWait \/ StreamWait \/ HandlerResult \/ Prompt
  <2>1. main'.pc \in {"idle", "pending_read", "pending_clear", "overflow_read",
                      "overflow_clear", "void_tail", "void_overflow", "void_pending",
                      "void_result", "lines", "residue", "prompt"}
    <3>1. CASE SessionResult \/ PendingClear \/ VoidResult \/ Residue
      BY <1>0, <3>1 DEF SessionResult, PendingClear, VoidResult, Residue, Return, Idle,
         MainOK, MainT
    <3>2. CASE PendingRead \/ OverflowRead
      BY <1>0, <3>2 DEF PendingRead, OverflowRead, StreamOK, StreamT, MainOK, MainT
    <3>3. CASE OverflowClear \/ VoidTail \/ VoidOverflow \/ VoidPending \/ NoLine
      BY <1>0, <3>3 DEF OverflowClear, VoidTail, VoidOverflow, VoidPending, NoLine, MainOK, MainT
    <3>4. CASE FixedWait \/ StreamWait \/ HandlerResult \/ Prompt
      BY <1>0, <3>4 DEF FixedWait, StreamWait, HandlerResult, Prompt, Return, Idle, MainOK, MainT
    <3> QED BY <1>9, <3>1, <3>2, <3>3, <3>4
  <2> QED BY <2>1
<1>10. CASE ConfirmTail \/ ConfirmOverflow \/ ConfirmPending \/ ConfirmState \/ ConfirmMode
  <2>1. Confirming /\ main'.pc \in {"confirm_overflow", "confirm_pending", "confirm_state",
                                    "confirm_mode", "confirm_arm"}
    BY <1>0, <1>10 DEF ConfirmTail, ConfirmOverflow, ConfirmPending, ConfirmState, ConfirmMode,
       MainOK, MainT
  <2> QED BY <2>1
<1>11. CASE ConfirmArm
  <2>1. /\ main.pc = "confirm_arm"
        /\ main'.pc = IF main.caller = "handler" THEN "handler_result" ELSE "prompt"
    BY <1>0, <1>11 DEF ConfirmArm, MainOK, MainT
  <2> QED BY <2>1
<1> QED
  BY <1>1, <1>2, <1>3, <1>4, <1>5, <1>6, <1>7, <1>8, <1>9, <1>10, <1>11 DEF Next, MainLoop, App

\* What a line does about data mode.
LEMMA LineAnswers ==
  ASSUME SyncSucceeds, TypeOK, Line
  PROVE  \/ main' = main
         \/ /\ at.enter_req = 0 /\ at'.enter_req = 0
            /\ main'.pc = "confirm_tail" /\ main'.caller = "handler" /\ main'.rc # "ERROR"
<1>0. AtOK /\ MainOK
  BY TypeParts
<1> PICK p \in 1 .. Len(stream.q) :
      LineRefused(p) \/ LineEmpty(p) \/ LineRun(p) \/ LineSync(p)
  BY DEF Line
<1>1. CASE LineRefused(p) \/ LineEmpty(p) \/ LineRun(p)
  BY <1>1 DEF LineRefused, LineEmpty, LineRun
<1>2. CASE LineSync(p)
  <2>1. Outcome(p).rc # "ERROR"
    BY <1>2 DEF LineSync, Outcome, SyncSucceeds
  <2>2. /\ main'.pc = "confirm_tail" /\ main'.caller = "handler"
        /\ main'.rc = Outcome(p).rc
    BY <1>0, <1>2 DEF LineSync, MainOK, MainT
  <2>3. at.enter_req = 0 /\ at'.enter_req = 0
    BY <1>0, <1>2 DEF LineSync, AtOK, AtT
  <2> QED BY <2>1, <2>2, <2>3
<1> QED BY <1>1, <1>2

LEMMA StepKeepsAnswering ==
  ASSUME SyncSucceeds
  PROVE  TypeOK /\ Control /\ Answering /\ [Next]_vars => Answering'
<1> SUFFICES ASSUME TypeOK, Control, Answering, [Next]_vars PROVE Answering'
  OBVIOUS
<1>0. AtOK /\ MainOK
  BY TypeParts
<1>1. CASE UNCHANGED vars
  BY <1>1 DEF vars, Answering, Confirming
<1>2. CASE Line
  <2>1. main.pc = "lines" /\ at.mode = "COMMAND" /\ at'.mode = "COMMAND"
    BY <1>2, LineKeeps DEF Line, From, Control, CommandPoints
  <2> QED BY <1>2, <2>1, LineAnswers DEF Answering, Confirming, DrainPoints, EndPoints
<1>3. CASE AppConfirm
  <2>1. /\ at'.enter_req = 0 /\ main'.pc = "confirm_tail" /\ main'.caller = "api"
    BY <1>0, <1>3 DEF AppConfirm, AtOK, AtT, MainOK, MainT
  <2> QED BY <2>1 DEF Answering, DrainPoints, EndPoints
<1>4. CASE AppCancel
  <2>1. at'.enter_req = 0 /\ main' = main
    BY <1>0, <1>4 DEF AppCancel, AtOK, AtT
  <2> QED BY <2>1 DEF Answering, Confirming
<1>5. CASE FixedFull \/ Leave
  <2>1. at' = at /\ main'.pc \in {"clear_plus", "drain"} /\ main'.rc \in {"OK", "ERROR"}
    BY <1>0, <1>5 DEF FixedFull, Leave, Goto, AtOK, AtT, MainOK, MainT
  <2>2. at.mode = "DATA"
    BY <1>5 DEF FixedFull, Leave, From, Control, DataPoints, FixedPoints
  <2> QED BY <2>1, <2>2 DEF Answering, Confirming
<1>6. CASE Next /\ ~Line /\ ~FixedFull /\ ~Leave /\ ~AppConfirm /\ ~AppCancel
  <2>1. /\ at'.enter_req = at.enter_req
        /\ \/ main' = Idle
           \/ main'.rc = main.rc /\ (main'.caller = main.caller \/ main.pc = "idle")
        /\ at'.mode = at.mode \/ ConfirmMode \/ ToCommand
    BY <1>6, Bystanders
  <2>2. /\ Confirming' => Confirming
        /\ main'.pc = "handler_result" =>
             main' = main \/ (main.pc = "confirm_arm" /\ main.caller = "handler")
        /\ main'.pc \in DrainPoints \cup EndPoints \cup {"session_result"} =>
             main' = main \/ main.pc \in DrainPoints \cup EndPoints
    BY <1>6, Ways
  <2>3. at'.enter_req = 1 => at'.mode = "COMMAND" /\ ~Confirming' /\ main'.pc # "session_result"
    <3> SUFFICES ASSUME at'.enter_req = 1
                 PROVE  at'.mode = "COMMAND" /\ ~Confirming' /\ main'.pc # "session_result"
      OBVIOUS
    <3>1. at.mode = "COMMAND" /\ ~Confirming /\ main.pc # "session_result"
      BY <2>1 DEF Answering
    <3>2. ~ConfirmMode
      BY <3>1 DEF ConfirmMode, From, Confirming
    <3>3. ToCommand => at'.mode = "COMMAND"
      BY <1>0 DEF ToCommand, AtOK, AtT
    <3>4. main.pc \notin DrainPoints \cup EndPoints
      BY <3>1 DEF Control, DataPoints
    <3> QED BY <2>1, <2>2, <3>1, <3>2, <3>3, <3>4
  <2>4. Confirming' /\ main'.caller = "handler" => main'.rc # "ERROR"
    BY <2>1, <2>2 DEF Answering, Confirming, Idle
  <2>5. main'.pc = "handler_result" => main'.caller = "handler" /\ main'.rc # "ERROR"
    <3> SUFFICES ASSUME main'.pc = "handler_result"
                 PROVE  main'.caller = "handler" /\ main'.rc # "ERROR"
      OBVIOUS
    <3>1. CASE main' = main
      BY <3>1 DEF Answering
    <3>2. CASE main.pc = "confirm_arm" /\ main.caller = "handler"
      BY <2>1, <3>2 DEF Answering, Confirming, Idle
    <3> QED BY <2>2, <3>1, <3>2
  <2>6. main'.pc \in DrainPoints \cup EndPoints \cup {"session_result"} => main'.rc # "DONE"
    BY <2>1, <2>2 DEF Answering, Idle, DrainPoints, EndPoints
  <2> QED BY <2>3, <2>4, <2>5, <2>6 DEF Answering
<1> QED
  BY <1>1, <1>2, <1>3, <1>4, <1>5, <1>6

\* The phase, seen from command mode, from a session and in between.
CommandPhase == /\ at.mode = "COMMAND" /\ ~Confirming
                /\ main.pc \notin {"session_result", "prompt"}
DataPhase    == \/ main.pc = "session_result"
                \/ at.mode = "DATA" /\ main.pc \notin {"confirm_arm", "handler_result", "prompt"}

LEMMA PhaseOf ==
  /\ CommandPhase => Phase = IF at.enter_req = 1 THEN "gated" ELSE "command"
  /\ DataPhase => Phase = "data"
  /\ Confirming /\ at.enter_req = 0 /\ (at.mode = "COMMAND" \/ main.pc = "confirm_arm")
       => Phase = IF main.caller = "api" THEN "gated" ELSE "command"
  /\ main.pc = "handler_result" /\ at.mode = "DATA" /\ at.enter_req = 0 => Phase = "command"
  /\ main.pc = "prompt" /\ at.mode = "DATA" => Phase = "gated"
BY DEF Phase, Confirming, CommandPhase, DataPhase

LEMMA DialogStep ==
  ASSUME SyncSucceeds
  PROVE  TypeOK /\ Control /\ Answering /\ Control' /\ Answering' /\ [Next]_vars
           => [Dialog!Next]_<<Phase, out>>
<1> SUFFICES ASSUME TypeOK, Control, Answering, Control', Answering', [Next]_vars
             PROVE  Dialog!Next \/ (Phase' = Phase /\ out' = out)
  BY DEF Dialog!vars
<1>0. StreamOK /\ AtOK /\ MainOK
  BY TypeParts
<1>m. at.enter_req \in {0, 1} /\ at.mode \in {"COMMAND", "DATA"}
  BY <1>0 DEF AtOK, AtT
<1>p. /\ CommandPhase' => Phase' = IF at'.enter_req = 1 THEN "gated" ELSE "command"
      /\ DataPhase' => Phase' = "data"
      /\ Confirming' /\ at'.enter_req = 0 /\ (at'.mode = "COMMAND" \/ main'.pc = "confirm_arm")
           => Phase' = IF main'.caller = "api" THEN "gated" ELSE "command"
      /\ main'.pc = "handler_result" /\ at'.mode = "DATA" /\ at'.enter_req = 0
           => Phase' = "command"
      /\ main'.pc = "prompt" /\ at'.mode = "DATA" => Phase' = "gated"
  BY DEF Phase, Confirming, CommandPhase, DataPhase
<1>1. CASE Feed \/ Timer \/ AppGuardSet \/ UNCHANGED vars
  <2>1. /\ main' = main /\ at'.mode = at.mode /\ at'.enter_req = at.enter_req
    <3>1. CASE Feed \/ Timer
      BY <1>0, <3>1, InterruptsKeep
    <3>2. CASE AppGuardSet \/ UNCHANGED vars
      BY <1>0, <3>2 DEF AppGuardSet, vars, AtOK, AtT
    <3> QED BY <1>1, <3>1, <3>2
  <2>2. out' = out
    BY <1>1 DEF Feed, FeedPlain, FeedExit, FeedTransmit, Received, Timer, TimerCommand,
       TimerGuard, TimerFixed, Expire, AppGuardSet, vars
  <2> QED BY <2>1, <2>2 DEF Phase, Confirming
\* Silent steps of command mode.
<1>2. CASE \/ (Process /\ at.mode = "COMMAND") \/ PendingRead \/ PendingClear \/ OverflowRead
           \/ OverflowClear \/ VoidTail \/ VoidOverflow \/ VoidPending \/ NoLine \/ Residue
  <2>1. at' = at /\ out' = out
    BY <1>2 DEF Process, PendingRead, PendingClear, OverflowRead, OverflowClear, VoidTail,
       VoidOverflow, VoidPending, NoLine, Residue
  <2>2. CommandPhase
    BY <1>2 DEF Process, PendingRead, PendingClear, OverflowRead, OverflowClear, VoidTail,
       VoidOverflow, VoidPending, NoLine, Residue, From, Control, CommandPoints, CommandPhase,
       Confirming
  <2>3. main'.pc \in {"idle", "pending_read", "pending_clear", "overflow_read",
                      "overflow_clear", "void_tail", "void_overflow", "void_pending",
                      "void_result", "lines", "residue"}
    <3>1. CASE (Process /\ at.mode = "COMMAND") \/ PendingClear \/ Residue
      BY <1>0, <3>1 DEF Process, PendingClear, Residue, Goto, Return, Idle, MainOK, MainT
    <3>2. CASE PendingRead \/ OverflowRead
      BY <1>0, <3>2 DEF PendingRead, OverflowRead, StreamOK, StreamT, MainOK, MainT
    <3>3. CASE OverflowClear \/ VoidTail \/ VoidOverflow \/ VoidPending \/ NoLine
      BY <1>0, <3>3 DEF OverflowClear, VoidTail, VoidOverflow, VoidPending, NoLine, Goto,
         MainOK, MainT
    <3> QED BY <1>2, <3>1, <3>2, <3>3
  <2>4. CommandPhase'
    BY <2>1, <2>2, <2>3 DEF CommandPhase, Confirming
  <2> QED BY <1>p, <2>1, <2>2, <2>4, PhaseOf
\* Silent steps of a session.
<1>3. CASE \/ (Process /\ at.mode = "DATA") \/ SessionEnter \/ FixedDeliver \/ FixedRelease
           \/ FixedWait \/ FixedFull \/ StreamDeliver \/ StreamRelease \/ StreamWait
           \/ Leave \/ DrainDeliver \/ DrainRelease \/ DrainDone \/ ClearPlus \/ ClearExit
           \/ ClearSessionOverflow \/ KeepPending \/ ToCommand \/ AppExitMark \/ AppExitRequest
  <2>1. out' = out
    BY <1>3 DEF Process, SessionEnter, FixedDeliver, FixedRelease, FixedWait, FixedFull,
       StreamDeliver, StreamRelease, StreamWait, Leave, DrainDeliver, DrainRelease, DrainDone,
       ClearPlus, ClearExit, ClearSessionOverflow, KeepPending, ToCommand, AppExitMark,
       AppExitRequest, Deliver, Release
  <2>2. DataPhase
    BY <1>3 DEF Process, SessionEnter, FixedDeliver, FixedRelease, FixedWait, FixedFull,
       StreamDeliver, StreamRelease, StreamWait, Leave, DrainDeliver, DrainRelease, DrainDone,
       ClearPlus, ClearExit, ClearSessionOverflow, KeepPending, ToCommand, AppExitMark,
       AppExitRequest, From, Control, DataPoints, FixedPoints, StreamPoints, DrainPoints,
       EndPoints, DataPhase
  <2>3. DataPhase'
    <3>1. CASE ToCommand
      BY <1>0, <3>1 DEF ToCommand, Goto, DataPhase, MainOK, MainT
    <3>2. CASE ~ToCommand
      <4>1. at'.mode = at.mode
        <5>1. CASE ClearPlus \/ ClearExit \/ AppExitMark \/ AppExitRequest
          BY <1>0, <5>1 DEF ClearPlus, ClearExit, AppExitMark, AppExitRequest, AtOK, AtT
        <5>2. CASE FixedRelease \/ StreamRelease \/ DrainRelease
          BY <1>0, <5>2 DEF FixedRelease, StreamRelease, DrainRelease, Release, AtOK, AtT
        <5>3. CASE ~(\/ ClearPlus \/ ClearExit \/ AppExitMark \/ AppExitRequest
                     \/ FixedRelease \/ StreamRelease \/ DrainRelease)
          BY <1>3, <3>2, <5>3 DEF Process, SessionEnter, FixedDeliver, FixedWait, FixedFull,
             StreamDeliver, StreamWait, Leave, DrainDeliver, DrainDone, ClearSessionOverflow,
             KeepPending, Deliver
        <5> QED BY <5>1, <5>2, <5>3
      <4>2. main'.pc \notin {"confirm_arm", "handler_result", "prompt"}
        <5>1. CASE Process \/ SessionEnter
          BY <1>0, <5>1 DEF Process, SessionEnter, Goto, MainOK, MainT
        <5>2. CASE FixedDeliver \/ FixedRelease \/ StreamDeliver \/ StreamRelease
                   \/ DrainDeliver \/ DrainRelease
          BY <1>0, <5>2 DEF FixedDeliver, FixedRelease, StreamDeliver, StreamRelease,
             DrainDeliver, DrainRelease, Deliver, Release, MainOK, MainT
        <5>3. CASE FixedWait \/ StreamWait
          BY <5>3 DEF FixedWait, StreamWait, Return, Idle
        <5>4. CASE FixedFull \/ Leave
          BY <1>0, <5>4 DEF FixedFull, Leave, AtOK, AtT, MainOK, MainT
        <5>5. CASE \/ DrainDone \/ ClearPlus \/ ClearExit \/ ClearSessionOverflow \/ KeepPending
                   \/ AppExitMark \/ AppExitRequest
          BY <1>0, <5>5 DEF DrainDone, ClearPlus, ClearExit, ClearSessionOverflow, KeepPending,
             AppExitMark, AppExitRequest, Goto, MainOK, MainT
        <5> QED BY <1>3, <3>2, <5>1, <5>2, <5>3, <5>4, <5>5
      <4>3. at.mode = "DATA"
        BY <1>3, <3>2 DEF Process, SessionEnter, FixedDeliver, FixedRelease, FixedWait,
           FixedFull, StreamDeliver, StreamRelease, StreamWait, Leave, DrainDeliver,
           DrainRelease, DrainDone, ClearPlus, ClearExit, ClearSessionOverflow, KeepPending,
           AppExitMark, AppExitRequest, From, Control, DataPoints, FixedPoints, StreamPoints,
           DrainPoints, EndPoints
      <4> QED BY <4>1, <4>2, <4>3 DEF DataPhase
    <3> QED BY <3>1, <3>2
  <2> QED BY <1>p, <2>1, <2>2, <2>3, PhaseOf
\* From the request that is granted to its prompt.
<1>4. CASE AppConfirm
  <2>1. CommandPhase /\ at.enter_req = 1 /\ out' = out
    BY <1>4 DEF AppConfirm, From, CommandPhase, Confirming
  <2>2. /\ at'.mode = "COMMAND" /\ at'.enter_req = 0 /\ main'.pc = "confirm_tail"
        /\ main'.caller = "api"
    BY <1>0, <1>4 DEF AppConfirm, AtOK, AtT, MainOK, MainT
  <2> QED BY <1>p, <2>1, <2>2, PhaseOf DEF Confirming
<1>5. CASE ConfirmTail \/ ConfirmOverflow \/ ConfirmPending \/ ConfirmState \/ ConfirmMode
  <2>1. /\ Confirming /\ at.mode = "COMMAND" /\ out' = out
    BY <1>5 DEF ConfirmTail, ConfirmOverflow, ConfirmPending, ConfirmState, ConfirmMode, From,
       Confirming, Control, CommandPoints
  <2>2. at.enter_req = 0
    BY <1>m, <2>1 DEF Answering
  <2>3. at'.enter_req = at.enter_req /\ (at'.mode = at.mode \/ ConfirmMode)
    BY <1>0, <1>5 DEF ConfirmTail, ConfirmOverflow, ConfirmPending, ConfirmState, ConfirmMode,
       AtOK, AtT
  <2>4. /\ main'.caller = main.caller
        /\ main'.pc \in {"confirm_overflow", "confirm_pending", "confirm_state",
                         "confirm_mode", "confirm_arm"}
        /\ ConfirmMode => main'.pc = "confirm_arm"
    BY <1>0, <1>5 DEF ConfirmTail, ConfirmOverflow, ConfirmPending, ConfirmState, ConfirmMode,
       From, Goto, MainOK, MainT
  <2> QED BY <1>p, <2>1, <2>2, <2>3, <2>4, PhaseOf DEF Confirming
<1>6. CASE ConfirmArm
  <2>1. main.pc = "confirm_arm" /\ Confirming /\ at.mode = "DATA" /\ at' = at /\ out' = out
    BY <1>6 DEF ConfirmArm, From, Confirming, Control, DataPoints
  <2>2. at.enter_req = 0
    BY <1>m, <2>1 DEF Answering
  <2>3. main'.pc = IF main.caller = "handler" THEN "handler_result" ELSE "prompt"
    BY <1>0, <1>6 DEF ConfirmArm, Goto, MainOK, MainT
  <2>4. main.caller # "api" => Phase = "command" /\ Phase' \in {"command", "gated"}
    BY <1>p, <2>1, <2>2, <2>3, PhaseOf
  <2>5. main.caller = "api" => Phase = "gated" /\ Phase' = "gated"
    BY <1>p, <2>1, <2>2, <2>3, PhaseOf
  <2> QED BY <2>1, <2>4, <2>5 DEF Dialog!Next, Dialog!Request
<1>7. CASE HandlerResult
  <2>1. main.pc = "handler_result" /\ at.mode = "DATA" /\ at' = at /\ Say(main.rc)
    BY <1>7 DEF HandlerResult, From, Control, DataPoints
  <2>2. at.enter_req = 0 /\ main.rc \in {"OK", "DONE"}
    BY <1>0, <1>m, <2>1 DEF Answering, MainOK, MainT
  <2>3. main'.pc = "prompt"
    BY <1>0, <1>7 DEF HandlerResult, Goto, MainOK, MainT
  <2>4. Phase = "command" /\ Phase' = "gated"
    BY <1>p, <2>1, <2>2, <2>3, PhaseOf
  <2> QED BY <2>1, <2>2, <2>4 DEF Say, Dialog!Next, Dialog!Request, Dialog!Say
<1>8. CASE Prompt
  <2>1. main.pc = "prompt" /\ at.mode = "DATA" /\ at' = at /\ main'.pc = "idle"
    BY <1>8 DEF Prompt, From, Return, Idle, Control, DataPoints
  <2>2. DataPhase'
    BY <2>1 DEF DataPhase
  <2>3. Phase = "gated" /\ Phase' = "data"
    BY <1>p, <2>1, <2>2, PhaseOf
  <2> QED BY <1>8, <2>3 DEF Prompt, Say, Dialog!Next, Dialog!Prompt, Dialog!Say
\* What is printed in command mode.
<1>9. CASE SessionResult
  <2>1. main.pc = "session_result" /\ at.mode = "COMMAND" /\ at' = at /\ Say(main.rc)
    BY <1>9 DEF SessionResult, From, Control, CommandPoints
  <2>2. at.enter_req = 0 /\ main.rc \in {"OK", "ERROR"}
    BY <1>0, <1>m, <2>1 DEF Answering, MainOK, MainT
  <2>3. main'.pc \in {"idle", "pending_read"}
    BY <1>0, <1>9 DEF SessionResult, Goto, Return, Idle, MainOK, MainT
  <2>4. DataPhase /\ CommandPhase'
    BY <2>1, <2>3 DEF DataPhase, CommandPhase, Confirming
  <2>5. Phase = "data" /\ Phase' = "command"
    BY <1>p, <2>1, <2>2, <2>4, PhaseOf
  <2> QED BY <2>1, <2>2, <2>5 DEF Say, Dialog!Next, Dialog!Finish, Dialog!Say
<1>10. CASE VoidResult
  <2>1. main.pc = "void_result" /\ at.mode = "COMMAND" /\ at' = at /\ main'.pc = "idle"
    BY <1>10 DEF VoidResult, From, Return, Idle, Control, CommandPoints
  <2>2. CommandPhase /\ CommandPhase'
    BY <2>1 DEF CommandPhase, Confirming
  <2>3. Phase \in {"command", "gated"} /\ Phase' = Phase
    BY <1>p, <2>1, <2>2, PhaseOf
  <2> QED
    BY <1>10, <2>3
    DEF VoidResult, Say, Dialog!Next, Dialog!Answer, Dialog!Refuse, Dialog!Say
<1>11. CASE AppCancel
  <2>1. main.pc = "idle" /\ main' = main /\ out' = out /\ at.enter_req = 1
    BY <1>11 DEF AppCancel, From
  <2>2. at'.enter_req = 0 /\ at'.mode = at.mode
    BY <1>0, <1>11 DEF AppCancel, AtOK, AtT
  <2>3. at.mode = "COMMAND"
    BY <2>1 DEF Answering
  <2>4. CommandPhase /\ CommandPhase'
    BY <2>1, <2>2, <2>3 DEF CommandPhase, Confirming
  <2>5. Phase = "gated" /\ Phase' = "command"
    BY <1>p, <2>1, <2>2, <2>4, PhaseOf
  <2> QED BY <2>1, <2>5 DEF Dialog!Next, Dialog!Cancel
<1>12. CASE Line
  <2>1. main.pc = "lines" /\ at.mode = "COMMAND" /\ at'.mode = "COMMAND"
    BY <1>12, LineKeeps DEF Line, From, Control, CommandPoints
  <2>2. CommandPhase
    BY <2>1 DEF CommandPhase, Confirming
  <2> PICK p \in 1 .. Len(stream.q) :
        LineRefused(p) \/ LineEmpty(p) \/ LineRun(p) \/ LineSync(p)
    BY <1>12 DEF Line
  <2>3. CASE LineRefused(p) \/ LineEmpty(p)
    <3>1. at' = at /\ main' = main /\ (out' = out \/ Say("ERROR"))
      BY <2>3 DEF LineRefused, LineEmpty
    <3>2. CommandPhase'
      BY <2>1, <2>2, <3>1 DEF CommandPhase, Confirming
    <3>3. Phase \in {"command", "gated"} /\ Phase' = Phase
      BY <1>p, <2>2, <3>1, <3>2, PhaseOf
    <3> QED BY <3>1, <3>3 DEF Say, Dialog!Next, Dialog!Answer, Dialog!Refuse, Dialog!Say
  <2>4. CASE LineRun(p)
    <3>1. at.enter_req = 0 /\ main' = main /\ Say(Outcome(p).rc)
      BY <2>4 DEF LineRun
    <3>2. at'.enter_req = IF Outcome(p).enter = "no" \/ Outcome(p).rc = "ERROR" THEN 0 ELSE 1
      BY <1>0, <2>4, <3>1 DEF LineRun, AtOK, AtT
    <3>3. CommandPhase'
      BY <2>1, <2>2, <3>1 DEF CommandPhase, Confirming
    <3>4. Phase = "command" /\ Phase' = IF at'.enter_req = 1 THEN "gated" ELSE "command"
      BY <1>p, <2>2, <3>1, <3>3, PhaseOf
    <3>5. Outcome(p).rc \in {"OK", "ERROR", "DONE"}
      BY OutcomeType
    <3>6. CASE Outcome(p).rc = "DONE"
      BY <3>1, <3>2, <3>4, <3>6 DEF Say, Dialog!Next, Dialog!Request
    <3>7. CASE Outcome(p).rc # "DONE"
      BY <3>1, <3>2, <3>4, <3>5, <3>7
      DEF Say, Dialog!Next, Dialog!Answer, Dialog!Request, Dialog!Say
    <3> QED BY <3>6, <3>7
  <2>5. CASE LineSync(p)
    <3>1. /\ out' = out /\ at.enter_req = 0 /\ at'.enter_req = 0
          /\ main'.pc = "confirm_tail" /\ main'.caller = "handler"
      BY <1>0, <2>5 DEF LineSync, AtOK, AtT, MainOK, MainT
    <3>2. Phase = "command" /\ Phase' = "command"
      BY <1>p, <2>1, <2>2, <3>1, PhaseOf DEF Confirming
    <3> QED BY <3>1, <3>2
  <2> QED BY <2>3, <2>4, <2>5
<1> QED
  BY <1>m, <1>1, <1>2, <1>3, <1>4, <1>5, <1>6, <1>7, <1>8, <1>9, <1>10, <1>11, <1>12
  DEF Next, MainLoop, App

\* With handlers that do not fail after a confirmation, what the core prints is a run of
\* LwAtDialog: one result per request, one prompt, one result per session.
THEOREM CoreImplementsDialog ==
  ASSUME SyncSucceeds
  PROVE  Spec => ImplementsDialog
<1> DEFINE IInv == TypeOK /\ Control /\ Answering
<1>1. Init => IInv
  BY InitTypeOK DEF Init, Idle, NoSession, Control, Answering, Confirming, CommandPoints,
     DataPoints, FixedPoints, StreamPoints, DrainPoints, EndPoints
<1>2. IInv /\ [Next]_vars => IInv'
  BY StepKeepsTypeOK, StepKeepsControl, StepKeepsAnswering
<1>3. Init => Dialog!Init
  BY DEF Init, Idle, Dialog!Init, Phase, Confirming
<1>4. IInv /\ IInv' /\ [Next]_vars => [Dialog!Next]_<<Phase, out>>
  BY DialogStep
<1> QED BY <1>1, <1>2, <1>3, <1>4, PTL DEF Spec, ImplementsDialog, Dialog!Spec, Dialog!vars

-----------------------------------------------------------------------------
(* The guard, when the timer callback runs between main-loop calls *)

\* An armed timer and `silent` speak of the session's own guard, the history is blank
\* outside a session, and the held '+' are the run (PlusRun).
GuardTold ==
  /\ at.mode = "COMMAND" => ~hist.quiet /\ ~hist.lead /\ hist.burst = 0
  /\ hist.quiet => hist.burst = 0
  /\ main.pc = "confirm_mode" => at.plus_cnt = 0 /\ (Guarded => at.silent = 0)
  /\ at.mode = "DATA" /\ Guarded /\ main.pc # "confirm_arm" => timer \in {"off", "guard"}
  /\ at.mode = "DATA" /\ UsePlus /\ Guarded => (at.silent = 1 <=> hist.quiet)
  /\ PlusRun

LEMMA SameSession ==
  ASSUME at'.sess = at.sess PROVE (UsePlus' <=> UsePlus) /\ (Guarded' <=> Guarded)
BY DEF UsePlus, Stream, Guarded

\* What feed writes of the history.
LEMMA FedHistory ==
  ASSUME NEW seg \in Segments, hist' = FeedHistory(seg)
  PROVE  /\ ~hist'.quiet
         /\ at.mode = "COMMAND" => (hist'.lead <=> hist.lead) /\ hist'.burst = hist.burst
         /\ at.mode # "COMMAND" /\ at.exit_req # 1 =>
              /\ hist.burst = 0 => (hist'.lead <=> hist.quiet)
              /\ hist.burst # 0 => (hist'.lead <=> hist.lead)
              /\ hist'.burst = IF AllPlus(seg) /\ hist.burst + Len(seg) <= 3
                               THEN hist.burst + Len(seg) ELSE 4
<1> DEFINE plain  == at.mode = "COMMAND" \/ at.exit_req = 1
           n      == hist.burst + Len(seg)
           pluses == \A k \in 1 .. Len(seg) : seg[k] = Plus
           l == IF hist.burst = 0 /\ ~plain THEN hist.quiet ELSE hist.lead
           b == IF plain THEN hist.burst ELSE IF pluses /\ n <= 3 THEN n ELSE 4
<1>1. hist' = [feeds |-> hist.feeds + 1, quiet |-> FALSE, lead |-> l, burst |-> b]
  BY Zenon DEF FeedHistory
<1> HIDE DEF l, b
<1>2. ~hist'.quiet /\ hist'.lead = l /\ hist'.burst = b
  <2>1. hist'.quiet = FALSE
    BY <1>1
  <2>2. hist'.lead = l
    BY <1>1
  <2>3. hist'.burst = b
    BY <1>1
  <2> QED BY <2>1, <2>2, <2>3, Zenon
<1>3. at.mode = "COMMAND" => l = hist.lead /\ b = hist.burst
  BY Zenon DEF l, b
<1>4. at.mode # "COMMAND" /\ at.exit_req # 1 =>
        (hist.burst = 0 => l = hist.quiet) /\ (hist.burst # 0 => l = hist.lead)
  BY Zenon DEF l
<1>5. at.mode # "COMMAND" /\ at.exit_req # 1 =>
        b = IF AllPlus(seg) /\ n <= 3 THEN n ELSE 4
  BY DEF b, AllPlus
<1> QED BY <1>2, <1>3, <1>4, <1>5, Zenon

\* The count of held '+' after a segment of m cells: c before it, of a run of b cells
\* that started after a silence iff `lead`.
LEMMA RunGoesOn ==
  ASSUME NEW lead \in BOOLEAN, NEW quiet \in BOOLEAN, NEW pluses \in BOOLEAN,
         NEW b \in 0 .. 4, NEW m \in Nat, m > 0, quiet => b = 0
  PROVE  LET c     == IF lead /\ b \in 1 .. 3 THEN b ELSE 0
             held  == IF c = 3 THEN 0 ELSE c
             lead2 == IF b = 0 THEN quiet ELSE lead
             b2    == IF pluses /\ b + m <= 3 THEN b + m ELSE 4
             whole == pluses /\ held + m <= 3 /\ (held # 0 \/ quiet)
         IN  (IF whole THEN held + m ELSE 0) = IF lead2 /\ b2 \in 1 .. 3 THEN b2 ELSE 0
<1>1. CASE b = 0
  BY <1>1
<1>2. CASE b = 4
  BY <1>2
<1>3. CASE b = 3
  BY <1>3
<1>4. CASE b \in 1 .. 2
  BY <1>4
<1> QED BY <1>1, <1>2, <1>3, <1>4

\* What feed holds back in a guarded session: the run so far and this segment, if the
\* segment is nothing but '+' and continues or, after a silence, starts one.
LEMMA FedRun ==
  ASSUME AtOK, NEW seg \in Segments, FeedTransmit(seg)
  PROVE  LET held  == IF at.plus_cnt = 3 THEN 0 ELSE at.plus_cnt
             whole == AllPlus(seg) /\ held + Len(seg) <= 3 /\ (held # 0 \/ at.silent = 1)
         IN  /\ at'.plus_cnt = IF whole THEN held + Len(seg) ELSE 0
             /\ at'.exit_req = at.exit_req
<1> DEFINE broken == at.plus_cnt = 3
           held   == IF broken THEN 0 ELSE at.plus_cnt
           hold   == Hold(seg, held)
           whole  == AllPlus(seg) /\ held + Len(seg) <= 3 /\ (held # 0 \/ at.silent = 1)
<1>1. held \in 0 .. 3 /\ at.silent \in {0, 1}
  BY DEF AtOK, AtT
<1>2. Len(seg) \in Nat /\ Len(seg) > 0
  BY SegmentType
<1>3. hold = Len(seg) <=> whole
  <2>1. CASE held = 0 /\ at.silent = 0
    BY <1>2, <2>1 DEF Hold
  <2>2. CASE ~(held = 0 /\ at.silent = 0)
    <3>1. hold = LeadingPluses(seg, held)
      BY <2>2 DEF Hold
    <3> HIDE DEF held
    <3>2. LeadingPluses(seg, held) = Len(seg) <=> AllPlus(seg) /\ held + Len(seg) <= 3
      BY <1>1, WholeSegmentHeld
    <3> QED BY <1>1, <2>2, <3>1, <3>2
  <2> QED BY <2>1, <2>2
<1>4. IF hold = Len(seg)
      THEN at' = [[at EXCEPT !.plus_cnt = held + hold] EXCEPT !.silent = SilentAfterFeed]
      ELSE at' = [[at EXCEPT !.plus_cnt = 0] EXCEPT !.silent = SilentAfterFeed]
  BY DEF FeedTransmit, Received
<1> HIDE DEF hold, held, whole
<1>5. /\ at'.plus_cnt = IF hold = Len(seg) THEN held + hold ELSE 0
      /\ at'.exit_req = at.exit_req
  BY <1>4 DEF AtOK, AtT
<1> QED BY <1>3, <1>5 DEF held, whole

LEMMA FeedKeepsGuard == TypeOK /\ Control /\ GuardTold /\ Feed => GuardTold'
<1> SUFFICES ASSUME TypeOK, Control, GuardTold, Feed PROVE GuardTold'
  OBVIOUS
<1>0. AtOK /\ MainOK /\ RestOK
  BY TypeParts
<1>1. main' = main /\ at'.mode = at.mode /\ at'.sess = at.sess
  BY <1>0, InterruptsKeep
<1> PICK seg \in Segments : FeedPlain(seg) \/ FeedExit(seg) \/ FeedTransmit(seg)
  BY DEF Feed
<1>2. hist' = FeedHistory(seg) /\ timer' = Rearmed
  BY DEF FeedPlain, FeedExit, FeedTransmit, Received
<1>3. at'.silent = IF at.mode = "DATA" /\ ~Guarded THEN 1 ELSE 0
  BY <1>0 DEF FeedPlain, FeedExit, FeedTransmit, Received, SilentAfterFeed, AtOK, AtT
<1>4. /\ ~hist'.quiet
      /\ at.mode = "COMMAND" => (hist'.lead <=> hist.lead) /\ hist'.burst = hist.burst
      /\ at.mode # "COMMAND" /\ at.exit_req # 1 =>
           /\ hist.burst = 0 => (hist'.lead <=> hist.quiet)
           /\ hist.burst # 0 => (hist'.lead <=> hist.lead)
           /\ hist'.burst = IF AllPlus(seg) /\ hist.burst + Len(seg) <= 3
                            THEN hist.burst + Len(seg) ELSE 4
  BY <1>2, FedHistory
<1>5. (UsePlus' <=> UsePlus) /\ (Guarded' <=> Guarded)
  BY <1>1, SameSession
<1>6. at.mode \in {"COMMAND", "DATA"} /\ at.exit_req \in {0, 1}
  BY <1>0 DEF AtOK, AtT
<1>7. at'.mode = "COMMAND" => ~hist'.quiet /\ ~hist'.lead /\ hist'.burst = 0
  BY <1>1, <1>4, Zenon DEF GuardTold
<1>8. main'.pc = "confirm_mode" => at'.plus_cnt = 0 /\ (Guarded' => at'.silent = 0)
  <2> SUFFICES ASSUME main.pc = "confirm_mode" PROVE at'.plus_cnt = 0 /\ at'.silent = 0
    BY <1>1
  <2>1. at.mode = "COMMAND" /\ at.plus_cnt = 0
    BY DEF Control, CommandPoints, GuardTold
  <2>2. at' = [at EXCEPT !.silent = SilentAfterFeed]
    BY <2>1 DEF FeedPlain, FeedExit, FeedTransmit, Transmitting, Received
  <2> QED BY <1>0, <1>3, <2>1, <2>2 DEF AtOK, AtT
<1>9. at'.mode = "DATA" /\ Guarded' /\ main'.pc # "confirm_arm" => timer' \in {"off", "guard"}
  BY <1>1, <1>2, <1>5 DEF Rearmed
<1>10. at'.mode = "DATA" /\ UsePlus' /\ Guarded' => (at'.silent = 1 <=> hist'.quiet)
  BY <1>1, <1>3, <1>4, <1>5
<1>11. PlusRun'
  <2> SUFFICES ASSUME at.mode = "DATA", UsePlus, Guarded, at'.exit_req = 0, ~Leaving
               PROVE  at'.plus_cnt = IF hist'.lead /\ hist'.burst \in 1 .. 3 THEN hist'.burst ELSE 0
    BY <1>1, <1>5 DEF PlusRun, Leaving
  <2>1. FeedTransmit(seg) /\ at.exit_req = 0
    <3>1. ~FeedExit(seg)
      <4> SUFFICES ASSUME FeedExit(seg) PROVE FALSE
        OBVIOUS
      <4>1. \E h, v : at' = [at EXCEPT !.plus_cnt = 0, !.exit_mark = h, !.exit_req = 1,
                                       !.silent = v]
        BY DEF FeedExit, Received
      <4> QED BY <1>0, <4>1 DEF AtOK, AtT
    <3>2. FeedPlain(seg) => at'.exit_req = at.exit_req
      BY <1>0 DEF FeedPlain, Received, AtOK, AtT
    <3>3. FeedTransmit(seg)
      BY <1>6, <3>1, <3>2 DEF FeedPlain, Transmitting
    <3> QED BY <3>3 DEF FeedTransmit, Transmitting
  <2>2. at.plus_cnt = IF hist.lead /\ hist.burst \in 1 .. 3 THEN hist.burst ELSE 0
    BY <2>1 DEF GuardTold, PlusRun
  <2>3. (at.silent = 1 <=> hist.quiet) /\ (hist.quiet => hist.burst = 0)
    BY DEF GuardTold
  <2> DEFINE lead   == hist.lead
             quiet  == hist.quiet
             pluses == AllPlus(seg)
             b      == hist.burst
             m      == Len(seg)
             c     == IF lead /\ b \in 1 .. 3 THEN b ELSE 0
             held  == IF c = 3 THEN 0 ELSE c
             lead2 == IF b = 0 THEN quiet ELSE lead
             b2    == IF pluses /\ b + m <= 3 THEN b + m ELSE 4
             whole == pluses /\ held + m <= 3 /\ (held # 0 \/ quiet)
  <2>4. /\ lead \in BOOLEAN /\ quiet \in BOOLEAN /\ pluses \in BOOLEAN
        /\ b \in 0 .. 4 /\ m \in Nat /\ m > 0
    <3>1. lead \in BOOLEAN /\ quiet \in BOOLEAN /\ b \in 0 .. 4
      BY <1>0 DEF RestOK, HistT
    <3>2. pluses \in BOOLEAN
      BY DEF AllPlus
    <3> QED BY <3>1, <3>2, SegmentType
  <2>5. at.plus_cnt = c
    BY <2>2
  <2>6. at'.plus_cnt = IF whole THEN held + m ELSE 0
    <3>1. LET h == IF at.plus_cnt = 3 THEN 0 ELSE at.plus_cnt
              w == pluses /\ h + m <= 3 /\ (h # 0 \/ at.silent = 1)
          IN  at'.plus_cnt = IF w THEN h + m ELSE 0
      BY <1>0, <2>1, FedRun
    <3>2. (IF at.plus_cnt = 3 THEN 0 ELSE at.plus_cnt) = held
      BY <2>5
    <3> HIDE DEF held, pluses, quiet, m
    <3> QED BY <2>3, <3>1, <3>2 DEF quiet
  <2>7. (hist'.lead <=> lead2) /\ hist'.burst = b2
    BY <1>4, <2>1
  <2>8. (IF whole THEN held + m ELSE 0) = IF lead2 /\ b2 \in 1 .. 3 THEN b2 ELSE 0
    <3>1. quiet => b = 0
      BY <2>3
    <3> HIDE DEF lead, quiet, pluses, b, m
    <3> QED BY <2>4, <3>1, RunGoesOn
  <2> HIDE DEF lead2, b2, whole, held, m
  <2> QED BY <2>6, <2>7, <2>8
<1> QED BY <1>4, <1>7, <1>8, <1>9, <1>10, <1>11 DEF GuardTold

LEMMA TimerKeepsGuard ==
  ASSUME "timer" \notin Isr
  PROVE  TypeOK /\ GuardTold /\ Timer => GuardTold'
<1> SUFFICES ASSUME TypeOK, GuardTold, Timer PROVE GuardTold'
  OBVIOUS
<1>0. AtOK /\ RestOK
  BY TypeParts
<1>1. main.pc = "idle" /\ main' = main /\ timer # "off" /\ timer' = "off"
  BY DEF Timer, TimerCommand, TimerGuard, TimerFixed, Expire, MayRun
<1>2. at'.mode = at.mode /\ at'.sess = at.sess
  BY <1>0, InterruptsKeep
<1>3. (UsePlus' <=> UsePlus) /\ (Guarded' <=> Guarded)
  BY <1>2, SameSession
<1>4. CASE TimerCommand \/ TimerFixed
  <2>1. at' = at /\ hist' = hist
    BY <1>4 DEF TimerCommand, TimerFixed
  <2>2. PlusRun'
    BY <1>1, <1>3, <2>1 DEF GuardTold, PlusRun, Leaving
  <2> QED BY <1>1, <1>3, <2>1, <2>2 DEF GuardTold
<1>5. CASE TimerGuard
  <2>1. at.mode = "DATA" /\ at'.mode = "DATA" /\ UsePlus
    BY <1>2, <1>5 DEF TimerGuard
  <2>2. at'.silent = 1 /\ at'.plus_cnt = 0
    <3>1. \/ \E h : at' = [at EXCEPT !.silent = 1, !.plus_cnt = 0, !.exit_mark = h, !.exit_req = 1]
          \/ at' = [at EXCEPT !.silent = 1, !.plus_cnt = 0]
      BY <1>5 DEF TimerGuard
    <3> QED BY <1>0, <3>1 DEF AtOK, AtT
  <2>3. hist' = IF timer = "guard" THEN [hist EXCEPT !.quiet = TRUE, !.lead = FALSE, !.burst = 0]
                ELSE hist
    BY <1>5 DEF TimerGuard
  <2>4. CASE Guarded
    <3>1. timer = "guard"
      BY <1>1, <2>1, <2>4 DEF GuardTold
    <3>2. hist' = [hist EXCEPT !.quiet = TRUE, !.lead = FALSE, !.burst = 0]
      BY <2>3, <3>1
    <3>3. hist'.quiet /\ ~hist'.lead /\ hist'.burst = 0
      BY <1>0, <3>2, Zenon DEF RestOK, HistT
    <3>4. PlusRun'
      BY <2>2, <3>3 DEF PlusRun
    <3> QED BY <1>1, <2>1, <2>2, <3>3, <3>4 DEF GuardTold
  <2>5. CASE ~Guarded
    <3>1. hist'.quiet => hist'.burst = 0
      <4>1. CASE timer = "guard"
        <5>1. hist' = [hist EXCEPT !.quiet = TRUE, !.lead = FALSE, !.burst = 0]
          BY <2>3, <4>1
        <5> QED BY <1>0, <5>1 DEF RestOK, HistT
      <4>2. CASE timer # "guard"
        BY <2>3, <4>2 DEF GuardTold
      <4> QED BY <4>1, <4>2
    <3>2. PlusRun'
      BY <1>3, <2>5 DEF PlusRun
    <3> QED BY <1>1, <1>3, <2>1, <2>5, <3>1, <3>2 DEF GuardTold
  <2> QED BY <2>4, <2>5
<1> QED BY <1>4, <1>5 DEF Timer

\* The steps of the main loop that leave the guard, its history and the timer alone.
LEMMA GuardBystanders ==
  ASSUME TypeOK, Next, ~Feed, ~Timer, ~Line, ~ClearPlus, ~ClearExit, ~ToCommand,
         ~ConfirmState, ~ConfirmMode, ~ConfirmArm
  PROVE  /\ at'.mode = at.mode /\ at'.sess = at.sess /\ at'.silent = at.silent
         /\ at'.plus_cnt = at.plus_cnt /\ at'.exit_req \in {at.exit_req, 1}
         /\ hist' = hist /\ timer' = timer
         /\ Leaving => Leaving'
         /\ main'.pc # "confirm_mode" /\ main.pc # "confirm_arm"
<1>0. StreamOK /\ AtOK /\ MainOK
  BY TypeParts
<1> USE DEF From, Goto
<1>1. CASE AppConfirm \/ AppCancel \/ AppGuardSet \/ AppExitMark \/ AppExitRequest
  <2>1. /\ at'.mode = at.mode /\ at'.sess = at.sess /\ at'.silent = at.silent
        /\ at'.plus_cnt = at.plus_cnt /\ at'.exit_req \in {at.exit_req, 1}
    BY <1>0, <1>1 DEF AppConfirm, AppCancel, AppGuardSet, AppExitMark, AppExitRequest, AtOK, AtT
  <2>2. hist' = hist /\ timer' = timer /\ main.pc \in {"idle", "exit_request"}
    BY <1>1 DEF AppConfirm, AppCancel, AppGuardSet, AppExitMark, AppExitRequest
  <2>3. main'.pc # "confirm_mode"
    BY <1>0, <1>1 DEF AppConfirm, AppCancel, AppGuardSet, AppExitMark, AppExitRequest,
       MainOK, MainT
  <2> QED BY <2>1, <2>2, <2>3 DEF Leaving
<1>2. CASE FixedRelease \/ StreamRelease \/ DrainRelease
  <2>1. /\ at'.mode = at.mode /\ at'.sess = at.sess /\ at'.silent = at.silent
        /\ at'.plus_cnt = at.plus_cnt /\ at'.exit_req \in {at.exit_req, 1}
    BY <1>0, <1>2 DEF FixedRelease, StreamRelease, DrainRelease, Release, AtOK, AtT
  <2>2. /\ hist' = hist /\ timer' = timer
        /\ main.pc \in {"fixed_release", "stream_release", "drain_release"}
        /\ main'.pc \in {"fixed", "stream", "drain"}
    BY <1>0, <1>2 DEF FixedRelease, StreamRelease, DrainRelease, Release, MainOK, MainT
  <2> QED BY <2>1, <2>2 DEF Leaving
<1>3. CASE \/ Process \/ SessionEnter \/ FixedDeliver \/ FixedWait \/ FixedFull
           \/ StreamDeliver \/ StreamWait \/ Leave \/ DrainDeliver \/ DrainDone
           \/ ClearSessionOverflow \/ KeepPending \/ SessionResult
           \/ PendingRead \/ PendingClear \/ OverflowRead \/ OverflowClear
           \/ VoidTail \/ VoidOverflow \/ VoidPending \/ VoidResult \/ NoLine \/ Residue
           \/ ConfirmTail \/ ConfirmOverflow \/ ConfirmPending \/ HandlerResult \/ Prompt
  <2>1. at' = at /\ hist' = hist /\ timer' = timer
    BY <1>3 DEF Process, SessionEnter, FixedDeliver, FixedWait, FixedFull, StreamDeliver,
       StreamWait, Leave, DrainDeliver, DrainDone, ClearSessionOverflow, KeepPending,
       SessionResult, PendingRead, PendingClear, OverflowRead, OverflowClear, VoidTail,
       VoidOverflow, VoidPending, VoidResult, NoLine, Residue, ConfirmTail, ConfirmOverflow,
       ConfirmPending, HandlerResult, Prompt, Deliver
  <2>2. main.pc # "confirm_arm" /\ (Leaving => ClearSessionOverflow \/ KeepPending)
    BY <1>3 DEF Process, SessionEnter, FixedDeliver, FixedWait, FixedFull, StreamDeliver,
       StreamWait, Leave, DrainDeliver, DrainDone, ClearSessionOverflow, KeepPending,
       SessionResult, PendingRead, PendingClear, OverflowRead, OverflowClear, VoidTail,
       VoidOverflow, VoidPending, VoidResult, NoLine, Residue, ConfirmTail, ConfirmOverflow,
       ConfirmPending, HandlerResult, Prompt, Leaving
  <2>3. main'.pc # "confirm_mode"
    <3>1. CASE Process \/ SessionEnter
      BY <1>0, <3>1 DEF Process, SessionEnter, MainOK, MainT
    <3>2. CASE FixedDeliver \/ StreamDeliver \/ DrainDeliver
      BY <1>0, <3>2 DEF FixedDeliver, StreamDeliver, DrainDeliver, Deliver, MainOK, MainT
    <3>3. CASE \/ FixedWait \/ StreamWait \/ SessionResult \/ PendingClear \/ VoidResult
               \/ Residue \/ Prompt
      BY <1>0, <3>3 DEF FixedWait, StreamWait, SessionResult, PendingClear, VoidResult, Residue,
         Prompt, Return, Idle, MainOK, MainT
    <3>4. CASE FixedFull \/ Leave
      BY <1>0, <3>4 DEF FixedFull, Leave, AtOK, AtT, MainOK, MainT
    <3>5. CASE PendingRead \/ OverflowRead
      BY <1>0, <3>5 DEF PendingRead, OverflowRead, StreamOK, StreamT, MainOK, MainT
    <3>6. CASE \/ DrainDone \/ ClearSessionOverflow \/ KeepPending \/ OverflowClear \/ VoidTail
               \/ VoidOverflow \/ VoidPending \/ NoLine \/ ConfirmTail \/ ConfirmOverflow
               \/ ConfirmPending \/ HandlerResult
      BY <1>0, <3>6 DEF DrainDone, ClearSessionOverflow, KeepPending, OverflowClear, VoidTail,
         VoidOverflow, VoidPending, NoLine, ConfirmTail, ConfirmOverflow, ConfirmPending,
         HandlerResult, MainOK, MainT
    <3> QED BY <1>3, <3>1, <3>2, <3>3, <3>4, <3>5, <3>6
  <2>4. ClearSessionOverflow \/ KeepPending => Leaving'
    BY <1>0 DEF ClearSessionOverflow, KeepPending, Leaving, MainOK, MainT
  <2>5. at'.exit_req \in {at.exit_req, 1}
    BY <2>1
  <2> QED BY <2>1, <2>2, <2>3, <2>4, <2>5
<1> QED
  BY <1>1, <1>2, <1>3 DEF Next, MainLoop, App

LEMMA StepKeepsGuardTold ==
  ASSUME "timer" \notin Isr
  PROVE  TypeOK /\ Control /\ GuardTold /\ [Next]_vars => GuardTold'
<1> SUFFICES ASSUME TypeOK, Control, GuardTold, [Next]_vars PROVE GuardTold'
  OBVIOUS
<1>0. AtOK /\ MainOK /\ RestOK
  BY TypeParts
<1> USE DEF From, Goto
<1>1. CASE Feed \/ Timer
  BY <1>1, FeedKeepsGuard, TimerKeepsGuard
<1>2. CASE UNCHANGED vars
  <2>1. main' = main /\ at' = at /\ hist' = hist /\ timer' = timer
    BY <1>2 DEF vars
  <2>2. (UsePlus' <=> UsePlus) /\ (Guarded' <=> Guarded)
    BY <2>1, SameSession
  <2>3. PlusRun'
    BY <2>1, <2>2 DEF GuardTold, PlusRun, Leaving
  <2> QED BY <2>1, <2>2, <2>3 DEF GuardTold
<1>3. CASE Line
  <2>1. /\ at'.mode = "COMMAND" /\ at.mode = "COMMAND" /\ main'.pc # "confirm_mode"
    BY <1>3, LineKeeps DEF Line, Control, CommandPoints
  <2>2. hist' = hist
    BY <1>3 DEF Line, LineRefused, LineEmpty, LineRun, LineSync, TakeLine
  <2> QED BY <2>1, <2>2 DEF GuardTold, PlusRun
<1>4. CASE ClearPlus \/ ClearExit
  <2>1. /\ at'.mode = at.mode /\ at'.sess = at.sess /\ at'.silent = at.silent
        /\ hist' = hist /\ timer' = timer /\ main.pc # "confirm_arm"
    BY <1>0, <1>4 DEF ClearPlus, ClearExit, AtOK, AtT
  <2>2. main'.pc \in {"clear_exit", "clear_overflow"}
    BY <1>0, <1>4 DEF ClearPlus, ClearExit, MainOK, MainT
  <2>3. (UsePlus' <=> UsePlus) /\ (Guarded' <=> Guarded)
    BY <2>1, SameSession
  <2> QED BY <2>1, <2>2, <2>3 DEF GuardTold, PlusRun, Leaving
<1>5. CASE ToCommand
  <2>1. at'.mode = "COMMAND" /\ main'.pc = "session_result"
    BY <1>0, <1>5 DEF ToCommand, AtOK, AtT, MainOK, MainT
  <2>2. hist' = [hist EXCEPT !.quiet = FALSE, !.lead = FALSE, !.burst = 0]
    BY <1>5 DEF ToCommand
  <2>3. ~hist'.quiet /\ ~hist'.lead /\ hist'.burst = 0
    BY <1>0, <2>2, Zenon DEF RestOK, HistT
  <2> QED BY <2>1, <2>3 DEF GuardTold, PlusRun
<1>6. CASE ConfirmState
  <2>1. at.mode = "COMMAND" /\ hist' = hist
    BY <1>6 DEF ConfirmState, Control, CommandPoints
  <2>2. /\ at'.mode = "COMMAND" /\ at'.sess = at.sess /\ at'.plus_cnt = 0
        /\ Guarded => at'.silent = 0
    BY <1>0, <1>6, <2>1 DEF ConfirmState, AtOK, AtT
  <2>3. Guarded' <=> Guarded
    BY <2>2, SameSession
  <2> QED BY <2>1, <2>2, <2>3 DEF GuardTold, PlusRun
<1>7. CASE ConfirmMode
  <2>1. /\ main.pc = "confirm_mode" /\ at.mode = "COMMAND" /\ hist' = hist
    BY <1>7 DEF ConfirmMode, Control, CommandPoints
  <2>2. /\ at'.mode = "DATA" /\ at'.sess = at.sess /\ at'.plus_cnt = at.plus_cnt
        /\ at'.silent = at.silent
    BY <1>0, <1>7 DEF ConfirmMode, AtOK, AtT
  <2>3. main'.pc = "confirm_arm"
    BY <1>0, <1>7 DEF ConfirmMode, MainOK, MainT
  <2>4. (UsePlus' <=> UsePlus) /\ (Guarded' <=> Guarded)
    BY <2>2, SameSession
  <2> QED BY <2>1, <2>2, <2>3, <2>4 DEF GuardTold, PlusRun
<1>8. CASE ConfirmArm
  <2>1. /\ main.pc = "confirm_arm" /\ at' = at /\ hist' = hist
        /\ timer' = IF Guarded THEN "guard" ELSE timer
    BY <1>8 DEF ConfirmArm
  <2>2. main'.pc \in {"handler_result", "prompt"}
    BY <1>0, <1>8 DEF ConfirmArm, MainOK, MainT
  <2>3. (UsePlus' <=> UsePlus) /\ (Guarded' <=> Guarded)
    BY <2>1, SameSession
  <2>4. PlusRun'
    BY <2>1, <2>2, <2>3 DEF GuardTold, PlusRun, Leaving
  <2> QED BY <2>1, <2>2, <2>3, <2>4 DEF GuardTold
<1>9. CASE /\ Next /\ ~Feed /\ ~Timer /\ ~Line /\ ~ClearPlus /\ ~ClearExit /\ ~ToCommand
           /\ ~ConfirmState /\ ~ConfirmMode /\ ~ConfirmArm
  <2>1. /\ at'.mode = at.mode /\ at'.sess = at.sess /\ at'.silent = at.silent
        /\ at'.plus_cnt = at.plus_cnt /\ at'.exit_req \in {at.exit_req, 1}
        /\ hist' = hist /\ timer' = timer
        /\ Leaving => Leaving'
        /\ main'.pc # "confirm_mode" /\ main.pc # "confirm_arm"
    BY <1>9, GuardBystanders
  <2>2. (UsePlus' <=> UsePlus) /\ (Guarded' <=> Guarded)
    BY <2>1, SameSession
  <2>3. PlusRun'
    BY <2>1, <2>2 DEF GuardTold, PlusRun
  <2> QED BY <2>1, <2>2, <2>3 DEF GuardTold
<1> QED
  BY <1>1, <1>2, <1>3, <1>4, <1>5, <1>6, <1>7, <1>8, <1>9

LEMMA GuardInvariant ==
  ASSUME "timer" \notin Isr
  PROVE  Spec => [](TypeOK /\ Control /\ GuardTold)
<1> DEFINE IInv == TypeOK /\ Control /\ GuardTold
<1>1. Init => IInv
  <2> SUFFICES ASSUME Init PROVE IInv
    OBVIOUS
  <2>1. at.mode = "COMMAND" /\ main.pc = "idle"
    BY DEF Init, Idle
  <2>2. ~hist.quiet /\ ~hist.lead /\ hist.burst = 0
    BY Zenon DEF Init
  <2> QED
    BY <2>1, <2>2, InitTypeOK DEF Control, GuardTold, PlusRun, CommandPoints, DataPoints,
       FixedPoints, StreamPoints, DrainPoints, EndPoints
<1>2. IInv /\ [Next]_vars => IInv'
  BY StepKeepsTypeOK, StepKeepsControl, StepKeepsGuardTold
<1> QED BY <1>1, <1>2, PTL DEF Spec

\* As long as the timer callback does not preempt the main loop, the held '+' are exactly
\* an unbroken run behind a full guard silence, whatever feed interrupts.
THEOREM CorePlusRun ==
  ASSUME "timer" \notin Isr
  PROVE  Spec => []PlusRun
<1>1. TypeOK /\ Control /\ GuardTold => PlusRun
  BY DEF GuardTold
<1> QED BY <1>1, GuardInvariant, PTL

\* Under the same condition only the session's own guard makes it silent: an idle timer
\* left over from command mode cannot.
THEOREM CoreSilentIsGuard ==
  ASSUME "timer" \notin Isr
  PROVE  Spec => []SilentIsGuard
<1>1. TypeOK /\ Control /\ GuardTold => SilentIsGuard
  BY DEF GuardTold, SilentIsGuard
<1> QED BY <1>1, GuardInvariant, PTL

\* What ends a guarded session of itself: the expiry of its guard on three held '+'.
LEMMA EscapeStep ==
  ASSUME "timer" \notin Isr
  PROVE  /\ TypeOK /\ GuardTold /\ [Next]_vars
         /\ at.mode = "DATA" /\ UsePlus /\ Guarded /\ main.pc = "idle" /\ main'.pc = "idle"
         => (at.exit_req = 0 /\ at'.exit_req = 1
               <=> /\ at.exit_req = 0 /\ hist.lead /\ hist.burst = 3
                   /\ timer = "guard" /\ timer' = "off")
<1> SUFFICES ASSUME TypeOK, GuardTold, [Next]_vars, at.mode = "DATA", UsePlus, Guarded,
                    main.pc = "idle", main'.pc = "idle", at.exit_req = 0
             PROVE  at'.exit_req = 1 <=> /\ hist.lead /\ hist.burst = 3
                                         /\ timer = "guard" /\ timer' = "off"
  OBVIOUS
<1>0. AtOK /\ MainOK
  BY TypeParts
<1>1. at.plus_cnt = IF hist.lead /\ hist.burst \in 1 .. 3 THEN hist.burst ELSE 0
  BY DEF GuardTold, PlusRun, Leaving
<1>2. (at.silent = 1 => hist.quiet) /\ (hist.quiet => hist.burst = 0)
  BY DEF GuardTold
<1>3. CASE Feed
  <2> PICK seg \in Segments : FeedPlain(seg) \/ FeedExit(seg) \/ FeedTransmit(seg)
    BY <1>3 DEF Feed
  <2>1. timer' = "guard"
    BY DEF FeedPlain, FeedExit, FeedTransmit, Received, Rearmed
  <2>2. ~FeedPlain(seg) /\ ~FeedExit(seg)
    BY <1>1, <1>2 DEF FeedPlain, FeedExit, Transmitting
  <2>3. at'.exit_req = 0
    BY <1>0, <2>2, FedRun
  <2> QED BY <2>1, <2>3
<1>4. CASE Timer
  <2>1. timer = "guard" /\ timer' = "off" /\ TimerGuard
    BY <1>4 DEF Timer, TimerCommand, TimerGuard, TimerFixed, Expire, GuardTold
  <2>2. at'.exit_req = IF at.plus_cnt = 3 THEN 1 ELSE 0
    <3>1. CASE at.plus_cnt = 3
      <4>1. \E h : at' = [at EXCEPT !.silent = 1, !.plus_cnt = 0, !.exit_mark = h, !.exit_req = 1]
        BY <2>1, <3>1 DEF TimerGuard
      <4> QED BY <1>0, <3>1, <4>1 DEF AtOK, AtT
    <3>2. CASE at.plus_cnt # 3
      <4>1. at' = [at EXCEPT !.silent = 1, !.plus_cnt = 0]
        BY <2>1, <3>2 DEF TimerGuard
      <4> QED BY <1>0, <3>2, <4>1 DEF AtOK, AtT
    <3> QED BY <3>1, <3>2
  <2> QED BY <1>1, <2>1, <2>2
\* Whatever else happens at rest neither asks to end the session nor stops its timer.
<1>5. CASE ~Feed /\ ~Timer
  <2>1. AppCancel \/ AppGuardSet \/ UNCHANGED vars
    BY <1>0, <1>5 DEF Next, MainLoop, App, From, Goto, Process, SessionEnter, FixedDeliver,
       FixedRelease, FixedWait, FixedFull, StreamDeliver, StreamRelease, StreamWait, Leave,
       DrainDeliver, DrainRelease, DrainDone, ClearPlus, ClearExit, ClearSessionOverflow,
       KeepPending, ToCommand, SessionResult, PendingRead, PendingClear, OverflowRead,
       OverflowClear, VoidTail, VoidOverflow, VoidPending, VoidResult, Line, NoLine, Residue,
       ConfirmTail, ConfirmOverflow, ConfirmPending, ConfirmState, ConfirmMode, ConfirmArm,
       HandlerResult, Prompt, AppExitRequest, AppConfirm, AppExitMark, MainOK, MainT
  <2>2. at'.exit_req = 0 /\ timer' = timer
    BY <1>0, <2>1 DEF AppCancel, AppGuardSet, vars, AtOK, AtT
  <2> QED BY <2>2
<1> QED BY <1>3, <1>4, <1>5

\* Of its own accord a guarded session ends exactly on silence, three '+' in one run,
\* silence (same condition).
THEOREM CoreEscapeExact ==
  ASSUME "timer" \notin Isr
  PROVE  Spec => EscapeExact
<1>1. TypeOK /\ Control /\ GuardTold /\ [Next]_vars =>
      [at.mode = "DATA" /\ UsePlus /\ Guarded /\ main.pc = "idle" /\ main'.pc = "idle" =>
         (at.exit_req = 0 /\ at'.exit_req = 1
            <=> /\ at.exit_req = 0 /\ hist.lead /\ hist.burst = 3
                /\ timer = "guard" /\ timer' = "off")]_vars
  BY EscapeStep
<1> QED BY <1>1, GuardInvariant, PTL DEF Spec, EscapeExact

-----------------------------------------------------------------------------
(* The bytes in the ring *)

LEMMA ConcatCells ==
  ASSUME NEW a \in Seq(Cell), NEW b \in Seq(Cell)
  PROVE  /\ Len(a \o b) = Len(a) + Len(b)
         /\ \A i \in 1 .. Len(a) + Len(b) :
              (a \o b)[i] = IF i <= Len(a) THEN a[i] ELSE b[i - Len(a)]
BY ConcatProperties

LEMMA StoredCells ==
  ASSUME NEW s \in StreamT, Len(s.q) < Size, NEW cells \in Seq(Cell),
         NEW r, r = Stored(s, cells)
  PROVE  /\ r.tail = s.tail /\ Len(r.q) \in Nat
         /\ Len(s.q) <= Len(r.q) /\ Len(r.q) < Size
         /\ Len(r.q) <= Len(s.q) + Len(cells)
         /\ \A k \in 1 .. Len(s.q) : r.q[k] = s.q[k]
         /\ \A k \in Len(s.q) + 1 .. Len(r.q) : r.q[k] = cells[k - Len(s.q)]
<1> DEFINE n == Min2(Len(cells), Size - 1 - Len(s.q))
           u == SubSeq(cells, 1, n)
           w == s.q \o u
<1>1. s.q \in Seq(Cell) /\ Len(s.q) \in Nat /\ Len(cells) \in Nat
  BY StreamFields, LenProperties
<1>2. n \in Nat /\ n <= Len(cells) /\ n <= Size - 1 - Len(s.q)
  <2>1. Size - 1 - Len(s.q) \in Nat
    BY <1>1, SizeAssumption
  <2> QED BY <1>1, <2>1, Min2Type
<1>3. \A i \in 1 .. n : cells[i] \in Cell
  BY <1>1, <1>2, ElementOfSeq
<1>4. r.q = w /\ r.tail = s.tail
  BY DEF Stored, StreamT
<1> HIDE DEF n
<1>5. u \in Seq(Cell) /\ Len(u) = n /\ \A i \in 1 .. n : u[i] = cells[i]
  BY <1>2, <1>3, SubSeqProperties
<1> HIDE DEF u
<1>6. /\ Len(w) = Len(s.q) + Len(u)
      /\ \A i \in 1 .. Len(s.q) + Len(u) :
           w[i] = IF i <= Len(s.q) THEN s.q[i] ELSE u[i - Len(s.q)]
  BY <1>1, <1>5, ConcatCells
<1> HIDE DEF w
<1>7. \A k \in 1 .. Len(s.q) : w[k] = s.q[k]
  BY <1>1, <1>2, <1>5, <1>6
<1>8. \A k \in Len(s.q) + 1 .. Len(w) : w[k] = cells[k - Len(s.q)]
  <2> TAKE k \in Len(s.q) + 1 .. Len(w)
  <2>1. k \in 1 .. Len(s.q) + Len(u) /\ ~(k <= Len(s.q)) /\ k - Len(s.q) \in 1 .. n
    BY <1>1, <1>2, <1>5, <1>6
  <2> QED BY <2>1, <1>5, <1>6
<1> QED BY <1>1, <1>2, <1>4, <1>5, <1>6, <1>7, <1>8, SizeAssumption

\* The class of the bytes that are fed is the one of their place.
LEMMA PutCells ==
  ASSUME NEW s \in StreamT, Len(s.q) < Size, NEW seg \in Seq(Token),
         NEW r, r = Put(s, seg)
  PROVE  /\ r \in StreamT /\ Len(r.q) < Size /\ r.tail = s.tail
         /\ Len(s.q) \in Nat /\ Len(r.q) \in Nat /\ Len(s.q) <= Len(r.q)
         /\ \A k \in 1 .. Len(s.q) : r.q[k] = s.q[k]
         /\ \A k \in Len(s.q) + 1 .. Len(r.q) : r.q[k].cls = Class(k)
<1> DEFINE c == [k \in 1 .. Len(seg) |-> Class(Len(s.q) + k)]
           cells == [k \in 1 .. Len(seg) |-> [b |-> seg[k], cls |-> Class(Len(s.q) + k)]]
<1>0. Len(s.q) \in Nat
  BY StreamFields
<1>1. Len(seg) \in Nat /\ seg \in [1 .. Len(seg) -> Token]
  BY LenProperties
<1>2. c \in [1 .. Len(seg) -> {"cmd", "data", "late"}]
  BY DEF Class
<1>3. cells = [k \in 1 .. Len(seg) |-> [b |-> seg[k], cls |-> c[k]]]
  OBVIOUS
<1>a. \A k \in 1 .. Len(seg) : cells[k].cls = Class(Len(s.q) + k)
  OBVIOUS
<1> HIDE DEF c
<1>4. [k \in 1 .. Len(seg) |-> [b |-> seg[k], cls |-> c[k]]] \in Seq(Cell)
  BY <1>1, <1>2, CellsType
<1>5. cells \in Seq(Cell)
  BY <1>3, <1>4, Zenon
<1>b. Len(cells) = Len(seg)
  <2>1. DOMAIN cells = 1 .. Len(seg)
    OBVIOUS
  <2> HIDE DEF cells
  <2> QED BY <1>1, <1>5, <2>1, LenProperties
<1>6. r = Stored(s, cells)
  BY DEF Put
<1> HIDE DEF cells
<1>7. r \in StreamT /\ Len(r.q) < Size
  BY <1>5, <1>6, StoredType
<1>8. /\ r.tail = s.tail /\ Len(r.q) \in Nat /\ Len(s.q) <= Len(r.q)
      /\ Len(r.q) <= Len(s.q) + Len(cells)
      /\ \A k \in 1 .. Len(s.q) : r.q[k] = s.q[k]
      /\ \A k \in Len(s.q) + 1 .. Len(r.q) : r.q[k] = cells[k - Len(s.q)]
  BY <1>5, <1>6, StoredCells
<1>9. \A k \in Len(s.q) + 1 .. Len(r.q) : r.q[k].cls = Class(k)
  <2> TAKE k \in Len(s.q) + 1 .. Len(r.q)
  <2> DEFINE j == k - Len(s.q)
  <2>1. j \in 1 .. Len(seg) /\ Len(s.q) + j = k
    BY <1>0, <1>1, <1>8, <1>b
  <2>2. r.q[k] = cells[j]
    BY <1>8
  <2> HIDE DEF j
  <2> QED BY <2>1, <2>2, <1>a
<1> QED BY <1>0, <1>7, <1>8, <1>9

LEMMA ConsumedCells ==
  ASSUME NEW s \in StreamT, NEW n \in 0 .. Len(s.q), NEW r, r = Consumed(s, n)
  PROVE  Len(r.q) = Len(s.q) - n /\ \A k \in 1 .. Len(r.q) : r.q[k] = s.q[k + n]
<1> DEFINE q == s.q
           a == n + 1
           z == Len(s.q)
           u == SubSeq(q, a, z)
<1>1. s.q \in Seq(Cell) /\ Len(s.q) \in Nat /\ n \in Nat
  BY StreamFields
<1>2. r.q = u
  BY DEF Consumed, StreamT
<1>3. a \in Int /\ z \in Int /\ \A i \in a .. z : q[i] \in Cell
  BY <1>1, ElementOfSeq
<1>4. a <= z + 1 /\ a >= 1
  BY <1>1
<1> HIDE DEF q, a, z
<1>5. /\ Len(u) = IF a <= z THEN z - a + 1 ELSE 0
      /\ \A i \in 1 .. z - a + 1 : u[i] = q[a + i - 1]
  BY <1>3, SubSeqProperties
<1> HIDE DEF u
<1>6. Len(u) = z - a + 1
  BY <1>3, <1>4, <1>5
<1>7. Len(u) = Len(s.q) - n
  BY <1>1, <1>6 DEF a, z
<1>8. \A k \in 1 .. Len(u) : u[k] = s.q[k + n]
  <2> TAKE k \in 1 .. Len(u)
  <2>1. u[k] = q[a + k - 1]
    BY <1>5, <1>6
  <2>2. a + k - 1 = k + n
    BY <1>1, <1>7 DEF a
  <2> QED BY <2>1, <2>2 DEF q
<1> QED BY <1>2, <1>7, <1>8

\* Within the contiguous run the index wraps at most to 0.
LEMMA ConsumedTail ==
  ASSUME NEW s \in StreamT, NEW n \in Nat, n <= Size - s.tail
  PROVE  Consumed(s, n).tail = IF s.tail + n = Size THEN 0 ELSE s.tail + n
<1> DEFINE t == s.tail + n
<1>1. Consumed(s, n).tail = t % Size
  BY DEF Consumed, StreamT
<1>2. t \in 0 .. Size
  BY StreamFields, SizeAssumption
<1> HIDE DEF t
<1>3. t % Size = IF t = Size THEN 0 ELSE t
  BY <1>2, SizeAssumption
<1> QED BY <1>1, <1>3 DEF t

LEMMA HeadIsEnd ==
  ASSUME NEW s \in StreamT, Len(s.q) < Size
  PROVE  BytesToMark(s, HeadIdx(s)) = Len(s.q)
<1> DEFINE n == Len(s.q)
           a == s.tail
           t == a + n
<1>1. n \in Nat /\ n < Size /\ a \in 0 .. Size - 1
  BY StreamFields
<1> HIDE DEF n, a
<1>2. t \in 0 .. 2 * Size - 2
  BY <1>1, SizeAssumption
<1> HIDE DEF t
<1>3. t % Size = IF t < Size THEN t ELSE t - Size
  BY <1>2, SizeAssumption
<1>4. HeadIdx(s) = IF t < Size THEN t ELSE t - Size
  BY <1>3 DEF HeadIdx, t, a, n
<1> QED BY <1>1, <1>4, SizeAssumption DEF BytesToMark, t, a, n

LEMMA ConsumedToMark ==
  ASSUME NEW s \in StreamT, NEW mark \in 0 .. Size - 1,
         NEW n \in Nat, n <= Size - s.tail, n <= BytesToMark(s, mark)
  PROVE  BytesToMark(Consumed(s, n), mark) = BytesToMark(s, mark) - n
<1> DEFINE a == s.tail
           b == Consumed(s, n).tail
<1>1. a \in 0 .. Size - 1 /\ n \in Nat
  BY StreamFields
<1>2. b = IF a + n = Size THEN 0 ELSE a + n
  BY ConsumedTail
<1>3. /\ n <= Size - a /\ n <= IF mark >= a THEN mark - a ELSE Size - a + mark
  BY DEF BytesToMark
<1> SUFFICES (IF mark >= b THEN mark - b ELSE Size - b + mark)
             = (IF mark >= a THEN mark - a ELSE Size - a + mark) - n
  BY DEF BytesToMark
<1> HIDE DEF a, b
<1> QED BY <1>1, <1>2, <1>3, SizeAssumption

LEMMA ConsumedHead ==
  ASSUME NEW s \in StreamT, Len(s.q) < Size, NEW n \in 0 .. Len(s.q), n <= Size - s.tail
  PROVE  HeadIdx(Consumed(s, n)) = HeadIdx(s)
<1> DEFINE a == s.tail
           l == Len(s.q)
           b == Consumed(s, n).tail
           h == a + l
<1>1. a \in 0 .. Size - 1 /\ l \in Nat /\ l < Size /\ n \in 0 .. l
  BY StreamFields
<1>2. b = IF a + n = Size THEN 0 ELSE a + n
  BY <1>1, ConsumedTail
<1>3. Len(Consumed(s, n).q) = l - n
  BY ConsumedCells
<1>4. HeadIdx(Consumed(s, n)) = (b + (l - n)) % Size /\ HeadIdx(s) = h % Size
  BY <1>3 DEF HeadIdx
<1> HIDE DEF a, l, b
<1>5. b + (l - n) = IF a + n = Size THEN h - Size ELSE h
  BY <1>1, <1>2, SizeAssumption
<1>6. h \in 0 .. 2 * Size - 2 /\ (a + n = Size => h >= Size)
  BY <1>1, SizeAssumption
<1> DEFINE w == a + n = Size
<1> HIDE DEF h, w
<1>7. w => (h - Size) % Size = h - Size /\ h % Size = h - Size
  BY <1>6, SizeAssumption DEF w
<1> QED BY <1>4, <1>5, <1>7 DEF w

LEMMA ContiguousBound ==
  ASSUME NEW s \in StreamT
  PROVE  /\ Contiguous(s) \in Nat /\ Contiguous(s) <= Len(s.q) /\ Contiguous(s) <= Size - s.tail
<1> DEFINE a == Len(s.q)
           b == Size - s.tail
<1>1. a \in Nat /\ b \in Nat
  BY StreamFields, SizeAssumption
<1> HIDE DEF a, b
<1>2. Min2(a, b) \in Nat /\ Min2(a, b) <= a /\ Min2(a, b) <= b
  BY <1>1, Min2Type
<1> QED BY <1>2 DEF Contiguous, a, b

-----------------------------------------------------------------------------

\* The conditions: feed does not preempt the main loop, only STREAM sessions can be left early,
\* and the application leaves none that is being left already.
Orderly ==
  /\ "feed" \notin Isr /\ AppExit # "any"
  /\ \A c \in DOMAIN Handler :
       Handler[c].enter # "no" /\ Handler[c].sess.policy = "FIXED" => ~Handler[c].sess.abort

\* Each byte is of the class that a byte fed now to its place would have.
Tagged(s) == \A k \in 1 .. Len(s.q) : s.q[k].cls = "data" <=> Class(k) = "data"

\* Data up to exit_mark, and none behind it.
Split ==
  /\ BytesToMark(stream, at.exit_mark) <= Len(stream.q)
  /\ \A k \in 1 .. Len(stream.q) :
       stream.q[k].cls = "data" <=> k <= BytesToMark(stream, at.exit_mark)

NoData == \A k \in 1 .. Len(stream.q) : stream.q[k].cls # "data"

\* Of what class the bytes in the ring are, wherever the main loop is.
Sorted ==
  /\ Fixed => ~at.sess.abort
  /\ at.mode = "COMMAND" => NoData
  /\ main.pc \in EndPoints => NoData
  /\ at.mode = "DATA" /\ at.exit_req = 0 /\ main.pc \notin EndPoints => Tagged(stream)
  /\ at.mode = "DATA" /\ at.exit_req = 1 => ~Fixed /\ Split
  /\ main.pc = "exit_request" => ~Fixed /\ Split

AtHead == at.exit_mark = HeadIdx(stream)

\* What the main loop knows about the ring and the exit where it is.  The timer callback may
\* ask for an exit at any point but marks the head, where an exit under way has its mark as long
\* as three '+' are held.
AtPoint ==
  /\ main.pc \in {"confirm_overflow", "confirm_pending", "confirm_state", "confirm_mode"}
       => stream.q = <<>>
  /\ main.pc \in {"confirm_mode", "confirm_arm", "handler_result", "prompt"}
       => at.exit_req = 0 /\ at.plus_cnt = 0
  /\ main.pc \in FixedPoints => at.exit_req = 0
  /\ main.pc \in StreamPoints /\ at.exit_req = 1 => AtHead /\ at.plus_cnt = 0
  /\ main.pc = "exit_request" => AtHead
  /\ main.pc \in DrainPoints \cup {"leave"} => at.exit_req = 1 /\ (at.plus_cnt = 3 => AtHead)
  /\ main.pc \in DrainPoints => main.mark = at.exit_mark
  /\ InChunk => main.chunk <= Contiguous(stream)
  /\ main.pc = "drain_release" => main.chunk <= BytesToMark(stream, at.exit_mark)
  /\ main.pc = "idle" /\ at.mode = "DATA" /\ at.exit_req = 1 => at.plus_cnt = 0
  /\ main.pc = "clear_plus" /\ ~Fixed /\ at.plus_cnt = 3 => stream.q = <<>>
  /\ main.pc \in EndPoints \ {"clear_plus"} => at.plus_cnt = 0

\* Steps that leave the unread bytes and the session alone.
LEMMA SameBytes ==
  ASSUME stream'.q = stream.q, stream'.tail = stream.tail, at'.mode = at.mode,
         at'.sess = at.sess, at'.data_got = at.data_got, at'.exit_req = at.exit_req,
         at'.exit_mark = at.exit_mark
  PROVE  /\ NoData' <=> NoData
         /\ Tagged(stream)' <=> Tagged(stream)
         /\ Split' <=> Split
         /\ AtHead' <=> AtHead
         /\ Contiguous(stream)' = Contiguous(stream)
         /\ BytesToMark(stream, at.exit_mark)' = BytesToMark(stream, at.exit_mark)
<1>1. \A k : Class(k)' = Class(k)
  BY DEF Class, Fixed
<1>2. /\ Contiguous(stream)' = Contiguous(stream)
      /\ BytesToMark(stream, at.exit_mark)' = BytesToMark(stream, at.exit_mark)
      /\ HeadIdx(stream)' = HeadIdx(stream)
  BY DEF Contiguous, BytesToMark, HeadIdx
<1>3. NoData' <=> NoData
  BY DEF NoData
<1>4. Tagged(stream)' <=> Tagged(stream)
  BY <1>1 DEF Tagged
<1>5. Split' <=> Split
  BY <1>2 DEF Split
<1>6. AtHead' <=> AtHead
  BY <1>2 DEF AtHead
<1> QED BY <1>2, <1>3, <1>4, <1>5, <1>6

\* In command mode no place is a data byte's.
LEMMA CommandTagged ==
  ASSUME at.mode = "COMMAND" PROVE Tagged(stream) <=> NoData
BY DEF Tagged, NoData, Class

\* In a STREAM session that is not being left every place is.
LEMMA StreamTagged ==
  ASSUME at.mode = "DATA", at.exit_req = 0, ~Fixed
  PROVE  Tagged(stream) <=> \A k \in 1 .. Len(stream.q) : stream.q[k].cls = "data"
BY DEF Tagged, Class

LEMMA PutTagged ==
  ASSUME NEW s \in StreamT, Len(s.q) < Size, NEW seg \in Seq(Token), Tagged(s)
  PROVE  Tagged(Put(s, seg))
<1> DEFINE r == Put(s, seg)
<1>1. /\ Len(s.q) \in Nat /\ Len(r.q) \in Nat /\ Len(s.q) <= Len(r.q)
      /\ \A k \in 1 .. Len(s.q) : r.q[k] = s.q[k]
      /\ \A k \in Len(s.q) + 1 .. Len(r.q) : r.q[k].cls = Class(k)
  BY PutCells
<1> HIDE DEF r
<1>2. \A k \in 1 .. Len(r.q) : k \in 1 .. Len(s.q) \/ k \in Len(s.q) + 1 .. Len(r.q)
  BY <1>1
<1>3. \A k \in 1 .. Len(r.q) : r.q[k].cls = "data" <=> Class(k) = "data"
  BY <1>1, <1>2 DEF Tagged
<1> QED BY <1>3 DEF Tagged, r

\* The segment is read for the session before and after it alike.
LEMMA SameClass ==
  ASSUME at'.mode = at.mode, at'.sess = at.sess, at'.data_got = at.data_got,
         at'.exit_req = at.exit_req
  PROVE  Tagged(stream)' <=> Tagged(stream')
<1>1. \A k : Class(k)' = Class(k)
  BY DEF Class, Fixed
<1> QED BY <1>1 DEF Tagged

\* What is stored behind a pending exit is not data.
LEMMA LateSplit ==
  ASSUME StreamOK, AtOK, NEW m \in 0 .. Size - 1, at'.exit_mark = m, NEW d \in 0 .. Len(stream.q),
         BytesToMark(stream, m) = d,
         \A k \in 1 .. Len(stream.q) : stream.q[k].cls = "data" <=> k <= d,
         stream'.tail = stream.tail, Len(stream'.q) \in Nat, Len(stream.q) <= Len(stream'.q),
         \A k \in 1 .. Len(stream.q) : stream'.q[k] = stream.q[k],
         \A k \in Len(stream.q) + 1 .. Len(stream'.q) : stream'.q[k].cls # "data"
  PROVE  Split'
<1>1. BytesToMark(stream, at.exit_mark)' = d
  BY DEF BytesToMark
<1>2. Len(stream.q) \in Nat
  BY StreamFields DEF StreamOK
<1>3. \A k \in 1 .. Len(stream'.q) : stream'.q[k].cls = "data" <=> k <= d
  <2> TAKE k \in 1 .. Len(stream'.q)
  <2>1. CASE k <= Len(stream.q)
    BY <1>2, <2>1
  <2>2. CASE ~(k <= Len(stream.q))
    BY <1>2, <2>2
  <2> QED BY <2>1, <2>2
<1> QED BY <1>1, <1>2, <1>3 DEF Split

\* What Sorted and AtPoint ask of a step that interrupts nothing.
LEMMA IdleKeeps ==
  ASSUME main.pc = "idle", main' = main, at'.sess = at.sess,
         Fixed => ~at.sess.abort,
         at'.mode \in {"COMMAND", "DATA"}, at'.exit_req \in {0, 1},
         at'.mode = "COMMAND" => NoData',
         at'.mode = "DATA" /\ at'.exit_req = 0 => Tagged(stream)',
         at'.mode = "DATA" /\ at'.exit_req = 1 => ~Fixed /\ Split' /\ at'.plus_cnt = 0
  PROVE  Sorted' /\ AtPoint'
BY DEF Sorted, AtPoint, Fixed, EndPoints, FixedPoints, StreamPoints, DrainPoints, InChunk

LEMMA FeedPlainSorted ==
  ASSUME TypeOK, Sorted, AtPoint, main.pc = "idle", NEW seg \in Segments, FeedPlain(seg)
  PROVE  Sorted' /\ AtPoint'
<1>0. StreamOK /\ AtOK
  BY TypeParts
<1>1. stream \in StreamT /\ Len(stream.q) < Size /\ seg \in Seq(Token)
  BY <1>0, SegmentType DEF StreamOK
<1>2. /\ stream' = Put(stream, seg) /\ main' = main
      /\ at' = [at EXCEPT !.silent = SilentAfterFeed]
  BY DEF FeedPlain, Received
<1>3. /\ at'.mode = at.mode /\ at'.sess = at.sess /\ at'.data_got = at.data_got
      /\ at'.exit_req = at.exit_req /\ at'.exit_mark = at.exit_mark
      /\ at'.plus_cnt = at.plus_cnt
      /\ at.mode \in {"COMMAND", "DATA"} /\ at.exit_req \in {0, 1}
      /\ at.exit_mark \in 0 .. Size - 1
  BY <1>0, <1>2 DEF AtOK, AtT
<1>4. at.mode = "COMMAND" \/ at.exit_req = 0 => (Tagged(stream) => Tagged(stream)')
  BY <1>1, <1>2, <1>3, PutTagged, SameClass
<1>5. at.mode = "COMMAND" => NoData'
  <2> SUFFICES ASSUME at.mode = "COMMAND" PROVE NoData'
    OBVIOUS
  <2>1. Tagged(stream)
    BY CommandTagged DEF Sorted
  <2>2. Tagged(stream)'
    BY <1>4, <2>1
  <2> QED BY <1>3, <2>2 DEF Tagged, NoData, Class
<1>6. at.mode = "DATA" /\ at.exit_req = 0 => Tagged(stream)'
  BY <1>4 DEF Sorted, EndPoints
<1>7. at.mode = "DATA" /\ at.exit_req = 1 => ~Fixed /\ Split' /\ at.plus_cnt = 0
  <2> SUFFICES ASSUME at.mode = "DATA", at.exit_req = 1 PROVE Split'
    BY DEF Sorted, AtPoint
  <2> DEFINE d == BytesToMark(stream, at.exit_mark)
  <2>1. Split
    BY DEF Sorted
  <2>2. \A k : Class(k) # "data"
    BY DEF Class
  <2>3. /\ stream'.tail = stream.tail /\ Len(stream'.q) \in Nat
        /\ Len(stream.q) <= Len(stream'.q) /\ Len(stream.q) \in Nat
        /\ \A k \in 1 .. Len(stream.q) : stream'.q[k] = stream.q[k]
        /\ \A k \in Len(stream.q) + 1 .. Len(stream'.q) : stream'.q[k].cls # "data"
    BY <1>1, <1>2, <2>2, PutCells
  <2>4. d \in 0 .. Len(stream.q)
    <3>1. d \in Nat
      BY <1>0, <1>3, BytesToMarkType
    <3> QED BY <2>1, <2>3, <3>1 DEF Split
  <2>5. \A k \in 1 .. Len(stream.q) : stream.q[k].cls = "data" <=> k <= d
    BY <2>1 DEF Split
  <2> HIDE DEF d
  <2>6. d = BytesToMark(stream, at.exit_mark)
    BY DEF d
  <2> QED BY <1>0, <1>3, <2>3, <2>4, <2>5, <2>6, LateSplit
<1>8. Fixed => ~at.sess.abort
  BY DEF Sorted
<1> QED BY <1>2, <1>3, <1>5, <1>6, <1>7, <1>8, IdleKeeps

\* The escape: exit_mark is taken in front of what is stored with it.
LEMMA EscapeSorted ==
  ASSUME StreamOK, AtOK, Sorted, main.pc = "idle", main' = main,
         at.mode = "DATA", at.exit_req = 0, ~Fixed,
         at'.mode = at.mode, at'.sess = at.sess, at'.exit_req = 1, at'.plus_cnt = 0,
         at'.exit_mark = HeadIdx(stream),
         stream'.tail = stream.tail, Len(stream'.q) \in Nat, Len(stream.q) <= Len(stream'.q),
         \A k \in 1 .. Len(stream.q) : stream'.q[k] = stream.q[k],
         \A k \in Len(stream.q) + 1 .. Len(stream'.q) : stream'.q[k].cls # "data"
  PROVE  Sorted' /\ AtPoint'
<1> DEFINE m == HeadIdx(stream)
           d == Len(stream.q)
<1>1. m \in 0 .. Size - 1 /\ BytesToMark(stream, m) = d
  BY HeadIdxType, HeadIsEnd DEF StreamOK
<1>2. d \in Nat
  BY StreamFields DEF StreamOK
<1>3. d \in 0 .. Len(stream.q)
  BY <1>2
<1>4. \A k \in 1 .. Len(stream.q) : stream.q[k].cls = "data" <=> k <= d
  <2>1. \A k \in 1 .. Len(stream.q) : stream.q[k].cls = "data"
    BY StreamTagged DEF Sorted, EndPoints
  <2> QED BY <1>2, <2>1
<1>5. at'.exit_mark = m
  OBVIOUS
<1> HIDE DEF m, d
<1>6. Split'
  BY <1>1, <1>3, <1>4, <1>5, LateSplit
<1> QED BY <1>6, IdleKeeps DEF Sorted

LEMMA FeedSorted ==
  ASSUME TypeOK, Sorted, AtPoint, main.pc = "idle", Feed
  PROVE  Sorted' /\ AtPoint'
<1> PICK seg \in Segments : FeedPlain(seg) \/ FeedExit(seg) \/ FeedTransmit(seg)
  BY DEF Feed
<1>0. StreamOK /\ AtOK
  BY TypeParts
<1>1. CASE FeedPlain(seg)
  BY <1>1, FeedPlainSorted
<1>2. CASE FeedExit(seg)
  <2> DEFINE cells == [k \in 1 .. Len(seg) |-> [b |-> seg[k], cls |-> "late"]]
  <2>1. cells \in Seq(Cell) /\ \A k \in 1 .. Len(seg) : cells[k].cls = "late"
    BY LateCellsType
  <2>2. Len(cells) = Len(seg) /\ Len(seg) \in Nat
    <3>1. DOMAIN cells = 1 .. Len(seg)
      OBVIOUS
    <3> HIDE DEF cells
    <3> QED BY <2>1, <3>1, SegmentType, LenProperties
  <2>3. /\ stream' = Stored(stream, cells) /\ main' = main
        /\ at.mode = "DATA" /\ at.exit_req = 0 /\ UsePlus
        /\ at' = [[at EXCEPT !.plus_cnt = 0, !.exit_mark = HeadIdx(stream), !.exit_req = 1]
                     EXCEPT !.silent = SilentAfterFeed]
    BY <1>2 DEF FeedExit, Received, Transmitting
  <2> HIDE DEF cells
  <2>4. /\ at'.mode = at.mode /\ at'.sess = at.sess /\ at'.exit_req = 1
        /\ at'.plus_cnt = 0 /\ at'.exit_mark = HeadIdx(stream)
    BY <1>0, <2>3 DEF AtOK, AtT
  <2>5. /\ stream'.tail = stream.tail /\ Len(stream'.q) \in Nat /\ Len(stream.q) \in Nat
        /\ Len(stream.q) <= Len(stream'.q)
        /\ Len(stream'.q) <= Len(stream.q) + Len(cells)
        /\ \A k \in 1 .. Len(stream.q) : stream'.q[k] = stream.q[k]
        /\ \A k \in Len(stream.q) + 1 .. Len(stream'.q) :
             stream'.q[k] = cells[k - Len(stream.q)]
    BY <1>0, <2>1, <2>3, StoredCells, StreamFields DEF StreamOK
  <2>6. \A k \in Len(stream.q) + 1 .. Len(stream'.q) : stream'.q[k].cls # "data"
    <3> TAKE k \in Len(stream.q) + 1 .. Len(stream'.q)
    <3>1. k - Len(stream.q) \in 1 .. Len(seg)
      BY <2>2, <2>5
    <3> QED BY <2>1, <2>5, <3>1
  <2>7. ~Fixed
    BY <2>3 DEF Sorted, UsePlus, Fixed, Stream
  <2> QED BY <1>0, <2>3, <2>4, <2>5, <2>6, <2>7, EscapeSorted
<1>3. CASE FeedTransmit(seg)
  <2> DEFINE broken == at.plus_cnt = 3
             held   == IF broken THEN 0 ELSE at.plus_cnt
             start  == IF broken THEN Put(stream, Pluses(3)) ELSE stream
             hold   == Hold(seg, held)
             rest   == SubSeq(seg, hold + 1, Len(seg))
  <2>1. at.mode = "DATA" /\ at.exit_req = 0 /\ main' = main
    BY <1>3 DEF FeedTransmit, Transmitting, Received
  <2>2. IF hold = Len(seg)
        THEN /\ stream' = start
             /\ at' = [[at EXCEPT !.plus_cnt = held + hold] EXCEPT !.silent = SilentAfterFeed]
        ELSE /\ stream' = Put(Put(start, Pluses(held + hold)), rest)
             /\ at' = [[at EXCEPT !.plus_cnt = 0] EXCEPT !.silent = SilentAfterFeed]
    BY <1>3 DEF FeedTransmit, Received
  <2>3. /\ at'.mode = at.mode /\ at'.sess = at.sess /\ at'.data_got = at.data_got
        /\ at'.exit_req = at.exit_req
    BY <1>0, <2>2 DEF AtOK, AtT
  <2>4. held \in 0 .. 3
    BY <1>0 DEF AtOK, AtT
  <2>5. hold \in 0 .. 3 - held
    BY <2>4, WholeSegmentHeld DEF Hold
  <2>6. Tagged(stream)
    BY <2>1 DEF Sorted, EndPoints
  <2>7. start \in StreamT /\ Len(start.q) < Size /\ Tagged(start)
    BY <1>0, <2>6, PlusesType, PutType, PutTagged DEF StreamOK
  <2> HIDE DEF held, start, hold
  <2>8. rest \in Seq(Token)
    <3> DEFINE a == hold + 1
               z == Len(seg)
    <3>1. a \in Int /\ z \in Int /\ \A i \in a .. z : seg[i] \in Token
      BY <2>4, <2>5, SegmentType
    <3> HIDE DEF a, z
    <3>2. SubSeq(seg, a, z) \in Seq(Token)
      BY <3>1, SubSeqProperties
    <3> QED BY <3>2 DEF a, z
  <2> HIDE DEF rest
  <2>9. Tagged(stream')
    <3>1. CASE hold = Len(seg)
      BY <2>2, <2>7, <3>1
    <3>2. CASE hold # Len(seg)
      <4> DEFINE mid == Put(start, Pluses(held + hold))
      <4>1. Pluses(held + hold) \in Seq(Token)
        BY <2>4, <2>5, PlusesType
      <4>2. mid \in StreamT /\ Len(mid.q) < Size /\ Tagged(mid)
        BY <2>7, <4>1, PutType, PutTagged
      <4> HIDE DEF mid
      <4>3. Tagged(Put(mid, rest))
        BY <2>8, <4>2, PutTagged
      <4> QED BY <2>2, <3>2, <4>3 DEF mid
    <3> QED BY <3>1, <3>2
  <2>10. Tagged(stream)'
    BY <2>3, <2>9, SameClass
  <2> QED BY <2>1, <2>3, <2>10, IdleKeeps DEF Sorted
<1> QED BY <1>1, <1>2, <1>3

\* The timer callback may come at any point of the main loop.
LEMMA TimerSorted ==
  ASSUME TypeOK, Control, Sorted, AtPoint, Timer
  PROVE  Sorted' /\ AtPoint'
<1>0. StreamOK /\ AtOK /\ MainOK
  BY TypeParts
<1>1. main' = main /\ stream'.q = stream.q /\ stream'.tail = stream.tail
  BY <1>0 DEF Timer, TimerCommand, TimerGuard, TimerFixed, Expire, StreamOK, StreamT
<1> DEFINE head == HeadIdx(stream)
<1>2. CASE TimerGuard /\ at.plus_cnt = 3
  <2>1. /\ at.mode = "DATA" /\ UsePlus
        /\ at' = [at EXCEPT !.silent = 1, !.plus_cnt = 0, !.exit_mark = head, !.exit_req = 1]
    BY <1>2 DEF TimerGuard
  <2> HIDE DEF head
  <2>2. /\ at'.mode = at.mode /\ at'.sess = at.sess /\ at'.exit_req = 1
        /\ at'.plus_cnt = 0 /\ at'.exit_mark = head
    BY <1>0, <2>1 DEF AtOK, AtT
  <2>3. ~Fixed
    BY <2>1 DEF Sorted, UsePlus, Fixed, Stream
  <2>4. head' = head /\ Contiguous(stream)' = Contiguous(stream) /\ (NoData' <=> NoData)
    BY <1>1 DEF head, HeadIdx, Contiguous, NoData
  <2>5. AtHead'
    BY <2>2, <2>4 DEF AtHead, head
  <2>6. BytesToMark(stream, at.exit_mark)' = Len(stream.q) /\ Len(stream.q) \in Nat
    <3>1. BytesToMark(stream, head) = Len(stream.q)
      BY <1>0, HeadIsEnd DEF StreamOK, head
    <3>2. BytesToMark(stream, at.exit_mark)' = BytesToMark(stream, head)
      BY <1>1, <2>2 DEF BytesToMark
    <3> QED BY <1>0, <3>1, <3>2, StreamFields DEF StreamOK
\* What is in the ring is data, unless the session is over and the ring is empty.
  <2>7. \A k \in 1 .. Len(stream.q) : stream.q[k].cls = "data"
    <3>1. CASE at.exit_req = 0 /\ main.pc \notin EndPoints
      BY <2>1, <2>3, <3>1, StreamTagged DEF Sorted
    <3>2. CASE at.exit_req = 1 /\ AtHead
      <4>1. Split /\ BytesToMark(stream, at.exit_mark) = Len(stream.q)
        BY <1>0, <2>1, <3>2, HeadIsEnd DEF Sorted, AtHead, StreamOK
      <4> QED BY <2>6, <4>1 DEF Split
    <3>3. CASE main.pc = "clear_plus"
      <4>1. stream.q = <<>>
        BY <1>2, <2>3, <3>3 DEF AtPoint
      <4> QED BY <4>1, EmptySeq
    <3>4. main.pc \notin EndPoints \ {"clear_plus"}
      BY <1>2 DEF AtPoint
    <3>5. at.exit_req = 1 /\ main.pc \notin EndPoints => AtHead
      <4>1. at.exit_req = 1 => main.pc \in DataPoints \cup {"idle"}
        <5>1. main.pc \in CommandPoints \cup DataPoints \cup {"idle"}
          BY <1>0 DEF MainOK, MainT, Points, CommandPoints, DataPoints, FixedPoints,
             StreamPoints, DrainPoints, EndPoints
        <5> QED BY <2>1, <5>1 DEF Control
      <4> QED BY <1>2, <2>1, <4>1 DEF AtPoint, DataPoints
    <3>6. at.exit_req \in {0, 1}
      BY <1>0 DEF AtOK, AtT
    <3> QED BY <3>1, <3>2, <3>3, <3>4, <3>5, <3>6
  <2>8. Split'
    BY <1>1, <2>6, <2>7 DEF Split
  <2>9. Sorted'
    BY <1>1, <2>1, <2>2, <2>3, <2>4, <2>8 DEF Sorted, Fixed
\* A mark that is in use is the head already.
  <2>10. main.pc \in DrainPoints => at'.exit_mark = at.exit_mark
    BY <1>2, <2>2 DEF AtPoint, AtHead, head
  <2>11. main.pc \notin FixedPoints /\ main.pc \notin {"confirm_mode", "confirm_arm", "handler_result", "prompt"}
    BY <1>2, <2>3 DEF AtPoint, Control
  <2>12. main.pc = "drain_release" =>
           BytesToMark(stream, at.exit_mark)' = BytesToMark(stream, at.exit_mark)
    BY <1>1, <2>10 DEF BytesToMark, DrainPoints
  <2>13. AtPoint'
    BY <1>1, <2>2, <2>3, <2>4, <2>5, <2>10, <2>11, <2>12 DEF AtPoint, InChunk, DrainPoints, Fixed
  <2> QED BY <2>9, <2>13
<1>3. CASE TimerCommand \/ TimerFixed \/ (TimerGuard /\ at.plus_cnt # 3)
  <2>1. /\ at'.mode = at.mode /\ at'.sess = at.sess /\ at'.data_got = at.data_got
        /\ at'.exit_req = at.exit_req /\ at'.exit_mark = at.exit_mark
        /\ at'.plus_cnt \in {at.plus_cnt, 0}
    BY <1>0, <1>3 DEF TimerCommand, TimerFixed, TimerGuard, AtOK, AtT
  <2>2. /\ NoData' <=> NoData
        /\ Tagged(stream)' <=> Tagged(stream)
        /\ Split' <=> Split
        /\ AtHead' <=> AtHead
        /\ Contiguous(stream)' = Contiguous(stream)
        /\ BytesToMark(stream, at.exit_mark)' = BytesToMark(stream, at.exit_mark)
    BY <1>1, <2>1, SameBytes
  <2>3. Sorted'
    BY <1>1, <2>1, <2>2 DEF Sorted, Fixed
  <2>4. AtPoint'
    BY <1>1, <2>1, <2>2 DEF AtPoint, InChunk, Fixed
  <2> QED BY <2>3, <2>4
<1> QED BY <1>2, <1>3 DEF Timer

\* Sorted, for a step that leaves the bytes and the session alone.
LEMMA BytesStay ==
  ASSUME Sorted, stream'.q = stream.q, stream'.tail = stream.tail, at'.mode = at.mode,
         at'.sess = at.sess, at'.data_got = at.data_got, at'.exit_req = at.exit_req,
         at'.exit_mark = at.exit_mark,
         main'.pc \in EndPoints => NoData,
         main.pc \in EndPoints => main'.pc \in EndPoints,
         main'.pc # "exit_request"
  PROVE  Sorted'
<1>1. /\ NoData' <=> NoData
      /\ Tagged(stream)' <=> Tagged(stream)
      /\ Split' <=> Split
  BY SameBytes
<1> QED BY <1>1 DEF Sorted, Fixed

\* The main loop leaves the instance and the bytes alone.
LEMMA MovesSorted ==
  ASSUME TypeOK, Control, Sorted, AtPoint,
         \/ Process \/ SessionEnter \/ FixedWait \/ StreamWait \/ FixedFull \/ Leave
         \/ DrainDone \/ ClearSessionOverflow \/ KeepPending \/ SessionResult
         \/ PendingRead \/ PendingClear \/ OverflowRead \/ OverflowClear
         \/ VoidOverflow \/ VoidPending \/ VoidResult \/ NoLine \/ Residue
         \/ ConfirmOverflow \/ ConfirmPending \/ ConfirmArm \/ HandlerResult \/ Prompt
  PROVE  Sorted' /\ AtPoint'
<1>0. StreamOK /\ AtOK /\ MainOK
  BY TypeParts
<1> USE DEF From, Goto
<1>1. at' = at
  BY DEF Process, SessionEnter, FixedWait, StreamWait, FixedFull, Leave, DrainDone,
     ClearSessionOverflow, KeepPending, SessionResult, PendingRead, PendingClear, OverflowRead,
     OverflowClear, VoidOverflow, VoidPending, VoidResult, NoLine, Residue, ConfirmOverflow,
     ConfirmPending, ConfirmArm, HandlerResult, Prompt
<1>2. stream'.q = stream.q /\ stream'.tail = stream.tail
  <2>1. \/ stream' = stream
        \/ \E o : stream' = [stream EXCEPT !.overflow = o]
        \/ \E p : stream' = [stream EXCEPT !.pending = p]
    BY DEF Process, SessionEnter, FixedWait, StreamWait, FixedFull, Leave, DrainDone,
       ClearSessionOverflow, KeepPending, SessionResult, PendingRead, PendingClear, OverflowRead,
       OverflowClear, VoidOverflow, VoidPending, VoidResult, NoLine, Residue, ConfirmOverflow,
       ConfirmPending, ConfirmArm, HandlerResult, Prompt, ClearOverflow
  <2> QED BY <1>0, <2>1 DEF StreamOK, StreamT
<1>3. /\ AtHead' <=> AtHead
      /\ Contiguous(stream)' = Contiguous(stream)
      /\ BytesToMark(stream, at.exit_mark)' = BytesToMark(stream, at.exit_mark)
  BY <1>1, <1>2, SameBytes
<1>4. at.mode \in {"COMMAND", "DATA"} /\ at.exit_req \in {0, 1}
  BY <1>0 DEF AtOK, AtT
\* It keeps out of the end of a session, or goes there without data.
<1> DEFINE Beside == main.pc \notin EndPoints /\ main'.pc \notin EndPoints
<1>a. CASE Process
  <2>1. /\ main.pc = "idle"
        /\ \/ main'.pc = "pending_read"
           \/ main'.pc = "leave" /\ at.mode = "DATA" /\ at.exit_req = 1
           \/ main'.pc \in {"fixed_enter", "stream_enter"} /\ at.exit_req = 0
    BY <1>0, <1>a DEF Process, MainOK, MainT
  <2>2. Beside /\ main'.pc # "exit_request"
    BY <2>1 DEF EndPoints
  <2>3. AtPoint'
    BY <1>1, <1>3, <2>1 DEF AtPoint, FixedPoints, StreamPoints, DrainPoints, EndPoints, InChunk, Fixed
  <2> QED BY <1>1, <1>2, <2>2, <2>3, BytesStay
<1>b. CASE SessionEnter
  <2>1. \/ main.pc = "fixed_enter" /\ main'.pc = "fixed"
        \/ main.pc = "stream_enter" /\ main'.pc = "stream"
    BY <1>0, <1>b DEF SessionEnter, MainOK, MainT
  <2>2. Beside /\ main'.pc # "exit_request"
    BY <2>1 DEF EndPoints
  <2>3. AtPoint'
    BY <1>1, <1>3, <2>1 DEF AtPoint, FixedPoints, StreamPoints, DrainPoints, EndPoints, InChunk, Fixed
  <2> QED BY <1>1, <1>2, <2>2, <2>3, BytesStay
<1>c. CASE FixedWait \/ StreamWait \/ Prompt
  <2>1. main.pc \in {"fixed", "stream", "prompt"} /\ main'.pc = "idle"
    BY <1>c DEF FixedWait, StreamWait, Prompt, Return, Idle
  <2>2. Beside /\ main'.pc # "exit_request"
    BY <2>1 DEF EndPoints
  <2>3. AtPoint'
    BY <1>1, <1>3, <2>1 DEF AtPoint, FixedPoints, StreamPoints, DrainPoints, EndPoints, InChunk, Fixed
  <2> QED BY <1>1, <1>2, <2>2, <2>3, BytesStay
\* Complete: every place left in the ring lies beyond the length.
<1>d. CASE FixedFull
  <2>1. main.pc = "fixed" /\ main'.pc = "clear_plus" /\ at.data_got >= at.sess.length
    BY <1>0, <1>d DEF FixedFull, MainOK, MainT
  <2>2. Fixed /\ at.mode = "DATA" /\ at.exit_req = 0
    BY <2>1 DEF Control, AtPoint, FixedPoints, DataPoints
  <2>3. Tagged(stream)
    BY <2>1, <2>2 DEF Sorted, EndPoints
  <2>4. at.data_got \in Nat /\ at.sess.length \in Nat
    BY <1>0 DEF AtOK, AtT, Sessions
  <2>5. \A k \in 1 .. Len(stream.q) : Class(k) # "data"
    <3> TAKE k \in 1 .. Len(stream.q)
    <3>1. ~(at.data_got + k <= at.sess.length)
      BY <2>1, <2>4
    <3> QED BY <2>2, <3>1 DEF Class
  <2>6. NoData
    BY <2>3, <2>5 DEF Tagged, NoData
  <2>7. AtPoint'
    BY <1>1, <1>3, <2>1, <2>2 DEF AtPoint, FixedPoints, StreamPoints, DrainPoints, EndPoints, InChunk, Fixed
  <2> QED BY <1>1, <1>2, <2>1, <2>6, <2>7, BytesStay DEF EndPoints
<1>e. CASE Leave
  <2>1. main.pc = "leave" /\ main'.pc = "drain" /\ main'.mark = at.exit_mark
    <3>1. \E r : main' = [main EXCEPT !.pc = "drain", !.mark = at.exit_mark, !.rc = r]
      BY <1>e DEF Leave
    <3> QED BY <1>0, <1>e, <3>1 DEF Leave, MainOK, MainT
  <2>2. Beside /\ main'.pc # "exit_request"
    BY <2>1 DEF EndPoints
  <2>3. AtPoint'
    BY <1>1, <1>3, <2>1 DEF AtPoint, FixedPoints, StreamPoints, DrainPoints, EndPoints, InChunk, Fixed
  <2> QED BY <1>1, <1>2, <2>2, <2>3, BytesStay
\* The drain ends at the mark, or with an empty ring.
<1>f. CASE DrainDone
  <2>1. /\ main.pc = "drain" /\ main'.pc = "clear_plus"
        /\ stream.tail = main.mark \/ stream.q = <<>>
    BY <1>0, <1>f DEF DrainDone, MainOK, MainT
  <2>2. Split /\ main.mark = at.exit_mark
    BY <2>1 DEF Sorted, AtPoint, Control, DrainPoints, DataPoints
  <2>3. NoData
    <3>1. CASE stream.q = <<>>
      BY <3>1, EmptySeq DEF NoData
    <3>2. CASE stream.tail = main.mark
      <4>1. BytesToMark(stream, at.exit_mark) = 0
        BY <1>0, <2>2, <3>2, StreamFields DEF StreamOK, BytesToMark
      <4> QED BY <2>2, <4>1 DEF Split, NoData
    <3> QED BY <2>1, <3>1, <3>2
  <2>4. at.plus_cnt = 3 => stream.q = <<>>
    <3> SUFFICES ASSUME at.plus_cnt = 3, stream.tail = main.mark PROVE stream.q = <<>>
      BY <2>1
    <3>1. stream.tail = HeadIdx(stream)
      BY <2>1, <2>2 DEF AtPoint, AtHead, DrainPoints
    <3>2. Len(stream.q) = BytesToMark(stream, stream.tail)
      BY <1>0, <3>1, HeadIsEnd DEF StreamOK
    <3>3. Len(stream.q) = 0 /\ stream.q \in Seq(Cell)
      BY <1>0, <3>2, StreamFields DEF StreamOK, BytesToMark
    <3> QED BY <3>3, EmptySeq
  <2>5. AtPoint'
    BY <1>1, <1>2, <1>3, <2>1, <2>4 DEF AtPoint, FixedPoints, StreamPoints, DrainPoints, EndPoints,
       InChunk, Fixed
  <2> QED BY <1>1, <1>2, <2>1, <2>3, <2>5, BytesStay DEF EndPoints
<1>g. CASE ClearSessionOverflow \/ KeepPending
  <2>1. main.pc \in EndPoints \ {"clear_plus"} /\ main'.pc \in {"keep_pending", "to_command"}
    BY <1>0, <1>g DEF ClearSessionOverflow, KeepPending, EndPoints, MainOK, MainT
  <2>2. NoData
    BY <2>1 DEF Sorted
  <2>3. AtPoint'
    BY <1>1, <1>3, <2>1 DEF AtPoint, FixedPoints, StreamPoints, DrainPoints, EndPoints, InChunk, Fixed
  <2> QED BY <1>1, <1>2, <2>1, <2>2, <2>3, BytesStay DEF EndPoints
\* Between two sessions.
<1>h. CASE SessionResult \/ PendingRead \/ PendingClear \/ OverflowRead \/ OverflowClear
           \/ VoidOverflow \/ VoidPending \/ VoidResult \/ NoLine \/ Residue
  <2>1. main.pc \in CommandPoints
    BY <1>h DEF SessionResult, PendingRead, PendingClear, OverflowRead, OverflowClear,
       VoidOverflow, VoidPending, VoidResult, NoLine, Residue, CommandPoints
  <2>2. main'.pc \in {"idle", "pending_read", "pending_clear", "overflow_read", "overflow_clear",
                      "void_tail", "void_pending", "void_result", "lines", "residue"}
    <3>1. CASE SessionResult \/ PendingClear \/ VoidResult \/ Residue
      BY <1>0, <3>1 DEF SessionResult, PendingClear, VoidResult, Residue, Return, Idle, MainOK,
         MainT
    <3>2. CASE PendingRead \/ OverflowRead
      BY <1>0, <3>2 DEF PendingRead, OverflowRead, StreamOK, StreamT, MainOK, MainT
    <3>3. CASE OverflowClear
      BY <1>0, <3>3 DEF OverflowClear, MainOK, MainT
    <3>4. CASE VoidOverflow \/ VoidPending \/ NoLine
      BY <1>0, <3>4 DEF VoidOverflow, VoidPending, NoLine, MainOK, MainT
    <3> QED BY <1>h, <3>1, <3>2, <3>3, <3>4
  <2>3. Beside /\ main'.pc # "exit_request" /\ at.mode = "COMMAND"
    BY <2>1, <2>2 DEF EndPoints, CommandPoints, Control
  <2>4. AtPoint'
    BY <1>1, <1>3, <2>2, <2>3 DEF AtPoint, FixedPoints, StreamPoints, DrainPoints, EndPoints, InChunk, Fixed
  <2> QED BY <1>1, <1>2, <2>3, <2>4, BytesStay
\* On the way into a session the ring stays empty.
<1>i. CASE ConfirmOverflow \/ ConfirmPending
  <2>1. /\ main.pc \in {"confirm_overflow", "confirm_pending"}
        /\ main'.pc \in {"confirm_pending", "confirm_state"}
    BY <1>0, <1>i DEF ConfirmOverflow, ConfirmPending, MainOK, MainT
  <2>2. Beside /\ main'.pc # "exit_request"
    BY <2>1 DEF EndPoints
  <2>3. AtPoint'
    BY <1>1, <1>2, <1>3, <2>1 DEF AtPoint, FixedPoints, StreamPoints, DrainPoints, EndPoints, InChunk, Fixed
  <2> QED BY <1>1, <1>2, <2>2, <2>3, BytesStay
<1>j. CASE ConfirmArm \/ HandlerResult
  <2>1. /\ main.pc \in {"confirm_arm", "handler_result"}
        /\ main'.pc \in {"handler_result", "prompt"}
    BY <1>0, <1>j DEF ConfirmArm, HandlerResult, MainOK, MainT
  <2>2. Beside /\ main'.pc # "exit_request"
    BY <2>1 DEF EndPoints
  <2>3. AtPoint'
    BY <1>1, <1>3, <2>1 DEF AtPoint, FixedPoints, StreamPoints, DrainPoints, EndPoints, InChunk, Fixed
  <2> QED BY <1>1, <1>2, <2>2, <2>3, BytesStay
<1> QED
  BY <1>a, <1>b, <1>c, <1>d, <1>e, <1>f, <1>g, <1>h, <1>i, <1>j
LEMMA DeliverBounds ==
  ASSUME StreamOK, MainOK, NEW limit \in Nat, NEW pc \in Points, Deliver(limit, pc)
  PROVE  /\ main'.pc = pc /\ main'.chunk <= limit /\ main'.chunk <= Contiguous(stream)
         /\ main'.mark = main.mark /\ stream' = stream /\ at' = at
<1> DEFINE c == Contiguous(stream)
           n == Min2(c, limit)
<1>1. main' = [main EXCEPT !.pc = pc, !.chunk = n] /\ stream' = stream /\ at' = at
  BY DEF Deliver
<1>2. c \in Nat
  BY ContiguousBound DEF StreamOK
<1> HIDE DEF c
<1>3. n <= limit /\ n <= c
  BY <1>2, Min2Type
<1> HIDE DEF n
<1> QED BY <1>1, <1>3 DEF MainOK, MainT, c

LEMMA DeliverSorted ==
  ASSUME TypeOK, Control, Sorted, AtPoint, FixedDeliver \/ StreamDeliver \/ DrainDeliver
  PROVE  Sorted' /\ AtPoint'
<1>0. StreamOK /\ AtOK /\ MainOK
  BY TypeParts
<1>1. PICK limit \in Nat, pc \in {"fixed_release", "stream_release", "drain_release"} :
        /\ Deliver(limit, pc)
        /\ \/ pc = "fixed_release" /\ main.pc = "fixed"
           \/ pc = "stream_release" /\ main.pc = "stream"
           \/ pc = "drain_release" /\ main.pc = "drain" /\ limit = BytesToMark(stream, main.mark)
  <2>1. CASE FixedDeliver
    <3>1. at.sess.length - at.data_got \in Nat
      BY <1>0, <2>1 DEF FixedDeliver, AtOK, AtT, Sessions
    <3> QED BY <2>1, <3>1 DEF FixedDeliver, From
  <2>2. CASE StreamDeliver
    BY <2>2, SizeAssumption DEF StreamDeliver, From
  <2>3. CASE DrainDeliver
    <3>1. BytesToMark(stream, main.mark) \in Nat
      BY <1>0, BytesToMarkType DEF MainOK, MainT
    <3> QED BY <2>3, <3>1 DEF DrainDeliver, From
  <2> QED BY <2>1, <2>2, <2>3
<1>2. pc \in Points
  BY DEF Points
<1>3. /\ main'.pc = pc /\ main'.chunk <= limit /\ main'.chunk <= Contiguous(stream)
      /\ main'.mark = main.mark /\ stream' = stream /\ at' = at
  BY <1>0, <1>1, <1>2, DeliverBounds
<1>4. /\ Contiguous(stream)' = Contiguous(stream) /\ (AtHead' <=> AtHead)
      /\ BytesToMark(stream, at.exit_mark)' = BytesToMark(stream, at.exit_mark)
  BY <1>3 DEF Contiguous, BytesToMark, AtHead, HeadIdx
<1>5. AtPoint'
  BY <1>1, <1>3, <1>4 DEF AtPoint, FixedPoints, StreamPoints, DrainPoints, EndPoints, InChunk
<1>6. Sorted'
  BY <1>1, <1>3, BytesStay DEF EndPoints
<1> QED BY <1>5, <1>6

LEMMA ReleaseSorted ==
  ASSUME TypeOK, Control, Sorted, AtPoint, FixedRelease \/ StreamRelease \/ DrainRelease
  PROVE  Sorted' /\ AtPoint'
<1>0. StreamOK /\ AtOK /\ MainOK
  BY TypeParts
<1> DEFINE n == main.chunk
<1>1. PICK pc \in {"fixed", "stream", "drain"} :
        /\ Release(pc)
        /\ \/ pc = "fixed" /\ main.pc = "fixed_release"
           \/ pc = "stream" /\ main.pc = "stream_release"
           \/ pc = "drain" /\ main.pc = "drain_release"
  BY DEF FixedRelease, StreamRelease, DrainRelease, From
<1>2. /\ stream' = Consumed(stream, n) /\ main' = [main EXCEPT !.pc = pc, !.chunk = 0]
      /\ at' = IF Fixed THEN [at EXCEPT !.data_got = @ + n] ELSE at
  BY <1>1 DEF Release
<1>3. main'.pc = pc /\ main'.mark = main.mark
  BY <1>0, <1>2 DEF MainOK, MainT
<1>4. n \in Nat /\ n <= Len(stream.q) /\ n <= Size - stream.tail /\ Len(stream.q) \in Nat
  <2>1. n <= Contiguous(stream) /\ n \in Nat
    BY <1>0, <1>1 DEF AtPoint, InChunk, MainOK, MainT
  <2> QED BY <1>0, <2>1, ContiguousBound, StreamFields, SizeAssumption DEF StreamOK
<1> HIDE DEF n
<1>5. /\ Len(stream'.q) = Len(stream.q) - n
      /\ \A k \in 1 .. Len(stream'.q) : stream'.q[k] = stream.q[k + n]
  BY <1>0, <1>2, <1>4, ConsumedCells DEF StreamOK
<1>6. /\ at'.mode = at.mode /\ at'.sess = at.sess /\ at'.exit_req = at.exit_req
      /\ at'.exit_mark = at.exit_mark /\ at'.plus_cnt = at.plus_cnt
      /\ at'.data_got = IF Fixed THEN at.data_got + n ELSE at.data_got
      /\ at.data_got \in Nat /\ at.sess.length \in Nat
  BY <1>0, <1>2 DEF AtOK, AtT, Sessions
<1>7. at.mode = "DATA"
  BY <1>1 DEF Control, DataPoints, FixedPoints, StreamPoints, DrainPoints
<1>8. \A k \in 1 .. Len(stream'.q) : k + n \in 1 .. Len(stream.q)
  BY <1>4, <1>5
\* The places move up with the count.
<1>9. at.exit_req = 0 => Tagged(stream)'
  <2> SUFFICES ASSUME at.exit_req = 0 PROVE Tagged(stream)'
    OBVIOUS
  <2>1. Tagged(stream)
    BY <1>1, <1>7 DEF Sorted, EndPoints
  <2>2. \A k \in 1 .. Len(stream'.q) : Class(k)' = Class(k + n)
    <3> TAKE k \in 1 .. Len(stream'.q)
    <3>1. k \in Int
      OBVIOUS
    <3>2. Fixed => at'.data_got + k = at.data_got + (k + n)
      BY <1>4, <1>6, <3>1
    <3> QED BY <1>6, <3>2 DEF Class, Fixed
  <2> QED BY <1>5, <1>8, <2>1, <2>2 DEF Tagged
\* So does the mark.
<1>10. at.exit_req = 1 => ~Fixed /\ Split'
  <2> SUFFICES ASSUME at.exit_req = 1 PROVE Split'
    BY <1>7 DEF Sorted
  <2> DEFINE d == BytesToMark(stream, at.exit_mark)
  <2>1. Split /\ n <= d
    <3>1. Split
      BY <1>7 DEF Sorted
    <3>2. CASE pc = "drain"
      BY <1>1, <3>1, <3>2 DEF AtPoint, n
    <3>3. CASE pc # "drain"
      <4>1. AtHead
        BY <1>1, <3>3 DEF AtPoint, FixedPoints, StreamPoints
      <4>2. d = Len(stream.q)
        BY <1>0, <4>1, HeadIsEnd DEF AtHead, StreamOK
      <4> QED BY <1>4, <3>1, <4>2
    <3> QED BY <3>2, <3>3
  <2>2. at.exit_mark \in 0 .. Size - 1
    BY <1>0 DEF AtOK, AtT
  <2>3. BytesToMark(Consumed(stream, n), at.exit_mark) = d - n
    BY <1>0, <1>4, <2>1, <2>2, ConsumedToMark DEF StreamOK
  <2>4. BytesToMark(stream, at.exit_mark)' = BytesToMark(Consumed(stream, n), at.exit_mark)
    BY <1>2, <1>6 DEF BytesToMark
  <2>5. d \in Nat
    BY <1>0, <2>2, BytesToMarkType
  <2>6. /\ d <= Len(stream.q)
        /\ \A k \in 1 .. Len(stream.q) : stream.q[k].cls = "data" <=> k <= d
    BY <2>1 DEF Split
  <2> HIDE DEF d
  <2>7. \A k \in 1 .. Len(stream'.q) : stream'.q[k].cls = "data" <=> k <= d - n
    <3> TAKE k \in 1 .. Len(stream'.q)
    <3>1. stream'.q[k].cls = "data" <=> k + n <= d
      BY <1>5, <1>8, <2>6
    <3> QED BY <1>4, <2>5, <3>1
  <2>8. d - n <= Len(stream'.q)
    BY <1>4, <1>5, <2>5, <2>6
  <2> QED BY <2>3, <2>4, <2>7, <2>8 DEF Split
<1>11. Sorted'
  BY <1>1, <1>3, <1>6, <1>7, <1>9, <1>10 DEF Sorted, Fixed, EndPoints
<1>12. AtHead' <=> AtHead
  <2>1. HeadIdx(Consumed(stream, n)) = HeadIdx(stream)
    BY <1>0, <1>4, ConsumedHead DEF StreamOK
  <2>2. HeadIdx(stream)' = HeadIdx(Consumed(stream, n))
    BY <1>2 DEF HeadIdx
  <2> QED BY <1>6, <2>1, <2>2 DEF AtHead
<1>13. AtPoint'
  BY <1>1, <1>3, <1>6, <1>12 DEF AtPoint, FixedPoints, StreamPoints, DrainPoints, EndPoints, InChunk
<1> QED BY <1>11, <1>13

\* An empty ring holds no data.
LEMMA ResetSorted ==
  ASSUME TypeOK, Control, Sorted, AtPoint, VoidTail \/ ConfirmTail
  PROVE  Sorted' /\ AtPoint'
<1>0. StreamOK /\ AtOK /\ MainOK
  BY TypeParts
<1>1. stream'.q = <<>> /\ at' = at
  BY <1>0 DEF VoidTail, ConfirmTail, StreamOK, StreamT
<1>2. /\ main.pc \in {"void_tail", "confirm_tail"}
      /\ main'.pc \in {"void_overflow", "confirm_overflow"}
  BY <1>0 DEF VoidTail, ConfirmTail, From, Goto, MainOK, MainT
<1>3. at.mode = "COMMAND"
  BY <1>2 DEF Control, CommandPoints
<1>4. NoData'
  BY <1>1, EmptySeq DEF NoData
<1>5. Sorted'
  BY <1>1, <1>2, <1>3, <1>4 DEF Sorted, Fixed, EndPoints
<1>6. AtPoint'
  BY <1>1, <1>2, <1>3 DEF AtPoint, FixedPoints, StreamPoints, DrainPoints, EndPoints, InChunk
<1> QED BY <1>5, <1>6

LEMMA LineSorted ==
  ASSUME Orderly, TypeOK, Control, Sorted, AtPoint, Line
  PROVE  Sorted' /\ AtPoint'
<1>0. StreamOK /\ AtOK /\ MainOK
  BY TypeParts
<1>1. at'.mode = "COMMAND" /\ main'.pc \in {"lines", "confirm_tail"} /\ at.mode = "COMMAND"
  BY LineKeeps DEF Line, Control, CommandPoints, From
<1>2. PICK n \in 1 .. Len(stream.q) : stream' = Consumed(stream, n)
  BY DEF Line, LineRefused, LineEmpty, LineRun, LineSync, TakeLine
<1>3. NoData'
  <2>0. stream \in StreamT /\ Len(stream.q) \in Nat
    BY <1>0, StreamFields DEF StreamOK
  <2>1. Len(stream.q) \in Nat /\ n \in 0 .. Len(stream.q)
    BY <2>0
  <2>2. /\ Len(stream'.q) = Len(stream.q) - n
        /\ \A k \in 1 .. Len(stream'.q) : stream'.q[k] = stream.q[k + n]
    <3> DEFINE r == Consumed(stream, n)
    <3>1. Len(r.q) = Len(stream.q) - n /\ \A k \in 1 .. Len(r.q) : r.q[k] = stream.q[k + n]
      BY <2>0, <2>1, ConsumedCells
    <3> HIDE DEF r
    <3>2. stream' = r
      BY <1>2 DEF r
    <3> QED BY <3>1, <3>2, Zenon
  <2>3. \A k \in 1 .. Len(stream'.q) : k + n \in 1 .. Len(stream.q)
    BY <2>1, <2>2
  <2> QED BY <1>1, <2>2, <2>3 DEF Sorted, NoData
\* Only sessions that Orderly allows are entered.
<1>4. Fixed' => ~at'.sess.abort
  <2>1. CASE UNCHANGED at
    BY <2>1 DEF Sorted, Fixed
  <2>2. CASE \E p : /\ Outcome(p).enter # "no"
                    /\ \/ at' = [at EXCEPT !.sess = Entered(Outcome(p).sess)]
                       \/ \E r \in {0, 1} :
                            at' = [at EXCEPT !.sess = Entered(Outcome(p).sess), !.enter_req = r]
    <3> PICK p : /\ Outcome(p).enter # "no"
                 /\ \/ at' = [at EXCEPT !.sess = Entered(Outcome(p).sess)]
                    \/ \E r \in {0, 1} :
                         at' = [at EXCEPT !.sess = Entered(Outcome(p).sess), !.enter_req = r]
      BY <2>2
    <3> DEFINE e == Outcome(p).sess
    <3>1. e \in Sessions /\ (e.policy = "FIXED" => ~e.abort)
      <4>1. p = 2 /\ stream.q[1].b \in DOMAIN Handler
        BY DEF Outcome
      <4> DEFINE c == stream.q[1].b
      <4>2. c \in DOMAIN Handler /\ Outcome(p) = Handler[c]
        BY <4>1 DEF Outcome
      <4> HIDE DEF c
      <4> QED BY <4>2, OutcomeType DEF Orderly
    <3>2. at'.sess = Entered(e)
      BY <1>0 DEF AtOK, AtT
    <3> HIDE DEF e
    <3>3. Entered(e).policy = e.policy /\ Entered(e).abort = e.abort
      <4> DEFINE g == IF e.guard = 0 THEN at.guard_ms ELSE e.guard
      <4>1. Entered(e) = [e EXCEPT !.guard = g]
        BY DEF Entered
      <4> HIDE DEF g
      <4>2. e.abort = [e EXCEPT !.guard = g].abort /\ e.policy = [e EXCEPT !.guard = g].policy
        BY <3>1, Zenon DEF Sessions
      <4> QED BY <4>1, <4>2, Zenon
    <3> QED BY <3>1, <3>2, <3>3 DEF Fixed
  <2> QED BY <2>1, <2>2, LineEnters
<1>5. Sorted'
  BY <1>1, <1>3, <1>4 DEF Sorted, EndPoints
<1>6. AtPoint'
  BY <1>1 DEF AtPoint, FixedPoints, StreamPoints, DrainPoints, EndPoints, InChunk
<1> QED BY <1>5, <1>6
\* The main loop writes the instance.
LEMMA WritesSorted ==
  ASSUME Orderly, TypeOK, Control, Sorted, AtPoint,
         \/ ClearPlus \/ ClearExit \/ ToCommand \/ ConfirmState \/ ConfirmMode
         \/ AppConfirm \/ AppCancel \/ AppGuardSet \/ AppExitMark \/ AppExitRequest
  PROVE  Sorted' /\ AtPoint'
<1>0. StreamOK /\ AtOK /\ MainOK
  BY TypeParts
<1> USE DEF From, Goto
<1>1. stream' = stream
  BY DEF ClearPlus, ClearExit, ToCommand, ConfirmState, ConfirmMode, AppConfirm, AppCancel,
     AppGuardSet, AppExitMark, AppExitRequest
<1>2. NoData' <=> NoData
  BY <1>1 DEF NoData
<1>a. CASE ClearPlus \/ ClearExit \/ ToCommand
  <2>1. /\ main.pc \in EndPoints
        /\ main'.pc \in {"clear_exit", "clear_overflow", "session_result"}
        /\ main'.pc = "clear_exit" => ClearPlus
        /\ main'.pc = "clear_overflow" => ClearExit
        /\ main'.pc = "session_result" => ToCommand
    BY <1>0, <1>a DEF ClearPlus, ClearExit, ToCommand, EndPoints, MainOK, MainT
  <2>2. NoData
    BY <2>1 DEF Sorted
  <2>3. /\ at'.sess = at.sess
        /\ ClearPlus => at'.plus_cnt = 0
        /\ ClearExit => at'.plus_cnt = at.plus_cnt /\ main.pc = "clear_exit"
        /\ ClearPlus => /\ at'.mode = at.mode /\ at'.exit_req = at.exit_req
                        /\ at'.exit_mark = at.exit_mark /\ at'.data_got = at.data_got
        /\ ClearExit => at'.exit_req = 0 /\ at'.mode = "DATA"
        /\ ToCommand => at'.mode = "COMMAND"
    <3>1. at.mode = "DATA"
      BY <2>1 DEF Control, DataPoints
    <3> QED BY <1>0, <1>a, <3>1 DEF ClearPlus, ClearExit, ToCommand, AtOK, AtT
  <2>4. AtPoint'
    BY <2>1, <2>3 DEF AtPoint, FixedPoints, StreamPoints, DrainPoints, EndPoints, InChunk
  <2>5. CASE main'.pc = "clear_exit"
    BY <1>1, <2>1, <2>2, <2>3, <2>4, <2>5, BytesStay DEF EndPoints
  <2>6. CASE main'.pc \in {"clear_overflow", "session_result"}
    <3>1. Sorted'
      BY <1>2, <2>1, <2>2, <2>3, <2>6 DEF Sorted, EndPoints, Fixed
    <3> QED BY <2>4, <3>1
  <2> QED BY <2>1, <2>5, <2>6
<1>b. CASE ConfirmState
  <2>1. /\ main.pc = "confirm_state" /\ main'.pc = "confirm_mode"
        /\ at'.mode = at.mode /\ at'.sess = at.sess /\ at'.exit_req = 0 /\ at'.plus_cnt = 0
    BY <1>0, <1>b DEF ConfirmState, AtOK, AtT, MainOK, MainT
  <2>2. at.mode = "COMMAND" /\ stream.q = <<>>
    BY <2>1 DEF Control, CommandPoints, AtPoint
  <2>3. AtPoint'
    BY <1>1, <2>1, <2>2 DEF AtPoint, FixedPoints, StreamPoints, DrainPoints, EndPoints, InChunk
  <2>4. Sorted'
    BY <1>2, <2>1, <2>2 DEF Sorted, EndPoints, Fixed
  <2> QED BY <2>3, <2>4
\* A session begins with an empty ring.
<1>c. CASE ConfirmMode
  <2>1. /\ main.pc = "confirm_mode" /\ main'.pc = "confirm_arm"
        /\ at'.mode = "DATA" /\ at'.sess = at.sess /\ at'.exit_req = at.exit_req
        /\ at'.plus_cnt = at.plus_cnt
    BY <1>0, <1>c DEF ConfirmMode, AtOK, AtT, MainOK, MainT
  <2>2. at.exit_req = 0 /\ stream.q = <<>>
    BY <2>1 DEF AtPoint
  <2>3. Tagged(stream)'
    BY <1>1, <2>2, EmptySeq DEF Tagged
  <2>4. AtPoint'
    BY <2>1, <2>2 DEF AtPoint, FixedPoints, StreamPoints, DrainPoints, EndPoints, InChunk
  <2>5. Sorted'
    BY <2>1, <2>2, <2>3 DEF Sorted, EndPoints, Fixed
  <2> QED BY <2>4, <2>5
<1>d. CASE AppConfirm \/ AppCancel \/ AppGuardSet
  <2>1. /\ at'.mode = at.mode /\ at'.sess = at.sess /\ at'.exit_req = at.exit_req
        /\ at'.data_got = at.data_got /\ at'.exit_mark = at.exit_mark
        /\ at'.plus_cnt = at.plus_cnt
    BY <1>0, <1>d DEF AppConfirm, AppCancel, AppGuardSet, AtOK, AtT
  <2>2. main.pc = "idle" /\ main'.pc \in {"idle", "confirm_tail"}
    BY <1>0, <1>d DEF AppConfirm, AppCancel, AppGuardSet, MainOK, MainT
  <2>3. AtPoint'
    BY <2>1, <2>2 DEF AtPoint, FixedPoints, StreamPoints, DrainPoints, EndPoints, InChunk
  <2> QED BY <1>1, <2>1, <2>2, <2>3, BytesStay DEF EndPoints
\* lw_at_data_exit of a STREAM session: all bytes are data, and the mark is behind them.
<1>e. CASE AppExitMark
  <2>1. /\ main.pc = "idle" /\ main'.pc = "exit_request"
        /\ at'.mode = at.mode /\ at'.sess = at.sess /\ at'.exit_req = at.exit_req
        /\ at'.data_got = at.data_got /\ at'.exit_mark = HeadIdx(stream)
    BY <1>0, <1>e DEF AppExitMark, AtOK, AtT, MainOK, MainT
  <2>2. at.mode = "DATA" /\ ~Fixed /\ at.exit_req = 0
    BY <1>e DEF AppExitMark, Orderly, Stream, Fixed
  <2>3. Tagged(stream)
    BY <2>1, <2>2 DEF Sorted, EndPoints
  <2>4. \A k \in 1 .. Len(stream.q) : stream.q[k].cls = "data"
    BY <2>2, <2>3, StreamTagged
  <2>5. BytesToMark(stream, at.exit_mark)' = Len(stream.q)
    <3>1. BytesToMark(stream, HeadIdx(stream)) = Len(stream.q)
      BY <1>0, HeadIsEnd DEF StreamOK
    <3> QED BY <1>1, <2>1, <3>1 DEF BytesToMark
  <2>6. Len(stream.q) \in Nat
    BY <1>0, StreamFields DEF StreamOK
  <2>7. Split'
    BY <1>1, <2>4, <2>5, <2>6 DEF Split
  <2>8. Tagged(stream)'
    BY <1>1, <2>1, <2>3, SameClass
  <2>9. AtPoint'
    <3>1. AtHead'
      BY <1>1, <2>1 DEF AtHead, HeadIdx
    <3> QED BY <2>1, <3>1 DEF AtPoint, FixedPoints, StreamPoints, DrainPoints, EndPoints, InChunk
  <2>10. Sorted'
    BY <2>1, <2>2, <2>7, <2>8 DEF Sorted, EndPoints, Fixed
  <2> QED BY <2>9, <2>10
<1>f. CASE AppExitRequest
  <2>1. /\ main.pc = "exit_request" /\ main'.pc = "leave"
        /\ at'.mode = at.mode /\ at'.sess = at.sess /\ at'.exit_req = 1
        /\ at'.exit_mark = at.exit_mark
    BY <1>0, <1>f DEF AppExitRequest, AtOK, AtT, MainOK, MainT
  <2>2. at.mode = "DATA" /\ ~Fixed /\ Split
    BY <2>1 DEF Sorted, Control, DataPoints
  <2>3. Split'
    <3>1. BytesToMark(stream, at.exit_mark)' = BytesToMark(stream, at.exit_mark)
      BY <1>1, <2>1 DEF BytesToMark
    <3> QED BY <1>1, <2>2, <3>1 DEF Split
  <2>4. AtPoint'
    <3>1. AtHead'
      BY <1>1, <2>1 DEF AtPoint, AtHead, HeadIdx
    <3> QED BY <2>1, <3>1 DEF AtPoint, FixedPoints, StreamPoints, DrainPoints, EndPoints, InChunk
  <2>5. Sorted'
    BY <2>1, <2>2, <2>3 DEF Sorted, EndPoints, Fixed
  <2> QED BY <2>4, <2>5
<1> QED BY <1>a, <1>b, <1>c, <1>d, <1>e, <1>f

LEMMA StepKeepsSorted ==
  ASSUME Orderly
  PROVE  TypeOK /\ Control /\ Sorted /\ AtPoint /\ [Next]_vars => Sorted' /\ AtPoint'
<1> SUFFICES ASSUME TypeOK, Control, Sorted, AtPoint, [Next]_vars PROVE Sorted' /\ AtPoint'
  OBVIOUS
<1>1. CASE Feed \/ Timer
  <2>1. Feed => main.pc = "idle"
    BY DEF Orderly, Feed, MayRun
  <2> QED BY <1>1, <2>1, FeedSorted, TimerSorted
<1>2. CASE UNCHANGED vars
  <2>1. stream' = stream /\ at' = at /\ main' = main
    BY <1>2 DEF vars
  <2>2. /\ NoData' <=> NoData
        /\ Tagged(stream)' <=> Tagged(stream)
        /\ Split' <=> Split
        /\ AtHead' <=> AtHead
        /\ Contiguous(stream)' = Contiguous(stream)
        /\ BytesToMark(stream, at.exit_mark)' = BytesToMark(stream, at.exit_mark)
    BY <2>1, SameBytes
  <2> QED BY <2>1, <2>2 DEF Sorted, AtPoint, Fixed, InChunk
<1>3. CASE Line
  BY <1>3, LineSorted
<1>4. CASE FixedDeliver \/ StreamDeliver \/ DrainDeliver
  BY <1>4, DeliverSorted
<1>5. CASE FixedRelease \/ StreamRelease \/ DrainRelease
  BY <1>5, ReleaseSorted
<1>6. CASE VoidTail \/ ConfirmTail
  BY <1>6, ResetSorted
<1>7. CASE \/ ClearPlus \/ ClearExit \/ ToCommand \/ ConfirmState \/ ConfirmMode
           \/ AppConfirm \/ AppCancel \/ AppGuardSet \/ AppExitMark \/ AppExitRequest
  BY <1>7, WritesSorted
<1>8. CASE \/ Process \/ SessionEnter \/ FixedWait \/ StreamWait \/ FixedFull \/ Leave
           \/ DrainDone \/ ClearSessionOverflow \/ KeepPending \/ SessionResult
           \/ PendingRead \/ PendingClear \/ OverflowRead \/ OverflowClear
           \/ VoidOverflow \/ VoidPending \/ VoidResult \/ NoLine \/ Residue
           \/ ConfirmOverflow \/ ConfirmPending \/ ConfirmArm \/ HandlerResult \/ Prompt
  BY <1>8, MovesSorted
<1> QED
  BY <1>1, <1>2, <1>3, <1>4, <1>5, <1>6, <1>7, <1>8 DEF Next, MainLoop, App

LEMMA BytesInvariant ==
  ASSUME Orderly
  PROVE  Spec => [](TypeOK /\ Control /\ Counted /\ Sorted /\ AtPoint)
<1> DEFINE IInv == TypeOK /\ Control /\ Counted /\ Sorted /\ AtPoint
<1>1. Init => IInv
  <2> SUFFICES ASSUME Init PROVE IInv
    OBVIOUS
  <2>1. /\ at.mode = "COMMAND" /\ at.sess = NoSession /\ main.pc = "idle" /\ stream.q = <<>>
    BY DEF Init, Idle
  <2>2. NoData
    BY <2>1, EmptySeq DEF NoData
  <2>3. ~at.sess.abort
    <3>1. NoSession.abort = FALSE
      BY Zenon DEF NoSession
    <3> QED BY <2>1, <3>1, Zenon
  <2> QED
    BY <2>1, <2>2, <2>3, InitTypeOK DEF Control, Counted, Sorted, AtPoint, CommandPoints, DataPoints,
       FixedPoints, StreamPoints, DrainPoints, EndPoints, InChunk
<1>2. IInv /\ [Next]_vars => IInv'
  BY StepKeepsTypeOK, StepKeepsControl, StepKeepsCounted, StepKeepsSorted
<1> QED BY <1>1, <1>2, PTL DEF Spec

\* What is handed to on_chunk was fed as data of the session: nothing from before it, from
\* behind its escape, or beyond its length (core.c:306, :407).
THEOREM CoreChunkIsData ==
  ASSUME Orderly
  PROVE  Spec => []ChunkIsData
<1>1. TypeOK /\ Control /\ Counted /\ Sorted /\ AtPoint => ChunkIsData
  <2> SUFFICES ASSUME TypeOK, Control, Counted, Sorted, AtPoint, InChunk,
                      NEW k \in 1 .. main.chunk
               PROVE  stream.q[k].cls = "data"
    BY DEF ChunkIsData, Delivers
  <2>0. StreamOK /\ AtOK /\ MainOK
    BY TypeParts
  <2>1. main.chunk \in Nat /\ k \in 1 .. Len(stream.q) /\ k <= main.chunk
    <3>1. main.chunk \in Nat /\ main.chunk <= Contiguous(stream)
      BY <2>0 DEF AtPoint, MainOK, MainT
    <3> QED BY <2>0, <3>1, ContiguousBound, StreamFields DEF StreamOK
  <2>2. at.mode = "DATA" /\ main.pc \notin EndPoints
    BY DEF Control, DataPoints, FixedPoints, StreamPoints, DrainPoints, InChunk, EndPoints
  <2>3. CASE main.pc = "fixed_release"
    <3>1. Fixed /\ at.exit_req = 0 /\ at.data_got + main.chunk <= at.sess.length
      BY <2>2, <2>3 DEF Control, AtPoint, Counted, FixedPoints
    <3>2. at.data_got + k <= at.sess.length
      BY <2>0, <2>1, <3>1 DEF AtOK, AtT, Sessions
    <3>3. Class(k) = "data"
      BY <2>2, <3>1, <3>2 DEF Class
    <3> QED BY <2>1, <2>2, <3>1, <3>3 DEF Sorted, Tagged
  <2>4. CASE main.pc = "stream_release"
    <3>1. ~Fixed /\ at.exit_req \in {0, 1} /\ (at.exit_req = 1 => AtHead)
      BY <2>0, <2>4 DEF Control, AtPoint, StreamPoints, AtOK, AtT
    <3>2. CASE at.exit_req = 0
      BY <2>1, <2>2, <3>1, <3>2, StreamTagged DEF Sorted
    <3>3. CASE at.exit_req = 1
      <4>1. Split /\ BytesToMark(stream, at.exit_mark) = Len(stream.q)
        BY <2>0, <2>2, <3>1, <3>3, HeadIsEnd DEF Sorted, AtHead, StreamOK
      <4>2. k <= Len(stream.q)
        BY <2>1
      <4> QED BY <2>1, <4>1, <4>2 DEF Split
    <3> QED BY <3>1, <3>2, <3>3
  <2>5. CASE main.pc = "drain_release"
    <3>1. Split /\ main.chunk <= BytesToMark(stream, at.exit_mark)
      BY <2>2, <2>5 DEF AtPoint, Sorted, DrainPoints
    <3>2. BytesToMark(stream, at.exit_mark) \in Nat
      BY <2>0, BytesToMarkType DEF AtOK, AtT
    <3>3. k <= BytesToMark(stream, at.exit_mark)
      BY <2>1, <3>1, <3>2
    <3> QED BY <2>1, <3>1, <3>3 DEF Split
  <2> QED BY <2>3, <2>4, <2>5 DEF InChunk
<1> QED BY <1>1, BytesInvariant, PTL

\* No byte of a session is left in the ring for the command parser.
THEOREM CoreCommandsAreCommands ==
  ASSUME Orderly
  PROVE  Spec => []CommandsAreCommands
<1>1. TypeOK /\ Control /\ Counted /\ Sorted /\ AtPoint => CommandsAreCommands
  BY DEF Sorted, NoData, CommandsAreCommands
<1> QED BY <1>1, BytesInvariant, PTL

\* From the moment an exit is requested, exit_mark splits the ring into the session's data
\* and the commands behind it, across the wrap of the ring (core.h:66).
THEOREM CoreMarkSplits ==
  ASSUME Orderly
  PROVE  Spec => []MarkSplits
<1>1. TypeOK /\ Control /\ Counted /\ Sorted /\ AtPoint => MarkSplits
  BY DEF Sorted, Split, MarkSplits
<1> QED BY <1>1, BytesInvariant, PTL
=============================================================================
