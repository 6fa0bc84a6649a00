-------------------------- MODULE LwAtStreamProofs --------------------------
(***************************************************************************)
(* Proofs about the receive ring for every Size, byte set and segment set: *)
(* the inductive invariant, the stability of unread bytes, and that the    *)
(* ring implements the byte queue.                                         *)
(***************************************************************************)
EXTENDS LwAtStream, SequenceTheorems, TLAPS

\* Ring arithmetic: the places from one cell to another, and the cell a number of
\* places ahead, undo each other.
LEMMA RingArithmetic ==
  /\ \A i, j \in Cells : /\ Dist(i, j) \in 0 .. Size - 1
                         /\ Ahead(i, Dist(i, j)) = j
  /\ \A i \in Cells, n \in 0 .. Size - 1 : /\ Ahead(i, n) \in Cells
                                           /\ Dist(i, Ahead(i, n)) = n
  /\ \A i \in Cells : StreamNext(i) \in Cells /\ StreamNext(i) = Ahead(i, 1)
BY SizeAssumption DEF Cells, Dist, Ahead, StreamNext

\* Walking on from cell j, seen from cell i.
LEMMA RingWalk ==
  ASSUME NEW i \in Cells, NEW j \in Cells
  PROVE  /\ Dist(i, i) = 0
         /\ StreamNext(j) # i => Dist(i, StreamNext(j)) = Dist(i, j) + 1
         /\ \A n \in 0 .. Size - 1 :
              Dist(i, j) + n < Size =>
                /\ Dist(i, Ahead(j, n)) = Dist(i, j) + n
                /\ Ahead(i, Dist(i, j) + n) = Ahead(j, n)
BY SizeAssumption DEF Cells, Dist, Ahead, StreamNext

\* Moving the origin forward from i to m, a cell between i and j.
LEMMA RingAdvance ==
  ASSUME NEW i \in Cells, NEW j \in Cells, NEW m \in Cells,
         Dist(i, m) <= Dist(i, j)
  PROVE  /\ Dist(m, j) = Dist(i, j) - Dist(i, m)
         /\ \A n \in 0 .. Size - 1 :
              n + Dist(i, m) < Size => Ahead(m, n) = Ahead(i, n + Dist(i, m))
BY SizeAssumption DEF Cells, Dist, Ahead

-----------------------------------------------------------------------------
(* The inductive invariant *)

LEMMA InitEstablishesIInv == Init => IInv
<1> SUFFICES ASSUME Init PROVE IInv
  OBVIOUS
<1>1. TypeOK
  BY SizeAssumption DEF Init, TypeOK, RingTypes, ProducerTypes, ConsumerTypes, Cells, Bit
<1>2. ProducerInv /\ ConsumerInv
  BY DEF Init, ProducerInv, ConsumerInv
<1> QED BY <1>1, <1>2 DEF IInv

\* A returning call leaves its locals at rest.
LEMMA ReturnTypes == Return => ConsumerTypes'
<1> SUFFICES ASSUME Return PROVE ConsumerTypes'
  OBVIOUS
<1>1. prevCr' \in BOOLEAN
  BY Zenon DEF Return
<1>2. /\ snap' \in Cells /\ scan' \in Cells /\ flag' \in Bit /\ win' \in Nat
      /\ cpc' = "idle"
  BY SizeAssumption DEF Return, Cells, Bit
<1> QED BY <1>1, <1>2 DEF ConsumerTypes

\* TypeOK survives every step.
LEMMA StepKeepsTypeOK == IInv /\ [Next]_vars => TypeOK'
<1> SUFFICES ASSUME IInv, [Next]_vars PROVE TypeOK'
  OBVIOUS
<1> USE SizeAssumption DEF IInv, TypeOK, Cells, Bit
<1>1. CASE FeedStart
  <2>1. RingTypes'
    BY <1>1, SegmentsAssumption DEF RingTypes, ProducerTypes, ConsumerTypes, FeedStart, prodVars, consVars
  <2>2. ProducerTypes'
    BY <1>1, SegmentsAssumption DEF RingTypes, ProducerTypes, FeedStart, prodVars, consVars
  <2>3. ConsumerTypes'
    BY <1>1 DEF RingTypes, ConsumerTypes, FeedStart, prodVars, consVars
  <2> QED BY <2>1, <2>2, <2>3
<1>2. CASE FeedByte
  <2>1. RingTypes'
    BY <1>2, SegmentsAssumption DEF RingTypes, ProducerTypes, ConsumerTypes, FeedByte, prodVars, consVars, StreamNext
  <2>2. ProducerTypes'
    BY <1>2, SegmentsAssumption DEF RingTypes, ProducerTypes, FeedByte, prodVars, consVars, StreamNext
  <2>3. ConsumerTypes'
    BY <1>2 DEF RingTypes, ConsumerTypes, FeedByte, prodVars, consVars, StreamNext
  <2> QED BY <2>1, <2>2, <2>3
<1>3. CASE FeedFull
  <2>1. RingTypes'
    BY <1>3 DEF RingTypes, ProducerTypes, ConsumerTypes, FeedFull, prodVars, consVars
  <2>2. ProducerTypes'
    BY <1>3 DEF RingTypes, ProducerTypes, FeedFull, prodVars, consVars
  <2>3. ConsumerTypes'
    BY <1>3 DEF RingTypes, ConsumerTypes, FeedFull, prodVars, consVars
  <2> QED BY <2>1, <2>2, <2>3
<1>4. CASE FeedPublish
  <2>1. RingTypes'
    BY <1>4 DEF RingTypes, ProducerTypes, ConsumerTypes, FeedPublish, prodVars, consVars
  <2>2. ProducerTypes'
    BY <1>4 DEF RingTypes, ProducerTypes, FeedPublish, prodVars, consVars
  <2>3. ConsumerTypes'
    BY <1>4 DEF RingTypes, ConsumerTypes, FeedPublish, prodVars, consVars
  <2> QED BY <2>1, <2>2, <2>3
<1>5. CASE Notify
  <2>1. RingTypes'
    BY <1>5 DEF RingTypes, ProducerTypes, ConsumerTypes, Notify, prodVars, consVars
  <2>2. ProducerTypes'
    BY <1>5 DEF RingTypes, ProducerTypes, Notify, prodVars, consVars
  <2>3. ConsumerTypes'
    BY <1>5 DEF RingTypes, ConsumerTypes, Notify, prodVars, consVars
  <2> QED BY <2>1, <2>2, <2>3
<1>6. CASE Peek
  <2>1. RingTypes'
    BY <1>6 DEF RingTypes, ProducerTypes, ConsumerTypes, Peek, prodVars, consVars, At
  <2>2. ProducerTypes'
    BY <1>6 DEF RingTypes, ProducerTypes, Peek, prodVars, consVars, At
  <2>3. ConsumerTypes'
    BY <1>6 DEF RingTypes, ConsumerTypes, Peek, prodVars, consVars, At
  <2> QED BY <2>1, <2>2, <2>3
<1>7. CASE Consume
  <2>1. RingTypes'
    BY <1>7 DEF RingTypes, ProducerTypes, ConsumerTypes, Consume, prodVars, consVars, At, Return, ConsumerInv, Used, Dist
  <2>2. ProducerTypes'
    BY <1>7 DEF RingTypes, ProducerTypes, Consume, prodVars, consVars, At, Return, ConsumerInv, Used, Dist
  <2>3. ConsumerTypes'
    BY <1>7, ReturnTypes DEF Consume
  <2> QED BY <2>1, <2>2, <2>3
<1>8. CASE GetLineStart
  <2>1. RingTypes'
    BY <1>8 DEF RingTypes, ProducerTypes, ConsumerTypes, GetLineStart, prodVars, consVars, At
  <2>2. ProducerTypes'
    BY <1>8 DEF RingTypes, ProducerTypes, GetLineStart, prodVars, consVars, At
  <2>3. ConsumerTypes'
    BY <1>8 DEF RingTypes, ConsumerTypes, GetLineStart, prodVars, consVars, At
  <2> QED BY <2>1, <2>2, <2>3
<1>9. CASE ScanByte
  <2>1. RingTypes'
    BY <1>9 DEF RingTypes, ProducerTypes, ConsumerTypes, ScanByte, prodVars, consVars, At, StreamNext
  <2>2. ProducerTypes'
    BY <1>9 DEF RingTypes, ProducerTypes, ScanByte, prodVars, consVars, At, StreamNext
  <2>3. ConsumerTypes'
    BY <1>9 DEF RingTypes, ConsumerTypes, ScanByte, prodVars, consVars, At, StreamNext
  <2> QED BY <2>1, <2>2, <2>3
<1>10. CASE ScanLine
  <2>1. RingTypes'
    BY <1>10 DEF RingTypes, ProducerTypes, ConsumerTypes, ScanLine, prodVars, consVars, At, Return, StreamNext
  <2>2. ProducerTypes'
    BY <1>10 DEF RingTypes, ProducerTypes, ScanLine, prodVars, consVars, At, Return, StreamNext
  <2>3. ConsumerTypes'
    BY <1>10, ReturnTypes DEF ScanLine
  <2> QED BY <2>1, <2>2, <2>3
<1>11. CASE ScanEnd
  <2>1. RingTypes'
    BY <1>11 DEF RingTypes, ProducerTypes, ConsumerTypes, ScanEnd, prodVars, consVars, At, Return
  <2>2. ProducerTypes'
    BY <1>11 DEF RingTypes, ProducerTypes, ScanEnd, prodVars, consVars, At, Return
  <2>3. ConsumerTypes'
    BY <1>11, ReturnTypes DEF ScanEnd
  <2> QED BY <2>1, <2>2, <2>3
<1>12. CASE ResetStart
  <2>1. RingTypes'
    BY <1>12 DEF RingTypes, ProducerTypes, ConsumerTypes, ResetStart, prodVars, consVars, At
  <2>2. ProducerTypes'
    BY <1>12 DEF RingTypes, ProducerTypes, ResetStart, prodVars, consVars, At
  <2>3. ConsumerTypes'
    BY <1>12 DEF RingTypes, ConsumerTypes, ResetStart, prodVars, consVars, At
  <2> QED BY <2>1, <2>2, <2>3
<1>13. CASE ResetTail
  <2>1. RingTypes'
    BY <1>13 DEF RingTypes, ProducerTypes, ConsumerTypes, ResetTail, prodVars, consVars, At
  <2>2. ProducerTypes'
    BY <1>13 DEF RingTypes, ProducerTypes, ResetTail, prodVars, consVars, At
  <2>3. ConsumerTypes'
    BY <1>13 DEF RingTypes, ConsumerTypes, ResetTail, prodVars, consVars, At
  <2> QED BY <2>1, <2>2, <2>3
<1>14. CASE ResetOverflow
  <2>1. RingTypes'
    BY <1>14 DEF RingTypes, ProducerTypes, ConsumerTypes, ResetOverflow, prodVars, consVars, At
  <2>2. ProducerTypes'
    BY <1>14 DEF RingTypes, ProducerTypes, ResetOverflow, prodVars, consVars, At
  <2>3. ConsumerTypes'
    BY <1>14 DEF RingTypes, ConsumerTypes, ResetOverflow, prodVars, consVars, At
  <2> QED BY <2>1, <2>2, <2>3
<1>15. CASE ResetPending
  <2>1. RingTypes'
    BY <1>15 DEF RingTypes, ProducerTypes, ConsumerTypes, ResetPending, prodVars, consVars, At, Return
  <2>2. ProducerTypes'
    BY <1>15 DEF RingTypes, ProducerTypes, ResetPending, prodVars, consVars, At, Return
  <2>3. ConsumerTypes'
    BY <1>15, ReturnTypes DEF ResetPending
  <2> QED BY <2>1, <2>2, <2>3
<1>16. CASE OverflowRead
  <2>1. RingTypes'
    BY <1>16 DEF RingTypes, ProducerTypes, ConsumerTypes, OverflowRead, prodVars, consVars, At
  <2>2. ProducerTypes'
    BY <1>16 DEF RingTypes, ProducerTypes, OverflowRead, prodVars, consVars, At
  <2>3. ConsumerTypes'
    BY <1>16 DEF RingTypes, ConsumerTypes, OverflowRead, prodVars, consVars, At
  <2> QED BY <2>1, <2>2, <2>3
<1>17. CASE OverflowClear
  <2>1. RingTypes'
    BY <1>17 DEF RingTypes, ProducerTypes, ConsumerTypes, OverflowClear, prodVars, consVars, At, Return
  <2>2. ProducerTypes'
    BY <1>17 DEF RingTypes, ProducerTypes, OverflowClear, prodVars, consVars, At, Return
  <2>3. ConsumerTypes'
    BY <1>17, ReturnTypes DEF OverflowClear
  <2> QED BY <2>1, <2>2, <2>3
<1>18. CASE PendingRead
  <2>1. RingTypes'
    BY <1>18 DEF RingTypes, ProducerTypes, ConsumerTypes, PendingRead, prodVars, consVars, At
  <2>2. ProducerTypes'
    BY <1>18 DEF RingTypes, ProducerTypes, PendingRead, prodVars, consVars, At
  <2>3. ConsumerTypes'
    BY <1>18 DEF RingTypes, ConsumerTypes, PendingRead, prodVars, consVars, At
  <2> QED BY <2>1, <2>2, <2>3
<1>19. CASE PendingClear
  <2>1. RingTypes'
    BY <1>19 DEF RingTypes, ProducerTypes, ConsumerTypes, PendingClear, prodVars, consVars, At, Return
  <2>2. ProducerTypes'
    BY <1>19 DEF RingTypes, ProducerTypes, PendingClear, prodVars, consVars, At, Return
  <2>3. ConsumerTypes'
    BY <1>19, ReturnTypes DEF PendingClear
  <2> QED BY <2>1, <2>2, <2>3
<1>20. CASE UNCHANGED vars
  BY <1>20 DEF vars, prodVars, consVars, RingTypes, ProducerTypes, ConsumerTypes
<1> QED
  BY <1>1, <1>2, <1>3, <1>4, <1>5, <1>6, <1>7, <1>8, <1>9, <1>10, <1>11, <1>12, <1>13, <1>14, <1>15, <1>16, <1>17, <1>18, <1>19, <1>20 DEF Next, Producer, Consumer

\* feed stores outside the unread bytes.
LEMMA UnreadUntouched ==
  ASSUME IInv, [Next]_vars
  PROVE  \A k \in 0 .. Used - 1 : buf'[Ahead(tail, k)] = buf[Ahead(tail, k)]
<1> USE DEF IInv, TypeOK
<1>1. CASE FeedByte
  <2> SUFFICES ASSUME NEW k \in 0 .. Used - 1
               PROVE  buf'[Ahead(tail, k)] = buf[Ahead(tail, k)]
    OBVIOUS
  <2>1. Dist(tail, wcur) = Used + written
    BY <1>1 DEF FeedByte, ProducerInv
  <2>0. Used \in 0 .. Size - 1 /\ Dist(tail, wcur) \in 0 .. Size - 1 /\ written \in Nat
    BY RingArithmetic DEF RingTypes, ProducerTypes, Used
  <2>2. k \in 0 .. Size - 1 /\ k < Dist(tail, wcur)
    BY <2>0, <2>1, SizeAssumption
  <2>3. Ahead(tail, k) \in Cells /\ Ahead(tail, k) # wcur
    BY <2>2, RingArithmetic DEF RingTypes, ProducerTypes
  <2> QED BY <1>1, <2>3 DEF FeedByte, RingTypes
<1>2. CASE UNCHANGED buf
  BY <1>2
<1>3. FeedByte \/ UNCHANGED buf
  BY Zenon DEF Next, Producer, Consumer, vars, prodVars, consVars, FeedStart, FeedFull,
     FeedPublish, Notify, Peek, Consume, GetLineStart, ScanByte, ScanLine, ScanEnd,
     ResetStart, ResetTail, ResetOverflow, ResetPending, OverflowRead, OverflowClear,
     PendingRead, PendingClear
<1> QED BY <1>1, <1>2, <1>3

\* The consumer releases cells it has seen filled; what is left shrinks by as much.
LEMMA TailMoves ==
  ASSUME IInv, tail' \in Cells, Dist(tail, tail') <= Used, UNCHANGED <<buf, head, prodVars>>
  PROVE  ProducerInv' /\ Used' = Used - Dist(tail, tail')
<1> USE DEF IInv, TypeOK, RingTypes, ProducerTypes
<1>1. Used' = Used - Dist(tail, tail')
  BY RingAdvance DEF Used
<1>2. ASSUME ppc # "idle" PROVE Dist(tail', wcur) = Used' + written
  <2>1. Dist(tail, wcur) = Used + written
    BY <1>2 DEF ProducerInv
  <2>2. /\ Used \in 0 .. Size - 1 /\ written \in Nat
        /\ Dist(tail, tail') \in 0 .. Size - 1 /\ Dist(tail, wcur) \in 0 .. Size - 1
    BY RingArithmetic DEF Used
  <2>3. Dist(tail, tail') <= Dist(tail, wcur)
    BY <2>1, <2>2, SizeAssumption
  <2>4. Dist(tail', wcur) = Dist(tail, wcur) - Dist(tail, tail')
    BY <2>3, RingAdvance
  <2> QED BY <1>1, <2>1, <2>2, <2>4, SizeAssumption
<1> QED BY <1>1, <1>2 DEF ProducerInv, prodVars

\* How far each tail move goes.
LEMMA ConsumeMoves ==
  ASSUME IInv, Consume
  PROVE  tail' \in Cells /\ Dist(tail, tail') \in 1 .. win /\ Dist(tail, tail') <= Used
         /\ UNCHANGED <<buf, head, prodVars>>
BY SizeAssumption DEF Consume, At, IInv, TypeOK, RingTypes, ConsumerTypes, ConsumerInv,
   Cells, Dist, Used

LEMMA ScanLineMoves ==
  ASSUME IInv, ScanLine
  PROVE  /\ tail' \in Cells /\ Dist(tail, tail') = Dist(tail, scan) + 1
         /\ Dist(tail, tail') <= Used
         /\ UNCHANGED <<buf, head, prodVars>>
<1> USE DEF IInv, TypeOK, RingTypes, ConsumerTypes
<1>1. Dist(tail, snap) <= Used /\ Dist(tail, scan) <= Dist(tail, snap)
  BY DEF ScanLine, At, ConsumerInv
<1>2. Dist(tail, scan) < Dist(tail, snap)
  <2>1. scan # snap
    BY DEF ScanLine
  <2>2. /\ Dist(tail, scan) # Dist(tail, snap)
        /\ Dist(tail, scan) \in 0 .. Size - 1 /\ Dist(tail, snap) \in 0 .. Size - 1
    BY <2>1, RingArithmetic
  <2> QED BY <1>1, <2>2, SizeAssumption
<1>3. StreamNext(scan) # tail
  BY <1>2, SizeAssumption DEF StreamNext, Dist, Cells
<1>4. tail' = StreamNext(scan) /\ UNCHANGED <<buf, head, prodVars>>
  BY DEF ScanLine
<1>5. tail' \in Cells /\ Dist(tail, tail') = Dist(tail, scan) + 1
  BY <1>3, <1>4, RingWalk, RingArithmetic
<1>6. Dist(tail, scan) \in Int /\ Dist(tail, snap) \in Int /\ Used \in Int
  BY RingArithmetic, SizeAssumption DEF Used
<1> QED BY <1>1, <1>2, <1>4, <1>5, <1>6

LEMMA ResetTailMoves ==
  ASSUME IInv, ResetTail
  PROVE  /\ tail' \in Cells /\ Dist(tail, tail') <= Used
         /\ UNCHANGED <<buf, head, prodVars>>
BY DEF ResetTail, At, IInv, TypeOK, RingTypes, ConsumerTypes, ConsumerInv

-----------------------------------------------------------------------------
(* What a step leaves to the producer's and the consumer's invariants *)

\* feed (stream.c:73-98) keeps its cursor and its stored prefix in step whatever the
\* consumer does meanwhile.
LEMMA StepKeepsProducerInv == IInv /\ [Next]_vars => ProducerInv'
<1> SUFFICES ASSUME IInv, [Next]_vars PROVE ProducerInv'
  OBVIOUS
<1> USE DEF IInv, TypeOK, RingTypes, ProducerTypes
<1>1. CASE FeedStart
  <2>1. Dist(tail', wcur') = Used' + written' /\ seg' # <<>> /\ written' = 0
    <3>1. seg' \in Segments /\ seg' # <<>>
      BY <1>1, SegmentsAssumption DEF FeedStart
    <3>2. tail' = tail /\ head' = head /\ wcur' = head /\ written' = 0
      BY <1>1 DEF FeedStart
    <3>3. Used' = Used /\ Used \in 0 .. Size - 1 /\ Dist(tail', wcur') = Used
      BY <3>2, RingArithmetic DEF Used
    <3> QED BY <3>1, <3>2, <3>3, SizeAssumption
  <2>2. ppc' = "write" /\ \A k \in 0 .. written' - 1 : FALSE
    BY <1>1, <2>1 DEF FeedStart
  <2> QED BY <2>1, <2>2 DEF ProducerInv
<1>2. CASE FeedByte
  <2>1. /\ Dist(tail, wcur) = Used + written /\ seg # <<>> /\ ppc = "write"
        /\ \A k \in 0 .. written - 1 : buf[Ahead(head, k)] = seg[k + 1]
    BY <1>2 DEF FeedByte, ProducerInv
  <2>2. /\ Used \in 0 .. Size - 1 /\ Dist(tail, wcur) \in 0 .. Size - 1
        /\ written \in Nat /\ head \in Cells
    BY RingArithmetic DEF Used
  <2>3. written \in 0 .. Size - 1 /\ Used + written < Size
    BY <2>1, <2>2, SizeAssumption
  <2>4. wcur = Ahead(head, written)
    <3>1. Ahead(tail, Used + written) = wcur
      BY <2>1, RingArithmetic
    <3>2. Ahead(tail, Used + written) = Ahead(head, written)
      BY <2>3, RingWalk DEF Used
    <3> QED BY <3>1, <3>2
  <2>5. Dist(tail', wcur') = Used' + written'
    <3>1. Dist(tail, StreamNext(wcur)) = Dist(tail, wcur) + 1
      BY <1>2, RingWalk DEF FeedByte
    <3>2. wcur' = StreamNext(wcur) /\ written' = written + 1 /\ Used' = Used /\ tail' = tail
      BY <1>2 DEF FeedByte, Used
    <3> QED BY <3>1, <3>2, <2>1, <2>2
  <2>6. ASSUME NEW k \in 0 .. written' - 1
        PROVE  buf'[Ahead(head', k)] = seg'[k + 1]
    <3>0. written' = written + 1 /\ head' = head /\ seg' = seg
      BY <1>2 DEF FeedByte
    <3>1. k \in 0 .. written /\ k \in 0 .. Size - 1
      BY <2>3, <2>6, <3>0, SizeAssumption
    <3>2. CASE k = written
      BY <1>2, <2>4, <3>0, <3>1, <3>2 DEF FeedByte
    <3>3. CASE k # written
      <4>1. k \in 0 .. written - 1
        BY <2>2, <3>1, <3>3
      <4>2. Ahead(head, k) # wcur /\ Ahead(head, k) \in Cells
        BY <2>2, <2>3, <2>4, <3>1, <3>3, RingArithmetic
      <4>3. buf'[Ahead(head, k)] = buf[Ahead(head, k)]
        BY <1>2, <4>2 DEF FeedByte
      <4> QED BY <2>1, <3>0, <4>1, <4>3
    <3> QED BY <3>2, <3>3
  <2> QED BY <1>2, <2>1, <2>5, <2>6 DEF ProducerInv, FeedByte
<1>3. CASE FeedFull
  BY <1>3 DEF ProducerInv, FeedFull, Used
<1>4. CASE FeedPublish
  BY <1>4 DEF ProducerInv, FeedPublish
<1>5. CASE Consume
  BY <1>5, ConsumeMoves, TailMoves
<1>6. CASE ScanLine
  BY <1>6, ScanLineMoves, TailMoves
<1>7. CASE ResetTail
  BY <1>7, ResetTailMoves, TailMoves
<1>8. CASE UNCHANGED <<buf, head, tail, prodVars>>
  BY <1>8 DEF ProducerInv, Used, prodVars
<1>9. \/ FeedStart \/ FeedByte \/ FeedFull \/ FeedPublish \/ Consume \/ ScanLine \/ ResetTail
      \/ UNCHANGED <<buf, head, tail, prodVars>>
  BY Zenon DEF Next, Producer, Consumer, vars, Notify, Peek, GetLineStart, ScanByte,
     ScanEnd, ResetStart, ResetOverflow, ResetPending, OverflowRead, OverflowClear,
     PendingRead, PendingClear
<1> QED BY <1>1, <1>2, <1>3, <1>4, <1>5, <1>6, <1>7, <1>8, <1>9

\* A producer step leaves every consumer call's view of the ring valid: the unread
\* bytes stay and head only moves on.
LEMMA ProducerKeepsConsumerInv ==
  ASSUME IInv, [Next]_vars, tail' = tail, Used' \in Int, Used <= Used',
         UNCHANGED <<cpc, snap, scan, prevCr, win>>
  PROVE  ConsumerInv'
<1> USE DEF IInv, TypeOK, RingTypes, ConsumerTypes
<1>0. Used \in 0 .. Size - 1 /\ tail \in Cells /\ scan \in Cells /\ snap \in Cells
  BY RingArithmetic DEF Used
<1>1. ASSUME cpc = "peeked" PROVE win \in 1 .. Used' /\ tail + win <= Size
  BY <1>0, <1>1 DEF ConsumerInv
<1>2. ASSUME cpc = "reset_tail" PROVE Dist(tail, snap) <= Used'
  <2>1. Dist(tail, snap) <= Used /\ Dist(tail, snap) \in Int
    BY <1>0, <1>2, RingArithmetic DEF ConsumerInv
  <2> QED BY <1>0, <2>1
<1>3. ASSUME cpc = "scan"
      PROVE  /\ Dist(tail, snap) <= Used'
             /\ Dist(tail, scan) <= Dist(tail, snap)
             /\ prevCr <=> (/\ Dist(tail, scan) > 0
                           /\ buf'[Ahead(tail, Dist(tail, scan) - 1)] = CR)
             /\ \A j \in 1 .. Dist(tail, scan) - 1 :
                  ~(/\ buf'[Ahead(tail, j - 1)] = CR /\ buf'[Ahead(tail, j)] = LF)
  <2>1. /\ Dist(tail, snap) <= Used /\ Dist(tail, scan) <= Dist(tail, snap)
        /\ Dist(tail, snap) \in 0 .. Size - 1 /\ Dist(tail, scan) \in 0 .. Size - 1
    BY <1>0, <1>3, RingArithmetic DEF ConsumerInv
  <2>2. \A k \in Int : 0 <= k /\ k < Dist(tail, scan) =>
           buf'[Ahead(tail, k)] = buf[Ahead(tail, k)]
    <3>1. \A k \in Int : 0 <= k /\ k < Dist(tail, scan) => k \in 0 .. Used - 1
      BY <1>0, <2>1, SizeAssumption
    <3> QED BY <3>1, UnreadUntouched
  <2>3. Dist(tail, snap) <= Used'
    BY <1>0, <2>1
  <2>4. Dist(tail, scan) > 0 =>
          buf'[Ahead(tail, Dist(tail, scan) - 1)] = buf[Ahead(tail, Dist(tail, scan) - 1)]
    <3>1. Dist(tail, scan) > 0 => /\ Dist(tail, scan) - 1 \in Int
                                  /\ 0 <= Dist(tail, scan) - 1
                                  /\ Dist(tail, scan) - 1 < Dist(tail, scan)
      BY <2>1, SizeAssumption
    <3> QED BY <3>1, <2>2
  <2>5. prevCr <=> (Dist(tail, scan) > 0 /\ buf[Ahead(tail, Dist(tail, scan) - 1)] = CR)
    BY <1>3 DEF ConsumerInv
  <2>6. prevCr <=> (Dist(tail, scan) > 0 /\ buf'[Ahead(tail, Dist(tail, scan) - 1)] = CR)
    BY <2>4, <2>5, Zenon
  <2>7. ASSUME NEW j \in 1 .. Dist(tail, scan) - 1
        PROVE  ~(/\ buf'[Ahead(tail, j - 1)] = CR /\ buf'[Ahead(tail, j)] = LF)
    <3>1. ~(/\ buf[Ahead(tail, j - 1)] = CR /\ buf[Ahead(tail, j)] = LF)
      BY <1>3 DEF ConsumerInv
    <3>2. /\ j - 1 \in Int /\ 0 <= j - 1 /\ j - 1 < Dist(tail, scan)
          /\ j \in Int /\ 0 <= j /\ j < Dist(tail, scan)
      BY <2>1, SizeAssumption
    <3> QED BY <2>2, <3>1, <3>2
  <2> QED BY <2>1, <2>3, <2>6, <2>7
<1>4. tail' = tail /\ cpc' = cpc /\ snap' = snap /\ scan' = scan /\ win' = win /\ prevCr' = prevCr
  OBVIOUS
<1>5. cpc' = "peeked" => win' \in 1 .. Used' /\ tail' + win' <= Size
  BY <1>1, <1>4
<1>6. cpc' = "reset_tail" => Dist(tail', snap') <= Used'
  BY <1>2, <1>4
<1>7. ASSUME cpc' = "scan"
      PROVE  /\ Dist(tail', snap') <= Used'
             /\ Dist(tail', scan') <= Dist(tail', snap')
             /\ prevCr' <=> (/\ Dist(tail', scan') > 0
                            /\ buf'[Ahead(tail', Dist(tail', scan') - 1)] = CR)
             /\ \A j \in 1 .. Dist(tail', scan') - 1 :
                  ~(/\ buf'[Ahead(tail', j - 1)] = CR /\ buf'[Ahead(tail', j)] = LF)
  <2>1. cpc = "scan"
    BY <1>4, <1>7
  <2>2. prevCr' <=> (/\ Dist(tail', scan') > 0
                    /\ buf'[Ahead(tail', Dist(tail', scan') - 1)] = CR)
    <3>1. prevCr <=> (/\ Dist(tail, scan) > 0
                     /\ buf'[Ahead(tail, Dist(tail, scan) - 1)] = CR)
      BY <1>3, <2>1
    <3> QED BY <1>4, <3>1, Zenon
  <2> QED BY <1>3, <1>4, <2>1, <2>2
<1> QED BY <1>5, <1>6, <1>7 DEF ConsumerInv

\* get_line (stream.c:103-145): one more byte scanned.
LEMMA ScanByteKeepsConsumerInv == IInv /\ ScanByte => ConsumerInv'
<1> SUFFICES ASSUME IInv, ScanByte PROVE ConsumerInv'
  OBVIOUS
<1> USE DEF IInv, TypeOK, RingTypes, ConsumerTypes
<1>1. /\ cpc = "scan" /\ cpc' = "scan" /\ tail' = tail /\ snap' = snap /\ buf' = buf
      /\ head' = head /\ scan' = StreamNext(scan) /\ scan # snap
      /\ tail \in Cells /\ scan \in Cells /\ snap \in Cells
  BY DEF ScanByte, At
<1>2. /\ Dist(tail, snap) <= Used /\ Dist(tail, scan) <= Dist(tail, snap)
      /\ Dist(tail, snap) \in 0 .. Size - 1 /\ Dist(tail, scan) \in 0 .. Size - 1
      /\ Used \in 0 .. Size - 1
  BY <1>1, RingArithmetic DEF ConsumerInv, Used
<1>3. Dist(tail, scan) < Dist(tail, snap)
  <2>1. Dist(tail, scan) # Dist(tail, snap)
    BY <1>1, RingArithmetic
  <2> QED BY <1>2, <2>1
<1>4. Dist(tail, scan') = Dist(tail, scan) + 1
  <2>1. StreamNext(scan) # tail
    BY <1>1, <1>2, <1>3, SizeAssumption DEF StreamNext, Dist, Cells
  <2> QED BY <1>1, <2>1, RingWalk
<1>5. Ahead(tail, Dist(tail, scan)) = scan
  BY <1>1, RingArithmetic
<1>6. prevCr' <=> /\ Dist(tail, scan') > 0
                  /\ buf[Ahead(tail, Dist(tail, scan') - 1)] = CR
  <2>1. Dist(tail, scan') > 0 /\ Dist(tail, scan') - 1 = Dist(tail, scan)
    BY <1>2, <1>4, SizeAssumption
  <2>2. prevCr' <=> buf[scan] = CR
    BY Zenon DEF ScanByte
  <2> QED BY <1>5, <2>1, <2>2, Zenon
<1>7. ASSUME NEW j \in 1 .. Dist(tail, scan') - 1
      PROVE  ~(/\ buf[Ahead(tail, j - 1)] = CR /\ buf[Ahead(tail, j)] = LF)
  <2>1. CASE j = Dist(tail, scan)
    <3>1. ~(prevCr /\ buf[scan] = LF)
      BY DEF ScanByte, Terminator
    <3>2. prevCr <=> /\ Dist(tail, scan) > 0
                     /\ buf[Ahead(tail, Dist(tail, scan) - 1)] = CR
      BY <1>1 DEF ConsumerInv
    <3>3. Dist(tail, scan) > 0
      BY <1>2, <1>4, <1>7, <2>1, SizeAssumption
    <3>4. ~(buf[Ahead(tail, Dist(tail, scan) - 1)] = CR /\ buf[Ahead(tail, Dist(tail, scan))] = LF)
      BY <1>5, <3>1, <3>2, <3>3, Zenon
    <3> QED BY <2>1, <3>4
  <2>2. CASE j # Dist(tail, scan)
    <3>1. j \in 1 .. Dist(tail, scan) - 1
      BY <1>2, <1>4, <1>7, <2>2, SizeAssumption
    <3> QED BY <1>1, <3>1 DEF ConsumerInv
  <2> QED BY <2>1, <2>2
<1>8. Dist(tail, snap) <= Used' /\ Dist(tail, scan') <= Dist(tail, snap)
  BY <1>1, <1>2, <1>3, <1>4, SizeAssumption DEF Used
<1>9. prevCr' <=> /\ Dist(tail', scan') > 0
                  /\ buf'[Ahead(tail', Dist(tail', scan') - 1)] = CR
  BY <1>1, <1>6, Zenon
<1>10. ~(cpc' = "peeked") /\ ~(cpc' = "reset_tail")
  BY <1>1
<1> QED BY <1>1, <1>7, <1>8, <1>9, <1>10 DEF ConsumerInv

\* Every step keeps what a consumer call remembers true of the ring.
LEMMA StepKeepsConsumerInv == IInv /\ [Next]_vars => ConsumerInv'
<1> SUFFICES ASSUME IInv, [Next]_vars PROVE ConsumerInv'
  OBVIOUS
<1> USE DEF IInv, TypeOK, RingTypes, ConsumerTypes
<1>0. Used \in 0 .. Size - 1 /\ Used \in Int /\ Used <= Used
  BY RingArithmetic, SizeAssumption DEF Used
<1>1. CASE FeedStart \/ FeedByte \/ FeedFull \/ Notify \/ UNCHANGED vars
  <2>1. tail' = tail /\ head' = head /\ UNCHANGED <<cpc, snap, scan, prevCr, win>>
    BY <1>1, Zenon DEF FeedStart, FeedByte, FeedFull, Notify, vars, prodVars, consVars
  <2>2. Used' = Used
    BY <2>1 DEF Used
  <2> QED BY <1>0, <2>1, <2>2, ProducerKeepsConsumerInv
<1>2. CASE FeedPublish
  <2>1. /\ tail' = tail /\ head' = wcur /\ ppc # "idle"
        /\ UNCHANGED <<cpc, snap, scan, prevCr, win>>
    BY <1>2 DEF FeedPublish, consVars
  <2>2. Used' = Dist(tail, wcur) /\ Dist(tail, wcur) = Used + written /\ written \in Nat
    BY <2>1 DEF Used, ProducerInv, ProducerTypes
  <2>3. Used' \in Int /\ Used <= Used'
    BY <1>0, <2>2, SizeAssumption
  <2> QED BY <2>1, <2>3, ProducerKeepsConsumerInv
<1>3. CASE Peek
  <2>1. win' \in 1 .. Used' /\ tail' + win' <= Size /\ cpc' = "peeked"
    BY <1>3, SizeAssumption DEF Peek, Used, Dist, Cells
  <2> QED BY <2>1 DEF ConsumerInv
<1>4. CASE GetLineStart
  <2>1. cpc' = "scan" /\ Dist(tail', scan') = 0 /\ Dist(tail', snap') = Used' /\ Used' = Used
    BY <1>4, RingWalk DEF GetLineStart, Used
  <2>2. ~prevCr'
    BY <1>4, Zenon DEF GetLineStart
  <2>3. \A j \in 1 .. Dist(tail', scan') - 1 : FALSE
    BY <2>1
  <2> QED BY <1>0, <2>1, <2>2, <2>3 DEF ConsumerInv
<1>5. CASE ScanByte
  BY <1>5, ScanByteKeepsConsumerInv DEF IInv
<1>6. CASE ResetStart
  <2>1. cpc' = "reset_tail" /\ Dist(tail', snap') = Used' /\ Used' = Used
    BY <1>6 DEF ResetStart, Used
  <2> QED BY <1>0, <2>1 DEF ConsumerInv
<1>7. CASE cpc' \notin {"peeked", "reset_tail", "scan"}
  BY <1>7 DEF ConsumerInv
<1>8. \/ FeedStart \/ FeedByte \/ FeedFull \/ Notify \/ UNCHANGED vars \/ FeedPublish
      \/ Peek \/ GetLineStart \/ ScanByte \/ ResetStart
      \/ cpc' \notin {"peeked", "reset_tail", "scan"}
  <2>1. ASSUME Return PROVE cpc' = "idle"
    BY <2>1 DEF Return
  <2>2. ASSUME \/ Consume \/ ScanLine \/ ScanEnd \/ ResetTail \/ ResetOverflow
               \/ ResetPending \/ OverflowRead \/ OverflowClear \/ PendingRead
               \/ PendingClear
        PROVE  cpc' \in {"idle", "reset_overflow", "reset_pending", "overflow_clear",
                         "pending_clear"}
    BY <2>1, <2>2 DEF Consume, ScanLine, ScanEnd, ResetTail, ResetOverflow, ResetPending,
       OverflowRead, OverflowClear, PendingRead, PendingClear
  <2> QED BY <2>2 DEF Next, Producer, Consumer
<1> QED BY <1>1, <1>2, <1>3, <1>4, <1>5, <1>6, <1>7, <1>8

-----------------------------------------------------------------------------
(* Refinement of the byte queue: the unread cells as a sequence *)

\* The bytes of n cells from cell t on, as a sequence.
LEMMA CellsSeq ==
  ASSUME NEW b \in [Cells -> Byte], NEW t \in Cells, NEW n \in 0 .. Size - 1
  PROVE  /\ [k \in 1 .. n |-> b[Ahead(t, k - 1)]] \in Seq(Byte)
         /\ Len([k \in 1 .. n |-> b[Ahead(t, k - 1)]]) = n
         /\ \A k \in 1 .. n : b[Ahead(t, k - 1)] \in Byte
<1>1. n \in Nat /\ \A k \in 1 .. n : k - 1 \in 0 .. Size - 1
  BY SizeAssumption
<1>2. \A k \in 1 .. n : b[Ahead(t, k - 1)] \in Byte
  BY <1>1, RingArithmetic
<1> DEFINE s == [k \in 1 .. n |-> b[Ahead(t, k - 1)]]
<1>3. s \in [1 .. n -> Byte]
  BY <1>2
<1>4. s \in Seq(Byte)
  BY <1>1, <1>3
<1>5. DOMAIN s = 1 .. n
  OBVIOUS
<1>6. Len(s) = n
  BY <1>1, <1>4, <1>5, LenProperties
<1> QED BY <1>2, <1>4, <1>6

\* Content as a sequence.
LEMMA ContentSeq ==
  ASSUME buf \in [Cells -> Byte], tail \in Cells, head \in Cells
  PROVE  /\ Content \in Seq(Byte) /\ Len(Content) = Used
         /\ Used \in 0 .. Size - 1
         /\ \A k \in 1 .. Used : Content[k] = buf[Ahead(tail, k - 1)]
<1>1. Used \in 0 .. Size - 1
  BY RingArithmetic DEF Used
<1> QED BY <1>1, CellsSeq DEF Content

LEMMA ContentSeqNext ==
  ASSUME buf' \in [Cells -> Byte], tail' \in Cells, head' \in Cells
  PROVE  /\ Content' \in Seq(Byte) /\ Len(Content') = Used'
         /\ Used' \in 0 .. Size - 1
         /\ \A k \in 1 .. Used' : Content'[k] = buf'[Ahead(tail', k - 1)]
<1>1. Used' \in 0 .. Size - 1
  BY RingArithmetic DEF Used
<1> QED BY <1>1, CellsSeq DEF Content

\* Releasing cells drops as many bytes from the front of the queue.
LEMMA TailDrops ==
  ASSUME IInv, tail' \in Cells, Dist(tail, tail') <= Used, UNCHANGED <<buf, head, prodVars>>
  PROVE  Content' = SubSeq(Content, Dist(tail, tail') + 1, Len(Content))
<1> USE DEF IInv, TypeOK, RingTypes
<1> DEFINE d == Dist(tail, tail')
           t == SubSeq(Content, d + 1, Len(Content))
<1>1. /\ Content \in Seq(Byte) /\ Len(Content) = Used /\ Used \in 0 .. Size - 1
      /\ \A k \in 1 .. Used : Content[k] = buf[Ahead(tail, k - 1)]
  BY ContentSeq
<1>2. /\ Content' \in Seq(Byte) /\ Len(Content') = Used'
      /\ \A k \in 1 .. Used' : Content'[k] = buf[Ahead(tail', k - 1)]
  BY ContentSeqNext
<1>3. d \in 0 .. Size - 1 /\ Used' = Used - d /\ d <= Used
  BY TailMoves, RingArithmetic
<1> HIDE DEF d
<1>4. t \in Seq(Byte) /\ Len(t) = Used - d /\ \A i \in 1 .. Used - d : t[i] = Content[d + i]
  <2>1. \A i \in d + 1 .. Used : Content[i] \in Byte
    BY <1>1, <1>3, ElementOfSeq, SizeAssumption
  <2>2. d + 1 \in Int /\ Used \in Int
    BY <1>1, <1>3
  <2>3. /\ t \in Seq(Byte)
        /\ Len(t) = IF d + 1 <= Used THEN Used - (d + 1) + 1 ELSE 0
        /\ \A i \in 1 .. Used - (d + 1) + 1 : t[i] = Content[(d + 1) + i - 1]
    BY <1>1, <2>1, <2>2, SubSeqProperties
  <2>4. Used - (d + 1) + 1 = Used - d /\ \A i \in Int : (d + 1) + i - 1 = d + i
    BY <1>1, <1>3
  <2>5. Used - d \in Nat /\ (~(d + 1 <= Used) => Used - d = 0)
    BY <1>1, <1>3, SizeAssumption
  <2> HIDE DEF t
  <2>6. Len(t) = Used - d
    BY <2>3, <2>4, <2>5
  <2>7. ASSUME NEW i \in 1 .. Used - d PROVE t[i] = Content[d + i]
    <3>1. i \in Int /\ i \in 1 .. Used - (d + 1) + 1
      BY <2>4, <2>5, <2>7
    <3> QED BY <2>3, <2>4, <3>1
  <2> QED BY <2>3, <2>6, <2>7
<1>5. ASSUME NEW i \in 1 .. Used - d PROVE Content'[i] = t[i]
  <2>1. i \in 1 .. Used' /\ d + i \in 1 .. Used /\ i - 1 \in 0 .. Size - 1
    BY <1>1, <1>3, <1>5, SizeAssumption
  <2>2. Content'[i] = buf[Ahead(tail', i - 1)] /\ t[i] = buf[Ahead(tail, (d + i) - 1)]
    BY <1>1, <1>2, <1>4, <2>1
  <2>3. Ahead(tail', i - 1) = Ahead(tail, (d + i) - 1)
    <3>1. (i - 1) + d < Size /\ (i - 1) + d = (d + i) - 1
      BY <1>1, <1>3, <2>1, SizeAssumption
    <3> QED BY <1>3, <2>1, <3>1, RingAdvance DEF d, Used
  <2> QED BY <2>2, <2>3
<1>6. Content' = t
  <2> HIDE DEF t
  <2>1. Len(Content') = Len(t) /\ \A i \in 1 .. Len(Content') : Content'[i] = t[i]
    BY <1>2, <1>3, <1>4, <1>5
  <2> QED BY <1>2, <1>4, <2>1, SeqEqual
<1> QED BY <1>6 DEF d

\* A byte stored ahead of head is not in the queue yet.
LEMMA StoreKeepsContent ==
  ASSUME IInv, IInv', [Next]_vars, UNCHANGED <<head, tail>>
  PROVE  Content' = Content
<1> USE DEF IInv, TypeOK, RingTypes
<1>1. /\ Content \in Seq(Byte) /\ Len(Content) = Used /\ Used \in 0 .. Size - 1
      /\ \A k \in 1 .. Used : Content[k] = buf[Ahead(tail, k - 1)]
  BY ContentSeq
<1>2. /\ Content' \in Seq(Byte) /\ Len(Content') = Used'
      /\ \A k \in 1 .. Used' : Content'[k] = buf'[Ahead(tail', k - 1)]
  BY ContentSeqNext
<1>3. Used' = Used /\ tail' = tail
  BY DEF Used
<1>4. ASSUME NEW k \in 1 .. Used PROVE Content'[k] = Content[k]
  <2>1. k - 1 \in 0 .. Used - 1
    BY <1>1, <1>4, SizeAssumption
  <2>2. buf'[Ahead(tail, k - 1)] = buf[Ahead(tail, k - 1)]
    BY <2>1, UnreadUntouched
  <2> QED BY <1>1, <1>2, <1>3, <1>4, <2>2
<1>5. Len(Content') = Len(Content) /\ \A k \in 1 .. Len(Content') : Content'[k] = Content[k]
  BY <1>1, <1>2, <1>3, <1>4
<1> QED BY <1>1, <1>2, <1>5, SeqEqual

\* Publication appends the stored prefix of the segment.
LEMMA PublishAccepts ==
  ASSUME IInv, IInv', FeedPublish
  PROVE  /\ written \in 0 .. Len(seg) /\ Len(Content) + written <= Size - 1
         /\ Content' = Content \o SubSeq(seg, 1, written)
<1> USE DEF IInv, TypeOK, RingTypes, ProducerTypes
<1> DEFINE t == SubSeq(seg, 1, written)
           c == Content \o t
<1>1. /\ Content \in Seq(Byte) /\ Len(Content) = Used /\ Used \in 0 .. Size - 1
      /\ \A k \in 1 .. Used : Content[k] = buf[Ahead(tail, k - 1)]
  BY ContentSeq
<1>2. /\ Content' \in Seq(Byte) /\ Len(Content') = Used'
      /\ \A k \in 1 .. Used' : Content'[k] = buf'[Ahead(tail', k - 1)]
  BY ContentSeqNext
<1>3. /\ tail' = tail /\ buf' = buf /\ head' = wcur /\ ppc # "idle"
      /\ Used' = Dist(tail, wcur) /\ Dist(tail, wcur) \in 0 .. Size - 1
  BY RingArithmetic DEF FeedPublish, Used
<1>4. /\ Used' = Used + written /\ seg # <<>> /\ written \in Nat /\ written <= Len(seg)
      /\ \A k \in 0 .. written - 1 : buf[Ahead(head, k)] = seg[k + 1]
  BY <1>3 DEF ProducerInv
<1>5. seg \in Seq(Byte) /\ Len(seg) \in Nat
  <2>1. seg \in Segments
    BY <1>4
  <2>2. seg \in Seq(Byte)
    BY <2>1, SegmentsAssumption
  <2> QED BY <2>2, LenProperties
<1>6. t \in Seq(Byte) /\ Len(t) = written /\ \A i \in 1 .. written : t[i] = seg[i]
  <2>1. \A i \in 1 .. written : seg[i] \in Byte
    <3>1. \A i \in 1 .. written : i \in 1 .. Len(seg)
      BY <1>4, <1>5
    <3> QED BY <1>5, <3>1, ElementOfSeq
  <2>2. 1 \in Int /\ written \in Int
    BY <1>4
  <2>3. /\ t \in Seq(Byte) /\ Len(t) = IF 1 <= written THEN written - 1 + 1 ELSE 0
        /\ \A i \in 1 .. written - 1 + 1 : t[i] = seg[1 + i - 1]
    BY <2>1, <2>2, SubSeqProperties
  <2> HIDE DEF t
  <2>4. Len(t) = written
    BY <1>4, <2>3
  <2>5. ASSUME NEW i \in 1 .. written PROVE t[i] = seg[i]
    <3>1. i \in 1 .. written - 1 + 1 /\ 1 + i - 1 = i
      BY <1>4, <2>5
    <3> QED BY <2>3, <3>1
  <2> QED BY <2>3, <2>4, <2>5
<1> HIDE DEF t
<1>7. /\ c \in Seq(Byte) /\ Len(c) = Used + written
      /\ \A i \in 1 .. Used + written : c[i] = IF i <= Used THEN Content[i] ELSE t[i - Used]
  <2>1. /\ c \in Seq(Byte) /\ Len(c) = Len(Content) + Len(t)
        /\ \A i \in 1 .. Len(Content) + Len(t) :
             c[i] = IF i <= Len(Content) THEN Content[i] ELSE t[i - Len(Content)]
    <3>1. Content \in Seq(Byte) /\ t \in Seq(Byte)
      BY <1>1, <1>6
    <3> QED BY <3>1, ConcatProperties, Zenon
  <2> HIDE DEF c
  <2> QED BY <1>1, <1>6, <2>1
<1> HIDE DEF c
<1>8. ASSUME NEW i \in 1 .. Used + written PROVE Content'[i] = c[i]
  <2>0. i \in Int /\ 1 <= i /\ i <= Used + written /\ i - 1 \in 0 .. Size - 1
    BY <1>1, <1>3, <1>4, <1>8, SizeAssumption
  <2>1. Content'[i] = buf[Ahead(tail, i - 1)]
    BY <1>2, <1>3, <1>4, <1>8
  <2>2. CASE i <= Used
    BY <1>1, <1>7, <1>8, <2>0, <2>1, <2>2
  <2>3. CASE ~(i <= Used)
    <3>1. c[i] = t[i - Used] /\ i - Used \in 1 .. written
      BY <1>1, <1>4, <1>7, <1>8, <2>0, <2>3, SizeAssumption
    <3>2. t[i - Used] = seg[i - Used]
      BY <1>6, <3>1
    <3>3. i - Used - 1 \in 0 .. written - 1 /\ (i - Used - 1) + 1 = i - Used
      BY <1>1, <1>4, <2>0, <2>3, SizeAssumption
    <3>4. buf[Ahead(head, i - Used - 1)] = seg[i - Used]
      BY <1>4, <3>3
    <3>5. Ahead(tail, i - 1) = Ahead(head, i - Used - 1)
      <4>1. /\ i - Used - 1 \in 0 .. Size - 1 /\ Used + (i - Used - 1) < Size
            /\ Used + (i - Used - 1) = i - 1
        BY <1>1, <1>3, <1>4, <2>0, <2>3, SizeAssumption
      <4> QED BY <4>1, RingWalk DEF Used
    <3> QED BY <2>1, <3>1, <3>2, <3>4, <3>5
  <2> QED BY <2>2, <2>3
<1>9. Content' = c
  <2>1. Len(Content') = Len(c) /\ \A i \in 1 .. Len(Content') : Content'[i] = c[i]
    BY <1>2, <1>4, <1>7, <1>8
  <2> QED BY <1>2, <1>7, <2>1, SeqEqual
<1>10. written \in 0 .. Len(seg) /\ Len(Content) + written <= Size - 1
  BY <1>1, <1>3, <1>4, <1>5, SizeAssumption
<1> QED BY <1>9, <1>10 DEF c, t

\* A scanned terminator is the first CR LF of the queue, and the copied text is what
\* comes before it.
LEMMA ScanFindsFirst ==
  ASSUME IInv, ScanLine
  PROVE  /\ BQ!FirstCrLf(Content, Dist(tail, scan))
         /\ Dist(tail, scan) \in 1 .. Len(Content)
         /\ out' = BQ!LineOf(Content, Dist(tail, scan))
<1> USE DEF IInv, TypeOK, RingTypes, ConsumerTypes
<1> DEFINE p == Dist(tail, scan)
<1>1. /\ Content \in Seq(Byte) /\ Len(Content) = Used /\ Used \in 0 .. Size - 1
      /\ \A k \in 1 .. Used : Content[k] = buf[Ahead(tail, k - 1)]
  BY ContentSeq
<1>2. cpc = "scan" /\ buf[scan] = LF /\ prevCr
  BY DEF ScanLine, At, Terminator
<1>3. p + 1 <= Used /\ p \in 0 .. Size - 1
  BY ScanLineMoves, RingArithmetic
<1>4. /\ p > 0 /\ buf[Ahead(tail, p - 1)] = CR
      /\ \A j \in 1 .. p - 1 : ~(buf[Ahead(tail, j - 1)] = CR /\ buf[Ahead(tail, j)] = LF)
  <2>1. prevCr <=> (Dist(tail, scan) > 0 /\ buf[Ahead(tail, Dist(tail, scan) - 1)] = CR)
    BY <1>2 DEF ConsumerInv
  <2>2. \A j \in 1 .. Dist(tail, scan) - 1 :
          ~(buf[Ahead(tail, j - 1)] = CR /\ buf[Ahead(tail, j)] = LF)
    BY <1>2 DEF ConsumerInv
  <2> QED BY <1>2, <2>1, <2>2, Zenon
<1>5. Ahead(tail, p) = scan
  BY RingArithmetic
<1>6. /\ \A j \in 1 .. p : Content[j] = buf[Ahead(tail, j - 1)]
      /\ Content[p + 1] = buf[scan]
  <2> HIDE DEF p
  <2>1. \A j \in 1 .. p : j \in 1 .. Used
    BY <1>1, <1>3, SizeAssumption
  <2>2. p + 1 \in 1 .. Used /\ (p + 1) - 1 = p
    BY <1>1, <1>3, SizeAssumption
  <2> QED BY <1>1, <1>5, <2>1, <2>2
<1>7. BQ!FirstCrLf(Content, p)
  <2> HIDE DEF p
  <2>1. p \in 1 .. Len(Content) - 1 /\ p \in 1 .. p
    BY <1>1, <1>3, <1>4, SizeAssumption
  <2>2. Content[p] = CR /\ Content[p + 1] = LF
    BY <1>2, <1>4, <1>6, <2>1
  <2>3. ASSUME NEW j \in 1 .. p - 1 PROVE ~(Content[j] = CR /\ Content[j + 1] = LF)
    <3>1. j \in 1 .. p /\ j + 1 \in 1 .. p /\ (j + 1) - 1 = j
      BY <1>3, <2>3, SizeAssumption
    <3>2. Content[j] = buf[Ahead(tail, j - 1)] /\ Content[j + 1] = buf[Ahead(tail, j)]
      BY <1>6, <3>1
    <3> QED BY <1>4, <2>3, <3>2
  <2> QED BY <2>1, <2>2, <2>3 DEF BQ!FirstCrLf
<1>8. out' = BQ!LineOf(Content, p)
  <2> DEFINE text == [k \in 1 .. p - 1 |-> buf[Ahead(tail, k - 1)]]
             u    == SubSeq(Content, 1, p - 1)
  <2>1. text = u
    <3> HIDE DEF p
    <3>1. p - 1 \in 0 .. Size - 1 /\ p - 1 \in Nat
      BY <1>3, <1>4, SizeAssumption
    <3>2. text \in Seq(Byte) /\ Len(text) = p - 1
      BY <3>1, CellsSeq
    <3>3. \A i \in 1 .. p - 1 : Content[i] \in Byte
      <4>1. \A i \in 1 .. p - 1 : i \in 1 .. Len(Content)
        BY <1>1, <1>3, SizeAssumption
      <4> QED BY <1>1, <4>1, ElementOfSeq
    <3>4. /\ u \in Seq(Byte) /\ Len(u) = IF 1 <= p - 1 THEN (p - 1) - 1 + 1 ELSE 0
          /\ \A i \in 1 .. (p - 1) - 1 + 1 : u[i] = Content[1 + i - 1]
      <4>1. 1 \in Int /\ p - 1 \in Int
        BY <3>1
      <4> QED BY <3>3, <4>1, SubSeqProperties
    <3> HIDE DEF u
    <3>5. Len(u) = p - 1
      BY <3>1, <3>4
    <3>6. ASSUME NEW i \in 1 .. p - 1 PROVE text[i] = u[i]
      <4>1. i \in 1 .. (p - 1) - 1 + 1 /\ 1 + i - 1 = i /\ i \in 1 .. p
        BY <1>3, <3>6, SizeAssumption
      <4> QED BY <1>6, <3>4, <4>1
    <3> HIDE DEF text
    <3> QED BY <3>2, <3>4, <3>5, <3>6, SeqEqual
  <2>2. out' = IF (p - 1) + 1 > OutSize THEN [kind |-> "long"] ELSE [kind |-> "line", text |-> text]
    BY DEF ScanLine, ScannedLine
  <2>3. (p - 1) + 1 > OutSize <=> p > OutSize
    BY <1>3, OutSizeAssumption, SizeAssumption
  <2> QED BY <2>1, <2>2, <2>3 DEF BQ!LineOf, BQ!LineLong, BQ!Line
<1> QED
  <2>1. p \in 1 .. Len(Content)
    <3> HIDE DEF p
    <3> QED BY <1>1, <1>3, <1>4, SizeAssumption
  <2> QED BY <1>7, <1>8, <2>1

\* Every step of the ring is a step of the queue or leaves the queue as it is.
LEMMA StepRefines == IInv /\ IInv' /\ [Next]_vars => [BQ!Next]_(BQ!vars)
<1> SUFFICES ASSUME IInv, IInv', [Next]_vars PROVE [BQ!Next]_(BQ!vars)
  OBVIOUS
<1>1. CASE FeedStart
  <2>1. Content' = Content
    BY <1>1, StoreKeepsContent DEF FeedStart
  <2>2. seg = <<>> /\ seg' \in Segments /\ out' = out
    BY <1>1 DEF FeedStart, IInv, ProducerInv, consVars
  <2> QED BY <2>1, <2>2 DEF BQ!Next, BQ!Offer
<1>2. CASE FeedPublish
  <2>1. /\ written \in 0 .. Len(seg) /\ Len(Content) + written <= Size - 1
        /\ Content' = Content \o SubSeq(seg, 1, written)
    BY <1>2, PublishAccepts
  <2>2. seg # <<>> /\ seg' = <<>> /\ out' = out
    BY <1>2 DEF FeedPublish, IInv, ProducerInv, consVars
  <2> QED BY <2>1, <2>2 DEF BQ!Next, BQ!Accept
<1>3. CASE Consume
  <2>1. /\ Content' = SubSeq(Content, Dist(tail, tail') + 1, Len(Content))
        /\ Dist(tail, tail') \in 1 .. win /\ Dist(tail, tail') <= Used
    BY <1>3, ConsumeMoves, TailDrops
  <2>2. Len(Content) = Used /\ Used \in 0 .. Size - 1 /\ win \in Nat
    BY ContentSeq DEF IInv, TypeOK, RingTypes, ConsumerTypes
  <2>3. Dist(tail, tail') \in 1 .. Len(Content)
    BY <2>1, <2>2, SizeAssumption
  <2>4. seg' = seg /\ out' = out
    BY <1>3 DEF Consume, prodVars
  <2> QED BY <2>1, <2>3, <2>4 DEF BQ!Next, BQ!Take, BQ!Drop
<1>4. CASE ResetTail
  <2>1. /\ Content' = SubSeq(Content, Dist(tail, tail') + 1, Len(Content))
        /\ tail' \in Cells /\ Dist(tail, tail') <= Used
    BY <1>4, ResetTailMoves, TailDrops
  <2>2. /\ Content \in Seq(Byte) /\ Len(Content) = Used /\ Used \in 0 .. Size - 1
        /\ Dist(tail, tail') \in 0 .. Size - 1
    BY <2>1, ContentSeq, RingArithmetic DEF IInv, TypeOK, RingTypes
  <2>3. seg' = seg /\ out' = out
    BY <1>4 DEF ResetTail, prodVars
  <2>4. CASE Dist(tail, tail') = 0
    <3>1. Content' = Content
      BY <2>1, <2>2, <2>4, SubSeqFull
    <3> QED BY <2>3, <3>1 DEF BQ!vars
  <2>5. CASE Dist(tail, tail') # 0
    <3>1. Dist(tail, tail') \in 1 .. Len(Content)
      BY <2>1, <2>2, <2>5, SizeAssumption
    <3> QED BY <2>1, <2>3, <3>1 DEF BQ!Next, BQ!Take, BQ!Drop
  <2> QED BY <2>4, <2>5
<1>5. CASE ScanLine
  <2>1. /\ BQ!FirstCrLf(Content, Dist(tail, scan))
        /\ Dist(tail, scan) \in 1 .. Len(Content)
        /\ out' = BQ!LineOf(Content, Dist(tail, scan))
    BY <1>5, ScanFindsFirst
  <2>2. Content' = BQ!Drop(Content, Dist(tail, scan) + 1)
    BY <1>5, ScanLineMoves, TailDrops DEF BQ!Drop
  <2>3. seg' = seg
    BY <1>5 DEF ScanLine, prodVars
  <2> QED BY <2>1, <2>2, <2>3 DEF BQ!Next, BQ!TakeLine
<1>6. CASE ScanEnd
  <2>1. Content' = Content
    BY <1>6, StoreKeepsContent DEF ScanEnd
  <2>2. out' = BQ!NoLine /\ seg' = seg
    BY <1>6 DEF ScanEnd, prodVars, BQ!NoLine
  <2> QED BY <2>1, <2>2 DEF BQ!Next, BQ!MissLine
<1>7. CASE UNCHANGED <<head, tail, seg, out>>
  BY <1>7, StoreKeepsContent DEF BQ!vars
<1>8. \/ FeedStart \/ FeedPublish \/ Consume \/ ResetTail \/ ScanLine \/ ScanEnd
      \/ UNCHANGED <<head, tail, seg, out>>
  BY Zenon DEF Next, Producer, Consumer, vars, prodVars, consVars, FeedByte, FeedFull,
     Notify, Peek, GetLineStart, ScanByte, ResetStart, ResetOverflow, ResetPending,
     OverflowRead, OverflowClear, PendingRead, PendingClear
<1> QED BY <1>1, <1>2, <1>3, <1>4, <1>5, <1>6, <1>7, <1>8

-----------------------------------------------------------------------------
(* Theorems *)

\* For every ring size, byte set and segment set, and with feed preempting the consumer
\* between any two accesses, the inductive invariant holds: indices stay in range, the
\* producer's cursor is exactly its stored bytes ahead of head, and what a consumer call
\* remembers stays true (lw_at_stream.c:63-180).
THEOREM StreamSafe == Spec => []IInv
<1>1. IInv /\ [Next]_vars => IInv'
  BY StepKeepsTypeOK, StepKeepsProducerInv, StepKeepsConsumerInv DEF IInv
<1> QED BY InitEstablishesIInv, <1>1, PTL DEF Spec

\* Bytes a peek has shown or a scan is reading never change under the consumer, for
\* every size: feed stops one cell short of tail (stream.c:83-88).
THEOREM StreamUnreadStable == Spec => UnreadStable
<1>1. IInv /\ [Next]_vars =>
        [\A k \in 0 .. Used - 1 : buf'[Ahead(tail, k)] = buf[Ahead(tail, k)]]_vars
  BY UnreadUntouched
<1> QED BY StreamSafe, <1>1, PTL DEF Spec, UnreadStable

\* For every ring size and every interleaving of feed with the consumer, the ring is a
\* FIFO of bytes: a segment enters as one prefix, bytes leave in order, get_line takes
\* exactly the first CR LF line (lw_at_stream.c:73-180).
THEOREM StreamImplementsByteQueue == Spec => ImplementsByteQueue
<1>1. Init => BQ!Init
  <2> SUFFICES ASSUME Init PROVE BQ!Init
    OBVIOUS
  <2>1. IInv
    BY InitEstablishesIInv
  <2>2. Content \in Seq(Byte) /\ Len(Content) = 0
    <3>1. Used = 0
      BY SizeAssumption DEF Init, Used, Dist
    <3> QED BY <2>1, <3>1, ContentSeq DEF IInv, TypeOK, RingTypes
  <2>3. Content = <<>>
    BY <2>2, EmptySeq
  <2> QED BY <2>3 DEF Init, BQ!Init, BQ!NoLine
<1> QED BY <1>1, StreamSafe, StepRefines, PTL DEF Spec, ImplementsByteQueue, BQ!Spec
=============================================================================
