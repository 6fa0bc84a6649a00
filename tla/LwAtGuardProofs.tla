-------------------------- MODULE LwAtGuardProofs --------------------------
(***************************************************************************)
(* LwAtGuard implements LwAtCore, for every ring, segment set and handler, *)
(* as long as the two interrupts do not interrupt each other: FeedArm and  *)
(* the last access of at_timer_expired are LwAtCore's Feed and Timer,      *)
(* everything before them changes nothing LwAtCore sees, and SoFar says    *)
(* what has been done up to each access.                                   *)
(***************************************************************************)
EXTENDS LwAtGuard, LwAtCoreProofs

-----------------------------------------------------------------------------
(* Nothing in progress: LwAtCore sees what there is                        *)

\* No interrupt is in progress: LwAtCore sees what there is.
SeenNow == Seen.stream = stream /\ Seen.at = at /\ Seen.timer = timer /\ Seen.hist = hist

\* The main loop and the application do here what they do in LwAtCore.
LEMMA MainSeen ==
  ASSUME SeenNow, SeenNow', MainLoop \/ App
  PROVE  Core!MainLoop \/ Core!App
<1> USE DEF From, Core!From, Goto, Core!Goto, Return, Core!Return, Idle, Core!Idle,
            ClearOverflow, Core!ClearOverflow, Fixed, Core!Fixed, Stream, Core!Stream,
            Guarded, Core!Guarded, Deliver, Core!Deliver, Release, Core!Release,
            Contiguous, Core!Contiguous, Min2, Core!Min2, Consumed, Core!Consumed,
            HeadIdx, Core!HeadIdx, Say, Core!Say, SeenNow
<1>1. CASE Process \/ SessionEnter
  BY <1>1 DEF Process, SessionEnter, Core!Process, Core!SessionEnter, Core!MainLoop
<1>2. CASE FixedDeliver \/ FixedRelease \/ FixedWait \/ FixedFull
  BY <1>2 DEF FixedDeliver, FixedRelease, FixedWait, FixedFull,
     Core!FixedDeliver, Core!FixedRelease, Core!FixedWait, Core!FixedFull, Core!MainLoop
<1>3. CASE StreamDeliver \/ StreamRelease \/ StreamWait
  BY <1>3 DEF StreamDeliver, StreamRelease, StreamWait,
     Core!StreamDeliver, Core!StreamRelease, Core!StreamWait, Core!MainLoop
<1>4. CASE Leave \/ DrainDeliver \/ DrainRelease \/ DrainDone
  BY <1>4 DEF Leave, DrainDeliver, DrainRelease, DrainDone, BytesToMark,
     Core!Leave, Core!DrainDeliver, Core!DrainRelease, Core!DrainDone, Core!BytesToMark,
     Core!MainLoop
<1>5. CASE \/ ClearPlus \/ ClearExit \/ ClearSessionOverflow \/ KeepPending \/ ToCommand
           \/ SessionResult
  BY <1>5 DEF ClearPlus, ClearExit, ClearSessionOverflow, KeepPending, ToCommand, SessionResult,
     Core!ClearPlus, Core!ClearExit, Core!ClearSessionOverflow, Core!KeepPending,
     Core!ToCommand, Core!SessionResult, Core!MainLoop
<1>6. CASE PendingRead \/ PendingClear \/ OverflowRead \/ OverflowClear
  BY <1>6 DEF PendingRead, PendingClear, OverflowRead, OverflowClear, Core!PendingRead,
     Core!PendingClear, Core!OverflowRead, Core!OverflowClear, Core!MainLoop
<1>7. CASE VoidTail \/ VoidOverflow \/ VoidPending \/ VoidResult
  BY <1>7 DEF VoidTail, VoidOverflow, VoidPending, VoidResult,
     Core!VoidTail, Core!VoidOverflow, Core!VoidPending, Core!VoidResult, Core!MainLoop
<1>8. CASE Line
  <2>1. PICK p \in 1 .. Len(stream.q) :
          /\ FirstEol(stream.q, p)
          /\ LineRefused(p) \/ LineEmpty(p) \/ LineRun(p) \/ LineSync(p)
    BY <1>8 DEF Line
  <2>2. Core!LineRefused(p) \/ Core!LineEmpty(p) \/ Core!LineRun(p) \/ Core!LineSync(p)
    BY <2>1 DEF LineRefused, LineEmpty, LineRun, LineSync, TakeLine, Outcome, Entered,
       Core!LineRefused, Core!LineEmpty, Core!LineRun, Core!LineSync, Core!TakeLine,
       Core!Outcome, Core!Entered
  <2>3. p \in 1 .. Len(Seen.stream.q) /\ Core!FirstEol(Seen.stream.q, p) /\ main.pc = "lines"
    BY <1>8, <2>1 DEF Line, FirstEol, Core!FirstEol
  <2> QED BY <2>2, <2>3 DEF Core!Line, Core!MainLoop
<1>9. CASE NoLine \/ Residue
  BY <1>9 DEF NoLine, Residue, HasLine, FirstEol, Core!NoLine, Core!Residue, Core!HasLine,
     Core!FirstEol, Core!MainLoop
<1>10. CASE \/ ConfirmTail \/ ConfirmOverflow \/ ConfirmPending \/ ConfirmState
            \/ ConfirmMode \/ ConfirmArm \/ HandlerResult \/ Prompt
  BY <1>10 DEF ConfirmTail, ConfirmOverflow, ConfirmPending, ConfirmState, ConfirmMode, ConfirmArm,
     HandlerResult, Prompt, Core!ConfirmTail, Core!ConfirmOverflow, Core!ConfirmPending,
     Core!ConfirmState, Core!ConfirmMode, Core!ConfirmArm, Core!HandlerResult, Core!Prompt,
     Core!MainLoop
<1>11. CASE AppExitRequest
  BY <1>11 DEF AppExitRequest, Core!AppExitRequest, Core!MainLoop
<1>12. CASE App
  BY <1>12 DEF App, AppConfirm, AppCancel, AppGuardSet, AppExitMark,
     Core!App, Core!AppConfirm, Core!AppCancel, Core!AppGuardSet, Core!AppExitMark
<1> HIDE DEF From, Goto, Return, ClearOverflow, Deliver, Release, SeenNow
<1> QED BY <1>1, <1>2, <1>3, <1>4, <1>5, <1>6, <1>7, <1>8, <1>9, <1>10, <1>11, <1>12 DEF MainLoop

\* What a stored byte is depends on the mode, the exit request and the session only, which
\* an interrupt in progress leaves alone until its last writes.
LEMMA PutSeen ==
  ASSUME at.mode = Seen.at.mode, at.exit_req = Seen.at.exit_req, at.sess = Seen.at.sess,
         at.data_got = Seen.at.data_got
  PROVE  \A s, seg : Core!Put(s, seg) = Put(s, seg)
<1>1. \A k : Core!Class(k) = Class(k)
  BY DEF Class, Core!Class, Fixed, Core!Fixed
<1>2. TAKE s, seg
<1>3. \A cells : Core!Stored(s, cells) = Stored(s, cells)
  BY DEF Stored, Core!Stored, Min2, Core!Min2
<1> DEFINE c == [k \in 1 .. Len(seg) |-> [b |-> seg[k], cls |-> Class(Len(s.q) + k)]]
           d == [k \in 1 .. Len(seg) |-> [b |-> seg[k], cls |-> Core!Class(Len(s.q) + k)]]
<1>4. c = d
  BY <1>1
<1>5. Put(s, seg) = Stored(s, c) /\ Core!Put(s, seg) = Core!Stored(s, d)
  BY DEF Put, Core!Put
<1> HIDE DEF c, d
<1> QED BY <1>3, <1>4, <1>5

LEMMA PutStays ==
  ASSUME Seen' = Seen PROVE \A s, seg : Core!Put(s, seg)' = Core!Put(s, seg)
BY DEF Core!Put, Core!Class, Core!Fixed, Core!Stored, Core!Min2

\* The history of a feed likewise.
LEMMA HistorySeen ==
  ASSUME SeenNow, NEW seg PROVE Core!FeedHistory(seg) = FeedHistory(seg)
BY DEF FeedHistory, Core!FeedHistory, SeenNow

LEMMA HistoryStays ==
  ASSUME Seen' = Seen PROVE \A seg : Core!FeedHistory(seg)' = Core!FeedHistory(seg)
BY DEF Core!FeedHistory

\* Interrupts that are not cut open are LwAtCore's.
LEMMA PlainSeen ==
  ASSUME SeenNow, SeenNow', PlainFeed \/ PlainTimer
  PROVE  Core!Feed \/ Core!Timer
<1>1. CASE PlainFeed
  <2>1. PICK seg \in Segments : FeedPlain(seg)
    BY <1>1 DEF PlainFeed
  <2>2. \A s, g : Core!Put(s, g) = Put(s, g)
    BY PutSeen DEF SeenNow
  <2>3. Core!FeedHistory(seg) = FeedHistory(seg)
    BY HistorySeen
  <2>4. Core!FeedPlain(seg)
    BY <2>1, <2>2, <2>3 DEF FeedPlain, Core!FeedPlain, Transmitting, Core!Transmitting, Received,
       Core!Received, UsePlus, Core!UsePlus, Stream, Core!Stream, Rearmed, Core!Rearmed,
       SilentAfterFeed, Core!SilentAfterFeed, Guarded, Core!Guarded, SeenNow
  <2>5. Core!MayRun("feed") /\ Seen.hist.feeds < MaxFeeds
    BY <1>1 DEF PlainFeed, MayRun, Core!MayRun, SeenNow
  <2> QED BY <2>4, <2>5 DEF Core!Feed
<1>2. CASE PlainTimer
  BY <1>2 DEF PlainTimer, TimerCommand, TimerFixed, Expire, MayRun, UsePlus, Stream, SeenNow,
     Core!Timer, Core!TimerCommand, Core!TimerFixed, Core!Expire, Core!MayRun, Core!UsePlus,
     Core!Stream
<1> QED BY <1>1, <1>2

-----------------------------------------------------------------------------
(* The ring gets the '+' one by one                                        *)

\* The ring with up to n '+' behind what is in it, m of them stored.
PlusCell(k)      == [b |-> Plus, cls |-> Class(k)]
WithPluses(q, m) == [k \in 1 .. Len(q) + m |-> IF k <= Len(q) THEN q[k] ELSE PlusCell(k)]

\* n '+' put into the ring, in closed form: as many as fit, and overflow.
LEMMA PlusesPut ==
  ASSUME NEW s \in StreamT, Len(s.q) < Size, NEW n \in Nat,
         NEW m, m = Min2(n, Size - 1 - Len(s.q)), NEW r, r = Put(s, Pluses(n))
  PROVE  /\ r \in StreamT /\ Len(r.q) < Size
         /\ r.q = WithPluses(s.q, m) /\ r.tail = s.tail /\ r.pending = s.pending
         /\ m < n => r.overflow = 1
         /\ ~(m < n) => r.overflow = s.overflow
<1> DEFINE c == [k \in 1 .. n |-> PlusCell(Len(s.q) + k)]
           u == SubSeq(c, 1, m)
           w == s.q \o u
<1>1. s.q \in Seq(Cell) /\ Len(s.q) \in Nat
  BY StreamFields
<1>2. m \in Nat /\ m <= n
  <2>1. Size - 1 - Len(s.q) \in Nat
    BY <1>1, SizeAssumption
  <2> QED BY <2>1, Min2Type
<1>3. Pluses(n) \in Seq(Token) /\ Len(Pluses(n)) = n
  <2>1. DOMAIN Pluses(n) = 1 .. n
    BY DEF Pluses
  <2> QED BY <2>1, PlusesType, LenProperties
<1>4. c = [k \in 1 .. Len(Pluses(n)) |-> [b |-> Pluses(n)[k], cls |-> Class(Len(s.q) + k)]]
  <2>1. \A k \in 1 .. n : Pluses(n)[k] = Plus
    BY DEF Pluses
  <2> QED BY <1>3, <2>1 DEF PlusCell
<1>5. c \in Seq(Cell) /\ Len(c) = n
  <2>1. \A k : PlusCell(k) \in Cell
    BY TokenAssumption DEF PlusCell, Cell, Class
  <2>2. c \in [1 .. n -> Cell]
    BY <2>1
  <2>3. DOMAIN c = 1 .. n
    OBVIOUS
  <2> HIDE DEF c
  <2>4. c \in Seq(Cell)
    BY <2>2, SeqDef
  <2> QED BY <2>3, <2>4, LenProperties
<1>6. \A k \in 1 .. n : c[k] = PlusCell(Len(s.q) + k)
  OBVIOUS
<1>7. Put(s, Pluses(n)) = [s EXCEPT !.q = w, !.overflow = IF m < n THEN 1 ELSE @]
  <2>1. Put(s, Pluses(n)) = Stored(s, c)
    BY <1>4 DEF Put
  <2> HIDE DEF c
  <2> QED BY <1>5, <2>1 DEF Stored
<1> HIDE DEF c
<1>8. u \in Seq(Cell) /\ Len(u) = m /\ \A k \in 1 .. m : u[k] = c[k]
  <2>1. \A k \in 1 .. m : c[k] \in Cell
    BY <1>2, <1>5, ElementOfSeq
  <2> QED BY <1>2, <2>1, SubSeqProperties
<1> HIDE DEF u
<1>9. /\ w \in Seq(Cell) /\ Len(w) = Len(s.q) + m
      /\ \A k \in 1 .. Len(s.q) + m : w[k] = IF k <= Len(s.q) THEN s.q[k] ELSE u[k - Len(s.q)]
  <2>1. w \in Seq(Cell)
    BY <1>1, <1>8, ConcatProperties
  <2> QED BY <1>1, <1>8, <2>1, ConcatCells
<1>10. \A k \in 1 .. Len(s.q) + m : k > Len(s.q) => u[k - Len(s.q)] = PlusCell(k)
  <2> TAKE k \in 1 .. Len(s.q) + m
  <2> HAVE k > Len(s.q)
  <2> DEFINE j == k - Len(s.q)
  <2>1. j \in 1 .. m /\ j \in 1 .. n /\ Len(s.q) + j = k
    BY <1>1, <1>2
  <2> HIDE DEF j
  <2>2. u[j] = PlusCell(Len(s.q) + j)
    BY <1>6, <1>8, <2>1
  <2> QED BY <2>1, <2>2 DEF j
<1> HIDE DEF w
<1>11. w = WithPluses(s.q, m)
  <2>1. w = [k \in 1 .. Len(w) |-> w[k]]
    BY <1>9, LenProperties
  <2>2. \A k \in 1 .. Len(s.q) + m : w[k] = IF k <= Len(s.q) THEN s.q[k] ELSE PlusCell(k)
    <3> TAKE k \in 1 .. Len(s.q) + m
    <3>1. CASE k <= Len(s.q)
      BY <1>9, <3>1
    <3>2. CASE ~(k <= Len(s.q))
      BY <1>1, <1>9, <1>10, <3>2
    <3> QED BY <3>1, <3>2
  <2> QED BY <1>9, <2>1, <2>2 DEF WithPluses
<1>12. r \in StreamT /\ Len(r.q) < Size
  BY <1>3, PutType
<1>13. r = [s EXCEPT !.q = w, !.overflow = IF m < n THEN 1 ELSE @]
  BY <1>7
<1> HIDE DEF w
<1> QED BY <1>11, <1>12, <1>13 DEF StreamT

LEMMA SameStream ==
  ASSUME NEW r \in StreamT, NEW s \in StreamT, r.q = s.q, r.tail = s.tail,
         r.overflow = s.overflow, r.pending = s.pending
  PROVE  r = s
BY DEF StreamT

LEMMA NoPluses ==
  ASSUME NEW s \in StreamT, Len(s.q) < Size PROVE Put(s, Pluses(0)) = s
<1> DEFINE r == Put(s, Pluses(0))
<1>1. s.q \in Seq(Cell) /\ Len(s.q) \in Nat
  BY StreamFields
<1>2. Min2(0, Size - 1 - Len(s.q)) = 0
  BY <1>1, SizeAssumption DEF Min2
<1>3. /\ r \in StreamT /\ r.q = WithPluses(s.q, 0) /\ r.tail = s.tail
      /\ r.pending = s.pending /\ r.overflow = s.overflow
  BY <1>2, PlusesPut
<1>4. WithPluses(s.q, 0) = s.q
  <2>1. s.q = [k \in 1 .. Len(s.q) |-> s.q[k]]
    BY <1>1, LenProperties
  <2>2. WithPluses(s.q, 0) = [k \in 1 .. Len(s.q) |-> s.q[k]]
    BY <1>1 DEF WithPluses
  <2> QED BY <2>1, <2>2
<1> HIDE DEF r
<1>5. r = s
  BY <1>3, <1>4, SameStream
<1> QED BY <1>5 DEF r

\* One '+' behind n is n + 1 of them.
LEMMA OneMorePlus ==
  ASSUME NEW s \in StreamT, Len(s.q) < Size, NEW n \in Nat
  PROVE  Put(Put(s, Pluses(n)), Pluses(1)) = Put(s, Pluses(n + 1))
<1> DEFINE room == Size - 1 - Len(s.q)
           m    == Min2(n, room)
           r    == Put(s, Pluses(n))
           one  == 1
           j    == Min2(one, Size - 1 - Len(r.q))
           t    == Put(r, Pluses(one))
           h    == n + 1
           l    == Min2(h, room)
           v    == Put(s, Pluses(h))
<1>1. s.q \in Seq(Cell) /\ Len(s.q) \in Nat /\ room \in Nat
  BY StreamFields, SizeAssumption
<1>n. one \in Nat
  OBVIOUS
<1>o. one = 1
  OBVIOUS
<1> HIDE DEF one
<1>2. /\ r \in StreamT /\ Len(r.q) < Size
      /\ r.q = WithPluses(s.q, m) /\ r.tail = s.tail /\ r.pending = s.pending
      /\ m < n => r.overflow = 1
      /\ ~(m < n) => r.overflow = s.overflow
  BY PlusesPut
<1> HIDE DEF r
<1>3. /\ t \in StreamT
      /\ t.q = WithPluses(r.q, j) /\ t.tail = r.tail /\ t.pending = r.pending
      /\ j < one => t.overflow = 1
      /\ ~(j < one) => t.overflow = r.overflow
  <2>1. r \in StreamT /\ Len(r.q) < Size
    BY <1>2
  <2> QED BY <1>n, <2>1, PlusesPut
<1>4. h \in Nat /\ h = n + 1
  OBVIOUS
<1> HIDE DEF h
<1>5. /\ v \in StreamT
      /\ v.q = WithPluses(s.q, l) /\ v.tail = s.tail /\ v.pending = s.pending
      /\ l < h => v.overflow = 1
      /\ ~(l < h) => v.overflow = s.overflow
  BY <1>4, PlusesPut
<1> HIDE DEF t, v
<1>6. Len(r.q) \in Nat /\ r.q \in Seq(Cell)
  BY <1>2, StreamFields
<1>7. m \in Nat /\ m <= room /\ m <= n
  BY <1>1, Min2Type
<1>8. Len(r.q) = Len(s.q) + m
  <2>1. DOMAIN r.q = 1 .. Len(s.q) + m
    BY <1>2 DEF WithPluses
  <2>2. DOMAIN r.q = 1 .. Len(r.q)
    BY <1>6, LenProperties
  <2> HIDE DEF m
  <2> QED BY <1>1, <1>6, <1>7, <2>1, <2>2
<1>9. Size - 1 - Len(r.q) = room - m
  <2> HIDE DEF m
  <2> QED BY <1>1, <1>6, <1>7, <1>8, SizeAssumption
<1>10. /\ m + j = l /\ j \in Nat
       /\ (l < h) <=> (j < one)
       /\ m < n => j < one
  <2>1. j = IF 1 <= room - m THEN 1 ELSE room - m
    BY <1>9, <1>o DEF Min2
  <2>2. m = (IF n <= room THEN n ELSE room) /\ l = IF h <= room THEN h ELSE room
    BY DEF Min2
  <2> HIDE DEF m, j, l, room
  <2> QED BY <1>1, <1>4, <1>7, <1>o, <2>1, <2>2
<1> HIDE DEF m, j, l, room
<1>11. WithPluses(r.q, j) = WithPluses(s.q, l)
  <2>1. \A k \in 1 .. Len(s.q) + m : r.q[k] = IF k <= Len(s.q) THEN s.q[k] ELSE PlusCell(k)
    BY <1>2 DEF WithPluses
  <2>2. Len(r.q) + j = Len(s.q) + l
    BY <1>1, <1>7, <1>8, <1>10
  <2>3. \A k \in 1 .. Len(s.q) + l :
          (IF k <= Len(r.q) THEN r.q[k] ELSE PlusCell(k))
          = IF k <= Len(s.q) THEN s.q[k] ELSE PlusCell(k)
    BY <1>1, <1>7, <1>8, <1>10, <2>1
  <2> QED BY <2>2, <2>3 DEF WithPluses
<1>12. t.overflow = v.overflow
  BY <1>2, <1>3, <1>5, <1>10
<1>13. t = v
  BY <1>2, <1>3, <1>5, <1>11, <1>12, SameStream
<1> QED BY <1>13 DEF t, v, r, h, one

-----------------------------------------------------------------------------
(* What was there when the interrupt began                                 *)

\* What was there when the interrupt in progress began.
LEMMA SeenTypes ==
  ASSUME Core!TypeOK
  PROVE  /\ Seen.stream \in StreamT /\ Len(Seen.stream.q) < Size
         /\ Seen.at \in AtT /\ Seen.timer \in {"off", "idle", "guard"} /\ Seen.hist \in HistT
<1>1. Core!Cell = Cell /\ Core!Sessions = Sessions
  BY DEF Cell, Core!Cell, Sessions, Core!Sessions
<1> QED BY <1>1 DEF Core!TypeOK, StreamT, AtT, HistT

LEMMA SeenBusy ==
  ASSUME ~Quiet PROVE Seen = pre
BY DEF Seen

LEMMA BusyTypes ==
  ASSUME SoFar, ~Quiet
  PROVE  /\ Seen = pre
         /\ pre.stream \in StreamT /\ Len(pre.stream.q) < Size
         /\ pre.at \in AtT /\ pre.timer \in {"off", "idle", "guard"} /\ pre.hist \in HistT
         /\ pre.at.plus_cnt \in 0 .. 3 /\ Held \in 0 .. 3
<1>1. Seen = pre
  BY SeenBusy
<1>2. /\ pre.stream \in StreamT /\ Len(pre.stream.q) < Size
      /\ pre.at \in AtT /\ pre.timer \in {"off", "idle", "guard"} /\ pre.hist \in HistT
  BY <1>1, SeenTypes DEF SoFar
<1>3. pre.at.plus_cnt \in 0 .. 3
  BY <1>2 DEF AtT
<1>4. Held \in 0 .. 3
  BY <1>3 DEF Held
<1> QED BY <1>1, <1>2, <1>3, <1>4

\* The run the loop has found is the one LwAtCore counts.
LEMMA RunIsHold ==
  ASSUME SoFar, ~Quiet, fd.seg \in Segments, fd.silent = pre.at.silent,
         Run, RunEnds \/ fd.i = Len(fd.seg) + 1
  PROVE  Core!Hold(fd.seg, Held) = Joined
<1> DEFINE seg == fd.seg
           n == LeadingPluses(seg, Held)
           b == 3 - Held
           m == Min2(Len(seg), b)
<1>1. Seen = pre /\ Held \in 0 .. 3
  BY BusyTypes
<1>2. Len(seg) \in Nat /\ fd.i \in Nat \ {0} /\ fd.silent \in {0, 1}
  BY SegmentType DEF SoFar, FeedLocals
<1>3. /\ n \in 0 .. m
      /\ \A k \in 1 .. n : seg[k] = Plus
      /\ n < m => seg[n + 1] # Plus
  BY <1>1, LeadingPlusesExact
<1>4. Core!LeadingPluses(seg, Held) = n
  BY DEF LeadingPluses, Core!LeadingPluses, Min2, Core!Min2
<1>5. Core!Hold(seg, Held) = IF Held = 0 /\ fd.silent = 0 THEN 0 ELSE n
  BY <1>1, <1>4 DEF Core!Hold
<1>6. m = IF Len(seg) <= b THEN Len(seg) ELSE b
  BY DEF Min2
<1> DEFINE j == fd.i - 1
<1>7. /\ j \in Nat /\ j <= Len(seg) /\ j <= b /\ j + 1 = fd.i
      /\ \A k \in 1 .. j : seg[k] = Plus
      /\ j > 0 => Held > 0 \/ fd.silent = 1
  BY <1>1, <1>2 DEF Run, Joined
<1>8. \/ j = Len(seg)
      \/ j < Len(seg) /\ seg[j + 1] # Plus
      \/ j = b
      \/ j = 0 /\ Held = 0 /\ fd.silent = 0
  <2>1. CASE fd.i = Len(seg) + 1
    BY <1>2, <1>7, <2>1
  <2>2. CASE RunEnds
    <3>1. /\ fd.i <= Len(seg) /\ Joined = j
          /\ \/ seg[fd.i] # Plus
             \/ Held + j = 3
             \/ Held + j = 0 /\ fd.silent = 0
      BY <2>2 DEF RunEnds, Joined
    <3>2. b = 3 - Held
      OBVIOUS
    <3> HIDE DEF j, b, seg
    <3> QED BY <1>1, <1>2, <1>7, <3>1, <3>2
  <2> QED BY <2>1, <2>2
<1> HIDE DEF n, m, j, seg
<1>9. CASE Held = 0 /\ fd.silent = 0
  <2>1. j = 0
    BY <1>7, <1>9
  <2> QED BY <1>5, <1>9, <2>1 DEF Joined, j, seg
<1>10. CASE ~(Held = 0 /\ fd.silent = 0)
  <2>1. m \in Nat /\ j <= m /\ m <= Len(seg) /\ m <= b
    BY <1>1, <1>2, <1>6, <1>7
  <2>2. ~(n < j)
    <3>1. n < j => n + 1 \in 1 .. j
      BY <1>3, <1>7, <2>1
    <3> QED BY <1>3, <1>7, <2>1, <3>1
  <2>3. ~(j < n)
    <3>1. j < n => j + 1 \in 1 .. n
      BY <1>3, <1>7, <2>1
    <3>2. j < n => j # Len(seg) /\ j # b
      BY <1>1, <1>2, <1>3, <1>7, <2>1
    <3> QED BY <1>3, <1>8, <1>10, <3>1, <3>2
  <2>4. n = j
    BY <1>3, <1>7, <2>1, <2>2, <2>3
  <2> QED BY <1>5, <1>10, <2>4 DEF Joined, j, seg
<1> QED BY <1>9, <1>10

\* Records that differ in the '+' held.
LEMMA HeldAgain ==
  ASSUME NEW a \in AtT, NEW m \in 0 .. 3, NEW n \in 0 .. 3
  PROVE  /\ [a EXCEPT !.plus_cnt = m] \in AtT
         /\ [a EXCEPT !.plus_cnt = m].plus_cnt = m
         /\ [[a EXCEPT !.plus_cnt = m] EXCEPT !.plus_cnt = n] = [a EXCEPT !.plus_cnt = n]
         /\ a.plus_cnt = m => [a EXCEPT !.plus_cnt = m] = a
         /\ [[a EXCEPT !.plus_cnt = m] EXCEPT !.silent = a.silent] = [a EXCEPT !.plus_cnt = m]
BY DEF AtT

LEMMA HoldingType ==
  ASSUME SoFar, ~Quiet, NEW n \in 0 .. 3, at = Holding(n)
  PROVE  /\ at.plus_cnt = n /\ \A m \in 0 .. 3 : [at EXCEPT !.plus_cnt = m] = Holding(m)
         /\ [at EXCEPT !.silent = pre.at.silent] = at
         /\ \A s, seg : Core!Put(s, seg) = Put(s, seg)
<1>1. Seen = pre /\ pre.at \in AtT
  BY BusyTypes
<1>2. /\ at.plus_cnt = n /\ \A m \in 0 .. 3 : [at EXCEPT !.plus_cnt = m] = Holding(m)
      /\ [at EXCEPT !.silent = pre.at.silent] = at
  <2> DEFINE a == pre.at
  <2>1. a \in AtT /\ at = [a EXCEPT !.plus_cnt = n]
    BY <1>1 DEF Holding
  <2> HIDE DEF a
  <2>2. /\ at.plus_cnt = n /\ \A m \in 0 .. 3 : [at EXCEPT !.plus_cnt = m] = [a EXCEPT !.plus_cnt = m]
        /\ [at EXCEPT !.silent = a.silent] = at
    BY <2>1 DEF AtT
  <2> QED BY <2>2 DEF a, Holding
<1>3. /\ at.mode = pre.at.mode /\ at.exit_req = pre.at.exit_req /\ at.sess = pre.at.sess
      /\ at.data_got = pre.at.data_got
  BY <1>1 DEF Holding, AtT
<1>4. \A s, seg : Core!Put(s, seg) = Put(s, seg)
  BY <1>1, <1>3, PutSeen
<1> QED BY <1>2, <1>4

LEMMA StartType ==
  ASSUME SoFar, ~Quiet, \A s, seg : Core!Put(s, seg) = Put(s, seg)
  PROVE  /\ Start \in StreamT /\ Len(Start.q) < Size
         /\ \A n \in Nat : /\ Core!Put(Start, Pluses(n)) \in StreamT
                           /\ Len(Core!Put(Start, Pluses(n)).q) < Size
<1>1. pre.stream \in StreamT /\ Len(pre.stream.q) < Size
  BY BusyTypes
<1>2. Start \in StreamT /\ Len(Start.q) < Size
  BY <1>1, PlusesType, PutType DEF Start
<1> QED BY <1>2, PlusesType, PutType

\* A step of the feed that does not end it.
LEMMA FeedGoesOn ==
  ASSUME SoFar, fd.pc # "none", fd'.pc # "none", UNCHANGED <<main, hist, cb, timer>>, Remember,
         fd'.seg = fd.seg, fd'.silent = fd.silent
  PROVE  /\ ~Quiet /\ ~Quiet' /\ pre' = pre /\ Seen' = Seen /\ FeedCalled'
         /\ \A s, seg : Core!Put(s, seg)' = Core!Put(s, seg)
         /\ Start' = Start /\ Held' = Held /\ (Broken' <=> Broken)
<1>1. ~Quiet /\ ~Quiet'
  BY DEF Quiet
<1>2. pre' = pre
  BY <1>1 DEF Remember
<1>3. Seen = pre /\ Seen' = pre
  BY <1>1, <1>2 DEF Seen
<1>4. \A s, seg : Core!Put(s, seg)' = Core!Put(s, seg)
  BY <1>3, PutStays
<1>5. Start' = Start /\ Held' = Held /\ (Broken' <=> Broken)
  BY <1>2, <1>4 DEF Start, Held, Broken
<1>6. FeedCalled
  BY DEF SoFar, FeedSoFar
<1>7. Core!FeedHistory(fd.seg)' = Core!FeedHistory(fd.seg)
  BY <1>3, HistoryStays
<1>8. Core!Transmitting' <=> Core!Transmitting
  BY <1>3 DEF Core!Transmitting, Core!UsePlus, Core!Stream
<1>9. FeedCalled'
  BY <1>2, <1>6, <1>7, <1>8 DEF FeedCalled, MayRun
<1> QED BY <1>1, <1>2, <1>3, <1>4, <1>5, <1>9

-----------------------------------------------------------------------------
(* Steps of lw_at_transmit_feed                                            *)

\* What is left to show of a step that does not end the feed: its point.
LEMMA FeedMoves ==
  ASSUME SoFar, fd.pc # "none", fd'.pc # "none", UNCHANGED timer, FeedRest,
         fd'.seg = fd.seg, fd'.silent = fd.silent, fd' \in FeedLocals,
         stream' \in StreamT, Len(stream'.q) < Size, at' \in AtT, FeedReached'
  PROVE  SoFar'
<1>1. Seen' = Seen /\ FeedCalled'
  BY FeedGoesOn DEF FeedRest
<1>2. UNCHANGED <<main, out, hist, timer, cb>> /\ cb = "none"
  BY DEF FeedRest, SoFar, FeedSoFar, FeedCalled
<1>3. TypeOK'
  BY <1>2 DEF SoFar, TypeOK, StreamT, AtT
<1>4. Core!TypeOK'
  BY <1>1, <1>2 DEF SoFar, Core!TypeOK
<1>5. FeedSoFar' /\ TimerSoFar'
  BY <1>1, <1>2 DEF FeedSoFar, TimerSoFar
<1> QED BY <1>3, <1>4, <1>5 DEF SoFar

\* What holds in the middle of a feed.
LEMMA InFeed ==
  ASSUME SoFar, fd.pc # "none"
  PROVE  /\ ~Quiet /\ FeedCalled /\ FeedReached /\ fd \in FeedLocals
         /\ stream \in StreamT /\ Len(stream.q) < Size /\ at \in AtT
         /\ fd.seg \in Segments /\ Len(fd.seg) \in Nat /\ Len(fd.seg) > 0
         /\ fd.i \in Nat \ {0} /\ fd.silent \in {0, 1} /\ Held \in 0 .. 3
         /\ pre.at \in AtT /\ pre.at.plus_cnt \in 0 .. 3
         /\ pre.stream \in StreamT /\ Len(pre.stream.q) < Size
<1>1. ~Quiet
  BY DEF Quiet
<1>2. FeedCalled /\ FeedReached /\ fd \in FeedLocals
  BY DEF SoFar, FeedSoFar
<1>3. stream \in StreamT /\ Len(stream.q) < Size /\ at \in AtT
  BY DEF SoFar, TypeOK, StreamT, AtT
<1>4. fd.seg \in Segments /\ Len(fd.seg) \in Nat /\ Len(fd.seg) > 0
  BY <1>2, SegmentType DEF FeedCalled
<1>5. fd.i \in Nat \ {0} /\ fd.silent \in {0, 1}
  BY <1>2 DEF FeedLocals
<1>6. /\ Held \in 0 .. 3 /\ pre.at \in AtT /\ pre.at.plus_cnt \in 0 .. 3
      /\ pre.stream \in StreamT /\ Len(pre.stream.q) < Size
  BY <1>1, BusyTypes
<1> QED BY <1>1, <1>2, <1>3, <1>4, <1>5, <1>6

\* Set the point and keep the locals.
LEMMA FeedPoint ==
  ASSUME fd \in FeedLocals, NEW x \in {"scan", "flush", "count", "rest", "silent", "arm"},
         FeedTo(x)
  PROVE  /\ fd' \in FeedLocals /\ fd'.pc = x /\ fd'.seg = fd.seg /\ fd'.i = fd.i
         /\ fd'.silent = fd.silent /\ fd'.next = fd.next /\ fd'.held = fd.held
         /\ fd'.back = fd.back
BY DEF FeedTo, FeedLocals

LEMMA FlushPoint ==
  ASSUME fd \in FeedLocals, at \in AtT, NEW x \in {"scan", "rest"}, FlushTo(x)
  PROVE  /\ fd' \in FeedLocals /\ fd'.pc = "flush" /\ fd'.seg = fd.seg /\ fd'.i = fd.i
         /\ fd'.silent = fd.silent /\ fd'.next = x /\ fd'.held = at.plus_cnt
         /\ fd'.back = 0
BY DEF FlushTo, FeedLocals, AtT

\* The escape is recognised, and the segment stored behind the mark.
LEMMA FeedEscapeStep ==
  ASSUME SoFar, FeedEscape PROVE SoFar'
<1> DEFINE late == [k \in 1 .. Len(fd.seg) |-> [b |-> fd.seg[k], cls |-> "late"]]
<1>1. fd.pc = "begin" /\ FeedTo("silent") /\ FeedRest /\ UNCHANGED timer
  BY DEF FeedEscape, FeedFrom
<1>2. /\ ~Quiet /\ fd \in FeedLocals /\ at \in AtT /\ pre.at \in AtT
      /\ stream \in StreamT /\ Len(stream.q) < Size /\ fd.seg \in Segments
      /\ stream = pre.stream /\ at = pre.at /\ fd.silent = pre.at.silent
  BY <1>1, InFeed DEF FeedReached, FeedCalled
<1>3. /\ fd' \in FeedLocals /\ fd'.pc = "silent" /\ fd'.seg = fd.seg /\ fd'.silent = fd.silent
  BY <1>1, <1>2, FeedPoint
<1>4. pre' = pre /\ (Broken' <=> Broken)
  BY <1>1, <1>3, FeedGoesOn DEF FeedRest
<1>5. stream' = Stored(stream, late)
  BY DEF FeedEscape
<1>6. late \in Seq(Cell)
  BY <1>2, LateCellsType
<1>7. stream' \in StreamT /\ Len(stream'.q) < Size
  BY <1>2, <1>5, <1>6, StoredType
<1>8. /\ at' = [[pre.at EXCEPT !.plus_cnt = 0] EXCEPT !.exit_mark = HeadIdx(pre.stream), !.exit_req = 1]
      /\ Broken /\ fd.silent = 1
  BY <1>2 DEF FeedEscape, Broken
<1>9. at' \in AtT /\ [at' EXCEPT !.silent = pre.at.silent] = at'
  <2> DEFINE a == pre.at
             h == HeadIdx(pre.stream)
  <2>1. a \in AtT /\ h \in 0 .. Size - 1
    BY <1>2, HeadIdxType
  <2>2. at' = [[a EXCEPT !.plus_cnt = 0] EXCEPT !.exit_mark = h, !.exit_req = 1]
    BY <1>8
  <2> HIDE DEF a, h
  <2>3. at' \in AtT /\ at'.silent = a.silent
    <3> DEFINE b == [a EXCEPT !.plus_cnt = 0]
               c == [b EXCEPT !.exit_mark = h]
               d == [c EXCEPT !.exit_req = 1]
    <3>1. b \in AtT /\ b.silent = a.silent
      BY <2>1 DEF AtT
    <3>2. at' = d
      BY <2>2
    <3> HIDE DEF b
    <3>3. c \in AtT /\ c.silent = b.silent
      BY <2>1, <3>1 DEF AtT
    <3> HIDE DEF c
    <3>4. d \in AtT /\ d.silent = c.silent
      BY <3>3 DEF AtT
    <3> HIDE DEF d
    <3> QED BY <3>1, <3>2, <3>3, <3>4
  <2>4. [at' EXCEPT !.silent = a.silent] = at'
    BY <2>3 DEF AtT
  <2> QED BY <2>3, <2>4 DEF a
<1>10. Fed(stream, [at EXCEPT !.silent = pre.at.silent])'
  BY <1>2, <1>3, <1>4, <1>5, <1>8, <1>9 DEF Fed, Holding
<1>11. FeedReached'
  BY <1>3, <1>10 DEF FeedReached
<1> QED BY <1>1, <1>3, <1>7, <1>9, <1>11, FeedMoves

\* Three held '+' without the silence are put back first.
LEMMA BeginStep ==
  ASSUME SoFar, FeedBegin PROVE SoFar'
<1>1. fd.pc = "begin" /\ FeedRest /\ UNCHANGED <<stream, at, timer>>
      /\ ~(at.plus_cnt = 3 /\ fd.silent = 1)
  BY DEF FeedBegin, FeedFrom
<1>2. /\ ~Quiet /\ fd \in FeedLocals /\ at \in AtT /\ pre.at \in AtT
      /\ pre.at.plus_cnt \in 0 .. 3
      /\ stream \in StreamT /\ Len(stream.q) < Size /\ Len(fd.seg) \in Nat
      /\ stream = pre.stream /\ at = pre.at /\ fd.silent = pre.at.silent /\ fd.i = 1
  BY <1>1, InFeed DEF FeedReached, FeedCalled
<1>3. [pre.at EXCEPT !.plus_cnt = pre.at.plus_cnt] = pre.at
  BY <1>2, HeldAgain
<1>4. CASE at.plus_cnt = 3
  <2>1. FlushTo("scan")
    BY <1>4 DEF FeedBegin
  <2>2. /\ fd' \in FeedLocals /\ fd'.pc = "flush" /\ fd'.seg = fd.seg /\ fd'.i = 1
        /\ fd'.silent = fd.silent /\ fd'.next = "scan" /\ fd'.held = 3 /\ fd'.back = 0
    BY <1>2, <1>4, <2>1, FlushPoint
  <2>3. /\ pre' = pre /\ (Broken' <=> Broken) /\ Held' = Held
        /\ \A s, seg : Core!Put(s, seg)' = Core!Put(s, seg)
    BY <1>1, <2>2, FeedGoesOn DEF FeedRest
  <2>4. \A s, seg : Core!Put(s, seg) = Put(s, seg)
    BY <1>2, <1>3, HoldingType DEF Holding
  <2>5. Core!Put(pre.stream, Pluses(0)) = pre.stream
    BY <1>2, <2>4, NoPluses
  <2>6. Broken /\ Held = 0 /\ at = Holding(3)
    BY <1>2, <1>3, <1>4 DEF Broken, Held, Holding
  <2>7. Run'
    BY <1>1, <1>2, <1>4, <2>2, <2>3, <2>6 DEF Run, Joined
  <2>8. StillHeld' = 3
    BY <2>2 DEF StillHeld
  <2>9. Holding(StillHeld)' = at'
    BY <1>1, <2>3, <2>6, <2>8 DEF Holding
  <2>10. stream' = Core!Put(pre.stream, Pluses(fd.back))'
    BY <1>1, <1>2, <2>2, <2>3, <2>5
  <2>11. FeedReached'
    BY <2>2, <2>3, <2>6, <2>7, <2>8, <2>9, <2>10 DEF FeedReached
  <2> QED BY <1>1, <1>2, <2>2, <2>11, FeedMoves
<1>5. CASE at.plus_cnt # 3
  <2>1. FeedTo("scan")
    BY <1>5 DEF FeedBegin
  <2>2. /\ fd' \in FeedLocals /\ fd'.pc = "scan" /\ fd'.seg = fd.seg /\ fd'.i = 1
        /\ fd'.silent = fd.silent
    BY <1>2, <2>1, FeedPoint
  <2>3. /\ pre' = pre /\ (Broken' <=> Broken) /\ Held' = Held /\ Start' = Start
    BY <1>1, <2>2, FeedGoesOn DEF FeedRest
  <2>4. ~Broken /\ Held = pre.at.plus_cnt /\ Start = pre.stream
    BY <1>2, <1>5 DEF Broken, Held, Start
  <2>5. Run' /\ Joined' = 0
    BY <1>1, <1>2, <2>2, <2>3, <2>4 DEF Run, Joined
  <2>6. Holding(Held + Joined)' = at'
    BY <1>1, <1>2, <1>3, <2>3, <2>4, <2>5 DEF Holding
  <2>7. FeedReached'
    BY <1>1, <1>2, <2>2, <2>3, <2>4, <2>5, <2>6 DEF FeedReached
  <2> QED BY <1>1, <1>2, <2>2, <2>7, FeedMoves
<1> QED BY <1>4, <1>5

\* In the byte loop.
LEMMA Scanning ==
  ASSUME SoFar, fd.pc = "scan"
  PROVE  /\ Run /\ stream = Start /\ at = Holding(Held + Joined) /\ at.plus_cnt = Held + Joined
         /\ Joined \in Nat /\ Joined + 1 = fd.i /\ Held + Joined \in 0 .. 3
         /\ \A m \in 0 .. 3 : [at EXCEPT !.plus_cnt = m] = Holding(m)
         /\ \A s, seg : Core!Put(s, seg) = Put(s, seg)
         /\ [at EXCEPT !.silent = pre.at.silent] = at
<1>1. /\ ~Quiet /\ FeedReached /\ fd.i \in Nat \ {0} /\ Held \in 0 .. 3
  BY InFeed
<1>2. Run /\ stream = Start /\ at = Holding(Held + Joined)
  BY <1>1 DEF FeedReached
<1>3. Joined \in Nat /\ Joined + 1 = fd.i
  BY <1>1 DEF Joined
<1>4. Held + Joined \in 0 .. 3
  BY <1>1, <1>2, <1>3 DEF Run
<1> QED BY <1>1, <1>2, <1>3, <1>4, HoldingType

\* One more '+' of the run.
LEMMA HoldStep ==
  ASSUME SoFar, FeedHold PROVE SoFar'
<1>1. /\ fd.pc = "scan" /\ FeedRest /\ UNCHANGED <<stream, timer>>
      /\ fd.i <= Len(fd.seg) /\ fd.seg[fd.i] = Plus
      /\ at.plus_cnt \in {1, 2} \/ (at.plus_cnt = 0 /\ fd.i = 1 /\ fd.silent = 1)
      /\ at' = [at EXCEPT !.plus_cnt = at.plus_cnt + 1]
      /\ fd' = [fd EXCEPT !.i = fd.i + 1]
  BY DEF FeedHold, FeedFrom
<1>2. /\ ~Quiet /\ fd \in FeedLocals /\ at \in AtT /\ pre.at \in AtT
      /\ stream \in StreamT /\ Len(stream.q) < Size /\ Len(fd.seg) \in Nat
      /\ fd.i \in Nat \ {0} /\ fd.silent \in {0, 1} /\ Held \in 0 .. 3
  BY <1>1, InFeed
<1>3. /\ Run /\ stream = Start /\ at.plus_cnt = Held + Joined
      /\ Joined \in Nat /\ Joined + 1 = fd.i /\ Held + Joined \in 0 .. 3
      /\ \A m \in 0 .. 3 : [at EXCEPT !.plus_cnt = m] = Holding(m)
  BY <1>1, Scanning
<1>4. /\ fd' \in FeedLocals /\ fd'.pc = "scan" /\ fd'.seg = fd.seg /\ fd'.i = fd.i + 1
      /\ fd'.silent = fd.silent
  BY <1>1, <1>2 DEF FeedLocals
<1>5. /\ pre' = pre /\ (Broken' <=> Broken) /\ Held' = Held /\ Start' = Start
  BY <1>1, <1>4, FeedGoesOn DEF FeedRest
<1>6. Joined' = Joined + 1 /\ Held + Joined + 1 \in 0 .. 3
  <2>1. Joined' = Joined + 1
    BY <1>2, <1>4 DEF Joined
  <2>2. at.plus_cnt < 3 /\ at.plus_cnt \in Int
    BY <1>1
  <2> QED BY <1>2, <1>3, <2>1, <2>2
<1>7. at' = Holding(Held + Joined)'
  <2> DEFINE m == Held + Joined + 1
  <2>1. at' = Holding(m)
    BY <1>1, <1>3, <1>6
  <2>2. Held' + Joined' = m
    BY <1>2, <1>3, <1>5, <1>6
  <2> HIDE DEF m
  <2> QED BY <1>5, <2>1, <2>2 DEF Holding
<1>8. Run'
  <2>1. /\ ~(Broken /\ fd.silent = 1)
        /\ \A k \in 1 .. Joined : fd.seg[k] = Plus
        /\ Joined > 0 => Held > 0 \/ fd.silent = 1
    BY <1>3 DEF Run
  <2>2. \A k \in 1 .. Joined + 1 : fd.seg[k] = Plus
    BY <1>1, <1>3, <2>1
  <2>3. Held > 0 \/ fd.silent = 1
    <3>1. CASE Joined > 0
      BY <2>1, <3>1
    <3>2. CASE Joined = 0
      BY <1>1, <1>2, <1>3, <3>2
    <3> QED BY <1>3, <3>1, <3>2
  <2>4. Held' + Joined' <= 3
    BY <1>2, <1>3, <1>5, <1>6
  <2> QED BY <1>1, <1>2, <1>4, <1>5, <1>6, <2>1, <2>2, <2>3, <2>4 DEF Run
<1>9. at' \in AtT
  <2> DEFINE m == at.plus_cnt + 1
  <2>1. m \in 0 .. 3
    BY <1>3, <1>6
  <2> HIDE DEF m
  <2> QED BY <1>1, <1>2, <2>1, HeldAgain DEF m
<1>10. FeedReached'
  BY <1>1, <1>3, <1>4, <1>5, <1>7, <1>8 DEF FeedReached
<1> QED BY <1>1, <1>2, <1>4, <1>9, <1>10, FeedMoves

\* The segment ends with the run.
LEMMA ScannedStep ==
  ASSUME SoFar, FeedScanned PROVE SoFar'
<1>1. /\ fd.pc = "scan" /\ FeedRest /\ UNCHANGED <<stream, at, timer>>
      /\ fd.i > Len(fd.seg) /\ FeedTo("silent")
  BY DEF FeedScanned, FeedFrom
<1>2. /\ ~Quiet /\ fd \in FeedLocals /\ at \in AtT
      /\ stream \in StreamT /\ Len(stream.q) < Size /\ Len(fd.seg) \in Nat
      /\ fd.i \in Nat \ {0}
  BY <1>1, InFeed
<1>3. /\ Run /\ stream = Start /\ at = Holding(Held + Joined)
      /\ [at EXCEPT !.silent = pre.at.silent] = at
  BY <1>1, Scanning
<1>4. /\ fd' \in FeedLocals /\ fd'.pc = "silent" /\ fd'.seg = fd.seg /\ fd'.i = fd.i
      /\ fd'.silent = fd.silent
  BY <1>1, <1>2, FeedPoint
<1>5. /\ pre' = pre /\ (Broken' <=> Broken) /\ Held' = Held /\ Start' = Start
  BY <1>1, <1>4, FeedGoesOn DEF FeedRest
<1>6. fd.i = Len(fd.seg) + 1
  BY <1>1, <1>2, <1>3 DEF Run
<1>7. Run' /\ Joined' = Joined
  BY <1>3, <1>4, <1>5 DEF Run, Joined
<1>8. Fed(stream, [at EXCEPT !.silent = pre.at.silent])'
  BY <1>1, <1>3, <1>4, <1>5, <1>6, <1>7 DEF Fed, Holding
<1>9. FeedReached'
  BY <1>4, <1>8 DEF FeedReached
<1> QED BY <1>1, <1>2, <1>4, <1>9, FeedMoves

\* The segment breaks the run, or there is none.
LEMMA BreakStep ==
  ASSUME SoFar, FeedBreak PROVE SoFar'
<1>1. /\ fd.pc = "scan" /\ FeedRest /\ UNCHANGED <<stream, at, timer>>
      /\ fd.i <= Len(fd.seg)
  BY DEF FeedBreak, FeedFrom
<1>2. /\ ~Quiet /\ fd \in FeedLocals /\ at \in AtT
      /\ stream \in StreamT /\ Len(stream.q) < Size /\ Len(fd.seg) \in Nat
      /\ fd.i \in Nat \ {0} /\ Held \in 0 .. 3 /\ fd.silent \in {0, 1}
  BY <1>1, InFeed
<1>3. /\ Run /\ stream = Start /\ at = Holding(Held + Joined) /\ at.plus_cnt = Held + Joined
      /\ Joined \in Nat /\ Joined + 1 = fd.i /\ Held + Joined \in 0 .. 3
      /\ \A s, seg : Core!Put(s, seg) = Put(s, seg)
  BY <1>1, Scanning
<1>4. Start \in StreamT /\ Len(Start.q) < Size
  BY <1>2, <1>3, StartType
<1>5. Core!Put(Start, Pluses(0)) = Start
  BY <1>3, <1>4, NoPluses
<1>6. CASE at.plus_cnt = 0
  <2>1. ~(fd.seg[fd.i] = Plus /\ fd.i = 1 /\ fd.silent = 1) /\ FeedTo("rest")
    BY <1>6 DEF FeedBreak
  <2>2. /\ fd' \in FeedLocals /\ fd'.pc = "rest" /\ fd'.seg = fd.seg /\ fd'.i = fd.i
        /\ fd'.silent = fd.silent
    BY <1>2, <2>1, FeedPoint
  <2>3. /\ pre' = pre /\ (Broken' <=> Broken) /\ Held' = Held /\ Start' = Start
        /\ \A s, seg : Core!Put(s, seg)' = Core!Put(s, seg)
    BY <1>1, <2>2, FeedGoesOn DEF FeedRest
  <2>4. Held + Joined = 0 /\ Joined = 0
    BY <1>2, <1>3, <1>6
  <2>5. RunEnds
    BY <1>1, <1>2, <1>3, <2>1, <2>4 DEF RunEnds
  <2>6. RunEnds' /\ Joined' = Joined
    BY <2>2, <2>3, <2>5 DEF RunEnds, Run, Joined
  <2>7. Back = Start
    BY <1>5, <2>4 DEF Back
  <2>8. Back' = Back
    BY <2>3, <2>6 DEF Back
  <2>9. at' = Holding(0)'
    BY <1>1, <1>3, <2>3, <2>4 DEF Holding
  <2>10. FeedReached'
    BY <1>1, <1>3, <2>2, <2>6, <2>7, <2>8, <2>9 DEF FeedReached
  <2> QED BY <1>1, <1>2, <2>2, <2>10, FeedMoves
<1>7. CASE at.plus_cnt # 0
  <2>1. ~(fd.seg[fd.i] = Plus /\ at.plus_cnt < 3) /\ FlushTo("rest")
    BY <1>7 DEF FeedBreak
  <2>2. /\ fd' \in FeedLocals /\ fd'.pc = "flush" /\ fd'.seg = fd.seg /\ fd'.i = fd.i
        /\ fd'.silent = fd.silent /\ fd'.next = "rest" /\ fd'.held = at.plus_cnt /\ fd'.back = 0
    BY <1>2, <2>1, FlushPoint
  <2>3. /\ pre' = pre /\ (Broken' <=> Broken) /\ Held' = Held /\ Start' = Start
        /\ \A s, seg : Core!Put(s, seg)' = Core!Put(s, seg)
    BY <1>1, <2>2, FeedGoesOn DEF FeedRest
  <2>4. RunEnds
    BY <1>1, <1>2, <1>3, <2>1 DEF RunEnds
  <2>5. RunEnds' /\ Joined' = Joined
    BY <2>2, <2>3, <2>4 DEF RunEnds, Run, Joined
  <2>6. StillHeld' = Held + Joined
    BY <1>3, <2>2 DEF StillHeld
  <2>7. at' = Holding(StillHeld)'
    BY <1>1, <1>3, <2>3, <2>6 DEF Holding
  <2>8. stream' = Core!Put(Start, Pluses(fd.back))'
    BY <1>1, <1>3, <1>5, <2>2, <2>3
  <2>9. StillHeld' \in 0 .. 3 /\ fd'.held = Held' + Joined'
    BY <1>3, <2>2, <2>3, <2>5, <2>6
  <2>10. FeedReached'
    BY <2>2, <2>5, <2>7, <2>8, <2>9 DEF FeedReached
  <2> QED BY <1>1, <1>2, <2>2, <2>10, FeedMoves
<1> QED BY <1>6, <1>7

-----------------------------------------------------------------------------
(* transmit_flush_plus                                                     *)

\* Where the '+' are put back: the ring the flush began with.
FlushedFrom == IF fd.next = "scan" THEN pre.stream ELSE Start

\* What holds while '+' are put back.
LEMMA Flushing ==
  ASSUME SoFar, fd.pc \in {"flush", "count"}
  PROVE  /\ ~Quiet /\ fd \in FeedLocals /\ at \in AtT
         /\ StillHeld \in 0 .. 3 /\ at = Holding(StillHeld) /\ at.plus_cnt = StillHeld
         /\ fd.pc = "count" => StillHeld > 0
         /\ fd.held \in 0 .. 3 /\ fd.back \in Nat
         /\ stream = Put(FlushedFrom, Pluses(fd.back))
         /\ stream \in StreamT /\ Len(stream.q) < Size
         /\ FlushedFrom \in StreamT /\ Len(FlushedFrom.q) < Size
         /\ \A m \in 0 .. 3 : [at EXCEPT !.plus_cnt = m] = Holding(m)
         /\ \A s, seg : Core!Put(s, seg) = Put(s, seg)
         /\ [at EXCEPT !.silent = pre.at.silent] = at
<1>1. /\ ~Quiet /\ FeedReached /\ fd \in FeedLocals /\ at \in AtT
      /\ stream \in StreamT /\ Len(stream.q) < Size
      /\ pre.stream \in StreamT /\ Len(pre.stream.q) < Size
  BY InFeed
<1>2. /\ StillHeld \in 0 .. 3 /\ at = Holding(StillHeld)
      /\ fd.pc = "count" => StillHeld > 0
  BY <1>1 DEF FeedReached
<1>3. /\ at.plus_cnt = StillHeld
      /\ \A m \in 0 .. 3 : [at EXCEPT !.plus_cnt = m] = Holding(m)
      /\ \A s, seg : Core!Put(s, seg) = Put(s, seg)
      /\ [at EXCEPT !.silent = pre.at.silent] = at
  BY <1>1, <1>2, HoldingType
<1>4. fd.held \in 0 .. 3 /\ fd.back \in Nat
  BY <1>1 DEF FeedLocals
<1>5. Start \in StreamT /\ Len(Start.q) < Size
  BY <1>1, <1>3, StartType
<1>6. FlushedFrom \in StreamT /\ Len(FlushedFrom.q) < Size
  BY <1>1, <1>5 DEF FlushedFrom
<1>7. stream = Core!Put(FlushedFrom, Pluses(fd.back))
  BY <1>1 DEF FeedReached, FlushedFrom
<1> QED BY <1>1, <1>2, <1>3, <1>4, <1>6, <1>7

\* A flush that goes on.
LEMMA FlushMoves ==
  ASSUME SoFar, fd.pc \in {"flush", "count"}, fd'.pc \in {"flush", "count"},
         fd' \in FeedLocals, fd'.seg = fd.seg, fd'.i = fd.i, fd'.silent = fd.silent,
         fd'.next = fd.next, fd'.held = fd.held, UNCHANGED timer, FeedRest,
         StillHeld' \in 0 .. 3, fd'.pc = "count" => StillHeld' > 0, at' = Holding(StillHeld'),
         at' \in AtT, stream' \in StreamT, Len(stream'.q) < Size,
         stream' = Put(FlushedFrom, Pluses(fd'.back))
  PROVE  SoFar'
<1>1. FeedReached
  BY InFeed
<1>2. /\ pre' = pre /\ (Broken' <=> Broken) /\ Held' = Held /\ Start' = Start
      /\ \A s, seg : Core!Put(s, seg)' = Core!Put(s, seg)
  BY FeedGoesOn DEF FeedRest
<1>3. \A s, seg : Core!Put(s, seg) = Put(s, seg)
  BY Flushing
<1>4. Joined' = Joined /\ (Run' <=> Run) /\ (RunEnds' <=> RunEnds)
  BY <1>2 DEF RunEnds, Run, Joined
<1>5. at' = Holding(StillHeld)'
  BY <1>2 DEF Holding
<1>6. stream' = Core!Put(FlushedFrom, Pluses(fd'.back))
  BY <1>3
<1>7. \/ /\ fd'.next = "scan" /\ Run' /\ Broken' /\ fd'.i = 1 /\ fd'.held = 3
         /\ stream' = Core!Put(pre.stream, Pluses(fd.back))'
      \/ /\ fd'.next = "rest" /\ RunEnds' /\ fd'.held = Held' + Joined'
         /\ stream' = Core!Put(Start, Pluses(fd.back))'
  <2>1. \/ fd.next = "scan" /\ Run /\ Broken /\ fd.i = 1 /\ fd.held = 3
        \/ fd.next = "rest" /\ RunEnds /\ fd.held = Held + Joined
    BY <1>1 DEF FeedReached
  <2>2. CASE fd.next = "scan"
    <3>1. stream' = Core!Put(pre.stream, Pluses(fd.back))'
      BY <1>2, <1>6, <2>2 DEF FlushedFrom
    <3> QED BY <1>2, <1>4, <2>1, <2>2, <3>1
  <2>3. CASE fd.next = "rest"
    <3>1. stream' = Core!Put(Start, Pluses(fd.back))'
      BY <1>2, <1>6, <2>3 DEF FlushedFrom
    <3> QED BY <1>2, <1>4, <2>1, <2>3, <3>1
  <2> QED BY <2>1, <2>2, <2>3
<1>8. FeedReached'
  BY <1>5, <1>7 DEF FeedReached
<1> QED BY <1>8, FeedMoves

\* A '+' is stored and not yet counted down.
LEMMA FlushByteStep ==
  ASSUME SoFar, FlushByte PROVE SoFar'
<1>1. /\ fd.pc = "flush" /\ FeedRest /\ UNCHANGED <<at, timer>> /\ at.plus_cnt > 0
      /\ stream' = Put(stream, Pluses(1)) /\ fd' = [fd EXCEPT !.pc = "count", !.back = fd.back + 1]
  BY DEF FlushByte, FeedFrom
<1>2. /\ fd \in FeedLocals /\ at \in AtT
      /\ StillHeld \in 0 .. 3 /\ at = Holding(StillHeld) /\ at.plus_cnt = StillHeld
      /\ fd.held \in 0 .. 3 /\ fd.back \in Nat
      /\ stream = Put(FlushedFrom, Pluses(fd.back)) /\ stream \in StreamT /\ Len(stream.q) < Size
      /\ FlushedFrom \in StreamT /\ Len(FlushedFrom.q) < Size
  BY <1>1, Flushing
<1> DEFINE b == fd.back + 1
<1>3. b \in Nat
  BY <1>2
<1>4. fd' = [fd EXCEPT !.pc = "count", !.back = b]
  BY <1>1
<1> HIDE DEF b
<1>5. /\ fd' \in FeedLocals /\ fd'.pc = "count" /\ fd'.seg = fd.seg /\ fd'.i = fd.i
      /\ fd'.silent = fd.silent /\ fd'.next = fd.next /\ fd'.held = fd.held /\ fd'.back = b
  BY <1>2, <1>3, <1>4 DEF FeedLocals
<1>6. StillHeld' = StillHeld
  <2>1. StillHeld' = fd.held - b + 1 /\ StillHeld = fd.held - fd.back + 0
    BY <1>1, <1>5 DEF StillHeld
  <2> QED BY <1>2, <2>1 DEF b
<1>7. stream' = Put(FlushedFrom, Pluses(b))
  BY <1>1, <1>2, OneMorePlus DEF b
<1>8. stream' \in StreamT /\ Len(stream'.q) < Size
  BY <1>2, <1>3, <1>7, PlusesType, PutType
<1> QED BY <1>1, <1>2, <1>5, <1>6, <1>7, <1>8, FlushMoves

\* plus_cnt, a uint8_t, does not wrap: a '+' that is counted down is held.
LEMMA FlushCountStep ==
  ASSUME SoFar, FlushCount PROVE SoFar'
<1>1. /\ fd.pc = "count" /\ FeedRest /\ UNCHANGED <<stream, timer>> /\ FeedTo("flush")
      /\ at' = [at EXCEPT !.plus_cnt = (at.plus_cnt - 1) % 256]
  BY DEF FlushCount, FeedFrom
<1>2. /\ fd \in FeedLocals /\ at \in AtT /\ ~Quiet
      /\ StillHeld \in 0 .. 3 /\ at.plus_cnt = StillHeld /\ StillHeld > 0
      /\ fd.held \in 0 .. 3 /\ fd.back \in Nat
      /\ stream = Put(FlushedFrom, Pluses(fd.back)) /\ stream \in StreamT /\ Len(stream.q) < Size
      /\ \A m \in 0 .. 3 : [at EXCEPT !.plus_cnt = m] = Holding(m)
  BY <1>1, Flushing
<1>3. /\ fd' \in FeedLocals /\ fd'.pc = "flush" /\ fd'.seg = fd.seg /\ fd'.i = fd.i
      /\ fd'.silent = fd.silent /\ fd'.next = fd.next /\ fd'.held = fd.held /\ fd'.back = fd.back
  BY <1>1, <1>2, FeedPoint
<1>4. StillHeld' = StillHeld - 1
  <2>1. StillHeld' = fd.held - fd.back + 0 /\ StillHeld = fd.held - fd.back + 1
    BY <1>1, <1>3 DEF StillHeld
  <2> QED BY <1>2, <2>1
<1>5. StillHeld' \in 0 .. 3 /\ (at.plus_cnt - 1) % 256 = StillHeld'
  <2>1. StillHeld' \in {0, 1, 2}
    BY <1>2, <1>4
  <2>2. 0 % 256 = 0 /\ 1 % 256 = 1 /\ 2 % 256 = 2
    OBVIOUS
  <2> QED BY <1>2, <1>4, <2>1, <2>2
<1>6. at' = Holding(StillHeld')
  BY <1>1, <1>2, <1>5
<1>7. at' \in AtT
  BY <1>1, <1>2, <1>5, HeldAgain
<1>8. stream' = Put(FlushedFrom, Pluses(fd'.back))
  BY <1>1, <1>2, <1>3
<1> QED BY <1>1, <1>2, <1>3, <1>5, <1>6, <1>7, <1>8, FlushMoves

\* All of them are back, in the order they came.
LEMMA FlushEndStep ==
  ASSUME SoFar, FlushEnd PROVE SoFar'
<1>1. /\ fd.pc = "flush" /\ FeedRest /\ UNCHANGED <<stream, at, timer>> /\ FeedTo(fd.next)
      /\ at.plus_cnt = 0
  BY DEF FlushEnd, FeedFrom
<1>2. /\ fd \in FeedLocals /\ at \in AtT /\ ~Quiet /\ FeedReached
      /\ StillHeld = 0 /\ at = Holding(0) /\ fd.held \in 0 .. 3 /\ fd.back \in Nat
      /\ stream \in StreamT /\ Len(stream.q) < Size /\ Held \in 0 .. 3 /\ fd.i \in Nat \ {0}
  BY <1>1, Flushing, InFeed
<1>3. fd.back = fd.held
  <2>1. StillHeld = fd.held - fd.back + 0
    BY <1>1 DEF StillHeld
  <2> QED BY <1>2, <2>1
<1>4. CASE fd.next = "scan"
  <2>1. /\ Run /\ Broken /\ fd.i = 1 /\ fd.held = 3
        /\ stream = Core!Put(pre.stream, Pluses(3))
    BY <1>1, <1>2, <1>3, <1>4 DEF FeedReached
  <2>2. /\ fd' \in FeedLocals /\ fd'.pc = "scan" /\ fd'.seg = fd.seg /\ fd'.i = fd.i
        /\ fd'.silent = fd.silent
    BY <1>1, <1>2, <1>4, FeedPoint
  <2>3. /\ pre' = pre /\ (Broken' <=> Broken) /\ Held' = Held /\ Start' = Start
    BY <1>1, <2>2, FeedGoesOn DEF FeedRest
  <2>4. stream = Start /\ Held = 0 /\ Joined = 0
    BY <2>1 DEF Start, Held, Joined
  <2>5. Run' /\ Joined' = Joined
    BY <2>1, <2>2, <2>3 DEF Run, Joined
  <2>6. at' = Holding(Held + Joined)'
    BY <1>1, <1>2, <2>3, <2>4, <2>5 DEF Holding
  <2>7. FeedReached'
    BY <1>1, <2>2, <2>3, <2>4, <2>5, <2>6 DEF FeedReached
  <2> QED BY <1>1, <1>2, <2>2, <2>7, FeedMoves
<1>5. CASE fd.next = "rest"
  <2>1. /\ RunEnds /\ fd.held = Held + Joined
        /\ stream = Core!Put(Start, Pluses(fd.held))
    BY <1>1, <1>2, <1>3, <1>5 DEF FeedReached
  <2>2. /\ fd' \in FeedLocals /\ fd'.pc = "rest" /\ fd'.seg = fd.seg /\ fd'.i = fd.i
        /\ fd'.silent = fd.silent
    BY <1>1, <1>2, <1>5, FeedPoint
  <2>3. /\ pre' = pre /\ (Broken' <=> Broken) /\ Held' = Held /\ Start' = Start
        /\ \A s, seg : Core!Put(s, seg)' = Core!Put(s, seg)
    BY <1>1, <2>2, FeedGoesOn DEF FeedRest
  <2>4. RunEnds' /\ Joined' = Joined
    BY <2>1, <2>2, <2>3 DEF RunEnds, Run, Joined
  <2>5. stream = Back /\ Back' = Back
    BY <2>1, <2>3, <2>4 DEF Back
  <2>6. at' = Holding(0)'
    BY <1>1, <1>2, <2>3 DEF Holding
  <2>7. FeedReached'
    BY <1>1, <2>2, <2>4, <2>5, <2>6 DEF FeedReached
  <2> QED BY <1>1, <1>2, <2>2, <2>7, FeedMoves
<1> QED BY <1>1, <1>2, <1>4, <1>5 DEF FeedReached

\* The rest of the segment behind them.
LEMMA StoreRestStep ==
  ASSUME SoFar, FeedStoreRest PROVE SoFar'
<1> DEFINE rest == SubSeq(fd.seg, fd.i, Len(fd.seg))
<1>1. /\ fd.pc = "rest" /\ FeedRest /\ UNCHANGED <<at, timer>> /\ FeedTo("silent")
      /\ stream' = Put(stream, rest)
  BY DEF FeedStoreRest, FeedFrom
<1>2. /\ fd \in FeedLocals /\ at \in AtT /\ ~Quiet
      /\ stream \in StreamT /\ Len(stream.q) < Size /\ fd.seg \in Segments
      /\ Len(fd.seg) \in Nat /\ fd.i \in Nat \ {0}
      /\ RunEnds /\ stream = Back /\ at = Holding(0)
  BY <1>1, InFeed DEF FeedReached
<1>3. /\ [at EXCEPT !.silent = pre.at.silent] = at
      /\ \A s, seg : Core!Put(s, seg) = Put(s, seg)
  BY <1>2, HoldingType
<1>4. /\ fd' \in FeedLocals /\ fd'.pc = "silent" /\ fd'.seg = fd.seg /\ fd'.i = fd.i
      /\ fd'.silent = fd.silent
  BY <1>1, <1>2, FeedPoint
<1>5. /\ pre' = pre /\ (Broken' <=> Broken) /\ Held' = Held /\ Start' = Start
      /\ \A s, seg : Core!Put(s, seg)' = Core!Put(s, seg)
  BY <1>1, <1>4, FeedGoesOn DEF FeedRest
<1>6. RunEnds' /\ Joined' = Joined
  BY <1>2, <1>4, <1>5 DEF RunEnds, Run, Joined
<1>7. Back' = Back
  BY <1>5, <1>6 DEF Back
<1>8. rest \in Seq(Token)
  <2>1. \A k \in fd.i .. Len(fd.seg) : fd.seg[k] \in Token
    BY <1>2, SegmentType
  <2> QED BY <1>2, <2>1, SubSeqProperties
<1>9. stream' \in StreamT /\ Len(stream'.q) < Size
  BY <1>1, <1>2, <1>8, PutType
<1>10. Fed(stream, [at EXCEPT !.silent = pre.at.silent])'
  <2>1. stream' = Core!Put(Back, rest)
    BY <1>1, <1>2, <1>3
  <2>2. stream' = Core!Put(Back, SubSeq(fd.seg, fd.i, Len(fd.seg)))'
    BY <1>4, <1>5, <1>7, <2>1
  <2>3. [at EXCEPT !.silent = pre.at.silent]' = Holding(0)'
    BY <1>1, <1>2, <1>3, <1>5 DEF Holding
  <2> QED BY <1>6, <2>2, <2>3 DEF Fed
<1>11. FeedReached'
  BY <1>4, <1>10 DEF FeedReached
<1> QED BY <1>1, <1>2, <1>4, <1>9, <1>11, FeedMoves

\* The feed does not change mode or session.
LEMMA FedKeeps ==
  ASSUME SoFar, fd.pc \in {"silent", "arm"}
  PROVE  at.mode = pre.at.mode /\ at.sess = pre.at.sess
<1> DEFINE g == [at EXCEPT !.silent = pre.at.silent]
<1>1. at \in AtT /\ pre.at \in AtT /\ Fed(stream, g)
  BY InFeed DEF FeedReached
<1>2. at.mode = g.mode /\ at.sess = g.sess
  BY <1>1 DEF AtT
<1>3. \/ g = [Holding(0) EXCEPT !.exit_mark = HeadIdx(pre.stream), !.exit_req = 1]
      \/ g = Holding(Held + Joined) \/ g = Holding(0)
  BY <1>1 DEF Fed
<1> HIDE DEF g
<1>4. g.mode = pre.at.mode /\ g.sess = pre.at.sess
  BY <1>1, <1>3 DEF Holding, AtT
<1> QED BY <1>2, <1>4

\* `silent` is cleared, or set in a session without guard.
LEMMA SilentStep ==
  ASSUME SoFar, FeedSilent PROVE SoFar'
<1>1. /\ fd.pc = "silent" /\ FeedRest /\ UNCHANGED <<stream, timer>> /\ FeedTo("arm")
      /\ at' = [at EXCEPT !.silent = SilentAfterFeed]
  BY DEF FeedSilent, FeedFrom
<1> DEFINE x == SilentAfterFeed
           p == pre.at.silent
           g == [at EXCEPT !.silent = p]
<1>2. /\ fd \in FeedLocals /\ at \in AtT /\ ~Quiet /\ Fed(stream, g)
      /\ stream \in StreamT /\ Len(stream.q) < Size /\ pre.at \in AtT /\ Seen = pre
  BY <1>1, InFeed, BusyTypes DEF FeedReached
<1>3. x \in {0, 1}
  BY DEF SilentAfterFeed
<1>4. /\ fd' \in FeedLocals /\ fd'.pc = "arm" /\ fd'.seg = fd.seg /\ fd'.i = fd.i
      /\ fd'.silent = fd.silent
  BY <1>1, <1>2, FeedPoint
<1>5. /\ pre' = pre /\ (Broken' <=> Broken) /\ Held' = Held /\ Start' = Start
      /\ \A s, seg : Core!Put(s, seg)' = Core!Put(s, seg)
      /\ Seen' = Seen
  BY <1>1, <1>4, FeedGoesOn DEF FeedRest
<1>6. at' \in AtT /\ at'.silent = x /\ [at' EXCEPT !.silent = p] = g
  <2> HIDE DEF x, p
  <2>1. at' = [at EXCEPT !.silent = x]
    BY <1>1 DEF x
  <2> QED BY <1>2, <1>3, <2>1 DEF AtT
<1>7. x = Core!SilentAfterFeed
  <2>1. at.mode = pre.at.mode /\ at.sess = pre.at.sess
    BY <1>1, FedKeeps
  <2> QED BY <1>2, <2>1 DEF SilentAfterFeed, Core!SilentAfterFeed, Guarded, Core!Guarded
<1>8. Core!SilentAfterFeed' = Core!SilentAfterFeed
  BY <1>5 DEF Core!SilentAfterFeed, Core!Guarded
<1>9. (Run' <=> Run) /\ (RunEnds' <=> RunEnds) /\ Joined' = Joined
  BY <1>4, <1>5 DEF RunEnds, Run, Joined
<1>10. Back' = Back
  BY <1>5, <1>9 DEF Back
<1>11. [at EXCEPT !.silent = pre.at.silent]' = g
  BY <1>5, <1>6
<1>12. Fed(stream, g)'
  <2> HIDE DEF g
  <2>1. Fed(stream, g)
    BY <1>2
  <2> QED BY <1>1, <1>4, <1>5, <1>9, <1>10, <1>11, <2>1 DEF Fed, Holding, g
<1>13. FeedReached'
  BY <1>4, <1>6, <1>7, <1>8, <1>12 DEF FeedReached
<1> QED BY <1>1, <1>2, <1>4, <1>6, <1>13, FeedMoves

-----------------------------------------------------------------------------
(* The end of the feed: Core!Feed                                          *)

\* Nothing in progress: only the types are left to show.
LEMMA QuietTypes ==
  ASSUME TypeOK', Quiet', fd' \in FeedLocals PROVE SoFar'
<1>1. Seen' = Now'
  BY DEF Seen
<1>2. Core!TypeOK'
  <2>1. Core!Cell = Cell /\ Core!Sessions = Sessions /\ Core!Points = Points
    BY DEF Cell, Core!Cell, Sessions, Core!Sessions, Points, Core!Points
  <2>2. Seen'.stream = stream' /\ Seen'.at = at' /\ Seen'.timer = timer' /\ Seen'.hist = hist'
    BY <1>1 DEF Now
  <2> QED BY <2>1, <2>2 DEF TypeOK, Core!TypeOK
<1> QED BY <1>2 DEF SoFar, FeedSoFar, TimerSoFar, Quiet

\* The reload of the timer ends the feed.
LEMMA ArmTypes ==
  ASSUME SoFar, FeedArm PROVE Quiet' /\ SoFar'
<1>1. /\ fd.pc = "arm" /\ FeedRest /\ UNCHANGED <<stream, at>> /\ fd' = NoFeed
      /\ timer' = Rearmed
  BY DEF FeedArm, FeedFrom
<1>2. cb = "none" /\ cb' = "none"
  BY <1>1, InFeed DEF FeedCalled, FeedRest
<1>3. Quiet'
  BY <1>1, <1>2 DEF Quiet, NoFeed
<1>4. fd' \in FeedLocals
  BY <1>1 DEF FeedLocals, NoFeed
<1>5. timer' \in {"off", "idle", "guard"}
  BY <1>1 DEF SoFar, TypeOK, Rearmed
<1>6. TypeOK'
  BY <1>1, <1>5 DEF SoFar, TypeOK, FeedRest
<1> QED BY <1>3, <1>4, <1>6, QuietTypes

\* The whole of it is what LwAtCore says in one step.
LEMMA ArmFeeds ==
  ASSUME SoFar, FeedArm PROVE Core!Feed
<1> DEFINE seg == fd.seg
           x   == Core!SilentAfterFeed
           p   == pre.at.silent
           g   == [at EXCEPT !.silent = p]
<1>1. /\ fd.pc = "arm" /\ FeedRest /\ UNCHANGED <<stream, at>> /\ fd' = NoFeed
      /\ timer' = Rearmed
  BY DEF FeedArm, FeedFrom
<1>2. /\ ~Quiet /\ FeedCalled /\ at \in AtT /\ pre.at \in AtT /\ Seen = pre
      /\ seg \in Segments /\ Len(seg) \in Nat /\ fd.i \in Nat \ {0} /\ Held \in 0 .. 3
      /\ Fed(stream, g) /\ at.silent = x
  BY <1>1, InFeed, BusyTypes DEF FeedReached
<1>3. Seen' = Now'
  BY ArmTypes DEF Seen
<1>4. at = [g EXCEPT !.silent = x]
  <2> HIDE DEF x, p
  <2> QED BY <1>2 DEF AtT
<1> HIDE DEF g, x, p
<1>5. timer' = Core!Rearmed
  <2>1. at.mode = pre.at.mode /\ at.sess = pre.at.sess
    BY <1>1, FedKeeps
  <2>2. timer = pre.timer
    BY <1>2 DEF FeedCalled
  <2> QED BY <1>1, <1>2, <2>1, <2>2 DEF Rearmed, Core!Rearmed, Guarded, Core!Guarded
<1>6. ASSUME NEW s, NEW gs, stream = s, g = gs PROVE Core!Received(seg, s, gs)
  <2>1. Seen'.stream = stream /\ Seen'.at = at /\ Seen'.timer = timer' /\ Seen'.hist = hist'
    BY <1>1, <1>3 DEF Now
  <2>2. hist' = Core!FeedHistory(seg)
    BY <1>1, <1>2 DEF FeedRest, FeedCalled
  <2>3. Seen'.at = [gs EXCEPT !.silent = Core!SilentAfterFeed]
    BY <1>4, <1>6, <2>1 DEF x
  <2>4. UNCHANGED <<main, out>>
    BY <1>1 DEF FeedRest
  <2> QED BY <1>5, <1>6, <2>1, <2>2, <2>3, <2>4 DEF Core!Received
<1>7. /\ Core!Transmitting /\ Core!MayRun("feed") /\ Seen.hist.feeds < MaxFeeds
      /\ fd.silent = pre.at.silent
  BY <1>2 DEF FeedCalled, MayRun, Core!MayRun
<1>8. Core!FeedExit(seg) \/ Core!FeedTransmit(seg)
  <2>1. CASE /\ Broken /\ fd.silent = 1
             /\ stream = Stored(pre.stream,
                   [k \in 1 .. Len(fd.seg) |-> [b |-> fd.seg[k], cls |-> "late"]])
             /\ g = [Holding(0) EXCEPT !.exit_mark = HeadIdx(pre.stream), !.exit_req = 1]
    <3> DEFINE late == [k \in 1 .. Len(seg) |-> [b |-> seg[k], cls |-> "late"]]
    <3>1. stream = Core!Stored(Seen.stream, late)
      BY <1>2, <2>1 DEF Stored, Core!Stored, Min2, Core!Min2
    <3>2. g = [Seen.at EXCEPT !.plus_cnt = 0, !.exit_mark = Core!HeadIdx(Seen.stream),
                              !.exit_req = 1]
      BY <1>2, <2>1 DEF Holding, HeadIdx, Core!HeadIdx
    <3>3. Core!Received(seg, Core!Stored(Seen.stream, late),
            [Seen.at EXCEPT !.plus_cnt = 0, !.exit_mark = Core!HeadIdx(Seen.stream),
                            !.exit_req = 1])
      BY <1>6, <3>1, <3>2
    <3>4. Seen.at.plus_cnt = 3 /\ Seen.at.silent = 1
      BY <1>2, <1>7, <2>1 DEF Broken
    <3> QED BY <1>7, <3>3, <3>4 DEF Core!FeedExit
  <2>2. ASSUME Run, RunEnds \/ fd.i = Len(seg) + 1
        PROVE  /\ Core!Hold(seg, Held) = Joined /\ ~(Seen.at.plus_cnt = 3 /\ Seen.at.silent = 1)
               /\ Joined + 1 = fd.i
    <3>1. Core!Hold(seg, Held) = Joined
      BY <1>2, <1>7, <2>2, RunIsHold
    <3>2. ~(pre.at.plus_cnt = 3 /\ pre.at.silent = 1)
      BY <1>7, <2>2 DEF Run, Broken
    <3> QED BY <1>2, <3>1, <3>2 DEF Joined
  <2>3. CASE Run /\ fd.i = Len(fd.seg) + 1 /\ stream = Start /\ g = Holding(Held + Joined)
    <3>1. /\ Core!Hold(seg, Held) = Joined /\ ~(Seen.at.plus_cnt = 3 /\ Seen.at.silent = 1)
          /\ Joined = Len(seg)
      <4>1. /\ Core!Hold(seg, Held) = Joined /\ ~(Seen.at.plus_cnt = 3 /\ Seen.at.silent = 1)
            /\ Joined + 1 = fd.i
        BY <2>2, <2>3
      <4>2. Joined = fd.i - 1 /\ fd.i = Len(seg) + 1
        BY <2>3 DEF Joined
      <4>3. Joined = Len(seg)
        BY <1>2, <4>2
      <4> QED BY <4>1, <4>3
    <3>2. Core!Received(seg, Start, Holding(Held + Joined))
      BY <1>6, <2>3
    <3>3. Core!FeedTransmit(seg)
      BY <1>2, <1>7, <3>1, <3>2 DEF Core!FeedTransmit, Start, Held, Broken, Holding, Pluses, Core!Pluses
    <3> QED BY <3>3
  <2>4. CASE RunEnds /\ stream = Core!Put(Back, SubSeq(fd.seg, fd.i, Len(fd.seg))) /\ g = Holding(0)
    <3>1. /\ Core!Hold(seg, Held) = Joined /\ ~(Seen.at.plus_cnt = 3 /\ Seen.at.silent = 1)
          /\ Joined + 1 = fd.i
      BY <2>2, <2>4 DEF RunEnds
    <3>2. Joined # Len(seg)
      BY <1>2, <2>4, <3>1 DEF RunEnds
    <3>3. Core!Received(seg, Core!Put(Back, SubSeq(seg, Joined + 1, Len(seg))), Holding(0))
      BY <1>6, <2>4, <3>1
    <3>4. Core!FeedTransmit(seg)
      BY <1>2, <1>7, <3>1, <3>2, <3>3
         DEF Core!FeedTransmit, Back, Start, Held, Broken, Holding, Pluses, Core!Pluses
    <3> QED BY <3>4
  <2> QED BY <1>2, <2>1, <2>3, <2>4 DEF Fed
<1> QED BY <1>2, <1>7, <1>8 DEF Core!Feed

-----------------------------------------------------------------------------
(* The calls, and at_timer_expired                                         *)

\* lw_at_feed is called: nothing has happened yet.
LEMMA CallStep ==
  ASSUME SoFar, FeedCall, Nested = {}
  PROVE  SoFar' /\ Seen' = Seen /\ UNCHANGED <<main, out>>
<1>1. /\ MayRun("feed") /\ hist.feeds < MaxFeeds /\ fd.pc = "none" /\ cb = "none"
      /\ Transmitting /\ UNCHANGED <<stream, at, timer, main, out, cb>> /\ Remember
  BY DEF FeedCall, FeedGoes
<1>2. PICK seg \in Segments :
        /\ fd' = [NoFeed EXCEPT !.pc = "begin", !.seg = seg, !.silent = at.silent]
        /\ hist' = FeedHistory(seg)
  BY DEF FeedCall
<1>3. Quiet /\ ~Quiet' /\ pre' = Now
  <2>1. Quiet /\ ~Quiet'
    BY <1>1, <1>2 DEF Quiet, NoFeed
  <2> QED BY <1>1, <2>1 DEF Remember
<1>4. Seen = Now /\ Seen' = Now
  BY <1>3 DEF Seen
<1>5. SeenNow /\ at \in AtT /\ TypeOK
  BY <1>4 DEF SeenNow, Now, SoFar, TypeOK, AtT
<1>6. /\ fd' \in FeedLocals /\ fd'.pc = "begin" /\ fd'.seg = seg /\ fd'.i = 1
      /\ fd'.silent = at.silent
  <2> DEFINE v == at.silent
  <2>1. v \in {0, 1}
    BY <1>5 DEF AtT
  <2>2. fd' = [NoFeed EXCEPT !.pc = "begin", !.seg = seg, !.silent = v]
    BY <1>2
  <2> HIDE DEF v
  <2>3. fd' = [pc |-> "begin", seg |-> seg, i |-> 1, silent |-> v, next |-> "none",
               held |-> 0, back |-> 0]
    BY <2>2 DEF NoFeed
  <2>4. fd'.silent = v
    BY <2>3
  <2> QED BY <2>1, <2>3, <2>4 DEF FeedLocals, v
<1>7. hist' \in HistT
  <2>1. hist \in HistT
    BY <1>5 DEF TypeOK, HistT
  <2> QED BY <1>1, <1>2, <2>1, HistoryType
<1>8. TypeOK' /\ Core!TypeOK'
  <2>1. Core!TypeOK'
    BY <1>1, <1>4 DEF SoFar, Core!TypeOK
  <2> QED BY <1>1, <1>5, <1>7, <2>1 DEF TypeOK, HistT
<1>9. FeedCalled'
  <2>1. Core!FeedHistory(seg)' = FeedHistory(seg)
    BY <1>4, <1>5, HistorySeen, HistoryStays
  <2>2. Core!Transmitting'
    BY <1>1, <1>4, <1>5 DEF Core!Transmitting, Core!UsePlus, Core!Stream, Transmitting, UsePlus,
       Stream, SeenNow
  <2>3. pre'.at = at /\ pre'.timer = timer /\ pre'.hist = hist /\ pre'.stream = stream
    BY <1>3 DEF Now
  <2> QED BY <1>1, <1>2, <1>6, <2>1, <2>2, <2>3 DEF FeedCalled, MayRun
<1>10. FeedReached'
  BY <1>1, <1>3, <1>6 DEF FeedReached, Now
<1> QED BY <1>1, <1>4, <1>6, <1>8, <1>9, <1>10 DEF SoFar, FeedSoFar, TimerSoFar

\* What holds in the middle of the callback.
LEMMA InTimer ==
  ASSUME SoFar, cb # "none"
  PROVE  /\ ~Quiet /\ TimerCalled /\ TimerReached /\ Seen = pre
         /\ at \in AtT /\ pre.at \in AtT /\ HeadIdx(stream) \in 0 .. Size - 1
         /\ HeadIdx(pre.stream) = HeadIdx(stream) /\ stream = pre.stream
<1>1. ~Quiet /\ TimerCalled /\ TimerReached
  BY DEF Quiet, SoFar, TimerSoFar
<1>2. at \in AtT /\ stream \in StreamT
  BY DEF SoFar, TypeOK, AtT, StreamT
<1>3. stream = pre.stream
  BY <1>1 DEF TimerCalled
<1> QED BY <1>1, <1>2, <1>3, BusyTypes, HeadIdxType

\* A step of the callback that does not end it.
LEMMA TimerGoesOn ==
  ASSUME SoFar, cb # "none", cb' \in {"mark", "request", "clear"}, TimerRest, at' \in AtT,
         pre' = pre => TimerReached'
  PROVE  SoFar' /\ Seen' = Seen
<1>1. ~Quiet /\ ~Quiet'
  BY DEF Quiet
<1>2. pre' = pre
  BY <1>1 DEF TimerRest, Remember
<1>3. Seen = pre /\ Seen' = pre
  BY <1>1, <1>2 DEF Seen
<1>4. TimerCalled /\ fd.pc = "none"
  BY InTimer DEF TimerCalled
<1>5. (Core!UsePlus' <=> Core!UsePlus) /\ UNCHANGED <<stream, timer, main, out, hist, fd>>
  BY <1>3 DEF Core!UsePlus, Core!Stream, TimerRest
<1>6. TimerCalled'
  BY <1>2, <1>4, <1>5 DEF TimerCalled, MayRun
<1>7. TypeOK'
  BY <1>5 DEF SoFar, TypeOK, AtT
<1>8. Core!TypeOK'
  BY <1>3, <1>5 DEF SoFar, Core!TypeOK
<1> QED BY <1>2, <1>3, <1>4, <1>5, <1>6, <1>7, <1>8 DEF SoFar, FeedSoFar, TimerSoFar

\* No '+' held: nothing else is written.
LEMMA TestStep ==
  ASSUME SoFar, TimerTest
  PROVE  SoFar' /\ (Seen' = Seen \/ (cb = "test" /\ Quiet' /\ at.plus_cnt = 0))
<1>1. /\ cb = "test" /\ UNCHANGED at /\ TimerRest
      /\ cb' = CASE at.plus_cnt = 3 -> "mark" [] at.plus_cnt = 0 -> "none" [] OTHER -> "clear"
  BY DEF TimerTest, TimerFrom
<1>2. at \in AtT /\ at = Expired /\ pre.at \in AtT /\ fd.pc = "none" /\ fd \in FeedLocals
  BY <1>1, InTimer DEF TimerReached, TimerCalled, SoFar
<1>3. at.plus_cnt = pre.at.plus_cnt
  BY <1>2 DEF Expired, AtT
<1>4. CASE at.plus_cnt = 0
  <2>1. cb' = "none" /\ fd' = fd /\ Quiet'
    BY <1>1, <1>2, <1>4 DEF TimerRest, Quiet
  <2>2. TypeOK'
    BY <1>1 DEF TimerRest, SoFar, TypeOK
  <2> QED BY <1>1, <1>2, <1>4, <2>1, <2>2, QuietTypes
<1>5. CASE at.plus_cnt = 3
  <2>1. cb' = "mark" /\ Broken
    BY <1>1, <1>3, <1>5 DEF Broken
  <2>2. pre' = pre => TimerReached'
    BY <1>1, <1>2, <2>1 DEF TimerReached, Broken, Expired
  <2> QED BY <1>1, <1>2, <2>1, <2>2, TimerGoesOn
<1>6. CASE at.plus_cnt \notin {0, 3}
  <2>1. cb' = "clear" /\ ~Broken
    BY <1>1, <1>3, <1>6 DEF Broken
  <2>2. pre' = pre => TimerReached'
    BY <1>1, <1>2, <2>1 DEF TimerReached, Broken, Expired
  <2> QED BY <1>1, <1>2, <2>1, <2>2, TimerGoesOn
<1> QED BY <1>4, <1>5, <1>6

\* Three '+' held: exit_mark is the head, which no feed moves meanwhile.
LEMMA MarkStep ==
  ASSUME SoFar, TimerMark PROVE SoFar' /\ Seen' = Seen
<1> DEFINE h == HeadIdx(stream)
<1>1. cb = "mark" /\ cb' = "request" /\ at' = [at EXCEPT !.exit_mark = h] /\ TimerRest
  BY DEF TimerMark, TimerFrom
<1>2. /\ at \in AtT /\ at = Expired /\ Broken /\ h \in 0 .. Size - 1
      /\ HeadIdx(pre.stream) = h
  BY <1>1, InTimer DEF TimerReached
<1> HIDE DEF h
<1>3. at' \in AtT
  BY <1>1, <1>2, AtMark
<1>4. pre' = pre => TimerReached'
  <2> SUFFICES ASSUME pre' = pre PROVE TimerReached'
    OBVIOUS
  <2>1. Expired' = Expired /\ (Broken' <=> Broken) /\ HeadIdx(pre.stream)' = h
    BY <1>2 DEF Expired, Broken, HeadIdx
  <2>2. at' = [Expired EXCEPT !.exit_mark = HeadIdx(pre.stream)]'
    BY <1>1, <1>2, <2>1
  <2> QED BY <1>1, <1>2, <2>1, <2>2 DEF TimerReached
<1> QED BY <1>1, <1>3, <1>4, TimerGoesOn

\* The request is written after the mark.
LEMMA RequestStep ==
  ASSUME SoFar, TimerRequest PROVE SoFar' /\ Seen' = Seen
<1> DEFINE h == HeadIdx(pre.stream)
<1>1. cb = "request" /\ cb' = "clear" /\ at' = [at EXCEPT !.exit_req = 1] /\ TimerRest
  BY DEF TimerRequest, TimerFrom
<1>2. at \in AtT /\ at = [Expired EXCEPT !.exit_mark = h] /\ Broken
  BY <1>1, InTimer DEF TimerReached
<1>3. at' \in AtT
  BY <1>1, <1>2 DEF AtT
<1>4. at' = [Expired EXCEPT !.exit_mark = h, !.exit_req = 1]
  <2> HIDE DEF h
  <2> QED BY <1>1, <1>2
<1>5. pre' = pre => TimerReached'
  <2> SUFFICES ASSUME pre' = pre PROVE TimerReached'
    OBVIOUS
  <2>1. Expired' = Expired /\ (Broken' <=> Broken) /\ h' = h
    BY DEF Expired, Broken, HeadIdx
  <2>2. at' = [Expired EXCEPT !.exit_mark = HeadIdx(pre.stream), !.exit_req = 1]'
    BY <1>4, <2>1
  <2> QED BY <1>1, <1>2, <2>1, <2>2 DEF TimerReached
<1> QED BY <1>1, <1>3, <1>5, TimerGoesOn

\* The callback ends with plus_cnt cleared.
LEMMA ClearStep ==
  ASSUME SoFar, TimerClear PROVE SoFar' /\ Quiet'
<1>1. cb = "clear" /\ cb' = "none" /\ at' = [at EXCEPT !.plus_cnt = 0] /\ TimerRest
  BY DEF TimerClear, TimerFrom
<1>2. at \in AtT /\ fd.pc = "none" /\ fd' = fd /\ fd \in FeedLocals
  BY <1>1, InTimer DEF TimerCalled, TimerRest, SoFar
<1>3. Quiet'
  BY <1>1, <1>2 DEF Quiet
<1>4. at' \in AtT
  BY <1>1, <1>2 DEF AtT
<1>5. TypeOK'
  BY <1>1, <1>4 DEF TimerRest, SoFar, TypeOK, AtT
<1> QED BY <1>2, <1>3, <1>5, QuietTypes

\* The timer expires in a session with an escape: `silent` is set first.
LEMMA ExpireStep ==
  ASSUME SoFar, TimerCall, Nested = {}
  PROVE  SoFar' /\ Seen' = Seen /\ UNCHANGED <<main, out>>
<1>1. /\ cb = "none" /\ fd.pc = "none" /\ MayRun("timer") /\ timer # "off" /\ timer' = "off"
      /\ at.mode = "DATA" /\ UsePlus /\ at' = [at EXCEPT !.silent = 1] /\ cb' = "test"
      /\ UNCHANGED <<main, out, stream, fd>> /\ Remember
      /\ hist' = IF timer = "guard"
                 THEN [hist EXCEPT !.quiet = TRUE, !.lead = FALSE, !.burst = 0] ELSE hist
  BY DEF TimerCall, TimerGoes, Expire
<1>2. Quiet /\ ~Quiet' /\ pre' = Now
  <2>1. Quiet /\ ~Quiet'
    BY <1>1 DEF Quiet
  <2> QED BY <1>1, <2>1 DEF Remember
<1>3. Seen = Now /\ Seen' = Now
  BY <1>2 DEF Seen
<1>4. at \in AtT /\ hist \in HistT /\ TypeOK /\ fd \in FeedLocals
  BY DEF SoFar, TypeOK, AtT, HistT
<1>5. at' \in AtT
  BY <1>1, <1>4 DEF AtT
<1>6. hist' \in HistT
  <2>1. TRUE \in BOOLEAN /\ FALSE \in BOOLEAN /\ 0 \in 0 .. 4
    OBVIOUS
  <2>2. [hist EXCEPT !.quiet = TRUE, !.lead = FALSE, !.burst = 0] \in HistT
    BY <1>4, <2>1, HistoryReset
  <2> QED BY <1>1, <1>4, <2>2, Zenon
<1>7. TypeOK'
  BY <1>1, <1>4, <1>5, <1>6 DEF TypeOK, AtT, HistT
<1>8. Core!TypeOK'
  BY <1>1, <1>3 DEF SoFar, Core!TypeOK
<1>9. pre'.at = at /\ pre'.timer = timer /\ pre'.hist = hist /\ pre'.stream = stream
  BY <1>2 DEF Now
<1>10. TimerCalled'
  <2>1. Core!UsePlus'
    BY <1>1, <1>3 DEF Core!UsePlus, Core!Stream, UsePlus, Stream, Now
  <2> QED BY <1>1, <1>9, <2>1 DEF TimerCalled, MayRun
<1>11. TimerReached'
  BY <1>1, <1>9 DEF TimerReached, Expired
<1> QED BY <1>1, <1>3, <1>4, <1>7, <1>8, <1>10, <1>11 DEF SoFar, FeedSoFar, TimerSoFar

\* Its last access is LwAtCore's step.
LEMMA TimerEnds ==
  ASSUME SoFar, Quiet', \/ TimerTest /\ at.plus_cnt = 0
                        \/ TimerClear
  PROVE  Core!Timer
<1>1. cb # "none" /\ TimerRest
  BY DEF TimerTest, TimerClear, TimerFrom
<1>2. /\ TimerCalled /\ TimerReached /\ Seen = pre /\ at \in AtT /\ pre.at \in AtT
      /\ Seen' = Now'
  BY <1>1, InTimer DEF Seen
<1>3. /\ Seen'.stream = stream' /\ Seen'.at = at' /\ Seen'.timer = timer' /\ Seen'.hist = hist'
  BY <1>2 DEF Now
<1>4. Core!Expire /\ Seen.at.mode = "DATA" /\ Core!UsePlus /\ Seen'.stream = Seen.stream
  BY <1>1, <1>2, <1>3 DEF TimerCalled, TimerRest, Core!Expire, MayRun, Core!MayRun
<1>5. Seen'.hist = IF Seen.timer = "guard"
                   THEN [Seen.hist EXCEPT !.quiet = TRUE, !.lead = FALSE, !.burst = 0]
                   ELSE Seen.hist
  BY <1>1, <1>2, <1>3 DEF TimerCalled, TimerRest
<1>6. Seen'.at = IF Seen.at.plus_cnt = 3
                 THEN [Seen.at EXCEPT !.silent = 1, !.plus_cnt = 0,
                                      !.exit_mark = Core!HeadIdx(Seen.stream), !.exit_req = 1]
                 ELSE [Seen.at EXCEPT !.silent = 1, !.plus_cnt = 0]
  <2> DEFINE a == pre.at
             h == HeadIdx(pre.stream)
  <2>1. a \in AtT /\ Core!HeadIdx(Seen.stream) = h /\ Seen.at = a /\ (Broken <=> a.plus_cnt = 3)
    BY <1>2 DEF HeadIdx, Core!HeadIdx, Broken
  <2>2. CASE TimerTest /\ at.plus_cnt = 0
    <3>1. at = [a EXCEPT !.silent = 1] /\ at' = at
      BY <1>2, <2>2 DEF TimerTest, TimerFrom, TimerReached, Expired
    <3> HIDE DEF a, h
    <3>2. a.plus_cnt = 0
      BY <2>1, <2>2, <3>1 DEF AtT
    <3>3. at' = [a EXCEPT !.silent = 1, !.plus_cnt = 0]
      BY <2>1, <3>1, <3>2 DEF AtT
    <3> QED BY <1>3, <2>1, <3>2, <3>3
  <2>3. CASE TimerClear /\ Broken
    <3>1. /\ at = [[a EXCEPT !.silent = 1] EXCEPT !.exit_mark = h, !.exit_req = 1]
          /\ at' = [at EXCEPT !.plus_cnt = 0]
      BY <1>2, <2>3 DEF TimerClear, TimerFrom, TimerReached, Expired
    <3> HIDE DEF a, h
    <3>2. at' = [a EXCEPT !.silent = 1, !.plus_cnt = 0, !.exit_mark = h, !.exit_req = 1]
      BY <2>1, <3>1 DEF AtT
    <3> QED BY <1>3, <2>1, <2>3, <3>2
  <2>4. CASE TimerClear /\ ~Broken
    <3>1. at = [a EXCEPT !.silent = 1] /\ at' = [at EXCEPT !.plus_cnt = 0]
      BY <1>2, <2>4 DEF TimerClear, TimerFrom, TimerReached, Expired
    <3> HIDE DEF a, h
    <3>2. at' = [a EXCEPT !.silent = 1, !.plus_cnt = 0]
      BY <2>1, <3>1 DEF AtT
    <3> QED BY <1>3, <2>1, <2>4, <3>2
  <2> QED BY <2>2, <2>3, <2>4
<1>7. Core!TimerGuard
  BY <1>4, <1>5, <1>6 DEF Core!TimerGuard
<1> QED BY <1>7 DEF Core!Timer

\* The callback is one step of LwAtCore, its last.
LEMMA TimerRefines ==
  ASSUME SoFar, TimerStep
  PROVE  SoFar' /\ (Core!Timer \/ UNCHANGED <<Seen, main, out>>)
<1>1. UNCHANGED <<main, out>>
  BY DEF TimerStep, TimerTest, TimerMark, TimerRequest, TimerClear, TimerRest
<1>2. CASE TimerTest
  <2>1. SoFar' /\ (Seen' = Seen \/ (cb = "test" /\ Quiet' /\ at.plus_cnt = 0))
    BY <1>2, TestStep
  <2>2. CASE Quiet' /\ at.plus_cnt = 0
    BY <1>2, <2>1, <2>2, TimerEnds
  <2> QED BY <1>1, <2>1, <2>2
<1>3. CASE TimerMark \/ TimerRequest
  BY <1>1, <1>3, MarkStep, RequestStep
<1>4. CASE TimerClear
  BY <1>4, ClearStep, TimerEnds
<1> QED BY <1>2, <1>3, <1>4 DEF TimerStep

\* So is the feed.
LEMMA FeedRefines ==
  ASSUME SoFar, FeedStep
  PROVE  SoFar' /\ (Core!Feed \/ UNCHANGED <<Seen, main, out>>)
<1>1. CASE FeedArm
  BY <1>1, ArmTypes, ArmFeeds
<1>2. CASE ~FeedArm
  <2>1. SoFar'
    BY <1>2, FeedEscapeStep, BeginStep, HoldStep, BreakStep, ScannedStep, FlushByteStep,
       FlushCountStep, FlushEndStep, StoreRestStep, SilentStep DEF FeedStep
  <2>2. fd.pc # "none" /\ FeedRest
    BY <1>2 DEF FeedStep, FeedEscape, FeedBegin, FeedHold, FeedBreak, FeedScanned, FlushByte,
       FlushCount, FlushEnd, FeedStoreRest, FeedSilent, FeedFrom
  <2>3. fd'.pc # "none"
    <3>1. fd \in FeedLocals /\ FeedReached /\ at \in AtT
      BY <2>2, InFeed
    <3>2. CASE FlushEnd
      <4>1. fd.next \in {"scan", "rest"} /\ FeedTo(fd.next)
        BY <3>1, <3>2 DEF FlushEnd, FeedFrom, FeedReached
      <4> QED BY <3>1, <4>1, FeedPoint
    <3>3. CASE FeedHold
      BY <3>1, <3>3 DEF FeedHold, FeedFrom, FeedLocals
    <3>4. CASE FlushByte
      BY <3>1, <3>4 DEF FlushByte, FeedFrom, FeedLocals
    <3>5. CASE FeedEscape \/ FeedScanned \/ FlushCount \/ FeedStoreRest \/ FeedSilent
      BY <3>1, <3>5, FeedPoint DEF FeedEscape, FeedScanned, FlushCount, FeedStoreRest, FeedSilent
    <3>6. CASE FeedBegin \/ FeedBreak
      <4>1. \/ FlushTo("scan") \/ FeedTo("scan") \/ FlushTo("rest") \/ FeedTo("rest")
        BY <3>6 DEF FeedBegin, FeedBreak
      <4> QED BY <3>1, <4>1, FeedPoint, FlushPoint
    <3> QED BY <1>2, <3>2, <3>3, <3>4, <3>5, <3>6 DEF FeedStep
  <2>4. pre' = pre /\ Seen' = pre /\ Seen = pre
    BY <2>2, <2>3 DEF FeedRest, Remember, Quiet, Seen
  <2> QED BY <2>1, <2>2, <2>4 DEF FeedRest
<1> QED BY <1>1, <1>2

-----------------------------------------------------------------------------
(* The theorems                                                            *)

\* A step of something that is not cut open is a step of LwAtCore.
LEMMA WholeStep ==
  ASSUME SoFar, Quiet, Whole, Next PROVE SoFar' /\ SeenNow /\ SeenNow'
<1>1. Quiet'
  BY DEF Whole, Quiet
<1>2. TypeOK'
  BY StepKeepsTypeOK DEF SoFar
<1>3. fd' \in FeedLocals
  BY DEF Whole, SoFar
<1>4. Seen = Now /\ Seen' = Now'
  BY <1>1 DEF Seen
<1>5. SeenNow /\ SeenNow'
  BY <1>4 DEF SeenNow, Now
<1> QED BY <1>1, <1>2, <1>3, <1>5, QuietTypes

\* Nothing is in progress after lw_at_init.
LEMMA GuardInitSoFar == GuardInit => SoFar /\ Core!Init
<1> SUFFICES ASSUME GuardInit PROVE SoFar /\ Core!Init
  OBVIOUS
<1>1. Init /\ Quiet /\ Seen = Now /\ fd = NoFeed
  BY DEF GuardInit, Quiet, NoFeed, Seen
<1>2. Core!Init
  BY <1>1 DEF Init, Core!Init, Now, NoSession, Core!NoSession, Idle, Core!Idle
<1>3. TypeOK
  BY <1>1, InitTypeOK
<1>4. Core!TypeOK
  BY <1>1, <1>3 DEF Now, TypeOK, Core!TypeOK, Cell, Core!Cell, Sessions, Core!Sessions, Points,
     Core!Points
<1>5. fd \in FeedLocals
  BY <1>1 DEF NoFeed, FeedLocals
<1> QED BY <1>1, <1>2, <1>3, <1>4, <1>5 DEF SoFar, FeedSoFar, TimerSoFar, Quiet

\* SoFar is about the present state only.
LEMMA NoStep ==
  ASSUME SoFar, UNCHANGED guardVars PROVE SoFar' /\ Seen' = Seen
<1>1. /\ UNCHANGED <<stream, at, timer, main, out, hist, fd, cb, pre>>
  BY DEF guardVars, vars
<1>2. (Quiet' <=> Quiet) /\ Now' = Now
  BY <1>1 DEF Quiet, Now
<1>3. Seen' = Seen
  BY <1>1, <1>2 DEF Seen
<1>4. UNCHANGED <<Held, Broken, Start>> /\ \A s, seg : Core!Put(s, seg)' = Core!Put(s, seg)
  BY <1>1, <1>3, PutStays DEF Held, Broken, Start
<1>5. TypeOK' /\ Core!TypeOK' /\ fd' \in FeedLocals
  BY <1>1, <1>3 DEF SoFar, TypeOK, Core!TypeOK
<1>6. CASE Quiet
  BY <1>1, <1>2, <1>3, <1>5, <1>6, QuietTypes
<1>7. CASE fd.pc # "none"
  <2>1. FeedCalled' /\ FeedReached /\ cb = "none"
    BY <1>1, <1>2, <1>7, FeedGoesOn, InFeed DEF Remember, FeedCalled, Quiet
  <2>2. Core!SilentAfterFeed' = Core!SilentAfterFeed
    BY <1>3 DEF Core!SilentAfterFeed, Core!Guarded
  <2>3. /\ (Run' <=> Run) /\ (RunEnds' <=> RunEnds) /\ Joined' = Joined /\ Back' = Back
        /\ StillHeld' = StillHeld /\ \A n : Holding(n)' = Holding(n)
    BY <1>1, <1>4 DEF Run, RunEnds, Joined, Back, StillHeld, Holding
  <2>4. Fed(stream, [at EXCEPT !.silent = pre.at.silent])'
          <=> Fed(stream, [at EXCEPT !.silent = pre.at.silent])
    BY <1>1, <1>4, <2>3 DEF Fed, Holding
  <2>5. FeedReached'
    BY <1>1, <1>4, <2>1, <2>2, <2>3, <2>4 DEF FeedReached, Holding
  <2> QED BY <1>1, <1>3, <1>5, <2>1, <2>5 DEF SoFar, FeedSoFar, TimerSoFar
<1>8. CASE cb # "none"
  <2>1. TimerCalled /\ TimerReached
    BY <1>8, InTimer
  <2>2. Core!UsePlus' <=> Core!UsePlus
    BY <1>3 DEF Core!UsePlus, Core!Stream
  <2>3. TimerCalled'
    BY <1>1, <2>1, <2>2 DEF TimerCalled, MayRun
  <2>4. TimerReached'
    BY <1>1, <1>4, <2>1 DEF TimerReached, Expired, HeadIdx
  <2> QED BY <1>1, <1>3, <1>5, <2>1, <2>3, <2>4 DEF SoFar, FeedSoFar, TimerSoFar, TimerCalled
<1> QED BY <1>3, <1>6, <1>7, <1>8 DEF Quiet

\* Every step keeps SoFar, and is one of LwAtCore or nothing it sees.
LEMMA GuardStep ==
  ASSUME Nested = {}, SoFar, [GuardNext]_guardVars
  PROVE  SoFar' /\ [Core!Next]_(Core!vars)
<1>0. ASSUME UNCHANGED <<Seen, main, out>> PROVE UNCHANGED Core!vars
  BY <1>0 DEF Core!vars
<1>1. CASE PlainFeed \/ PlainTimer
  <2>1. Quiet /\ Whole
    BY <1>1 DEF PlainFeed, PlainTimer, FeedGoes, TimerGoes, Quiet
  <2>2. Next
    BY <1>1 DEF PlainFeed, PlainTimer, Next, Feed, Timer
  <2> QED BY <1>1, <2>1, <2>2, WholeStep, PlainSeen DEF Core!Next
<1>2. CASE MainStep
  <2>1. Quiet /\ Whole /\ (MainLoop \/ App)
    BY <1>2 DEF MainStep
  <2>2. Next
    BY <2>1 DEF Next
  <2> QED BY <2>1, <2>2, WholeStep, MainSeen DEF Core!Next
<1>3. CASE FeedCall
  BY <1>0, <1>3, CallStep
<1>4. CASE TimerCall
  BY <1>0, <1>4, ExpireStep
<1>5. CASE FeedStep
  BY <1>0, <1>5, FeedRefines DEF Core!Next
<1>6. CASE TimerStep
  BY <1>0, <1>6, TimerRefines DEF Core!Next
<1>7. CASE UNCHANGED guardVars
  BY <1>0, <1>7, NoStep DEF guardVars, vars
<1> QED BY <1>1, <1>2, <1>3, <1>4, <1>5, <1>6, <1>7 DEF GuardNext

\* At every access of lw_at_transmit_feed and of at_timer_expired, what has been written
\* is the part of LwAtCore's step that SoFar says, when neither interrupts the other.
THEOREM GuardSoFar == ASSUME Nested = {} PROVE GuardSpec => []SoFar
<1>1. GuardInit => SoFar
  BY GuardInitSoFar
<1>2. SoFar /\ [GuardNext]_guardVars => SoFar'
  BY GuardStep
<1> QED BY <1>1, <1>2, PTL DEF GuardSpec

\* Then the byte loop of lw_at_transmit_feed, with transmit_flush_plus, and the write by
\* write callback come to LwAtCore's closed forms: what LwAtCoreProofs shows of Feed and
\* Timer holds for the code as written.
THEOREM GuardImplementsCore == ASSUME Nested = {} PROVE GuardSpec => ImplementsCore
<1>1. GuardSpec => []SoFar
  BY GuardSoFar
<1>2. GuardInit => Core!Init
  BY GuardInitSoFar
<1>3. SoFar /\ [GuardNext]_guardVars => [Core!Next]_(Core!vars)
  BY GuardStep
<1> QED BY <1>1, <1>2, <1>3, PTL DEF GuardSpec, ImplementsCore, Core!Spec

\* A '+' is put back only while one is held.
LEMMA StepRestores ==
  ASSUME Nested = {}, SoFar, Restored, [GuardNext]_guardVars PROVE Restored'
<1>1. CASE FlushByte
  <2>1. fd.pc = "flush" /\ at.plus_cnt > 0 /\ fd' = [fd EXCEPT !.pc = "count", !.back = @ + 1]
    BY <1>1 DEF FlushByte, FeedFrom
  <2>2. fd \in FeedLocals /\ at.plus_cnt = StillHeld
    BY <2>1, Flushing
  <2>3. StillHeld = fd.held - fd.back + 0
    BY <2>1 DEF StillHeld
  <2>4. fd.held \in Nat /\ fd.back \in Nat /\ fd'.back = fd.back + 1 /\ fd'.held = fd.held
    BY <2>1, <2>2 DEF FeedLocals
  <2> QED BY <2>1, <2>2, <2>3, <2>4 DEF Restored
<1>2. CASE FeedBegin \/ FeedBreak
  <2>1. fd \in FeedLocals /\ at \in AtT
    BY DEF SoFar, TypeOK, AtT
  <2>2. \/ FlushTo("scan") \/ FeedTo("scan") \/ FlushTo("rest") \/ FeedTo("rest")
    BY <1>2 DEF FeedBegin, FeedBreak
  <2>3. at.plus_cnt >= 0
    BY <2>1 DEF AtT
  <2> QED BY <2>1, <2>2, <2>3, FeedPoint, FlushPoint DEF Restored
<1>3. CASE FeedHold
  <2>1. fd' = [fd EXCEPT !.i = @ + 1] /\ fd \in FeedLocals
    BY <1>3 DEF FeedHold, SoFar
  <2> QED BY <2>1 DEF Restored, FeedLocals
<1>4. CASE \/ FeedEscape \/ FeedScanned \/ FlushCount \/ FlushEnd \/ FeedStoreRest
           \/ FeedSilent
  <2>1. fd \in FeedLocals /\ \E x : FeedTo(x)
    BY <1>4 DEF FeedEscape, FeedScanned, FlushCount, FlushEnd, FeedStoreRest, FeedSilent, SoFar
  <2> QED BY <2>1 DEF Restored, FeedTo, FeedLocals
<1>5. CASE FeedArm \/ FeedCall
  <2>1. fd'.back = 0 /\ fd'.held = 0
    <3>1. CASE FeedArm
      BY <3>1 DEF FeedArm, NoFeed
    <3>2. CASE FeedCall
      BY <3>2 DEF FeedCall, NoFeed
    <3> QED BY <1>5, <3>1, <3>2
  <2> QED BY <2>1 DEF Restored
<1>6. CASE UNCHANGED fd
  BY <1>6 DEF Restored
<1>7. CASE PlainFeed \/ PlainTimer \/ MainStep \/ TimerCall \/ TimerStep \/ UNCHANGED guardVars
  <2>1. UNCHANGED fd
    BY <1>7 DEF PlainFeed, PlainTimer, MainStep, Whole, TimerCall, TimerStep, TimerTest, TimerMark,
       TimerRequest, TimerClear, TimerRest, guardVars
  <2> QED BY <1>6, <2>1
<1> QED BY <1>1, <1>2, <1>3, <1>4, <1>5, <1>7 DEF GuardNext, FeedStep

\* And transmit_flush_plus puts back no '+' twice (transmit.c:33); the run guard_race is
\* what happens when the callback clears plus_cnt in the middle of it.
THEOREM GuardRestored == ASSUME Nested = {} PROVE GuardSpec => []Restored
<1>1. GuardSpec => []SoFar
  BY GuardSoFar
<1>2. GuardInit => Restored
  BY DEF GuardInit, NoFeed, Restored
<1>3. SoFar /\ Restored /\ [GuardNext]_guardVars => Restored'
  BY StepRestores
<1> QED BY <1>1, <1>2, <1>3, PTL DEF GuardSpec
=============================================================================
