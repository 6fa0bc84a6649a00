--------------------------- MODULE LwAtParseProofs ---------------------------
(***************************************************************************)
(* Proofs about the parser for every line, set of commands, character set  *)
(* and LW_AT_ARG_MAX: compacting the parameters over themselves overwrites *)
(* nothing unread, the slots are C strings that do not touch, and what the *)
(* handler gets is what LwAtParseRef says the line means.                  *)
(***************************************************************************)
EXTENDS LwAtParseRef, SequenceTheorems, FiniteSetTheorems, TLAPS

-----------------------------------------------------------------------------
(* The buffer *)

\* A line with its NUL.
LEMMA Terminated ==
  ASSUME NEW l \in Seq(Char)
  PROVE  /\ l \o <<NUL>> \in Seq(Char)
         /\ Len(l \o <<NUL>>) = Len(l) + 1
         /\ (l \o <<NUL>>)[Len(l) + 1] = NUL
BY CharAssumption DEF Special

\* While slots are split, the cursors are in order and inside the buffer, and there
\* is a character behind every one that is not the final NUL.
LEMMA Cursors ==
  ASSUME IInv, pc = "split"
  PROVE  /\ Len(buf) \in Nat /\ Len(buf) = Len(line) + 1
         /\ 1 <= slotStart /\ slotStart <= wr /\ wr <= rd /\ rd <= Len(buf)
         /\ slotStart \in Nat /\ wr \in Nat /\ rd \in Nat
         /\ buf[Len(buf)] = NUL
         /\ \A i \in 1 .. Len(buf) : buf[i] # NUL => i < Len(buf)
<1>1. /\ line \in Seq(Char) /\ buf \in Seq(Char)
      /\ slotStart \in Nat /\ wr \in Nat /\ rd \in Nat
  BY DEF IInv, TypeOK
<1>2. Len(buf) \in Nat /\ Len(line) \in Nat
  BY <1>1, LenProperties
<1>3. Len(buf) = Len(line) + 1
  BY DEF IInv, Loaded
<1>4. /\ 1 <= slotStart /\ slotStart <= wr /\ wr <= rd /\ rd <= Len(buf)
      /\ \A i \in rd .. Len(buf) : buf[i] = (line \o <<NUL>>)[i]
  BY DEF IInv, Unread
<1>5. buf[Len(buf)] = NUL
  BY <1>1, <1>2, <1>3, <1>4, Terminated
<1> QED BY <1>1, <1>2, <1>3, <1>4, <1>5

\* What a write to the cell at wr changes.
LEMMA Written ==
  ASSUME IInv, pc = "split", NEW c \in Char, Write(c)
  PROVE  /\ buf' \in Seq(Char) /\ Len(buf') = Len(buf)
         /\ buf'[wr] = c
         /\ \A i \in 1 .. Len(buf) : i # wr => buf'[i] = buf[i]
<1>1. buf \in Seq(Char) BY DEF IInv, TypeOK
<1>2. wr \in 1 .. Len(buf) BY Cursors
<1> QED BY <1>1, <1>2 DEF Write

\* A failed line has no slots.
LEMMA FailKeepsIInv ==
  ASSUME IInv, pc # "idle", Fail, UNCHANGED <<line, cursors>>,
         buf' \in Seq(Char), Len(buf') = Len(buf)
  PROVE  IInv'
<1>1. TypeOK'
  <2>1. inQuote' \in BOOLEAN BY Zenon DEF IInv, TypeOK, cursors
  <2>2. /\ line' \in Seq(Char) /\ rd' \in Nat /\ wr' \in Nat /\ slotStart' \in Nat
        /\ args' \in Seq(Nat) /\ pc' = "failed"
    BY DEF IInv, TypeOK, Fail, cursors
  <2> QED BY <2>1, <2>2 DEF TypeOK
<1>2. Loaded' BY DEF IInv, Loaded, Fail
<1>3. Unread' /\ SlotsApart' BY DEF Unread, SlotsApart, Fail
<1> QED BY <1>1, <1>2, <1>3 DEF IInv

-----------------------------------------------------------------------------
(* core_parse_line *)

LEMMA InitEstablishesIInv == Init => IInv
<1> SUFFICES ASSUME Init PROVE IInv
  OBVIOUS
<1>1. inQuote \in BOOLEAN BY Zenon DEF Init
<1>2. TypeOK BY <1>1 DEF Init, TypeOK
<1>3. Loaded /\ Unread /\ SlotsApart BY DEF Init, Loaded, Unread, SlotsApart
<1> QED BY <1>2, <1>3 DEF IInv

LEMMA ExecLineKeepsIInv == ASSUME IInv, ExecLine PROVE IInv'
<1>1. line' \in Seq(Char) /\ line' # <<>>
  BY LinesAssumption DEF ExecLine
<1>2. buf' = line' \o <<NUL>> /\ pc' = "parse" BY DEF ExecLine
<1>3. buf' \in Seq(Char) /\ Len(buf') = Len(line') + 1 BY <1>1, <1>2, Terminated
<1>4. args' = <<>> BY DEF ExecLine, IInv, Loaded
<1>5. inQuote' \in BOOLEAN BY Zenon DEF ExecLine, IInv, TypeOK, cursors
<1>6. rd' \in Nat /\ wr' \in Nat /\ slotStart' \in Nat
  BY DEF ExecLine, IInv, TypeOK, cursors
<1>7. TypeOK' BY <1>1, <1>2, <1>3, <1>4, <1>5, <1>6 DEF TypeOK
<1>8. Loaded' BY <1>1, <1>2, <1>3, <1>4 DEF Loaded
<1>9. Unread' /\ SlotsApart' BY <1>2 DEF Unread, SlotsApart
<1> QED BY <1>7, <1>8, <1>9 DEF IInv

\* The delimiter is overwritten; what is behind it is the host's text.
LEMMA NamedFacts ==
  ASSUME IInv, NEW p \in 3 .. Len(buf), Named(p)
  PROVE  /\ pc = "parse" /\ args = <<>> /\ line \in Seq(Char) /\ line # <<>>
         /\ buf' \in Seq(Char) /\ Len(buf') = Len(buf)
         /\ Len(buf) = Len(line) + 1 /\ Len(buf) \in Nat
         /\ buf[p] # NUL => p < Len(buf)
         /\ \A i \in p + 1 .. Len(buf) : buf'[i] = (line \o <<NUL>>)[i]
<1>1. /\ pc = "parse" /\ buf = line \o <<NUL>> /\ args = <<>> /\ line # <<>>
      /\ Len(buf) = Len(line) + 1
  BY DEF IInv, Loaded, Named
<1>2. buf' = [buf EXCEPT ![p] = NUL] BY DEF Named
<1>3. line \in Seq(Char) /\ buf \in Seq(Char) /\ NUL \in Char
  BY CharAssumption DEF IInv, TypeOK, Special
<1>4. Len(line) \in Nat /\ Len(buf) \in Nat BY <1>3, LenProperties
<1>5. buf[Len(buf)] = NUL BY <1>1, <1>3, Terminated
<1>6. buf' \in Seq(Char) /\ Len(buf') = Len(buf) BY <1>2, <1>3
<1>7. \A i \in p + 1 .. Len(buf) : buf'[i] = buf[i] BY <1>2, <1>3, <1>4
<1> QED BY <1>1, <1>3, <1>4, <1>5, <1>6, <1>7

LEMMA CallKeepsIInv ==
  ASSUME IInv, NEW p \in 3 .. Len(buf), Call(p)
  PROVE  IInv'
<1> Named(p) BY DEF Call
<1>1. /\ pc' = "handler" /\ UNCHANGED <<line, args, rd, wr, slotStart>>
  BY DEF Call, cursors
<1>2. args' = <<>> BY <1>1, NamedFacts
<1>3. inQuote' \in BOOLEAN BY Zenon DEF Call, cursors, IInv, TypeOK
<1>4. rd' \in Nat /\ wr' \in Nat /\ slotStart' \in Nat BY <1>1 DEF IInv, TypeOK
<1>5. TypeOK' BY <1>1, <1>2, <1>3, <1>4, NamedFacts DEF TypeOK
<1>6. Loaded' BY <1>1, NamedFacts DEF Loaded
<1>7. Unread' BY <1>1 DEF Unread
<1>8. SlotsApart' BY <1>1, <1>2, ArgMaxAssumption DEF SlotsApart
<1> QED BY <1>5, <1>6, <1>7, <1>8 DEF IInv

LEMMA SplitStartKeepsIInv ==
  ASSUME IInv, NEW p \in 3 .. Len(buf), SplitStart(p)
  PROVE  IInv'
<1> Named(p) BY DEF SplitStart
<1>1. /\ pc' = "split" /\ args' = <<>> /\ line' = line
      /\ rd' = p + 1 /\ wr' = p + 1 /\ slotStart' = p + 1
  BY DEF SplitStart
<1>2. inQuote' \in BOOLEAN BY Zenon DEF SplitStart
<1>3. buf[p] # NUL BY DEF SplitStart, KindAt
<1>4. p + 1 \in Nat /\ 1 <= p + 1 /\ p + 1 <= Len(buf) /\ Len(buf) \in Nat
  BY <1>3, NamedFacts
<1>5. TypeOK' BY <1>1, <1>2, <1>4, NamedFacts DEF TypeOK
<1>6. Loaded' BY <1>1, NamedFacts DEF Loaded
<1>7. Unread'
  <2>1. \A i \in p + 1 .. Len(buf) : buf'[i] = (line' \o <<NUL>>)[i]
    BY <1>1, NamedFacts
  <2>2. Len(buf') = Len(buf) BY NamedFacts
  <2>3. \A i \in rd' .. Len(buf') : buf'[i] = (line' \o <<NUL>>)[i]
    BY <1>1, <2>1, <2>2
  <2>4. 1 <= slotStart' /\ slotStart' <= wr' /\ wr' <= rd' /\ rd' <= Len(buf')
    BY <1>1, <1>4, <2>2
  <2> QED BY <2>3, <2>4, Zenon DEF Unread
<1>8. SlotsApart' BY <1>1, <1>4, ArgMaxAssumption DEF SlotsApart
<1> QED BY <1>5, <1>6, <1>7, <1>8 DEF IInv

-----------------------------------------------------------------------------
(* core_split_slots *)

\* Writing behind rd, or not at all, and reading on leaves the unread text alone.
LEMMA UnreadKept ==
  ASSUME IInv, pc = "split", line' = line, Len(buf') = Len(buf),
         \A i \in 1 .. Len(buf) : i # wr => buf'[i] = buf[i],
         {rd', wr', slotStart'} \subseteq Nat,
         rd < rd', rd' <= Len(buf),
         1 <= slotStart', slotStart' <= wr', wr' <= rd'
  PROVE  Unread'
<1>1. \A i \in rd .. Len(buf) : buf[i] = (line \o <<NUL>>)[i] BY DEF IInv, Unread
<1>2. \A i \in rd' .. Len(buf) : i \in rd .. Len(buf) /\ i # wr /\ i \in 1 .. Len(buf)
  BY Cursors
<1>3. \A i \in rd' .. Len(buf') : buf'[i] = (line' \o <<NUL>>)[i] BY <1>1, <1>2
<1> QED BY <1>3 DEF Unread

\* The slots so far, each with its NUL, lie in front of wr.
LEMMA SlotsSoFar ==
  ASSUME IInv, pc = "split", NEW k \in 1 .. Len(args)
  PROVE  /\ 1 <= args[k] /\ args[k] <= SlotLimit(k) /\ SlotLimit(k) < wr
         /\ args[k] \in Nat /\ SlotLimit(k) \in Nat
         /\ buf[SlotLimit(k)] = NUL
         /\ \A i \in args[k] .. SlotLimit(k) - 1 : buf[i] # NUL
<1>1. args \in Seq(Nat) /\ slotStart \in Nat /\ wr \in Nat /\ slotStart <= wr
  BY Cursors DEF IInv, TypeOK
<1>2. \A j \in 1 .. Len(args) :
        /\ 1 <= args[j] /\ args[j] <= SlotLimit(j) /\ SlotLimit(j) <= wr
        /\ buf[SlotLimit(j)] = NUL
        /\ \A i \in args[j] .. SlotLimit(j) - 1 : buf[i] # NUL
  BY DEF IInv, SlotsApart
<1>3. args[k] \in Nat BY <1>1
<1>4. CASE k < Len(args)
  <2>1. SlotLimit(k) = args[k + 1] - 1 BY <1>4 DEF SlotLimit
  <2>2. k + 1 \in 1 .. Len(args) BY <1>1, <1>4
  <2>3. args[k + 1] \in Nat BY <1>1, <2>2
  <2>4. args[k + 1] <= wr
    <3>1. SlotLimit(k + 1) \in Int BY <1>1, <2>2 DEF SlotLimit
    <3> QED BY <1>1, <1>2, <2>2, <2>3, <3>1
  <2>5. args[k] <= SlotLimit(k) BY <1>2
  <2>6. SlotLimit(k) < wr /\ SlotLimit(k) \in Nat
    BY ONLY <1>1, <1>3, <2>1, <2>3, <2>4, <2>5
  <2> QED BY <1>2, <1>3, <2>6
<1>5. CASE k = Len(args)
  <2>1. SlotLimit(k) = slotStart - 1 BY <1>5 DEF SlotLimit
  <2> QED BY <1>1, <1>2, <1>3, <2>1
<1> QED BY <1>1, <1>4, <1>5

\* Places in front of a bound.
LEMMA Between ==
  ASSUME NEW a \in Nat, NEW b \in Nat, NEW c \in Nat, 1 <= a, a <= b, b < c
  PROVE  b \in 1 .. c - 1 /\ \A i \in a .. b - 1 : i \in 1 .. c - 1
OBVIOUS

\* Ending the open slot with a NUL at wr makes it one more of the slots.
LEMMA EndedSlots ==
  ASSUME IInv, pc = "split", Write(NUL), args' = Append(args, slotStart),
         NEW k \in 1 .. Len(args'), NEW limit,
         limit = IF k < Len(args') THEN args'[k + 1] - 1 ELSE wr
  PROVE  /\ 1 <= args'[k] /\ args'[k] <= limit /\ limit <= wr
         /\ buf'[limit] = NUL
         /\ \A i \in args'[k] .. limit - 1 : buf'[i] # NUL
<1> NUL \in Char BY CharAssumption DEF Special
<1>1. args \in Seq(Nat) /\ slotStart \in Nat BY DEF IInv, TypeOK
<1>2. /\ Len(args') = Len(args) + 1 /\ args'[Len(args) + 1] = slotStart
      /\ \A j \in 1 .. Len(args) : args'[j] = args[j]
  BY <1>1
<1>3. CASE k \in 1 .. Len(args)
  <2>1. limit = SlotLimit(k) BY <1>1, <1>2, <1>3 DEF SlotLimit
  <2>2. args'[k] = args[k] BY <1>2, <1>3
  <2>3. \A i \in 1 .. wr - 1 : buf'[i] = buf[i] BY Written, Cursors
  <2>4. /\ 1 <= args[k] /\ args[k] <= limit /\ limit < wr
        /\ args[k] \in Nat /\ limit \in Nat /\ buf[limit] = NUL
        /\ \A i \in args[k] .. limit - 1 : buf[i] # NUL
    BY <1>3, <2>1, SlotsSoFar
  <2>5. limit \in 1 .. wr - 1 /\ \A i \in args[k] .. limit - 1 : i \in 1 .. wr - 1
    <3>1. wr \in Nat BY Cursors
    <3> QED BY ONLY <2>4, <3>1, Between
  <2>6. buf'[limit] = NUL BY <2>3, <2>4, <2>5
  <2>7. \A i \in args'[k] .. limit - 1 : buf'[i] # NUL
    BY ONLY <2>2, <2>3, <2>4, <2>5
  <2>8. limit <= wr BY <2>4, Cursors
  <2> QED BY <2>2, <2>4, <2>6, <2>7, <2>8
<1>4. CASE k = Len(args) + 1
  <2>1. limit = wr /\ args'[k] = slotStart BY <1>1, <1>2, <1>4
  <2>2. \A i \in slotStart .. wr - 1 : buf[i] # NUL BY DEF IInv, SlotsApart
  <2>3. \A i \in 1 .. wr - 1 : buf'[i] = buf[i] BY Written, Cursors
  <2>4. buf'[limit] = NUL BY <2>1, Written
  <2>5. \A i \in args'[k] .. limit - 1 : buf'[i] # NUL
    <3>1. 1 <= slotStart /\ slotStart \in Nat /\ wr \in Nat BY Cursors
    <3> QED BY ONLY <2>1, <2>2, <2>3, <3>1
  <2>6. 1 <= args'[k] /\ args'[k] <= limit /\ limit <= wr BY <2>1, Cursors
  <2> QED BY <2>4, <2>5, <2>6
<1> QED BY <1>1, <1>2, <1>3, <1>4

\* A slot is ended: the cell at wr becomes NUL.  With too many slots the line fails.
LEMMA SlotEndKeepsIInv == ASSUME IInv, SlotEnd PROVE IInv'
<1> NUL \in Char BY CharAssumption DEF Special
<1>1. /\ pc = "split" /\ Write(NUL) /\ Push("handler")
      /\ UNCHANGED <<line, cursors>>
  BY DEF SlotEnd, At
<1>2. CASE Fail BY <1>1, <1>2, Written, FailKeepsIInv
<1>3. CASE ~Fail
  <2>1. /\ pc' = "handler" /\ args' = Append(args, slotStart) /\ Len(args) < ArgMax
    BY <1>1, <1>3, ArgMaxAssumption DEF Push, IInv, TypeOK
  <2>2. UNCHANGED <<line, rd, wr, slotStart>> BY <1>1 DEF cursors
  <2>3. inQuote' \in BOOLEAN BY <1>1, Zenon DEF cursors, IInv, TypeOK
  <2>4. args \in Seq(Nat) /\ slotStart \in Nat BY DEF IInv, TypeOK
  <2>5. TypeOK' BY <1>1, <2>1, <2>2, <2>3, <2>4, Written DEF IInv, TypeOK
  <2>6. Loaded' BY <1>1, <2>1, <2>2, Written DEF IInv, Loaded
  <2>7. Unread' BY <2>1 DEF Unread
  <2>8. SlotsApart'
    <3>1. Len(args') <= ArgMax BY <2>1, <2>4, ArgMaxAssumption
    <3>2. wr' <= Len(buf') BY <1>1, <2>2, Cursors, Written
    <3>3. ASSUME NEW k \in 1 .. Len(args')
          PROVE  SlotLimit(k)' = IF k < Len(args') THEN args'[k + 1] - 1 ELSE wr
      BY <2>1, <2>2 DEF SlotLimit
    <3> QED BY <1>1, <2>1, <2>2, <3>1, <3>2, <3>3, EndedSlots DEF SlotsApart
  <2> QED BY <2>5, <2>6, <2>7, <2>8 DEF IInv
<1> QED BY <1>2, <1>3

LEMMA SlotCommaKeepsIInv == ASSUME IInv, SlotComma PROVE IInv'
<1> NUL \in Char BY CharAssumption DEF Special
<1>1. /\ pc = "split" /\ buf[rd] = Comma /\ Write(NUL) /\ Push("split")
      /\ line' = line /\ inQuote' = inQuote
      /\ wr' = wr + 1 /\ rd' = rd + 1 /\ slotStart' = wr + 1
  BY Zenon DEF SlotComma, At
<1>2. rd < Len(buf) BY <1>1, Cursors, SpecialAssumption
<1>3. inQuote' \in BOOLEAN BY <1>1, Zenon DEF IInv, TypeOK
<1>4. args \in Seq(Nat) /\ {rd, wr, slotStart} \subseteq Nat BY DEF IInv, TypeOK
<1>5. CASE Len(args) >= ArgMax
  <2>1. pc' = "failed" /\ args' = <<>> BY <1>1, <1>5 DEF Push, Fail
  <2>2. TypeOK' BY <1>1, <1>3, <1>4, <2>1, Written DEF IInv, TypeOK
  <2>3. Loaded' BY <1>1, <2>1, Written DEF IInv, Loaded
  <2>4. Unread' /\ SlotsApart' BY <2>1 DEF Unread, SlotsApart
  <2> QED BY <2>2, <2>3, <2>4 DEF IInv
<1>6. CASE ~(Len(args) >= ArgMax)
  <2>1. pc' = "split" /\ args' = Append(args, slotStart) BY <1>1, <1>6 DEF Push
  <2>2. TypeOK' BY <1>1, <1>3, <1>4, <2>1, Written DEF IInv, TypeOK
  <2>3. Loaded' BY <1>1, <2>1, Written DEF IInv, Loaded
  <2>4. Unread' BY <1>1, <1>2, <1>4, Cursors, UnreadKept, Written
  <2>5. SlotsApart'
    <3>1. Len(args') <= ArgMax BY <1>4, <1>6, <2>1, ArgMaxAssumption
    <3>2. wr' <= Len(buf') BY <1>1, <1>2, Cursors, Written
    <3>3. ASSUME NEW k \in 1 .. Len(args')
          PROVE  SlotLimit(k)' = IF k < Len(args') THEN args'[k + 1] - 1 ELSE wr
      BY <1>1, <1>4, <2>1 DEF SlotLimit
    <3>4. \A i \in slotStart' .. wr' - 1 : buf'[i] # NUL BY <1>1, <1>4
    <3>5. wr <= wr' BY <1>1, <1>4
    <3>6. ASSUME NEW k \in 1 .. Len(args')
          PROVE  /\ 1 <= args'[k] /\ args'[k] <= SlotLimit(k)' /\ SlotLimit(k)' <= wr'
                 /\ buf'[SlotLimit(k)'] = NUL
                 /\ \A i \in args'[k] .. SlotLimit(k)' - 1 : buf'[i] # NUL
      <4> DEFINE limit == IF k < Len(args') THEN args'[k + 1] - 1 ELSE wr
      <4>1. /\ 1 <= args'[k] /\ args'[k] <= limit /\ limit <= wr
            /\ buf'[limit] = NUL
            /\ \A i \in args'[k] .. limit - 1 : buf'[i] # NUL
        BY <1>1, <2>1, EndedSlots
      <4>2. limit \in Int
        <5>1. args' \in Seq(Nat) BY <1>4, <2>1
        <5>2. k < Len(args') => k + 1 \in 1 .. Len(args') BY <5>1
        <5>3. k < Len(args') => args'[k + 1] \in Nat BY <5>1, <5>2
        <5> QED BY <1>4, <5>3
      <4>3. SlotLimit(k)' = limit BY <3>3
      <4> HIDE DEF limit
      <4>4. limit <= wr' BY <1>1, <1>4, <4>1, <4>2
      <4> QED BY <4>1, <4>3, <4>4
    <3> QED BY <2>1, <3>1, <3>2, <3>4, <3>6 DEF SlotsApart
  <2> QED BY <2>2, <2>3, <2>4, <2>5 DEF IInv
<1> QED BY <1>4, <1>5, <1>6, ArgMaxAssumption

LEMMA QuoteMarkKeepsIInv == ASSUME IInv, QuoteMark PROVE IInv'
<1>1. /\ pc = "split" /\ buf[rd] = Quote /\ rd' = rd + 1
      /\ UNCHANGED <<line, buf, pc, wr, slotStart, args>>
  BY DEF QuoteMark, At
<1>2. inQuote' \in BOOLEAN BY Zenon DEF QuoteMark, IInv, TypeOK
<1>3. rd < Len(buf) BY <1>1, Cursors, SpecialAssumption
<1>4. TypeOK' BY <1>1, <1>2 DEF IInv, TypeOK
<1>5. Loaded' BY <1>1 DEF IInv, Loaded
<1>6. Unread' BY <1>1, <1>3, Cursors, UnreadKept
<1>7. SlotsApart'
  <2>1. \A k \in 1 .. Len(args) : SlotLimit(k)' = SlotLimit(k) BY <1>1 DEF SlotLimit
  <2> QED BY <1>1, <2>1 DEF IInv, SlotsApart
<1> QED BY <1>4, <1>5, <1>6, <1>7 DEF IInv

\* A character other than NUL is added to the open slot.
LEMMA CopyKeepsIInv ==
  ASSUME IInv, pc = "split", NEW c \in Char \ {NUL}, Write(c),
         wr' = wr + 1, rd' \in Nat, rd < rd', rd' <= Len(buf),
         UNCHANGED <<line, pc, slotStart, inQuote, args>>
  PROVE  IInv'
<1>1. /\ buf' \in Seq(Char) /\ Len(buf') = Len(buf) /\ buf'[wr] = c
      /\ \A i \in 1 .. Len(buf) : i # wr => buf'[i] = buf[i]
  BY Written
<1>2. wr \in Nat /\ slotStart \in Nat /\ args \in Seq(Nat) BY DEF IInv, TypeOK
<1>3. inQuote' \in BOOLEAN BY Zenon DEF IInv, TypeOK
<1>4. TypeOK' BY <1>1, <1>2, <1>3 DEF IInv, TypeOK
<1>5. Loaded' BY <1>1 DEF IInv, Loaded
<1>6. Unread' BY <1>1, <1>2, Cursors, UnreadKept
<1>7. SlotsApart'
  <2>1. \A i \in 1 .. wr - 1 : buf'[i] = buf[i] BY <1>1, Cursors
  <2>2. ASSUME NEW k \in 1 .. Len(args)
        PROVE  /\ 1 <= args'[k] /\ args'[k] <= SlotLimit(k)' /\ SlotLimit(k)' <= wr'
               /\ buf'[SlotLimit(k)'] = NUL
               /\ \A i \in args'[k] .. SlotLimit(k)' - 1 : buf'[i] # NUL
    <3>1. SlotLimit(k)' = SlotLimit(k) /\ args' = args BY DEF SlotLimit
    <3>2. /\ 1 <= args[k] /\ args[k] <= SlotLimit(k) /\ SlotLimit(k) < wr
          /\ args[k] \in Nat /\ SlotLimit(k) \in Nat
          /\ buf[SlotLimit(k)] = NUL
          /\ \A i \in args[k] .. SlotLimit(k) - 1 : buf[i] # NUL
      BY SlotsSoFar
    <3>3. /\ SlotLimit(k) \in 1 .. wr - 1
          /\ \A i \in args[k] .. SlotLimit(k) - 1 : i \in 1 .. wr - 1
      BY <1>2, <3>2
    <3>4. buf'[SlotLimit(k)] = NUL /\ SlotLimit(k) <= wr' BY <1>2, <2>1, <3>2, <3>3
    <3>5. \A i \in args[k] .. SlotLimit(k) - 1 : buf'[i] # NUL BY <2>1, <3>2, <3>3
    <3> QED BY <3>1, <3>2, <3>4, <3>5
  <2>3. \A i \in slotStart' .. wr' - 1 : buf'[i] # NUL
    <3>1. \A i \in slotStart .. wr - 1 : buf[i] # NUL BY DEF IInv, SlotsApart
    <3>2. wr' - 1 = wr /\ slotStart' = slotStart /\ buf'[wr] # NUL BY <1>1, <1>2
    <3>3. \A i \in slotStart .. wr : i = wr \/ (i \in slotStart .. wr - 1 /\ i \in 1 .. wr - 1)
      BY <1>2, Cursors
    <3> QED BY <2>1, <3>1, <3>2, <3>3
  <2>4. wr' <= Len(buf')
    <3>1. wr + 1 <= Len(buf) BY Cursors
    <3> QED BY <1>1, <3>1
  <2>5. Len(args') <= ArgMax
    <3>1. Len(args) <= ArgMax BY Zenon DEF IInv, SlotsApart
    <3> QED BY <3>1
  <2> QED BY <2>2, <2>3, <2>4, <2>5 DEF SlotsApart
<1> QED BY <1>4, <1>5, <1>6, <1>7 DEF IInv

LEMMA EscapedKeepsIInv == ASSUME IInv, Escaped PROVE IInv'
<1>1. /\ pc = "split" /\ buf[rd] = Escape /\ buf[rd + 1] # NUL
      /\ Write(buf[rd + 1]) /\ wr' = wr + 1 /\ rd' = rd + 2
      /\ UNCHANGED <<line, pc, slotStart, inQuote, args>>
  BY Zenon DEF Escaped, At
<1>2. buf \in Seq(Char) BY DEF IInv, TypeOK
<1>3. rd < Len(buf) BY <1>1, Cursors, SpecialAssumption
<1>4. rd + 1 \in 1 .. Len(buf) BY <1>1, <1>3, Cursors
<1>5. rd + 1 < Len(buf) /\ buf[rd + 1] \in Char \ {NUL} BY <1>1, <1>2, <1>4, Cursors
<1>6. rd' \in Nat /\ rd < rd' /\ rd' <= Len(buf) BY <1>1, <1>5, Cursors
<1> QED BY <1>1, <1>5, <1>6, CopyKeepsIInv

LEMMA PlainKeepsIInv == ASSUME IInv, Plain PROVE IInv'
<1>1. /\ pc = "split" /\ buf[rd] # NUL
      /\ Write(buf[rd]) /\ wr' = wr + 1 /\ rd' = rd + 1
      /\ UNCHANGED <<line, pc, slotStart, inQuote, args>>
  BY Zenon DEF Plain
<1>2. buf \in Seq(Char) BY DEF IInv, TypeOK
<1>3. rd \in 1 .. Len(buf) /\ rd < Len(buf) BY <1>1, Cursors
<1>4. buf[rd] \in Char \ {NUL} BY <1>1, <1>2, <1>3
<1>5. rd' \in Nat /\ rd < rd' /\ rd' <= Len(buf) BY <1>1, <1>3, Cursors
<1> QED BY <1>1, <1>4, <1>5, CopyKeepsIInv

-----------------------------------------------------------------------------

\* Actions that only give up.
LEMMA GivingUpKeepsIInv ==
  ASSUME IInv, \/ BadPrefix \/ Unclosed \/ Dangling
               \/ \E p \in 3 .. Len(buf) : NoHandler(p)
  PROVE  IInv'
<1>1. CASE BadPrefix
  <2>1. buf \in Seq(Char) BY DEF IInv, TypeOK
  <2> QED BY <1>1, <2>1, FailKeepsIInv DEF BadPrefix
<1>2. CASE Unclosed \/ Dangling
  <2>1. buf \in Seq(Char) BY DEF IInv, TypeOK
  <2> QED BY <1>2, <2>1, FailKeepsIInv DEF Unclosed, Dangling, At
<1>3. CASE \E p \in 3 .. Len(buf) : NoHandler(p)
  <2>1. PICK p \in 3 .. Len(buf) : NoHandler(p) BY <1>3
  <2>2. Named(p) /\ Fail /\ UNCHANGED <<line, cursors>> BY <2>1 DEF NoHandler
  <2> QED BY <2>2, NamedFacts, FailKeepsIInv
<1> QED BY <1>1, <1>2, <1>3

LEMMA ReturnKeepsIInv == ASSUME IInv, Return PROVE IInv'
<1>1. inQuote' \in BOOLEAN BY Zenon DEF Return
<1>2. /\ pc' = "idle" /\ args' = <<>> /\ line' = <<>> /\ buf' = <<>>
      /\ rd' = 0 /\ wr' = 0 /\ slotStart' = 0
  BY DEF Return
<1>3. TypeOK' BY <1>1, <1>2 DEF TypeOK
<1>4. Loaded' /\ Unread' /\ SlotsApart' BY <1>2 DEF Loaded, Unread, SlotsApart
<1> QED BY <1>3, <1>4 DEF IInv

LEMMA StutterKeepsIInv == ASSUME IInv, UNCHANGED vars PROVE IInv'
<1>1. UNCHANGED <<line, buf, pc, rd, wr, slotStart, args>> BY DEF vars, cursors
<1>2. inQuote' = inQuote BY Zenon DEF vars, cursors
<1>3. TypeOK' BY <1>1, <1>2 DEF IInv, TypeOK
<1>4. Loaded' /\ Unread' BY <1>1 DEF IInv, Loaded, Unread
<1>5. SlotsApart'
  <2>1. \A k : SlotLimit(k)' = SlotLimit(k) BY <1>1 DEF SlotLimit
  <2> QED BY <1>1, <2>1 DEF IInv, SlotsApart
<1> QED BY <1>3, <1>4, <1>5 DEF IInv

\* For all lines, commands and limits: in place of the parameters come their slots,
\* side by side, none over text still to be read (core_split_slots, core.c:113-203).
THEOREM ParseSafe == Spec => []IInv
<1>1. Init => IInv BY InitEstablishesIInv
<1>2. ASSUME IInv, [Next]_vars PROVE IInv'
  <2>1. CASE ExecLine BY <1>2, <2>1, ExecLineKeepsIInv
  <2>2. CASE BadPrefix \/ Unclosed \/ Dangling \/ \E p \in 3 .. Len(buf) : NoHandler(p)
    BY <1>2, <2>2, GivingUpKeepsIInv
  <2>3. CASE \E p \in 3 .. Len(buf) : Call(p) BY <1>2, <2>3, CallKeepsIInv
  <2>4. CASE \E p \in 3 .. Len(buf) : SplitStart(p) BY <1>2, <2>4, SplitStartKeepsIInv
  <2>5. CASE SlotEnd BY <1>2, <2>5, SlotEndKeepsIInv
  <2>6. CASE SlotComma BY <1>2, <2>6, SlotCommaKeepsIInv
  <2>7. CASE QuoteMark BY <1>2, <2>7, QuoteMarkKeepsIInv
  <2>8. CASE Escaped BY <1>2, <2>8, EscapedKeepsIInv
  <2>9. CASE Plain BY <1>2, <2>9, PlainKeepsIInv
  <2>10. CASE Return BY <1>2, <2>10, ReturnKeepsIInv
  <2>11. CASE UNCHANGED vars BY <1>2, <2>11, StutterKeepsIInv
  <2> QED BY <1>2, <2>1, <2>2, <2>3, <2>4, <2>5, <2>6, <2>7, <2>8, <2>9, <2>10, <2>11
          DEF Next, Split
<1> QED BY <1>1, <1>2, PTL DEF Spec

-----------------------------------------------------------------------------
(* Counting *)

\* Induction over numbers, as the existence of a least one.
LEMMA LeastNat ==
  ASSUME NEW S, S \subseteq Nat, S # {}
  PROVE  \E n \in S : \A m \in S : n <= m
<1> DEFINE R == OpToRel(<, Nat)
<1>1. IsWellFoundedOn(R, Nat)
  BY NatLessThanWellFounded
<1>2. \A x, y \in Nat : y < x => <<y, x>> \in R
  BY DEF OpToRel
<1> HIDE DEF R
<1>3. \E x \in S : \A y \in S : ~(<<y, x>> \in R)
  BY <1>1, WFMin
<1>4. PICK n \in S : \A y \in S : ~(<<y, n>> \in R)
  BY <1>3
<1>5. ASSUME NEW m \in S PROVE n <= m
  <2>1. n \in Nat /\ m \in Nat
    OBVIOUS
  <2>2. ~(m < n)
    BY <1>2, <1>4, <2>1
  <2> QED BY <2>1, <2>2
<1> QED BY <1>5

\* The members of a set that are not beyond i, counted from one i to the next.
LEMMA RankStep ==
  ASSUME NEW m \in Nat, NEW P \in SUBSET (1 .. m), NEW i \in Nat
  PROVE  /\ IsFiniteSet(P) /\ Cardinality(P) \in Nat /\ Rank(P, i) \in Nat
         /\ Rank(P, 0) = 0
         /\ Rank(P, m) = Cardinality(P)
         /\ Rank(P, i) <= Cardinality(P)
         /\ i + 1 \in P => Rank(P, i + 1) = Rank(P, i) + 1
         /\ i + 1 \notin P => Rank(P, i + 1) = Rank(P, i)
<1> DEFINE Upto(n) == {j \in P : j <= n}
<1>1. IsFiniteSet(1 .. m)
  BY FS_Interval
<1>2. IsFiniteSet(P) /\ Cardinality(P) \in Nat
  BY <1>1, FS_Subset, FS_CardinalityType
<1>3. \A n : IsFiniteSet(Upto(n)) /\ Cardinality(Upto(n)) \in Nat
             /\ Cardinality(Upto(n)) <= Cardinality(P)
  BY <1>2, FS_Subset, FS_CardinalityType
<1>0. \A j \in P : j \in Nat /\ 1 <= j /\ j <= m
  OBVIOUS
<1>4. Upto(0) = {} /\ Upto(m) = P
  <2>1. \A j \in P : ~(j <= 0) /\ j <= m
    BY <1>0
  <2> QED BY <2>1
<1>5. Upto(i + 1) = IF i + 1 \in P THEN Upto(i) \cup {i + 1} ELSE Upto(i)
  <2>1. \A j \in P : j <= i + 1 <=> j <= i \/ j = i + 1
    BY <1>0
  <2> QED BY <1>0, <2>1
<1>6. i + 1 \notin Upto(i)
  OBVIOUS
<1>7. \A n : Rank(P, n) = Cardinality(Upto(n))
  BY DEF Rank
<1> HIDE DEF Upto
<1>8. Cardinality(Upto(i + 1)) = Cardinality(Upto(i)) + (IF i + 1 \in P THEN 1 ELSE 0)
  BY <1>3, <1>5, <1>6, FS_AddElement
<1> QED BY <1>2, <1>3, <1>4, <1>7, <1>8, FS_EmptySet

LEMMA RankNext ==
  ASSUME NEW m \in Nat, NEW P \in SUBSET (1 .. m), NEW i \in Nat
  PROVE  /\ i + 1 \in P => Rank(P, i + 1) = Rank(P, i) + 1
         /\ i + 1 \notin P => Rank(P, i + 1) = Rank(P, i)
BY RankStep

LEMMA RankEnds ==
  ASSUME NEW m \in Nat, NEW P \in SUBSET (1 .. m)
  PROVE  Rank(P, 0) = 0 /\ Rank(P, m) = Cardinality(P) /\ Cardinality(P) \in Nat
BY RankStep

\* Each number up to the size of a set is the rank of one of its members.
LEMMA RankOnto ==
  ASSUME NEW m \in Nat, NEW P \in SUBSET (1 .. m), NEW n \in 1 .. Cardinality(P)
  PROVE  \E i \in P : Rank(P, i) = n
<1> DEFINE S == {i \in Nat : Rank(P, i) >= n}
<1>1. m \in S
  BY RankStep
<1>2. PICK i \in S : \A j \in S : i <= j
  BY <1>1, LeastNat
<1>3. i \in Nat /\ Rank(P, i) >= n /\ Rank(P, i) \in Nat /\ Rank(P, 0) = 0
  BY <1>2, RankStep
<1>4. i # 0
  BY <1>3
<1> DEFINE h == i - 1
<1>5. h \in Nat /\ h + 1 = i
  BY <1>3, <1>4
<1>6. h \notin S
  BY <1>2, <1>5
<1> HIDE DEF h
<1>7. /\ Rank(P, h) \in Nat
      /\ h + 1 \in P => Rank(P, h + 1) = Rank(P, h) + 1
      /\ h + 1 \notin P => Rank(P, h + 1) = Rank(P, h)
  <2>1. h \in Nat
    BY <1>5
  <2>2. Rank(P, h) \in Nat
    BY <2>1, RankStep
  <2> QED BY <2>1, <2>2, RankNext
<1>8. ~(Rank(P, h) >= n)
  BY <1>5, <1>6
<1> HIDE DEF S
<1>9. h + 1 \in P /\ Rank(P, h + 1) = n
  BY <1>3, <1>5, <1>7, <1>8
<1> QED BY <1>9

LEMMA RankOneToOne ==
  ASSUME NEW m \in Nat, NEW P \in SUBSET (1 .. m), NEW i \in P, NEW j \in P, i < j
  PROVE  Rank(P, i) < Rank(P, j)
<1> DEFINE A1 == {k \in P : k <= i}
           B1 == {k \in P : k <= j}
<1>1. IsFiniteSet(P)
  BY RankStep
<1>2. IsFiniteSet(A1) /\ IsFiniteSet(B1)
  BY <1>1, FS_Subset
<1>3. A1 \subseteq B1 /\ j \in B1 /\ j \notin A1
  <2>1. \A k \in P : k \in Nat
    OBVIOUS
  <2>2. \A k \in P : k <= i => k <= j
    BY <2>1
  <2>3. i \in Nat /\ j \in Nat /\ ~(j <= i) /\ j <= j
    BY <2>1
  <2> QED BY <2>2, <2>3
<1> HIDE DEF A1, B1
<1>4. Cardinality(A1) <= Cardinality(B1) /\ Cardinality(A1) # Cardinality(B1)
  BY <1>2, <1>3, FS_Subset
<1>5. Cardinality(A1) \in Nat /\ Cardinality(B1) \in Nat
  BY <1>2, FS_CardinalityType
<1> QED BY <1>4, <1>5 DEF Rank, A1, B1

\* The characters at some positions and at one behind them.
LEMMA CharsAppend ==
  ASSUME NEW s, NEW r \in Nat \ {0}, NEW P \in SUBSET (1 .. r - 1)
  PROVE  Chars(s, P \cup {r}) = Append(Chars(s, P), s[r])
<1> DEFINE Q == P \cup {r}
           c == Cardinality(P)
<1>1. P \in SUBSET (1 .. r) /\ Q \in SUBSET (1 .. r) /\ r \notin P
  OBVIOUS
<1>2. IsFiniteSet(P) /\ c \in Nat /\ Cardinality(Q) = c + 1
  BY <1>1, RankStep, FS_AddElement
<1>3. \A i \in P : Rank(Q, i) = Rank(P, i)
  <2> SUFFICES ASSUME NEW i \in P PROVE {j \in Q : j <= i} = {j \in P : j <= i}
    BY DEF Rank
  <2> QED OBVIOUS
<1>4. Rank(Q, r) = c + 1
  BY <1>1, <1>2, RankStep
<1> HIDE DEF Q
<1> DEFINE inP(n) == CHOOSE i \in P : Rank(P, i) = n
           inQ(n) == CHOOSE i \in Q : Rank(Q, i) = n
<1>5. ASSUME NEW n \in 1 .. c PROVE inQ(n) = inP(n)
  <2>1. PICK i \in P : Rank(P, i) = n
    BY <1>1, RankOnto
  <2>2. \A j \in Q : Rank(Q, j) = n <=> j = i
    <3> SUFFICES ASSUME NEW j \in Q PROVE Rank(Q, j) = n <=> j = i
      OBVIOUS
    <3>1. j \in Nat /\ i \in Nat /\ i \in Q
      BY <1>1, <2>1 DEF Q
    <3>2. i < j => Rank(Q, i) < Rank(Q, j)
      BY <1>1, <3>1, RankOneToOne
    <3>3. j < i => Rank(Q, j) < Rank(Q, i)
      BY <1>1, <3>1, RankOneToOne
    <3>4. Rank(Q, i) = n
      BY <1>3, <2>1
    <3>5. Rank(Q, j) \in Nat
      BY <1>1, <3>1, RankStep
    <3> QED BY <1>2, <3>1, <3>2, <3>3, <3>4, <3>5
  <2>3. \A j \in P : Rank(P, j) = n <=> j = i
    BY <1>3, <2>2 DEF Q
  <2>4. i \in Q
    BY DEF Q
  <2> QED BY <2>2, <2>3, <2>4
<1>6. inQ(c + 1) = r
  <2>1. \A j \in Q : Rank(Q, j) = c + 1 <=> j = r
    <3> SUFFICES ASSUME NEW j \in P PROVE Rank(Q, j) # c + 1
      BY <1>4 DEF Q
    <3>1. Rank(Q, j) = Rank(P, j) /\ j \in Nat
      BY <1>3
    <3>2. Rank(P, j) <= c /\ Rank(P, j) \in Nat
      BY <1>1, <3>1, RankStep
    <3> QED BY <1>2, <3>1, <3>2
  <2> QED BY <2>1 DEF Q
<1> DEFINE u == Chars(s, P)
<1>7. /\ u = [n \in 1 .. c |-> s[inP(n)]]
      /\ Chars(s, Q) = [n \in 1 .. c + 1 |-> s[inQ(n)]]
  BY <1>2 DEF Chars
<1> HIDE DEF inP, inQ, c
<1> DEFINE U == {s[r]} \cup {u[n] : n \in 1 .. c}
<1>8. u \in Seq(U) /\ Len(u) = c
  BY <1>2, <1>7
<1>9. s[r] \in U
  OBVIOUS
<1> HIDE DEF u, U
<1>10. Append(u, s[r]) = [n \in 1 .. c + 1 |-> IF n <= c THEN u[n] ELSE s[r]]
  BY <1>2, <1>8, <1>9, AppendProperties
<1>11. ASSUME NEW n \in 1 .. c + 1 PROVE s[inQ(n)] = IF n <= c THEN u[n] ELSE s[r]
  <2>1. CASE n \in 1 .. c
    BY <1>2, <1>5, <1>7, <2>1
  <2>2. CASE n = c + 1
    BY <1>2, <1>6, <2>2
  <2> QED BY <1>2, <2>1, <2>2
<1>12. Chars(s, Q) = [n \in 1 .. c + 1 |-> IF n <= c THEN u[n] ELSE s[r]]
  BY <1>7, <1>11
<1> QED BY <1>10, <1>12 DEF Q, u

-----------------------------------------------------------------------------
(* Escapes, quotes, separators and slots of a text, from one position to the next *)

\* The row of escapes in front of a position exists.
LEMMA EscapeRunIs ==
  ASSUME NEW s \in Seq(Char), NEW i \in 1 .. Len(s) + 1
  PROVE  /\ EscapeRun(s, i) \in 0 .. i - 1
         /\ \A k \in i - EscapeRun(s, i) .. i - 1 : s[k] = Escape
         /\ EscapeRun(s, i) < i - 1 => s[i - EscapeRun(s, i) - 1] # Escape
<1> DEFINE S == {n \in 0 .. i - 1 : n < i - 1 => s[i - n - 1] # Escape}
<1>1. i - 1 \in S /\ S \subseteq Nat
  OBVIOUS
<1>2. PICK n \in S : \A m \in S : n <= m
  BY <1>1, LeastNat
<1>3. n \in 0 .. i - 1 /\ (n < i - 1 => s[i - n - 1] # Escape)
  BY <1>2
<1>4. ASSUME NEW k \in i - n .. i - 1 PROVE s[k] = Escape
  <2> DEFINE m == i - 1 - k
  <2>1. m \in 0 .. i - 1 /\ m < n /\ m < i - 1 /\ i - m - 1 = k
    BY <1>3
  <2> HIDE DEF m, S
  <2>2. m \notin S
    BY <1>2, <1>3, <2>1
  <2> QED BY <2>1, <2>2 DEF S
<1>5. \E e \in 0 .. i - 1 : /\ \A k \in i - e .. i - 1 : s[k] = Escape
                            /\ e < i - 1 => s[i - e - 1] # Escape
  BY <1>3, <1>4
<1> QED BY <1>5 DEF EscapeRun

\* Literal is what the reading of one character after the other makes of it.
LEMMA LiteralStep ==
  ASSUME NEW s \in Seq(Char)
  PROVE  /\ ~Literal(s, 1)
         /\ \A i \in 1 .. Len(s) : Literal(s, i + 1) <=> Mark(s, i, Escape)
<1>1. ~Literal(s, 1)
  <2>1. 1 \in 1 .. Len(s) + 1
    OBVIOUS
  <2>2. EscapeRun(s, 1) = 0
    BY <2>1, EscapeRunIs
  <2> QED BY <2>2 DEF Literal
<1>2. ASSUME NEW i \in 1 .. Len(s) PROVE Literal(s, i + 1) <=> Mark(s, i, Escape)
  <2> DEFINE m == EscapeRun(s, i)
             n == EscapeRun(s, i + 1)
  <2>0. i \in 1 .. Len(s) + 1 /\ i + 1 \in 1 .. Len(s) + 1 /\ i \in Nat
    OBVIOUS
  <2>1. /\ m \in 0 .. i - 1
        /\ \A k \in i - m .. i - 1 : s[k] = Escape
        /\ m < i - 1 => s[i - m - 1] # Escape
    BY <2>0, EscapeRunIs
  <2>2. /\ n \in 0 .. i
        /\ \A k \in i + 1 - n .. i : s[k] = Escape
        /\ n < i => s[i - n] # Escape
    <3> DEFINE j == i + 1
    <3>1. /\ n \in 0 .. j - 1
          /\ \A k \in j - n .. j - 1 : s[k] = Escape
          /\ n < j - 1 => s[j - n - 1] # Escape
      BY <2>0, EscapeRunIs
    <3>2. j - 1 = i /\ (n \in Nat => j - n - 1 = i - n)
      BY <2>0
    <3> QED BY <3>1, <3>2
  <2>3. Literal(s, i) <=> m % 2 = 1
    BY DEF Literal
  <2>4. Literal(s, i + 1) <=> n % 2 = 1
    BY DEF Literal
  <2> HIDE DEF m, n
  <2>5. CASE s[i] # Escape
    <3>1. n = 0
      BY <2>0, <2>2, <2>5
    <3> QED BY <2>4, <2>5, <3>1 DEF Mark
  <2>6. CASE s[i] = Escape
    <3>1. n >= 1
      BY <2>0, <2>2, <2>6
    <3>2. ~(n - 1 < m)
      <4> SUFFICES ASSUME n - 1 < m PROVE FALSE
        OBVIOUS
      <4>1. i - n \in i - m .. i - 1 /\ n < i
        BY <2>0, <2>1, <2>2, <3>1
      <4> QED BY <2>1, <2>2, <4>1
    <3>3. ~(m < n - 1)
      <4> SUFFICES ASSUME m < n - 1 PROVE FALSE
        OBVIOUS
      <4>1. i - m - 1 \in i + 1 - n .. i /\ m < i - 1
        BY <2>0, <2>1, <2>2
      <4> QED BY <2>1, <2>2, <4>1
    <3>4. n = m + 1
      BY <2>1, <2>2, <3>1, <3>2, <3>3
    <3>5. n % 2 = 1 <=> m % 2 # 1
      BY <2>1, <3>4
    <3> QED BY <2>3, <2>4, <2>6, <3>5 DEF Mark
  <2> QED BY <2>5, <2>6
<1> QED BY <1>1, <1>2

LEMMA QuotedStep ==
  ASSUME NEW s \in Seq(Char)
  PROVE  /\ ~Quoted(s, 0)
         /\ \A i \in 1 .. Len(s) :
              Quoted(s, i) <=> IF Mark(s, i, Quote) THEN ~Quoted(s, i - 1) ELSE Quoted(s, i - 1)
<1> DEFINE P(n) == {j \in 1 .. n : Mark(s, j, Quote)}
<1>1. P(0) = {}
  OBVIOUS
<1>2. ~Quoted(s, 0)
  <2>1. Quotes(s, 0) = 0
    BY <1>1, FS_EmptySet DEF Quotes
  <2> QED BY <2>1 DEF Quoted
<1>3. ASSUME NEW i \in 1 .. Len(s)
      PROVE  Quoted(s, i) <=> IF Mark(s, i, Quote) THEN ~Quoted(s, i - 1) ELSE Quoted(s, i - 1)
  <2>1. P(i) = IF Mark(s, i, Quote) THEN P(i - 1) \cup {i} ELSE P(i - 1)
    <3>1. i \in Nat /\ \A j : j \in 1 .. i <=> j \in 1 .. i - 1 \/ j = i
      OBVIOUS
    <3> QED BY <3>1
  <2>2. IsFiniteSet(1 .. i - 1) /\ P(i - 1) \subseteq 1 .. i - 1 /\ i \notin P(i - 1)
    <3>1. i - 1 \in Int /\ 1 \in Int /\ i \notin 1 .. i - 1
      OBVIOUS
    <3> QED BY <3>1, FS_Interval
  <2>3. IsFiniteSet(P(i - 1)) /\ Cardinality(P(i - 1)) \in Nat
    BY <2>2, FS_Subset, FS_CardinalityType
  <2>4. Quotes(s, i) = Cardinality(P(i)) /\ Quotes(s, i - 1) = Cardinality(P(i - 1))
    BY DEF Quotes
  <2> HIDE DEF P
  <2>5. Quotes(s, i) = Quotes(s, i - 1) + (IF Mark(s, i, Quote) THEN 1 ELSE 0)
    <3>1. Cardinality(P(i - 1) \cup {i}) = Cardinality(P(i - 1)) + 1
      BY <2>2, <2>3, FS_AddElement
    <3> QED BY <2>1, <2>3, <2>4, <3>1
  <2>6. Quotes(s, i - 1) \in Nat
    BY <2>3, <2>4
  <2>7. CASE Mark(s, i, Quote)
    <3> DEFINE q == Quotes(s, i - 1)
    <3>1. q \in Nat /\ Quotes(s, i) = q + 1
      BY <2>5, <2>6, <2>7
    <3> HIDE DEF q
    <3>2. (q + 1) % 2 = 1 <=> q % 2 # 1
      BY <3>1
    <3> QED BY <2>7, <3>1, <3>2 DEF Quoted, q
  <2>8. CASE ~Mark(s, i, Quote)
    <3>1. Quotes(s, i) = Quotes(s, i - 1)
      BY <2>5, <2>6, <2>8
    <3> QED BY <2>8, <3>1 DEF Quoted
  <2> QED BY <2>7, <2>8
<1> QED BY <1>2, <1>3

LEMMA SeparatorsStep ==
  ASSUME NEW s \in Seq(Char)
  PROVE  /\ Cardinality(Separators(s)) \in Nat
         /\ SeparatorsBefore(s, 1) = 0
         /\ SeparatorsBefore(s, Len(s) + 1) = Cardinality(Separators(s))
         /\ \A r \in 1 .. Len(s) + 1 :
              /\ SeparatorsBefore(s, r) \in Nat
              /\ SeparatorsBefore(s, r) <= Cardinality(Separators(s))
         /\ \A r \in 1 .. Len(s) :
              SeparatorsBefore(s, r + 1)
              = SeparatorsBefore(s, r) + (IF r \in Separators(s) THEN 1 ELSE 0)
<1> DEFINE P == Separators(s)
           m == Len(s)
<1>1. m \in Nat /\ P \in SUBSET (1 .. m)
  BY DEF Separators
<1>2. \A r \in 0 .. m : SeparatorsBefore(s, r + 1) = Rank(P, r)
  <2> SUFFICES ASSUME NEW r \in 0 .. m PROVE {j \in P : j < r + 1} = {j \in P : j <= r}
    BY DEF SeparatorsBefore, Rank
  <2>1. \A j \in P : j \in Nat /\ (j < r + 1 <=> j <= r)
    BY <1>1
  <2> QED BY <2>1
<1> HIDE DEF P, m
<1>3. ASSUME NEW r \in 0 .. m PROVE Rank(P, r) \in Nat /\ Rank(P, r) <= Cardinality(P)
  <2>1. r \in Nat
    OBVIOUS
  <2> QED BY <1>1, <2>1, RankStep
<1>4. Rank(P, 0) = 0 /\ Rank(P, m) = Cardinality(P) /\ Cardinality(P) \in Nat
  BY <1>1, RankEnds
<1>5. /\ SeparatorsBefore(s, 0 + 1) = Rank(P, 0)
      /\ SeparatorsBefore(s, m + 1) = Rank(P, m)
  BY <1>1, <1>2
<1>6. ASSUME NEW r \in 1 .. m + 1
      PROVE  /\ SeparatorsBefore(s, r) \in Nat
             /\ SeparatorsBefore(s, r) <= Cardinality(P)
  <2>1. PICK h \in 0 .. m : r = h + 1
    BY <1>1
  <2> QED BY <1>2, <1>3, <2>1
<1>7. ASSUME NEW r \in 1 .. m
      PROVE  SeparatorsBefore(s, r + 1) = SeparatorsBefore(s, r) + (IF r \in P THEN 1 ELSE 0)
  <2>1. PICK h \in 0 .. m : r = h + 1
    BY <1>1
  <2>2. SeparatorsBefore(s, r) = Rank(P, h) /\ SeparatorsBefore(s, r + 1) = Rank(P, r)
    BY <1>1, <1>2, <2>1
  <2>3. /\ h + 1 \in P => Rank(P, h + 1) = Rank(P, h) + 1
        /\ h + 1 \notin P => Rank(P, h + 1) = Rank(P, h)
    <3>1. h \in Nat
      OBVIOUS
    <3> QED BY <1>1, <3>1, RankNext
  <2>4. Rank(P, h) \in Nat
    BY <1>3
  <2> QED BY <2>1, <2>2, <2>3, <2>4
<1>8. SeparatorsBefore(s, 1) = 0
  BY <1>4, <1>5
<1> QED BY <1>4, <1>5, <1>6, <1>7, <1>8 DEF P, m

LEMMA KeptStep ==
  ASSUME NEW s \in Seq(Char), NEW k
  PROVE  /\ KeptBefore(s, k, 1) = {}
         /\ KeptBefore(s, k, Len(s) + 1) = Kept(s, k)
         /\ \A r \in 1 .. Len(s) :
              /\ KeptBefore(s, k, r) \in SUBSET (1 .. r - 1)
              /\ r \in Kept(s, k)
                   <=> /\ r \notin Separators(s) /\ SeparatorsBefore(s, r) + 1 = k
                       /\ ~Mark(s, r, Quote) /\ ~Mark(s, r, Escape)
              /\ r \notin Kept(s, k) => KeptBefore(s, k, r + 1) = KeptBefore(s, k, r)
              /\ r \in Kept(s, k) => KeptBefore(s, k, r + 1) = KeptBefore(s, k, r) \cup {r}
<1>1. \A i \in Kept(s, k) : i \in 1 .. Len(s) /\ i \in Nat /\ ~(i < 1) /\ i < Len(s) + 1
  BY DEF Kept
<1>2. KeptBefore(s, k, 1) = {} /\ KeptBefore(s, k, Len(s) + 1) = Kept(s, k)
  BY <1>1 DEF KeptBefore
<1>3. ASSUME NEW r \in 1 .. Len(s)
      PROVE  /\ KeptBefore(s, k, r) \in SUBSET (1 .. r - 1)
             /\ r \in Kept(s, k)
                  <=> /\ r \notin Separators(s) /\ SeparatorsBefore(s, r) + 1 = k
                      /\ ~Mark(s, r, Quote) /\ ~Mark(s, r, Escape)
             /\ r \notin Kept(s, k) => KeptBefore(s, k, r + 1) = KeptBefore(s, k, r)
             /\ r \in Kept(s, k) => KeptBefore(s, k, r + 1) = KeptBefore(s, k, r) \cup {r}
  <2>1. \A i \in Kept(s, k) : i < r + 1 <=> i < r \/ i = r
    BY <1>1
  <2>2. \A i \in Kept(s, k) : i < r => i \in 1 .. r - 1
    BY <1>1
  <2>3. r \in Kept(s, k)
          <=> /\ r \notin Separators(s) /\ SeparatorsBefore(s, r) + 1 = k
              /\ ~Mark(s, r, Quote) /\ ~Mark(s, r, Escape)
    BY DEF Kept, SlotAt, SeparatorsBefore
  <2>4. KeptBefore(s, k, r) \in SUBSET (1 .. r - 1)
    BY <2>2 DEF KeptBefore
  <2>5. r \notin Kept(s, k) => KeptBefore(s, k, r + 1) = KeptBefore(s, k, r)
    BY <2>1 DEF KeptBefore
  <2>6. r \in Kept(s, k) => KeptBefore(s, k, r + 1) = KeptBefore(s, k, r) \cup {r}
    BY <2>1 DEF KeptBefore
  <2> QED BY <2>3, <2>4, <2>5, <2>6
<1> QED BY <1>2, <1>3

-----------------------------------------------------------------------------
(* The text of a line *)

\* A C string ends in front of the first NUL.
LEMMA CStrIs ==
  ASSUME NEW b, NEW i \in Nat, NEW end \in i .. Len(b), Len(b) \in Nat,
         b[end] = NUL, \A k \in i .. end - 1 : b[k] # NUL
  PROVE  CStr(b, i) = SubSeq(b, i, end - 1)
<1> DEFINE P(j) == b[j] = NUL /\ \A k \in i .. j - 1 : b[k] # NUL
<1>1. end \in Nat /\ \A j \in i .. Len(b) : j \in Nat
  OBVIOUS
<1>2. ASSUME NEW j \in i .. Len(b) PROVE P(j) <=> j = end
  <2>1. j < end => j \in i .. end - 1
    BY <1>1
  <2>2. end < j => end \in i .. j - 1
    BY <1>1
  <2> QED BY <1>1, <2>1, <2>2
<1>3. (CHOOSE j \in i .. Len(b) : P(j)) = end
  <2> HIDE DEF P
  <2> QED BY <1>2
<1> QED BY <1>3 DEF CStr

\* The line with its NUL, of which Text is the part in front of the first NUL.
Sent == line \o <<NUL>>

LEMMA TextIs ==
  ASSUME line \in Seq(Char)
  PROVE  /\ Sent \in Seq(Char) /\ Len(Sent) = Len(line) + 1
         /\ Text \in Seq(Char) /\ Len(Text) \in 0 .. Len(line)
         /\ \A i \in 1 .. Len(Text) : Text[i] = Sent[i] /\ Sent[i] # NUL
         /\ Sent[Len(Text) + 1] = NUL
<1>0. NUL \in Char
  BY CharAssumption DEF Special
<1>1. /\ Sent \in Seq(Char) /\ Len(Sent) = Len(line) + 1 /\ Len(line) \in Nat
      /\ Sent[Len(line) + 1] = NUL
  BY <1>0 DEF Sent
<1> DEFINE S == {j \in 1 .. Len(line) + 1 : Sent[j] = NUL}
<1>2. PICK e \in S : \A j \in S : e <= j
  <2>1. Len(line) + 1 \in S
    BY <1>1
  <2>2. S \subseteq Nat
    OBVIOUS
  <2> HIDE DEF S
  <2> QED BY <2>1, <2>2, LeastNat
<1>3. e \in 1 .. Len(line) + 1 /\ Sent[e] = NUL
  BY <1>2
<1>4. ASSUME NEW k \in 1 .. e - 1 PROVE Sent[k] # NUL
  <2>1. k \in 1 .. Len(line) + 1 /\ k < e
    BY <1>1, <1>3
  <2>2. k \notin S
    <3> HIDE DEF S
    <3> QED BY <1>2, <1>3, <2>1
  <2> QED BY <2>1, <2>2
<1>5. Text = SubSeq(Sent, 1, e - 1)
  <2>1. CStr(Sent, 1) = SubSeq(Sent, 1, e - 1)
    BY <1>1, <1>3, <1>4, CStrIs
  <2> QED BY <2>1 DEF Text, Sent
<1> HIDE DEF S
<1>6. /\ Text \in Seq(Char) /\ Len(Text) = e - 1
      /\ \A i \in 1 .. e - 1 : Text[i] = Sent[i]
  <2>1. e - 1 \in 0 .. Len(Sent) /\ 1 \in 1 .. Len(Sent) + 1
    BY <1>1, <1>3
  <2> DEFINE m == e - 1
  <2>2. m \in 0 .. Len(Sent)
    BY <2>1
  <2> HIDE DEF m
  <2>3. /\ SubSeq(Sent, 1, m) \in Seq(Char)
        /\ Len(SubSeq(Sent, 1, m)) = IF 1 <= m THEN m - 1 + 1 ELSE 0
        /\ \A i \in 1 .. m - 1 + 1 : SubSeq(Sent, 1, m)[i] = Sent[1 + i - 1]
    BY <1>1, <2>1, <2>2, SubSeqProperties
  <2>4. Len(SubSeq(Sent, 1, m)) = m /\ \A i \in 1 .. m : SubSeq(Sent, 1, m)[i] = Sent[i]
    BY <2>2, <2>3
  <2> QED BY <1>5, <2>3, <2>4 DEF m
<1> QED BY <1>1, <1>3, <1>4, <1>6

\* The text begins with AT and the name n.
Begins(n) == /\ Len(Text) >= Len(n) + 2 /\ Text[1] = A /\ Text[2] = T
             /\ \A i \in 1 .. Len(n) : Text[i + 2] = n[i]

LEMMA ConcatChars ==
  ASSUME NEW a \in Seq(Char), NEW b \in Seq(Char)
  PROVE  /\ a \o b \in Seq(Char) /\ Len(a \o b) = Len(a) + Len(b)
         /\ \A i \in 1 .. Len(a) + Len(b) : (a \o b)[i] = IF i <= Len(a) THEN a[i] ELSE b[i - Len(a)]
BY ConcatProperties

\* A prefix, a name and a tail, character by character.
LEMMA PrefixNameTail ==
  ASSUME NEW n \in Seq(Char), NEW u \in Seq(Char)
  PROVE  LET w == <<A, T>> \o n \o u
         IN  /\ w \in Seq(Char) /\ Len(w) = Len(n) + 2 + Len(u)
             /\ w[1] = A /\ w[2] = T
             /\ \A i \in 1 .. Len(n) : w[i + 2] = n[i]
             /\ \A i \in 1 .. Len(u) : w[Len(n) + 2 + i] = u[i]
<1> DEFINE p == <<A, T>>
           v == p \o n
           w == v \o u
<1>1. p \in Seq(Char) /\ Len(p) = 2 /\ p[1] = A /\ p[2] = T
  BY CharAssumption DEF Special
<1>2. Len(n) \in Nat /\ Len(u) \in Nat
  OBVIOUS
<1> HIDE DEF p
<1>3. /\ v \in Seq(Char) /\ Len(v) = 2 + Len(n)
      /\ \A i \in 1 .. 2 + Len(n) : v[i] = IF i <= 2 THEN p[i] ELSE n[i - 2]
  <2>1. /\ v \in Seq(Char) /\ Len(v) = Len(p) + Len(n)
        /\ \A i \in 1 .. Len(p) + Len(n) : v[i] = IF i <= Len(p) THEN p[i] ELSE n[i - Len(p)]
    BY <1>1, ConcatChars
  <2> QED BY <1>1, <1>2, <2>1
<1> HIDE DEF v
<1>4. /\ w \in Seq(Char) /\ Len(w) = 2 + Len(n) + Len(u)
      /\ \A i \in 1 .. 2 + Len(n) + Len(u) :
           w[i] = IF i <= 2 + Len(n) THEN v[i] ELSE u[i - (2 + Len(n))]
  <2>1. /\ w \in Seq(Char) /\ Len(w) = Len(v) + Len(u)
        /\ \A i \in 1 .. Len(v) + Len(u) : w[i] = IF i <= Len(v) THEN v[i] ELSE u[i - Len(v)]
    BY <1>3, ConcatChars
  <2> QED BY <1>2, <1>3, <2>1
<1> HIDE DEF w
<1>5. Len(w) = Len(n) + 2 + Len(u) /\ w[1] = A /\ w[2] = T
  BY <1>1, <1>2, <1>3, <1>4
<1>6. ASSUME NEW i \in 1 .. Len(n) PROVE w[i + 2] = n[i]
  BY <1>2, <1>3, <1>4
<1>7. ASSUME NEW i \in 1 .. Len(u) PROVE w[Len(n) + 2 + i] = u[i]
  BY <1>2, <1>4
<1> QED BY <1>4, <1>5, <1>6, <1>7 DEF w, v, p

LEMMA TextEquals ==
  ASSUME line \in Seq(Char), NEW n \in Seq(Char), NEW u \in Seq(Char)
  PROVE  Text = <<A, T>> \o n \o u
         <=> /\ Begins(n) /\ Len(Text) = Len(n) + 2 + Len(u)
             /\ \A i \in 1 .. Len(u) : Text[Len(n) + 2 + i] = u[i]
<1> DEFINE w == <<A, T>> \o n \o u
<1>1. /\ w \in Seq(Char) /\ Len(w) = Len(n) + 2 + Len(u)
      /\ w[1] = A /\ w[2] = T
      /\ \A i \in 1 .. Len(n) : w[i + 2] = n[i]
      /\ \A i \in 1 .. Len(u) : w[Len(n) + 2 + i] = u[i]
  BY PrefixNameTail
<1>2. Len(n) \in Nat /\ Len(u) \in Nat /\ Text \in Seq(Char)
  BY TextIs
<1> HIDE DEF w
<1>3. ASSUME Begins(n), Len(Text) = Len(n) + 2 + Len(u),
             \A i \in 1 .. Len(u) : Text[Len(n) + 2 + i] = u[i]
      PROVE  Text = w
  <2>1. ASSUME NEW i \in 1 .. Len(Text) PROVE Text[i] = w[i]
    <3>1. CASE i <= 2
      BY <1>1, <1>3, <3>1 DEF Begins
    <3>2. CASE i > 2 /\ i <= Len(n) + 2
      <4>1. i - 2 \in 1 .. Len(n) /\ i - 2 + 2 = i
        BY <1>2, <3>2
      <4>2. Text[i - 2 + 2] = n[i - 2] /\ w[i - 2 + 2] = n[i - 2]
        BY <1>1, <1>3, <4>1 DEF Begins
      <4> QED BY <4>1, <4>2
    <3>3. CASE i > Len(n) + 2
      <4> DEFINE j == i - (Len(n) + 2)
      <4>1. j \in 1 .. Len(u) /\ Len(n) + 2 + j = i
        BY <1>2, <1>3, <3>3
      <4> HIDE DEF j
      <4>2. Text[Len(n) + 2 + j] = u[j] /\ w[Len(n) + 2 + j] = u[j]
        BY <1>1, <1>3, <4>1
      <4> QED BY <4>1, <4>2
    <3> QED BY <1>2, <3>1, <3>2, <3>3
  <2> QED BY <1>1, <1>2, <1>3, <2>1, SeqEqual
<1>4. ASSUME Text = w
      PROVE  /\ Begins(n) /\ Len(Text) = Len(n) + 2 + Len(u)
             /\ \A i \in 1 .. Len(u) : Text[Len(n) + 2 + i] = u[i]
  BY <1>1, <1>2, <1>4 DEF Begins
<1> QED BY <1>3, <1>4 DEF w

LEMMA ParamsIs ==
  ASSUME line \in Seq(Char), NEW n \in Seq(Char), Len(Text) >= Len(n) + 3
  PROVE  /\ Params(n) \in Seq(Char) /\ Len(Params(n)) = Len(Text) - Len(n) - 3
         /\ \A i \in 1 .. Len(Params(n)) : Params(n)[i] = Text[Len(n) + 3 + i]
<1> DEFINE m == Len(n) + 4
           e == Len(Text)
<1>1. m \in Nat /\ e \in Nat /\ m >= 1 /\ m <= e + 1 /\ Len(n) \in Nat /\ Text \in Seq(Char)
  BY TextIs
<1>2. Params(n) = SubSeq(Text, m, e)
  BY DEF Params
<1>3. \A i \in m .. e : Text[i] \in Char
  BY <1>1
<1> HIDE DEF m, e
<1>4. /\ SubSeq(Text, m, e) \in Seq(Char)
      /\ Len(SubSeq(Text, m, e)) = IF m <= e THEN e - m + 1 ELSE 0
      /\ \A i \in 1 .. e - m + 1 : SubSeq(Text, m, e)[i] = Text[m + i - 1]
  BY <1>1, <1>3, SubSeqProperties
<1>5. Len(Params(n)) = e - m + 1
  BY <1>1, <1>2, <1>4
<1>6. ASSUME NEW i \in 1 .. e - m + 1 PROVE Params(n)[i] = Text[Len(n) + 3 + i]
  <2>1. m + i - 1 = Len(n) + 3 + i
    BY <1>1 DEF m
  <2> QED BY <1>2, <1>4, <2>1
<1>7. e - m + 1 = Len(Text) - Len(n) - 3
  BY <1>1 DEF m, e
<1> QED BY <1>2, <1>4, <1>5, <1>6, <1>7

\* The shapes of a line, character by character.
LEMMA ShapeIs ==
  ASSUME line \in Seq(Char), NEW n \in Seq(Char)
  PROVE  /\ Shape(n, "exe") <=> Begins(n) /\ Len(Text) = Len(n) + 2
         /\ Shape(n, "query")
              <=> Begins(n) /\ Len(Text) = Len(n) + 3 /\ Text[Len(n) + 3] = Query
         /\ Shape(n, "test")
              <=> /\ Begins(n) /\ Len(Text) = Len(n) + 4
                  /\ Text[Len(n) + 3] = Equals /\ Text[Len(n) + 4] = Query
         /\ Shape(n, "setup")
              <=> /\ Begins(n) /\ Len(Text) >= Len(n) + 3 /\ Text[Len(n) + 3] = Equals
                  /\ ~(Len(Text) = Len(n) + 4 /\ Text[Len(n) + 4] = Query)
<1> DEFINE W(u) == <<A, T>> \o n \o u
<1>0. /\ Len(n) \in Nat /\ Text \in Seq(Char) /\ Len(Text) \in Nat
      /\ Equals \in Char /\ Query \in Char /\ A \in Char /\ T \in Char
  BY TextIs, CharAssumption DEF Special
<1>1. /\ <<>> \in Seq(Char) /\ Len(<<>>) = 0
      /\ <<Query>> \in Seq(Char) /\ Len(<<Query>>) = 1 /\ <<Query>>[1] = Query
      /\ <<Equals>> \in Seq(Char) /\ Len(<<Equals>>) = 1 /\ <<Equals>>[1] = Equals
  BY <1>0
<1>2. /\ <<Equals, Query>> \in Seq(Char) /\ Len(<<Equals, Query>>) = 2
      /\ <<Equals, Query>>[1] = Equals /\ <<Equals, Query>>[2] = Query
  BY <1>0
<1>3. Shape(n, "exe") <=> Begins(n) /\ Len(Text) = Len(n) + 2
  <2>1. <<A, T>> \in Seq(Char)
    BY <1>0
  <2>2. (<<A, T>> \o n) \o <<>> = <<A, T>> \o n
    BY <2>1, ConcatChars, ConcatEmptySeq
  <2>3. Shape(n, "exe") <=> Text = <<A, T>> \o n \o <<>>
    BY <2>2 DEF Shape
  <2> HIDE DEF W
  <2>4. Text = <<A, T>> \o n \o <<>>
        <=> /\ Begins(n) /\ Len(Text) = Len(n) + 2 + Len(<<>>)
            /\ \A i \in 1 .. Len(<<>>) : Text[Len(n) + 2 + i] = <<>>[i]
    BY <1>1, TextEquals
  <2> QED BY <1>0, <1>1, <2>3, <2>4
<1>4. Shape(n, "query") <=> Begins(n) /\ Len(Text) = Len(n) + 3 /\ Text[Len(n) + 3] = Query
  <2> DEFINE u == <<Query>>
  <2>1. Shape(n, "query") <=> Text = <<A, T>> \o n \o u
    BY DEF Shape
  <2>2. u \in Seq(Char) /\ Len(u) = 1 /\ u[1] = Query
    BY <1>1
  <2> HIDE DEF u
  <2>3. Text = <<A, T>> \o n \o u
        <=> /\ Begins(n) /\ Len(Text) = Len(n) + 2 + Len(u)
            /\ \A i \in 1 .. Len(u) : Text[Len(n) + 2 + i] = u[i]
    BY <2>2, TextEquals
  <2>4. (\A i \in 1 .. Len(u) : Text[Len(n) + 2 + i] = u[i]) <=> Text[Len(n) + 3] = Query
    <3>1. Len(n) + 2 + 1 = Len(n) + 3 /\ \A i : i \in 1 .. Len(u) <=> i = 1
      BY <1>0, <2>2
    <3> QED BY <2>2, <3>1
  <2> QED BY <1>0, <2>1, <2>2, <2>3, <2>4
<1>5. Shape(n, "test")
        <=> /\ Begins(n) /\ Len(Text) = Len(n) + 4
            /\ Text[Len(n) + 3] = Equals /\ Text[Len(n) + 4] = Query
  <2> DEFINE u == <<Equals, Query>>
  <2>1. Shape(n, "test") <=> Text = <<A, T>> \o n \o u
    BY DEF Shape
  <2>2. u \in Seq(Char) /\ Len(u) = 2 /\ u[1] = Equals /\ u[2] = Query
    BY <1>2
  <2> HIDE DEF u
  <2>3. Text = <<A, T>> \o n \o u
        <=> /\ Begins(n) /\ Len(Text) = Len(n) + 2 + Len(u)
            /\ \A i \in 1 .. Len(u) : Text[Len(n) + 2 + i] = u[i]
    BY <2>2, TextEquals
  <2>4. (\A i \in 1 .. Len(u) : Text[Len(n) + 2 + i] = u[i])
          <=> Text[Len(n) + 3] = Equals /\ Text[Len(n) + 4] = Query
    <3>1. /\ Len(n) + 2 + 1 = Len(n) + 3 /\ Len(n) + 2 + 2 = Len(n) + 4
          /\ 1 \in 1 .. Len(u) /\ 2 \in 1 .. Len(u)
          /\ \A i \in 1 .. Len(u) : i = 1 \/ i = 2
      BY <1>0, <2>2
    <3>2. ASSUME \A i \in 1 .. Len(u) : Text[Len(n) + 2 + i] = u[i]
          PROVE  Text[Len(n) + 3] = Equals /\ Text[Len(n) + 4] = Query
      BY <2>2, <3>1, <3>2
    <3>3. ASSUME Text[Len(n) + 3] = Equals, Text[Len(n) + 4] = Query,
                 NEW i \in 1 .. Len(u)
          PROVE  Text[Len(n) + 2 + i] = u[i]
      BY <2>2, <3>1, <3>3
    <3> QED BY <3>2, <3>3
  <2>5. Len(n) + 2 + Len(u) = Len(n) + 4
    BY <1>0, <2>2
  <2>6. Text = <<A, T>> \o n \o u
        <=> /\ Begins(n) /\ Len(Text) = Len(n) + 4
            /\ \A i \in 1 .. Len(u) : Text[Len(n) + 2 + i] = u[i]
    BY <2>3, <2>5
  <2> QED BY <2>1, <2>4, <2>6, Zenon
<1>6. ASSUME Len(Text) >= Len(n) + 3
      PROVE  SubSeq(Text, 1, Len(n) + 3) = <<A, T>> \o n \o <<Equals>>
             <=> Begins(n) /\ Text[Len(n) + 3] = Equals
  <2> DEFINE u == <<Equals>>
             w == <<A, T>> \o n \o u
             l == Len(n) + 3
             v == SubSeq(Text, 1, l)
  <2>1. u \in Seq(Char) /\ Len(u) = 1 /\ u[1] = Equals
    BY <1>1
  <2> HIDE DEF u
  <2>2. /\ w \in Seq(Char) /\ Len(w) = Len(n) + 2 + Len(u)
        /\ w[1] = A /\ w[2] = T
        /\ \A i \in 1 .. Len(n) : w[i + 2] = n[i]
        /\ \A i \in 1 .. Len(u) : w[Len(n) + 2 + i] = u[i]
    BY <2>1, PrefixNameTail
  <2> HIDE DEF w
  <2>3. Len(w) = l /\ w[l] = Equals /\ l \in Nat
    <3>1. 1 \in 1 .. Len(u) /\ Len(n) + 2 + 1 = l
      BY <1>0, <2>1
    <3> QED BY <1>0, <2>1, <2>2, <3>1
  <2>4. v \in Seq(Char) /\ Len(v) = l /\ \A i \in 1 .. l : v[i] = Text[i]
    <3>1. \A i \in 1 .. l : Text[i] \in Char
      BY <1>0, <1>6
    <3> HIDE DEF l
    <3>2. /\ SubSeq(Text, 1, l) \in Seq(Char)
          /\ Len(SubSeq(Text, 1, l)) = IF 1 <= l THEN l - 1 + 1 ELSE 0
          /\ \A i \in 1 .. l - 1 + 1 : SubSeq(Text, 1, l)[i] = Text[1 + i - 1]
      BY <2>3, <3>1, SubSeqProperties
    <3> QED BY <2>3, <3>2
  <2> HIDE DEF v
  <2>5. ASSUME v = w PROVE Begins(n) /\ Text[l] = Equals
    <3>1. /\ 1 \in 1 .. l /\ 2 \in 1 .. l /\ l \in 1 .. l
          /\ \A i \in 1 .. Len(n) : i + 2 \in 1 .. l
      BY <1>0
    <3> HIDE DEF l
    <3>2. Text[1] = A /\ Text[2] = T /\ Text[l] = Equals /\ \A i \in 1 .. Len(n) : Text[i + 2] = n[i]
      BY <2>2, <2>3, <2>4, <2>5, <3>1
    <3>3. Len(Text) >= Len(n) + 2
      BY <1>0, <1>6
    <3> QED BY <3>2, <3>3 DEF Begins
  <2>6. ASSUME Begins(n), Text[l] = Equals PROVE v = w
    <3>1. ASSUME NEW i \in 1 .. l PROVE v[i] = w[i]
      <4>1. v[i] = Text[i]
        BY <2>4
      <4>2. CASE i = 1 \/ i = 2
        BY <2>2, <2>6, <4>1, <4>2 DEF Begins
      <4>3. CASE i = l
        BY <2>3, <2>6, <4>1, <4>3
      <4>4. CASE i > 2 /\ i < l
        <5>1. i - 2 \in 1 .. Len(n) /\ i - 2 + 2 = i
          BY <1>0, <4>4
        <5>2. Text[i - 2 + 2] = n[i - 2] /\ w[i - 2 + 2] = n[i - 2]
          BY <2>2, <2>6, <5>1 DEF Begins
        <5> QED BY <4>1, <5>1, <5>2
      <4> QED BY <1>0, <4>2, <4>3, <4>4
    <3> QED BY <2>2, <2>3, <2>4, <3>1, SeqEqual
  <2> QED BY <2>5, <2>6 DEF u, v, w
<1>7. ASSUME Len(Text) >= Len(n) + 3
      PROVE  Params(n) = <<Query>> <=> Len(Text) = Len(n) + 4 /\ Text[Len(n) + 4] = Query
  <2> DEFINE t == Params(n)
  <2>1. /\ t \in Seq(Char) /\ Len(t) = Len(Text) - Len(n) - 3
        /\ \A i \in 1 .. Len(t) : t[i] = Text[Len(n) + 3 + i]
    BY <1>7, ParamsIs
  <2> HIDE DEF t
  <2>2. Len(t) = 1 <=> Len(Text) = Len(n) + 4
    BY <1>0, <2>1
  <2>3. ASSUME Len(t) = 1 PROVE t[1] = Text[Len(n) + 4]
    <3>1. Len(n) + 3 + 1 = Len(n) + 4 /\ 1 \in 1 .. Len(t)
      BY <1>0, <2>3
    <3>2. t[1] = Text[Len(n) + 3 + 1]
      BY <2>1, <3>1
    <3> QED BY <3>1, <3>2
  <2> DEFINE q == <<Query>>
  <2>4. q \in Seq(Char) /\ Len(q) = 1 /\ q[1] = Query
    BY <1>1
  <2> HIDE DEF q
  <2>5. ASSUME Len(t) = 1, t[1] = Query PROVE t = q
    <3>1. \A i \in 1 .. Len(t) : i = 1
      BY <2>5
    <3>2. \A i \in 1 .. Len(t) : t[i] = q[i]
      BY <2>4, <2>5, <3>1
    <3> QED BY <2>1, <2>4, <2>5, <3>2, SeqEqual
  <2>6. t = q <=> Len(t) = 1 /\ t[1] = Query
    BY <2>4, <2>5
  <2>7. t = q <=> Len(Text) = Len(n) + 4 /\ Text[Len(n) + 4] = Query
    BY <2>2, <2>3, <2>6
  <2> QED BY <2>7 DEF t, q
<1>8. Shape(n, "setup")
        <=> /\ Begins(n) /\ Len(Text) >= Len(n) + 3 /\ Text[Len(n) + 3] = Equals
            /\ ~(Len(Text) = Len(n) + 4 /\ Text[Len(n) + 4] = Query)
  <2>1. Shape(n, "setup")
          <=> /\ Len(Text) >= Len(n) + 3
              /\ SubSeq(Text, 1, Len(n) + 3) = <<A, T>> \o n \o <<Equals>>
              /\ Params(n) # <<Query>>
    BY DEF Shape
  <2> QED BY <1>6, <1>7, <2>1
<1> QED BY <1>3, <1>4, <1>5, <1>8

-----------------------------------------------------------------------------
(* One handler at most is called for *)

\* Where a line's name ends.
NameEnd(q) == /\ q \in 3 .. Len(Text) + 1
              /\ q <= Len(Text) => Text[q] \in {Equals, Query}
              /\ \A i \in 3 .. q - 1 : Text[i] \notin {Equals, Query}

LEMMA OneNameEnd ==
  ASSUME Text \in Seq(Char), NEW p, NEW q, NameEnd(p), NameEnd(q)
  PROVE  p = q
<1>1. Len(Text) \in Nat /\ p \in 3 .. Len(Text) + 1 /\ q \in 3 .. Len(Text) + 1
  BY DEF NameEnd
<1>2. p < q => p \in 3 .. q - 1 /\ p <= Len(Text)
  BY <1>1
<1>3. q < p => q \in 3 .. p - 1 /\ q <= Len(Text)
  BY <1>1
<1> QED BY <1>1, <1>2, <1>3 DEF NameEnd

LEMMA OneName ==
  ASSUME NEW m \in Seq(Char), NEW n \in Seq(Char), Begins(m), Begins(n), Len(m) = Len(n)
  PROVE  m = n
<1>1. \A i \in 1 .. Len(m) : m[i] = n[i]
  BY DEF Begins
<1> QED BY <1>1, SeqEqual

\* A line that has one of the shapes for a registered name has that name.
LEMMA ShapeNames ==
  ASSUME line \in Seq(Char), NEW n \in DOMAIN Commands, NEW k \in Kinds, Shape(n, k)
  PROVE  n \in Seq(Char) /\ Begins(n) /\ NameEnd(Len(n) + 3)
<1>1. n \in Seq(Char) /\ \A i \in 1 .. Len(n) : n[i] \notin {NUL, Equals, Query}
  BY CommandsAssumption
<1>2. Text \in Seq(Char) /\ Len(Text) \in Nat /\ Len(n) \in Nat
  BY <1>1, TextIs
<1>3. /\ Begins(n) /\ Len(Text) >= Len(n) + 2
      /\ Len(Text) >= Len(n) + 3 => Text[Len(n) + 3] \in {Equals, Query}
  <2>1. CASE k = "exe"
    BY <1>1, <1>2, <2>1, ShapeIs
  <2>2. CASE k = "query"
    BY <1>1, <1>2, <2>2, ShapeIs
  <2>3. CASE k = "test"
    BY <1>1, <1>2, <2>3, ShapeIs
  <2>4. CASE k = "setup"
    BY <1>1, <1>2, <2>4, ShapeIs
  <2> QED BY <2>1, <2>2, <2>3, <2>4 DEF Kinds
<1>4. ASSUME NEW i \in 3 .. Len(n) + 3 - 1 PROVE Text[i] \notin {Equals, Query}
  <2>1. i - 2 \in 1 .. Len(n) /\ i - 2 + 2 = i
    BY <1>2
  <2>2. Text[i - 2 + 2] = n[i - 2]
    BY <1>3, <2>1 DEF Begins
  <2> QED BY <1>1, <2>1, <2>2
<1>5. Len(n) + 3 \in 3 .. Len(Text) + 1
  BY <1>2, <1>3
<1> QED BY <1>1, <1>3, <1>4, <1>5 DEF NameEnd

LEMMA OneShape ==
  ASSUME line \in Seq(Char), NEW n \in Seq(Char), NEW k \in Kinds, NEW l \in Kinds,
         Shape(n, k), Shape(n, l)
  PROVE  k = l
<1> DEFINE e == Len(n)
           f == Len(Text)
<1>1. f \in Nat /\ e \in Nat /\ Equals # Query
  BY TextIs, SpecialAssumption
<1>2. /\ k \in {"exe", "query", "test", "setup"} /\ l \in {"exe", "query", "test", "setup"}
  BY DEF Kinds
<1>3. /\ Shape(n, "exe") => f = e + 2
      /\ Shape(n, "query") => f = e + 3 /\ Text[e + 3] = Query
      /\ Shape(n, "test") => f = e + 4 /\ Text[e + 3] = Equals /\ Text[e + 4] = Query
      /\ Shape(n, "setup") => /\ f >= e + 3 /\ Text[e + 3] = Equals
                              /\ ~(f = e + 4 /\ Text[e + 4] = Query)
  BY ShapeIs
<1> HIDE DEF e, f
<1>4. /\ ~(Shape(n, "exe") /\ Shape(n, "query")) /\ ~(Shape(n, "exe") /\ Shape(n, "test"))
      /\ ~(Shape(n, "exe") /\ Shape(n, "setup")) /\ ~(Shape(n, "query") /\ Shape(n, "test"))
      /\ ~(Shape(n, "query") /\ Shape(n, "setup")) /\ ~(Shape(n, "test") /\ Shape(n, "setup"))
  <2> DEFINE x == Text[e + 3]
             y == Text[e + 4]
             exe == Shape(n, "exe")
             query == Shape(n, "query")
             test == Shape(n, "test")
             setup == Shape(n, "setup")
  <2>1. /\ exe => f = e + 2
        /\ query => f = e + 3 /\ x = Query
        /\ test => f = e + 4 /\ x = Equals /\ y = Query
        /\ setup => f >= e + 3 /\ x = Equals /\ ~(f = e + 4 /\ y = Query)
    BY <1>3
  <2> HIDE DEF x, y, exe, query, test, setup
  <2>2. ~(exe /\ query) /\ ~(exe /\ test) /\ ~(exe /\ setup)
    BY <1>1, <2>1
  <2>3. ~(query /\ test) /\ ~(query /\ setup) /\ ~(test /\ setup)
    BY <1>1, <2>1
  <2> QED BY <2>2, <2>3, Zenon DEF exe, query, test, setup
<1>5. CASE k = "exe"
  BY <1>2, <1>4, <1>5
<1>6. CASE k = "query"
  BY <1>2, <1>4, <1>6
<1>7. CASE k = "test"
  BY <1>2, <1>4, <1>7
<1>8. CASE k = "setup"
  BY <1>2, <1>4, <1>8
<1> QED BY <1>2, <1>5, <1>6, <1>7, <1>8

LEMMA OneRequest ==
  ASSUME line \in Seq(Char), NEW r \in Requests, NEW n \in DOMAIN Commands, NEW k \in Kinds,
         Shape(n, k)
  PROVE  r = <<n, k>>
<1>1. /\ r[1] \in DOMAIN Commands /\ r[2] \in Kinds /\ r = <<r[1], r[2]>>
      /\ Shape(r[1], r[2])
  BY DEF Requests
<1>2. r[1] = n
  <2>1. /\ r[1] \in Seq(Char) /\ Begins(r[1]) /\ NameEnd(Len(r[1]) + 3)
        /\ n \in Seq(Char) /\ Begins(n) /\ NameEnd(Len(n) + 3)
    BY <1>1, ShapeNames
  <2>2. Len(r[1]) + 3 = Len(n) + 3
    BY <2>1, TextIs, OneNameEnd
  <2>3. Len(r[1]) = Len(n)
    BY <2>1, <2>2
  <2> QED BY <2>1, <2>3, OneName
<1>3. r[2] = k
  <2>1. n \in Seq(Char) /\ Shape(n, r[2])
    BY <1>1, <1>2, CommandsAssumption
  <2> QED BY <1>1, <2>1, OneShape
<1> QED BY <1>1, <1>2, <1>3

\* What the parser finds at the delimiter is the shape of the line.
LEMMA DelimiterIs ==
  ASSUME IInv, pc = "parse", buf[1] = A, buf[2] = T, NEW p \in 3 .. Len(buf), Delimiter(p)
  PROVE  LET n == SubSeq(buf, 3, p - 1)
         IN  /\ buf = Sent /\ line \in Seq(Char)
             /\ n \in Seq(Char) /\ Len(n) = p - 3 /\ Begins(n) /\ NameEnd(p)
             /\ \A k \in Kinds : Shape(n, k) <=> KindAt(p) = k
<1> DEFINE n == SubSeq(buf, 3, p - 1)
           e == Len(Text)
<1>0. NUL # A /\ NUL # T /\ NUL # Equals /\ NUL # Query /\ Equals # Query
  BY SpecialAssumption
<1>1. /\ line \in Seq(Char) /\ buf \in Seq(Char) /\ buf = Sent
      /\ Len(buf) = Len(line) + 1 /\ Len(line) \in Nat
  BY DEF IInv, TypeOK, Loaded, Sent
<1>2. /\ Text \in Seq(Char) /\ e \in Nat /\ e \in 0 .. Len(line) /\ buf[e + 1] = NUL
      /\ \A i \in 1 .. e : Text[i] = buf[i] /\ buf[i] # NUL
  BY <1>1, TextIs
<1> HIDE DEF e
<1>3. e >= 2 /\ Text[1] = A /\ Text[2] = T
  <2>1. e + 1 # 1 /\ e + 1 # 2
    BY <1>0, <1>2
  <2> QED BY <1>2, <2>1
<1>4. /\ p \in Nat /\ p >= 3 /\ buf[p] \in {NUL, Equals, Query}
      /\ \A i \in 3 .. p - 1 : buf[i] \notin {NUL, Equals, Query}
  BY DEF Delimiter
<1>5. p <= e + 1
  <2>1. ASSUME p > e + 1 PROVE FALSE
    <3>1. e + 1 \in 3 .. p - 1
      BY <1>2, <1>3, <1>4, <2>1
    <3> QED BY <1>2, <1>4, <3>1
  <2> QED BY <1>2, <1>4, <2>1
<1>6. n \in Seq(Char) /\ Len(n) = p - 3 /\ \A i \in 1 .. p - 3 : n[i] = buf[i + 2]
  <2> DEFINE m == p - 1
  <2>1. m \in Nat /\ m >= 2 /\ m <= Len(buf)
    BY <1>1, <1>4
  <2> HIDE DEF m
  <2>2. \A i \in 3 .. m : buf[i] \in Char
    BY <1>1, <2>1
  <2>3. /\ SubSeq(buf, 3, m) \in Seq(Char)
        /\ Len(SubSeq(buf, 3, m)) = IF 3 <= m THEN m - 3 + 1 ELSE 0
        /\ \A i \in 1 .. m - 3 + 1 : SubSeq(buf, 3, m)[i] = buf[3 + i - 1]
    BY <2>1, <2>2, SubSeqProperties
  <2>4. /\ Len(SubSeq(buf, 3, m)) = m - 2
        /\ \A i \in 1 .. m - 2 : SubSeq(buf, 3, m)[i] = buf[i + 2]
    BY <2>1, <2>3
  <2>5. m - 2 = p - 3
    BY <1>4 DEF m
  <2> QED BY <2>3, <2>4, <2>5 DEF m
<1> HIDE DEF n
<1>7. Begins(n)
  <2>1. e >= Len(n) + 2
    BY <1>2, <1>4, <1>5, <1>6
  <2>2. ASSUME NEW i \in 1 .. Len(n) PROVE Text[i + 2] = n[i]
    <3>1. i \in 1 .. p - 3 /\ i + 2 \in 1 .. e
      BY <1>2, <1>4, <1>5, <1>6
    <3> QED BY <1>2, <1>6, <3>1
  <2> QED BY <1>3, <2>1, <2>2 DEF Begins, e
<1>8. NameEnd(p)
  <2>1. p \in 3 .. e + 1
    BY <1>2, <1>4, <1>5
  <2>2. ASSUME p <= e PROVE Text[p] \in {Equals, Query}
    <3>1. p \in 1 .. e
      BY <1>2, <1>4, <2>2
    <3> QED BY <1>2, <1>4, <3>1
  <2>3. ASSUME NEW i \in 3 .. p - 1 PROVE Text[i] \notin {Equals, Query}
    <3>1. i \in 1 .. e
      BY <1>2, <1>4, <1>5
    <3> QED BY <1>2, <1>4, <3>1
  <2> QED BY <2>1, <2>2, <2>3 DEF NameEnd, e
<1>9. \A k \in Kinds : Shape(n, k) <=> KindAt(p) = k
  <2>1. Len(n) + 2 = p - 1 /\ Len(n) + 3 = p /\ Len(n) + 4 = p + 1
    BY <1>4, <1>6
  <2>2. /\ Shape(n, "exe") <=> e = p - 1
        /\ Shape(n, "query") <=> e = p /\ Text[p] = Query
        /\ Shape(n, "test") <=> e = p + 1 /\ Text[p] = Equals /\ Text[p + 1] = Query
        /\ Shape(n, "setup") <=> e >= p /\ Text[p] = Equals /\ ~(e = p + 1 /\ Text[p + 1] = Query)
    BY <1>1, <1>6, <1>7, <2>1, ShapeIs DEF e
  <2>3. /\ p <= e => Text[p] = buf[p] /\ buf[p] # NUL
        /\ p > e => buf[p] = NUL /\ p = e + 1
        /\ p <= e => (buf[p + 1] = NUL <=> p = e)
        /\ p + 1 <= e => Text[p + 1] = buf[p + 1]
        /\ p + 1 <= e => (buf[p + 2] = NUL <=> p + 1 = e)
    <3>1. p <= e => p \in 1 .. e
      BY <1>2, <1>4
    <3>2. p > e => p = e + 1
      BY <1>2, <1>4, <1>5
    <3>3. p + 1 <= e => p + 1 \in 1 .. e
      BY <1>2, <1>4
    <3>4. p + 2 <= e => p + 2 \in 1 .. e
      BY <1>2, <1>4
    <3>5. p + 1 <= e => (p + 2 <= e \/ p + 2 = e + 1)
      BY <1>2, <1>4
    <3>6. p <= e => (p + 1 <= e \/ p + 1 = e + 1)
      BY <1>2, <1>4
    <3> QED BY <1>2, <1>4, <3>1, <3>2, <3>3, <3>4, <3>5, <3>6
  <2> DEFINE K == KindAt(p)
  <2>4. CASE p > e
    <3>1. K = "exe" /\ e = p - 1 /\ ~(e >= p) /\ e # p /\ e # p + 1
      BY <1>2, <1>4, <2>3, <2>4 DEF KindAt
    <3> HIDE DEF K
    <3>2. Shape(n, "exe") /\ ~Shape(n, "query") /\ ~Shape(n, "test") /\ ~Shape(n, "setup")
      BY <2>2, <3>1
    <3> QED BY <3>1, <3>2 DEF Kinds, K
  <2>5. CASE p <= e /\ buf[p] = Query
    <3>1. /\ K = IF buf[p + 1] = NUL THEN "query" ELSE "none"
      BY <1>0, <2>3, <2>5 DEF KindAt
    <3>2. K = IF e = p THEN "query" ELSE "none"
      BY <2>3, <2>5, <3>1
    <3> HIDE DEF K
    <3>3. e # p - 1 /\ Text[p] = Query /\ Text[p] # Equals
      BY <1>0, <1>2, <1>4, <2>3, <2>5
    <3>4. ~Shape(n, "exe") /\ ~Shape(n, "test") /\ ~Shape(n, "setup")
      BY <2>2, <3>3
    <3>5. Shape(n, "query") <=> e = p
      BY <2>2, <3>3
    <3> QED BY <3>2, <3>4, <3>5 DEF Kinds, K
  <2>6. CASE p <= e /\ buf[p] = Equals
    <3>1. K = IF buf[p + 1] = Query /\ buf[p + 2] = NUL THEN "test" ELSE "setup"
      BY <1>0, <2>3, <2>6 DEF KindAt
    <3>2. buf[p + 1] = Query /\ buf[p + 2] = NUL <=> e = p + 1 /\ Text[p + 1] = Query
      <4>1. p = e \/ p + 1 <= e
        BY <1>2, <1>4, <2>6
      <4>2. p = e => buf[p + 1] = NUL
        BY <2>3, <2>6
      <4>3. p = e => e # p + 1
        BY <1>2, <1>4
      <4> QED BY <1>0, <2>3, <4>1, <4>2, <4>3
    <3> HIDE DEF K
    <3>3. e # p - 1 /\ Text[p] = Equals /\ Text[p] # Query /\ e >= p
      BY <1>0, <1>2, <1>4, <2>3, <2>6
    <3>4. ~Shape(n, "exe") /\ ~Shape(n, "query")
      BY <2>2, <3>3
    <3>5. /\ Shape(n, "test") <=> K = "test"
          /\ Shape(n, "setup") <=> K = "setup"
      BY <2>2, <3>1, <3>2, <3>3
    <3>6. K # "exe" /\ K # "query"
      BY <3>1
    <3> QED BY <3>4, <3>5, <3>6 DEF Kinds, K
  <2> QED BY <1>2, <1>4, <2>3, <2>4, <2>5, <2>6
<1> QED BY <1>1, <1>6, <1>7, <1>8, <1>9 DEF n

-----------------------------------------------------------------------------
(* The lemmas of one line *)

LEMMA SameLine ==
  ASSUME line' = line
  PROVE  /\ Text' = Text /\ Requests' = Requests
         /\ \A n, k : Shape(n, k)' = Shape(n, k)
         /\ \A n : Params(n)' = Params(n)
<1>1. Text' = Text
  BY DEF Text, CStr
<1>2. \A n : Params(n)' = Params(n)
  BY <1>1 DEF Params
<1>3. \A n, k : Shape(n, k)' = Shape(n, k)
  BY <1>1, <1>2 DEF Shape
<1>4. Requests' = Requests
  BY <1>2, <1>3 DEF Requests
<1> QED BY <1>1, <1>2, <1>3, <1>4

\* What is in front of core_split_slots: the parameters from its place on.
LEMMA Situation ==
  ASSUME Exact, pc = "split"
  PROVE  LET t == Params(name)
         IN  /\ line \in Seq(Char) /\ name \in DOMAIN Commands /\ name \in Seq(Char)
             /\ kind = "setup" /\ "setup" \in Commands[name] /\ Shape(name, "setup")
             /\ t \in Seq(Char) /\ Len(t) \in Nat
             /\ Place \in 1 .. Len(t) + 1 /\ ~Literal(t, Place)
             /\ inQuote <=> Quoted(t, Place - 1)
             /\ Len(args) = SeparatorsBefore(t, Place)
             /\ rd = Place + (Len(name) + 3)
             /\ Place <= Len(t) => buf[rd] = t[Place] /\ t[Place] # NUL
             /\ Place = Len(t) + 1 => buf[rd] = NUL
             /\ Place < Len(t) => buf[rd + 1] = t[Place + 1] /\ t[Place + 1] # NUL
             /\ Place = Len(t) => buf[rd + 1] = NUL
<1> DEFINE t == Params(name)
           o == Len(name) + 3
           e == Len(Text)
<1>1. /\ line \in Seq(Char) /\ rd \in Nat /\ buf \in Seq(Char)
      /\ Len(buf) = Len(line) + 1 /\ Len(line) \in Nat
      /\ \A i \in rd .. Len(buf) : buf[i] = Sent[i]
  BY DEF Exact, IInv, TypeOK, Loaded, Unread, Sent
<1>2. /\ kind = "setup" /\ Has(name, "setup") /\ Shape(name, "setup")
      /\ Place \in 1 .. Len(t) + 1 /\ ~Literal(t, Place)
      /\ inQuote <=> Quoted(t, Place - 1)
      /\ Len(args) = SeparatorsBefore(t, Place)
  BY Zenon DEF Exact, Found, SplitSoFar
<1>3. name \in DOMAIN Commands /\ name \in Seq(Char) /\ "setup" \in Commands[name]
  BY <1>2, CommandsAssumption DEF Has
<1>4. Len(name) \in Nat /\ e >= o
  BY <1>1, <1>2, <1>3, ShapeIs
<1>5. /\ t \in Seq(Char) /\ Len(t) = e - Len(name) - 3
      /\ \A i \in 1 .. Len(t) : t[i] = Text[o + i]
  BY <1>1, <1>3, <1>4, ParamsIs
<1>6. /\ e \in 0 .. Len(line) /\ Sent[e + 1] = NUL
      /\ \A i \in 1 .. e : Text[i] = Sent[i] /\ Sent[i] # NUL
  BY <1>1, TextIs
<1>7. o \in Nat /\ Len(t) \in Nat /\ e = o + Len(t) /\ rd = Place + o
  BY <1>1, <1>4, <1>5 DEF Place
<1> HIDE DEF t, o, e
<1>8. ASSUME NEW i \in Nat, Place <= i, i <= Len(t)
      PROVE  buf[i + o] = t[i] /\ t[i] # NUL
  <2>1. i \in 1 .. Len(t) /\ i + o \in 1 .. e /\ o + i = i + o /\ i + o \in rd .. Len(buf)
    BY <1>1, <1>2, <1>6, <1>7, <1>8
  <2> QED BY <1>1, <1>5, <1>6, <2>1
<1>9. buf[Len(t) + 1 + o] = NUL
  <2>1. Len(t) + 1 + o = e + 1 /\ e + 1 \in rd .. Len(buf)
    BY <1>1, <1>2, <1>6, <1>7
  <2> QED BY <1>1, <1>6, <2>1
<1>10. Place <= Len(t) => buf[rd] = t[Place] /\ t[Place] # NUL
  <2>1. Place \in Nat
    BY <1>2, <1>7
  <2> QED BY <1>7, <1>8, <2>1
<1>11. Place = Len(t) + 1 => buf[rd] = NUL
  BY <1>7, <1>9
<1>12. Place < Len(t) => buf[rd + 1] = t[Place + 1] /\ t[Place + 1] # NUL
  <2>1. Place + 1 \in Nat /\ Place + 1 + o = rd + 1 /\ Place <= Place + 1
        /\ (Place < Len(t) => Place + 1 <= Len(t))
    BY <1>2, <1>7
  <2> QED BY <1>8, <2>1
<1>13. Place = Len(t) => buf[rd + 1] = NUL
  BY <1>2, <1>7, <1>9
<1> QED BY <1>1, <1>2, <1>3, <1>5, <1>7, <1>10, <1>11, <1>12, <1>13 DEF t, o

\* Parameters that cannot be split leave the line without a request.
LEMMA NoSplitNoRequest ==
  ASSUME line \in Seq(Char), NEW n \in DOMAIN Commands, Shape(n, "setup"), ~Splits(Params(n))
  PROVE  Requests = {}
<1>1. ASSUME NEW r \in Requests PROVE FALSE
  <2>1. r = <<n, "setup">>
    BY OneRequest DEF Kinds
  <2>2. r[2] = "setup" => Splits(Params(r[1]))
    BY DEF Requests
  <2> QED BY <2>1, <2>2
<1> QED BY <1>1

LEMMA SlotsOfLen == 
  ASSUME NEW s \in Seq(Char)
  PROVE  /\ Len(SlotsOf(s)) = Cardinality(Separators(s)) + 1
         /\ DOMAIN SlotsOf(s) = 1 .. Cardinality(Separators(s)) + 1
         /\ \A k \in 1 .. Cardinality(Separators(s)) + 1 : SlotsOf(s)[k] = Chars(s, Kept(s, k))
<1> DEFINE c == Cardinality(Separators(s)) + 1
<1>1. c \in Nat
  BY SeparatorsStep
<1>2. SlotsOf(s) = [k \in 1 .. c |-> Chars(s, Kept(s, k))]
  BY DEF SlotsOf
<1> HIDE DEF c
<1> QED BY <1>1, <1>2 DEF c

\* Slots that no separator has opened yet are empty.
LEMMA NotYetOpened ==
  ASSUME NEW s \in Seq(Char), NEW r \in 1 .. Len(s) + 1, NEW k,
         k = SeparatorsBefore(s, r) + 2
  PROVE  Chars(s, KeptBefore(s, k, r)) = <<>>
<1>1. ASSUME NEW i \in KeptBefore(s, k, r) PROVE FALSE
  <2>1. /\ i \in 1 .. Len(s) /\ SeparatorsBefore(s, i) + 1 = k /\ i < r
    BY DEF KeptBefore, Kept, SlotAt, SeparatorsBefore
  <2> DEFINE P == {j \in Separators(s) : j < i}
             Q == {j \in Separators(s) : j < r}
  <2>2. Separators(s) \subseteq 1 .. Len(s) /\ Len(s) \in Nat
    BY DEF Separators
  <2>3. P \subseteq Q
    BY <2>1, <2>2
  <2>4. IsFiniteSet(Q)
    <3>1. IsFiniteSet(1 .. Len(s))
      BY <2>2, FS_Interval
    <3>2. Q \subseteq 1 .. Len(s)
      BY <2>2
    <3> QED BY <3>1, <3>2, FS_Subset
  <2>5. Cardinality(P) <= Cardinality(Q)
    BY <2>3, <2>4, FS_Subset
  <2>6. SeparatorsBefore(s, i) <= SeparatorsBefore(s, r)
    BY <2>5 DEF SeparatorsBefore
  <2>7. SeparatorsBefore(s, i) \in Nat /\ SeparatorsBefore(s, r) \in Nat
    <3>1. i \in 1 .. Len(s) + 1
      BY <2>1, <2>2
    <3> QED BY <3>1, SeparatorsStep
  <2> QED BY <2>1, <2>6, <2>7
<1>2. KeptBefore(s, k, r) = {}
  BY <1>1
<1>3. Cardinality({}) = 0
  BY FS_EmptySet
<1> DEFINE f == Chars(s, {})
<1>4. Chars(s, KeptBefore(s, k, r)) = f
  BY <1>2
<1>5. f \in Seq(Char) /\ Len(f) = 0
  <2> DEFINE c == Cardinality({})
             g(n) == s[CHOOSE i \in {} : Rank({}, i) = n]
  <2>1. f = [n \in 1 .. c |-> g(n)]
    BY DEF Chars
  <2> HIDE DEF g, c, f
  <2>2. DOMAIN f = 1 .. c /\ f = [n \in 1 .. c |-> f[n]]
    BY <2>1
  <2>3. f \in [1 .. 0 -> Char]
    BY <1>3, <2>2 DEF c
  <2> QED BY <2>3
<1> HIDE DEF f
<1>6. f = <<>>
  BY <1>5, EmptySeq
<1> QED BY <1>4, <1>6

\* Parts of a buffer.
SameCells(b, c, i, j) == \A m \in i .. j : c[m] = b[m]

LEMMA SamePart ==
  ASSUME NEW b \in Seq(Char), NEW c \in Seq(Char), Len(c) = Len(b),
         NEW i \in Nat \ {0}, NEW j \in Nat, j <= Len(b), i <= j + 1,
         SameCells(b, c, i, j)
  PROVE  SubSeq(c, i, j) = SubSeq(b, i, j)
<1>0. \A m \in i .. j : c[m] = b[m]
  BY DEF SameCells
<1>1. \A m \in i .. j : b[m] \in Char /\ c[m] \in Char
  OBVIOUS
<1>2. /\ SubSeq(b, i, j) \in Seq(Char)
      /\ Len(SubSeq(b, i, j)) = IF i <= j THEN j - i + 1 ELSE 0
      /\ \A m \in 1 .. j - i + 1 : SubSeq(b, i, j)[m] = b[i + m - 1]
  BY <1>1, SubSeqProperties
<1>3. /\ SubSeq(c, i, j) \in Seq(Char)
      /\ Len(SubSeq(c, i, j)) = IF i <= j THEN j - i + 1 ELSE 0
      /\ \A m \in 1 .. j - i + 1 : SubSeq(c, i, j)[m] = c[i + m - 1]
  BY <1>1, SubSeqProperties
<1> DEFINE u == SubSeq(b, i, j)
           v == SubSeq(c, i, j)
<1>4. Len(u) = j - i + 1 /\ Len(v) = j - i + 1
  BY <1>2, <1>3
<1>5. ASSUME NEW m \in 1 .. j - i + 1 PROVE u[m] = v[m]
  <2>1. i + m - 1 \in i .. j
    OBVIOUS
  <2> QED BY <1>0, <1>2, <1>3, <2>1
<1>6. u \in Seq(Char) /\ v \in Seq(Char)
  BY <1>2, <1>3
<1> HIDE DEF u, v
<1>7. u = v
  BY <1>4, <1>5, <1>6, SeqEqual
<1> QED BY <1>7 DEF u, v

LEMMA GrownPart ==
  ASSUME NEW b \in Seq(Char), NEW i \in Nat \ {0}, NEW j \in Nat \ {0}, i <= j, j <= Len(b)
  PROVE  SubSeq(b, i, j) = Append(SubSeq(b, i, j - 1), b[j])
<1> DEFINE h == j - 1
           u == SubSeq(b, i, j)
           v == SubSeq(b, i, h)
<1>0. h \in Nat /\ j = h + 1 /\ i <= h + 1 /\ h <= Len(b)
  OBVIOUS
<1>1. \A m \in i .. j : b[m] \in Char
  OBVIOUS
<1>2. /\ u \in Seq(Char)
      /\ Len(u) = IF i <= j THEN j - i + 1 ELSE 0
      /\ \A m \in 1 .. j - i + 1 : u[m] = b[i + m - 1]
  BY <1>1, SubSeqProperties
<1>3. b[j] \in Char
  OBVIOUS
<1> HIDE DEF h
<1>4. /\ v \in Seq(Char)
      /\ Len(v) = IF i <= h THEN h - i + 1 ELSE 0
      /\ \A m \in 1 .. h - i + 1 : v[m] = b[i + m - 1]
  <2>1. \A m \in i .. h : b[m] \in Char
    BY <1>0, <1>1
  <2> QED BY <1>0, <2>1, SubSeqProperties
<1> HIDE DEF u, v
<1>5. Len(u) = j - i + 1 /\ Len(v) = j - i
  BY <1>0, <1>2, <1>4
<1> DEFINE x == b[j]
           w == Append(v, x)
<1>6. /\ w \in Seq(Char) /\ Len(w) = j - i + 1 /\ w[j - i + 1] = b[j]
      /\ \A m \in 1 .. j - i : w[m] = v[m]
  <2>1. x \in Char
    BY <1>3
  <2> HIDE DEF x
  <2>2. /\ w \in Seq(Char) /\ Len(w) = Len(v) + 1 /\ w[Len(v) + 1] = x
        /\ \A m \in 1 .. Len(v) : w[m] = v[m]
    BY <1>4, <2>1, AppendProperties
  <2> HIDE DEF w
  <2>3. w \in Seq(Char) /\ Len(w) = j - i + 1 /\ w[j - i + 1] = x
    BY <1>5, <2>2
  <2>4. \A m \in 1 .. j - i : w[m] = v[m]
    BY <1>5, <2>2
  <2> QED BY <2>3, <2>4 DEF x
<1> HIDE DEF w
<1>7. ASSUME NEW m \in 1 .. j - i + 1 PROVE u[m] = w[m]
  <2>1. CASE m = j - i + 1
    <3>1. i + m - 1 = j
      BY <2>1
    <3> QED BY <1>2, <1>6, <2>1, <3>1
  <2>2. CASE m # j - i + 1
    <3>1. m \in 1 .. j - i /\ m \in 1 .. h - i + 1
      BY <1>0, <2>2
    <3> QED BY <1>2, <1>4, <1>6, <3>1
  <2> QED BY <2>1, <2>2
<1>8. u = w
  BY <1>2, <1>5, <1>6, <1>7, SeqEqual
<1> QED BY <1>8 DEF u, v, w, h, x

-----------------------------------------------------------------------------
(* What a text means, one character further *)

\* A character that is kept.
LEMMA ReadKept ==
  ASSUME NEW s \in Seq(Char), NEW r \in 1 .. Len(s), NEW k \in Nat,
         ~Mark(s, r, Quote), ~Mark(s, r, Escape), Mark(s, r, Comma) => Quoted(s, r - 1)
  PROVE  /\ ~Literal(s, r + 1)
         /\ Quoted(s, r) <=> Quoted(s, r - 1)
         /\ SeparatorsBefore(s, r + 1) = SeparatorsBefore(s, r)
         /\ SeparatorsBefore(s, r) \in Nat
         /\ k # SeparatorsBefore(s, r) + 1 => KeptBefore(s, k, r + 1) = KeptBefore(s, k, r)
         /\ k = SeparatorsBefore(s, r) + 1
              => KeptBefore(s, k, r + 1) = KeptBefore(s, k, r) \cup {r}
         /\ KeptBefore(s, k, r) \in SUBSET (1 .. r - 1)
<1>1. Len(s) \in Nat /\ r \in 1 .. Len(s) + 1
  OBVIOUS
<1>2. ~Literal(s, r + 1)
  BY LiteralStep
<1>3. Quoted(s, r) <=> Quoted(s, r - 1)
  BY QuotedStep
<1>4. r \notin Separators(s)
  BY <1>3 DEF Separators
<1>5. SeparatorsBefore(s, r + 1) = SeparatorsBefore(s, r) /\ SeparatorsBefore(s, r) \in Nat
  <2>1. /\ SeparatorsBefore(s, r) \in Nat
        /\ SeparatorsBefore(s, r + 1)
           = SeparatorsBefore(s, r) + (IF r \in Separators(s) THEN 1 ELSE 0)
    BY <1>1, SeparatorsStep
  <2> QED BY <1>4, <2>1
<1>6. /\ r \in Kept(s, k) <=> k = SeparatorsBefore(s, r) + 1
      /\ r \notin Kept(s, k) => KeptBefore(s, k, r + 1) = KeptBefore(s, k, r)
      /\ r \in Kept(s, k) => KeptBefore(s, k, r + 1) = KeptBefore(s, k, r) \cup {r}
      /\ KeptBefore(s, k, r) \in SUBSET (1 .. r - 1)
  BY <1>4, KeptStep
<1> QED BY <1>2, <1>3, <1>5, <1>6

\* A character that vanishes.
LEMMA ReadMark ==
  ASSUME NEW s \in Seq(Char), NEW r \in 1 .. Len(s), NEW k \in Nat,
         Mark(s, r, Quote) \/ Mark(s, r, Escape)
  PROVE  /\ Literal(s, r + 1) <=> Mark(s, r, Escape)
         /\ Quoted(s, r) <=> IF Mark(s, r, Quote) THEN ~Quoted(s, r - 1) ELSE Quoted(s, r - 1)
         /\ SeparatorsBefore(s, r + 1) = SeparatorsBefore(s, r)
         /\ SeparatorsBefore(s, r) \in Nat
         /\ KeptBefore(s, k, r + 1) = KeptBefore(s, k, r)
<1>1. Len(s) \in Nat /\ r \in 1 .. Len(s) + 1
  OBVIOUS
<1>2. r \notin Separators(s)
  BY SpecialAssumption DEF Separators, Mark
<1>3. SeparatorsBefore(s, r + 1) = SeparatorsBefore(s, r) /\ SeparatorsBefore(s, r) \in Nat
  <2>1. /\ SeparatorsBefore(s, r) \in Nat
        /\ SeparatorsBefore(s, r + 1)
           = SeparatorsBefore(s, r) + (IF r \in Separators(s) THEN 1 ELSE 0)
    BY <1>1, SeparatorsStep
  <2> QED BY <1>2, <2>1
<1>4. KeptBefore(s, k, r + 1) = KeptBefore(s, k, r)
  <2>1. r \notin Kept(s, k)
    BY KeptStep
  <2> QED BY <2>1, KeptStep
<1> QED BY <1>3, <1>4, LiteralStep, QuotedStep

\* A separator.
LEMMA ReadSeparator ==
  ASSUME NEW s \in Seq(Char), NEW r \in 1 .. Len(s), NEW k \in Nat,
         Mark(s, r, Comma), ~Quoted(s, r - 1)
  PROVE  /\ ~Literal(s, r + 1) /\ ~Quoted(s, r)
         /\ SeparatorsBefore(s, r + 1) = SeparatorsBefore(s, r) + 1
         /\ SeparatorsBefore(s, r) \in Nat
         /\ KeptBefore(s, k, r + 1) = KeptBefore(s, k, r)
<1>1. Len(s) \in Nat /\ r \in 1 .. Len(s) + 1
  OBVIOUS
<1>2. ~Mark(s, r, Quote) /\ ~Mark(s, r, Escape)
  BY SpecialAssumption DEF Mark
<1>3. ~Literal(s, r + 1) /\ ~Quoted(s, r)
  BY <1>2, LiteralStep, QuotedStep
<1>4. r \in Separators(s)
  BY <1>3 DEF Separators
<1>5. SeparatorsBefore(s, r + 1) = SeparatorsBefore(s, r) + 1 /\ SeparatorsBefore(s, r) \in Nat
  <2>1. /\ SeparatorsBefore(s, r) \in Nat
        /\ SeparatorsBefore(s, r + 1)
           = SeparatorsBefore(s, r) + (IF r \in Separators(s) THEN 1 ELSE 0)
    BY <1>1, SeparatorsStep
  <2> QED BY <1>4, <2>1
<1>6. KeptBefore(s, k, r + 1) = KeptBefore(s, k, r)
  <2>1. r \notin Kept(s, k)
    BY <1>4, KeptStep
  <2> QED BY <2>1, KeptStep
<1> QED BY <1>3, <1>5, <1>6

\* The whole text: what has to hold for its slots to be accepted.
LEMMA AllRead ==
  ASSUME NEW s \in Seq(Char), ~Literal(s, Len(s) + 1)
  PROVE  /\ Closed(s) <=> ~Quoted(s, Len(s))
         /\ Len(SlotsOf(s)) = SeparatorsBefore(s, Len(s) + 1) + 1
         /\ \A k \in 1 .. Len(SlotsOf(s)) : SlotsOf(s)[k] = Chars(s, KeptBefore(s, k, Len(s) + 1))
<1>1. Len(s) \in Nat /\ (s # <<>> => Len(s) \in 1 .. Len(s))
  BY EmptySeq
<1>2. s # <<>> => ~Mark(s, Len(s), Escape)
  BY <1>1, LiteralStep
<1>3. Closed(s) <=> ~Quoted(s, Len(s))
  BY <1>2, Zenon DEF Closed
<1>4. Len(SlotsOf(s)) = SeparatorsBefore(s, Len(s) + 1) + 1
  BY SlotsOfLen, SeparatorsStep
<1>5. ASSUME NEW k \in 1 .. Len(SlotsOf(s))
      PROVE  SlotsOf(s)[k] = Chars(s, KeptBefore(s, k, Len(s) + 1))
  <2>1. k \in 1 .. Cardinality(Separators(s)) + 1
    BY SlotsOfLen
  <2>2. KeptBefore(s, k, Len(s) + 1) = Kept(s, k)
    BY KeptStep
  <2> QED BY <2>1, <2>2, SlotsOfLen
<1> QED BY <1>3, <1>4, <1>5

-----------------------------------------------------------------------------
(* What has been written so far *)

\* A write to the cell at wr leaves the slots in front of it.
LEMMA SlotsWritten ==
  ASSUME Exact, pc = "split", NEW c \in Char, Write(c)
  PROVE  LET t == Params(name)
         IN  /\ \A k \in 1 .. Len(args) :
                  SubSeq(buf', args[k], SlotLimit(k) - 1) = Chars(t, KeptBefore(t, k, Place))
             /\ SubSeq(buf', slotStart, wr - 1) = Chars(t, KeptBefore(t, Len(args) + 1, Place))
             /\ SubSeq(buf', slotStart, wr)
                = Append(Chars(t, KeptBefore(t, Len(args) + 1, Place)), c)
<1> DEFINE t == Params(name)
           open == Chars(t, KeptBefore(t, Len(args) + 1, Place))
<1>0. IInv
  BY DEF Exact
<1>1. /\ \A k \in 1 .. Len(args) : Slot(k) = Chars(t, KeptBefore(t, k, Place))
      /\ SubSeq(buf, slotStart, wr - 1) = open
  BY Zenon DEF Exact, SplitSoFar
<1>2. /\ buf \in Seq(Char) /\ Len(buf) \in Nat
      /\ 1 <= slotStart /\ slotStart <= wr /\ wr <= Len(buf)
      /\ slotStart \in Nat /\ wr \in Nat
  <2>1. buf \in Seq(Char)
    BY <1>0 DEF IInv, TypeOK
  <2> QED BY <1>0, <2>1, Cursors
<1>3. /\ buf' \in Seq(Char) /\ Len(buf') = Len(buf) /\ buf'[wr] = c
      /\ \A i \in 1 .. wr - 1 : buf'[i] = buf[i]
  BY <1>0, <1>2, Written
<1> HIDE DEF t, open
<1>4. ASSUME NEW k \in 1 .. Len(args)
      PROVE  SubSeq(buf', args[k], SlotLimit(k) - 1) = Chars(t, KeptBefore(t, k, Place))
  <2> DEFINE l == SlotLimit(k) - 1
  <2>1. /\ args[k] \in Nat \ {0} /\ l \in Nat /\ l <= Len(buf) /\ args[k] <= l + 1 /\ l < wr
    BY <1>0, <1>2, SlotsSoFar
  <2> HIDE DEF l
  <2>2. SubSeq(buf', args[k], l) = SubSeq(buf, args[k], l)
    <3>1. \A i \in args[k] .. l : i \in 1 .. wr - 1
      BY <1>2, <2>1
    <3>2. SameCells(buf, buf', args[k], l)
      BY <1>3, <3>1 DEF SameCells
    <3>3. buf \in Seq(Char) /\ buf' \in Seq(Char) /\ Len(buf') = Len(buf)
      BY <1>2, <1>3
    <3> QED BY <2>1, <3>2, <3>3, SamePart
  <2> QED BY <1>1, <2>2 DEF Slot, l
<1>5. SubSeq(buf', slotStart, wr - 1) = open
  <2> DEFINE l == wr - 1
  <2>1. /\ slotStart \in Nat \ {0} /\ l \in Nat /\ l <= Len(buf) /\ slotStart <= l + 1
        /\ \A i \in slotStart .. l : i \in 1 .. wr - 1
    BY <1>2
  <2> HIDE DEF l
  <2>2. SubSeq(buf', slotStart, l) = SubSeq(buf, slotStart, l)
    <3>1. SameCells(buf, buf', slotStart, l)
      BY <1>3, <2>1 DEF SameCells
    <3>2. buf \in Seq(Char) /\ buf' \in Seq(Char) /\ Len(buf') = Len(buf)
      BY <1>2, <1>3
    <3> QED BY <2>1, <3>1, <3>2, SamePart
  <2> QED BY <1>1, <2>2 DEF l
<1>6. SubSeq(buf', slotStart, wr) = Append(open, c)
  <2>1. /\ slotStart \in Nat \ {0} /\ wr \in Nat \ {0} /\ wr <= Len(buf')
    BY <1>2, <1>3
  <2>2. SubSeq(buf', slotStart, wr) = Append(SubSeq(buf', slotStart, wr - 1), buf'[wr])
    BY <1>2, <1>3, <2>1, GrownPart
  <2> QED BY <1>3, <1>5, <2>2
<1> QED BY <1>4, <1>5, <1>6 DEF t, open

-----------------------------------------------------------------------------
(* core_parse_line keeps to the meaning of the line *)

\* What is known of a line does not depend on the parser's state.
LEMMA StillFound ==
  ASSUME Exact, pc \in {"split", "handler"}, UNCHANGED <<line, kind, name>>
  PROVE  Found'
<1>1. Has(name, kind) /\ kind \in Kinds /\ Shape(name, kind)
  BY DEF Exact, Found
<1>2. Has(name, kind)' = Has(name, kind)
  BY DEF Has
<1>3. Shape(name, kind)' = Shape(name, kind)
  <2>1. \A n, k : Shape(n, k)' = Shape(n, k)
    BY SameLine
  <2> QED BY <2>1 DEF Shape, Params, Text, CStr
<1> QED BY <1>1, <1>2, <1>3 DEF Found

\* Parameters that cannot be split: the failure is right.
LEMMA FailsRightly ==
  ASSUME Exact, pc = "split", Fail, line' = line, ~Splits(Params(name))
  PROVE  Found' /\ SplitSoFar' /\ SplitDone' /\ NothingAsked'
<1>1. pc' = "failed"
  BY DEF Fail
<1>2. Requests = {}
  BY Situation, NoSplitNoRequest
<1>3. Requests' = {}
  BY <1>2, SameLine
<1> QED BY <1>1, <1>3 DEF Found, SplitSoFar, SplitDone, NothingAsked

LEMMA SameParams ==
  ASSUME line' = line, name' = name
  PROVE  Params(name)' = Params(name)
<1>1. \A n : Params(n)' = Params(n)
  BY SameLine
<1> QED BY <1>1 DEF Params, Text, CStr

\* What it takes to have split up to a later place.
LEMMA SplitFurther ==
  ASSUME Exact, pc = "split", pc' = "split", UNCHANGED <<line, kind, name>>,
         NEW r \in 1 .. Len(Params(name)) + 1, rd' = r + (Len(name) + 3),
         ~Literal(Params(name), r),
         inQuote' <=> Quoted(Params(name), r - 1),
         Len(args') = SeparatorsBefore(Params(name), r),
         \A k \in 1 .. Len(args') :
           SubSeq(buf', args'[k], SlotLimit(k)' - 1)
           = Chars(Params(name), KeptBefore(Params(name), k, r)),
         SubSeq(buf', slotStart', wr' - 1)
         = Chars(Params(name), KeptBefore(Params(name), Len(args') + 1, r))
  PROVE  Found' /\ SplitSoFar' /\ SplitDone' /\ NothingAsked'
<1> DEFINE t == Params(name)
<1>1. Params(name)' = t
  BY SameParams
<1>2. Place' = r /\ kind' = "setup"
  <2>1. r \in Int /\ Len(name) \in Int /\ kind = "setup"
    BY Situation
  <2> QED BY <2>1 DEF Place
<1> DEFINE u == Params(name)'
<1>3. /\ Place' \in 1 .. Len(u) + 1 /\ ~Literal(u, Place')
      /\ inQuote' <=> Quoted(u, Place' - 1)
      /\ Len(args') = SeparatorsBefore(u, Place')
  BY <1>1, <1>2, Zenon
<1>4. /\ \A k \in 1 .. Len(args') :
           SubSeq(buf', args'[k], SlotLimit(k)' - 1) = Chars(u, KeptBefore(u, k, Place'))
      /\ SubSeq(buf', slotStart', wr' - 1) = Chars(u, KeptBefore(u, Len(args') + 1, Place'))
  BY <1>1, <1>2
<1>5. SplitSoFar'
  BY <1>2, <1>3, <1>4, Zenon DEF SplitSoFar, Slot
<1>6. Found'
  BY StillFound
<1>7. SplitDone' /\ NothingAsked'
  BY DEF SplitDone, NothingAsked
<1> QED BY <1>5, <1>6, <1>7

\* A character is copied to the open slot.
LEMMA CopyReads ==
  ASSUME Exact, pc = "split", NEW q \in 1 .. Len(Params(name)), Write(Params(name)[q]),
         wr' = wr + 1, rd' = q + 1 + (Len(name) + 3),
         UNCHANGED <<line, pc, kind, name, slotStart, inQuote, args>>,
         ~Literal(Params(name), q + 1),
         Quoted(Params(name), q) <=> Quoted(Params(name), Place - 1),
         SeparatorsBefore(Params(name), q + 1) = SeparatorsBefore(Params(name), Place),
         \A k \in 1 .. Len(args) :
           KeptBefore(Params(name), k, q + 1) = KeptBefore(Params(name), k, Place),
         KeptBefore(Params(name), Len(args) + 1, q + 1)
         = KeptBefore(Params(name), Len(args) + 1, Place) \cup {q},
         KeptBefore(Params(name), Len(args) + 1, Place) \in SUBSET (1 .. q - 1)
  PROVE  Found' /\ SplitSoFar' /\ SplitDone' /\ NothingAsked'
<1> DEFINE t == Params(name)
           P == KeptBefore(t, Len(args) + 1, Place)
<1>1. /\ t \in Seq(Char) /\ Len(t) \in Nat
      /\ inQuote <=> Quoted(t, Place - 1)
      /\ Len(args) = SeparatorsBefore(t, Place)
  BY Situation
<1>2. t[q] \in Char /\ q \in Nat \ {0} /\ q + 1 \in 1 .. Len(t) + 1 /\ q + 1 - 1 = q
  BY <1>1
<1>3. wr \in Nat
  BY Cursors DEF Exact
<1>4. \A k \in 1 .. Len(args') :
        SubSeq(buf', args'[k], SlotLimit(k)' - 1) = Chars(t, KeptBefore(t, k, q + 1))
  <2>1. \A k \in 1 .. Len(args') : SlotLimit(k)' = SlotLimit(k)
    BY DEF SlotLimit
  <2>2. \A k \in 1 .. Len(args) :
          SubSeq(buf', args[k], SlotLimit(k) - 1) = Chars(t, KeptBefore(t, k, Place))
    BY <1>2, SlotsWritten
  <2> QED BY <2>1, <2>2
<1>5. SubSeq(buf', slotStart', wr' - 1) = Chars(t, KeptBefore(t, Len(args') + 1, q + 1))
  <2>1. SubSeq(buf', slotStart, wr) = Append(Chars(t, P), t[q])
    BY <1>2, SlotsWritten
  <2>2. Chars(t, P \cup {q}) = Append(Chars(t, P), t[q])
    BY <1>2, CharsAppend
  <2>3. wr' - 1 = wr
    BY <1>3
  <2> QED BY <2>1, <2>2, <2>3
<1>6. Len(args') = SeparatorsBefore(t, q + 1)
  BY <1>1
<1>7. inQuote' <=> Quoted(t, q)
  <2>1. inQuote <=> Quoted(t, q)
    BY <1>1, Zenon
  <2> QED BY <2>1, Zenon
<1> DEFINE r == q + 1
<1>8. /\ r \in 1 .. Len(Params(name)) + 1 /\ rd' = r + (Len(name) + 3)
      /\ ~Literal(Params(name), r)
      /\ inQuote' <=> Quoted(Params(name), r - 1)
      /\ Len(args') = SeparatorsBefore(Params(name), r)
  <2>1. r \in 1 .. Len(Params(name)) + 1 /\ rd' = r + (Len(name) + 3)
    BY <1>2
  <2>2. ~Literal(Params(name), r) /\ Len(args') = SeparatorsBefore(Params(name), r)
    BY <1>6
  <2>3. inQuote' <=> Quoted(Params(name), r - 1)
    <3>1. r - 1 = q
      BY <1>2
    <3> QED BY <1>7, <3>1, Zenon
  <2> QED BY <2>1, <2>2, <2>3
<1>9. /\ \A k \in 1 .. Len(args') :
           SubSeq(buf', args'[k], SlotLimit(k)' - 1)
           = Chars(Params(name), KeptBefore(Params(name), k, r))
      /\ SubSeq(buf', slotStart', wr' - 1)
         = Chars(Params(name), KeptBefore(Params(name), Len(args') + 1, r))
  BY <1>4, <1>5, Zenon
<1>10. pc' = "split" /\ UNCHANGED <<line, kind, name>>
  OBVIOUS
<1> HIDE DEF r
<1> QED BY <1>8, <1>9, <1>10, SplitFurther

LEMMA PlainReads ==
  ASSUME Exact, Plain
  PROVE  Found' /\ SplitSoFar' /\ SplitDone' /\ NothingAsked'
<1> DEFINE t == Params(name)
           n == Len(args)
<1>1. /\ pc = "split" /\ buf[rd] \notin {NUL, Quote, Escape} /\ (buf[rd] = Comma => inQuote)
      /\ Write(buf[rd]) /\ wr' = wr + 1 /\ rd' = rd + 1
      /\ UNCHANGED <<line, pc, kind, name, slotStart, inQuote, args>>
  BY Zenon DEF Plain
<1>2. /\ t \in Seq(Char) /\ Len(t) \in Nat /\ Len(name) \in Nat
      /\ Place \in 1 .. Len(t) + 1 /\ ~Literal(t, Place)
      /\ inQuote <=> Quoted(t, Place - 1)
      /\ n = SeparatorsBefore(t, Place) /\ rd = Place + (Len(name) + 3)
      /\ Place <= Len(t) => buf[rd] = t[Place]
      /\ Place = Len(t) + 1 => buf[rd] = NUL
  BY <1>1, Situation
<1>3. Place \in 1 .. Len(t) /\ buf[rd] = t[Place]
  BY <1>1, <1>2
<1>4. /\ ~Mark(t, Place, Quote) /\ ~Mark(t, Place, Escape)
      /\ Mark(t, Place, Comma) => Quoted(t, Place - 1)
  <2>1. t[Place] # Quote /\ t[Place] # Escape
    BY <1>1, <1>3
  <2>2. t[Place] = Comma => Quoted(t, Place - 1)
    BY <1>1, <1>2, <1>3, Zenon
  <2> QED BY <2>1, <2>2 DEF Mark
<1>5. n \in Nat
  BY DEF Exact, IInv, TypeOK
<1>6. ASSUME NEW k \in Nat
      PROVE  /\ ~Literal(t, Place + 1)
             /\ Quoted(t, Place) <=> Quoted(t, Place - 1)
             /\ SeparatorsBefore(t, Place + 1) = SeparatorsBefore(t, Place)
             /\ k # n + 1 => KeptBefore(t, k, Place + 1) = KeptBefore(t, k, Place)
             /\ k = n + 1 => KeptBefore(t, k, Place + 1) = KeptBefore(t, k, Place) \cup {Place}
             /\ KeptBefore(t, k, Place) \in SUBSET (1 .. Place - 1)
  BY <1>2, <1>3, <1>4, ReadKept
<1>7. /\ ~Literal(t, Place + 1)
      /\ Quoted(t, Place) <=> Quoted(t, Place - 1)
      /\ SeparatorsBefore(t, Place + 1) = SeparatorsBefore(t, Place)
      /\ KeptBefore(t, n + 1, Place + 1) = KeptBefore(t, n + 1, Place) \cup {Place}
      /\ KeptBefore(t, n + 1, Place) \in SUBSET (1 .. Place - 1)
  <2>1. n + 1 \in Nat
    BY <1>5
  <2> QED BY <1>6, <2>1
<1>8. \A k \in 1 .. n : KeptBefore(t, k, Place + 1) = KeptBefore(t, k, Place)
  <2>1. \A k \in 1 .. n : k \in Nat /\ k # n + 1
    BY <1>5
  <2> QED BY <1>6, <2>1
<1>9. rd' = Place + 1 + (Len(name) + 3)
  BY <1>1, <1>2
<1> QED BY <1>1, <1>3, <1>7, <1>8, <1>9, CopyReads

LEMMA EscapedReads ==
  ASSUME Exact, Escaped
  PROVE  Found' /\ SplitSoFar' /\ SplitDone' /\ NothingAsked'
<1> DEFINE t == Params(name)
           n == Len(args)
           q == Place + 1
<1>1. /\ pc = "split" /\ buf[rd] = Escape /\ buf[rd + 1] # NUL
      /\ Write(buf[rd + 1]) /\ wr' = wr + 1 /\ rd' = rd + 2
      /\ UNCHANGED <<line, pc, kind, name, slotStart, inQuote, args>>
  BY Zenon DEF Escaped, At
<1>2. /\ t \in Seq(Char) /\ Len(t) \in Nat /\ Len(name) \in Nat
      /\ Place \in 1 .. Len(t) + 1 /\ ~Literal(t, Place)
      /\ n = SeparatorsBefore(t, Place) /\ rd = Place + (Len(name) + 3)
      /\ Place <= Len(t) => buf[rd] = t[Place]
      /\ Place = Len(t) + 1 => buf[rd] = NUL
      /\ Place < Len(t) => buf[rd + 1] = t[Place + 1]
      /\ Place = Len(t) => buf[rd + 1] = NUL
  BY <1>1, Situation
<1>3. Place \in 1 .. Len(t) /\ t[Place] = Escape
  BY <1>1, <1>2, SpecialAssumption
<1>4. q \in 1 .. Len(t) /\ buf[rd + 1] = t[q]
  <2>1. Place # Len(t)
    BY <1>1, <1>2
  <2>2. Place < Len(t)
    BY <1>2, <1>3, <2>1
  <2> QED BY <1>2, <1>3, <2>2
<1>5. Mark(t, Place, Escape) /\ ~Mark(t, Place, Quote)
  BY <1>2, <1>3, SpecialAssumption DEF Mark
<1>6. n \in Nat
  BY DEF Exact, IInv, TypeOK
<1>7. ASSUME NEW k \in Nat
      PROVE  /\ Literal(t, q)
             /\ Quoted(t, Place) <=> Quoted(t, Place - 1)
             /\ SeparatorsBefore(t, q) = SeparatorsBefore(t, Place)
             /\ KeptBefore(t, k, q) = KeptBefore(t, k, Place)
  BY <1>2, <1>3, <1>5, ReadMark
<1>8. /\ Literal(t, q)
      /\ Quoted(t, Place) <=> Quoted(t, Place - 1)
      /\ SeparatorsBefore(t, q) = SeparatorsBefore(t, Place)
  <2>1. 0 \in Nat
    OBVIOUS
  <2> QED BY <1>7, <2>1
<1>9. /\ ~Mark(t, q, Quote) /\ ~Mark(t, q, Escape) /\ ~Mark(t, q, Comma)
  BY <1>8 DEF Mark
<1>10. q - 1 = Place
  BY <1>3
<1> HIDE DEF q
<1>11. ASSUME NEW k \in Nat
       PROVE  /\ ~Literal(t, q + 1)
              /\ Quoted(t, q) <=> Quoted(t, q - 1)
              /\ SeparatorsBefore(t, q + 1) = SeparatorsBefore(t, q)
              /\ k # n + 1 => KeptBefore(t, k, q + 1) = KeptBefore(t, k, q)
              /\ k = n + 1 => KeptBefore(t, k, q + 1) = KeptBefore(t, k, q) \cup {q}
              /\ KeptBefore(t, k, q) \in SUBSET (1 .. q - 1)
  <2>1. n = SeparatorsBefore(t, q) /\ q \in 1 .. Len(t) /\ t \in Seq(Char)
    BY <1>2, <1>4, <1>8
  <2> HIDE DEF n
  <2>2. /\ ~Literal(t, q + 1)
        /\ Quoted(t, q) <=> Quoted(t, q - 1)
        /\ SeparatorsBefore(t, q + 1) = SeparatorsBefore(t, q)
        /\ k # SeparatorsBefore(t, q) + 1 => KeptBefore(t, k, q + 1) = KeptBefore(t, k, q)
        /\ k = SeparatorsBefore(t, q) + 1
             => KeptBefore(t, k, q + 1) = KeptBefore(t, k, q) \cup {q}
        /\ KeptBefore(t, k, q) \in SUBSET (1 .. q - 1)
    <3> HIDE DEF t
    <3> QED BY <1>9, <2>1, ReadKept
  <2> QED BY <2>1, <2>2
<1>12. /\ ~Literal(t, q + 1)
       /\ Quoted(t, q) <=> Quoted(t, Place - 1)
       /\ SeparatorsBefore(t, q + 1) = SeparatorsBefore(t, Place)
       /\ KeptBefore(t, n + 1, q + 1) = KeptBefore(t, n + 1, Place) \cup {q}
       /\ KeptBefore(t, n + 1, Place) \in SUBSET (1 .. q - 1)
  <2>1. n + 1 \in Nat
    BY <1>6
  <2>2. KeptBefore(t, n + 1, q) = KeptBefore(t, n + 1, Place)
    BY <1>7, <2>1
  <2>3. /\ ~Literal(t, q + 1)
        /\ Quoted(t, q) <=> Quoted(t, q - 1)
        /\ SeparatorsBefore(t, q + 1) = SeparatorsBefore(t, q)
        /\ KeptBefore(t, n + 1, q + 1) = KeptBefore(t, n + 1, q) \cup {q}
        /\ KeptBefore(t, n + 1, q) \in SUBSET (1 .. q - 1)
    BY <1>11, <2>1
  <2> QED BY <1>8, <1>10, <2>2, <2>3
<1>13. \A k \in 1 .. n : KeptBefore(t, k, q + 1) = KeptBefore(t, k, Place)
  <2>1. \A k \in 1 .. n : k \in Nat /\ k # n + 1
    BY <1>6
  <2> QED BY <1>7, <1>11, <2>1
<1>14. rd' = q + 1 + (Len(name) + 3)
  BY <1>1, <1>2 DEF q
<1> QED BY <1>1, <1>4, <1>12, <1>13, <1>14, CopyReads

LEMMA QuoteMarkReads ==
  ASSUME Exact, QuoteMark
  PROVE  Found' /\ SplitSoFar' /\ SplitDone' /\ NothingAsked'
<1> DEFINE t == Params(name)
           n == Len(args)
           r == Place + 1
<1>1. /\ pc = "split" /\ buf[rd] = Quote /\ inQuote' = ~inQuote /\ rd' = rd + 1
      /\ UNCHANGED <<line, buf, pc, kind, name, wr, slotStart, args>>
  BY Zenon DEF QuoteMark, At
<1>2. /\ t \in Seq(Char) /\ Len(t) \in Nat /\ Len(name) \in Nat
      /\ Place \in 1 .. Len(t) + 1 /\ ~Literal(t, Place)
      /\ inQuote <=> Quoted(t, Place - 1)
      /\ n = SeparatorsBefore(t, Place) /\ rd = Place + (Len(name) + 3)
      /\ Place <= Len(t) => buf[rd] = t[Place]
      /\ Place = Len(t) + 1 => buf[rd] = NUL
  BY <1>1, Situation
<1>3. Place \in 1 .. Len(t) /\ t[Place] = Quote
  BY <1>1, <1>2, SpecialAssumption
<1>4. Mark(t, Place, Quote) /\ ~Mark(t, Place, Escape)
  BY <1>2, <1>3, SpecialAssumption DEF Mark
<1>5. n \in Nat
  BY DEF Exact, IInv, TypeOK
<1>6. ASSUME NEW k \in Nat
      PROVE  /\ ~Literal(t, Place + 1)
             /\ Quoted(t, Place) <=> ~Quoted(t, Place - 1)
             /\ SeparatorsBefore(t, Place + 1) = SeparatorsBefore(t, Place)
             /\ KeptBefore(t, k, Place + 1) = KeptBefore(t, k, Place)
  BY <1>2, <1>3, <1>4, ReadMark
<1>7. /\ ~Literal(t, Place + 1)
      /\ Quoted(t, Place) <=> ~Quoted(t, Place - 1)
      /\ SeparatorsBefore(t, Place + 1) = SeparatorsBefore(t, Place)
  <2>1. 0 \in Nat
    OBVIOUS
  <2> QED BY <1>6, <2>1
<1>8. /\ \A k \in 1 .. n : Slot(k) = Chars(t, KeptBefore(t, k, Place))
      /\ SubSeq(buf, slotStart, wr - 1) = Chars(t, KeptBefore(t, n + 1, Place))
  BY <1>1, Zenon DEF Exact, SplitSoFar
<1>9. \A k \in 1 .. Len(args') :
        SubSeq(buf', args'[k], SlotLimit(k)' - 1) = Chars(t, KeptBefore(t, k, Place + 1))
  <2>1. \A k \in 1 .. n : SlotLimit(k)' = SlotLimit(k) /\ k \in Nat
    BY <1>1, <1>5 DEF SlotLimit
  <2> QED BY <1>1, <1>6, <1>8, <2>1 DEF Slot
<1>10. SubSeq(buf', slotStart', wr' - 1) = Chars(t, KeptBefore(t, Len(args') + 1, Place + 1))
  <2>1. n + 1 \in Nat
    BY <1>5
  <2> QED BY <1>1, <1>6, <1>8, <2>1
<1>11. inQuote' <=> Quoted(t, r - 1)
  <2>1. r - 1 = Place
    BY <1>3
  <2>2. inQuote' <=> Quoted(t, Place)
    BY <1>1, <1>2, <1>7, Zenon
  <2> QED BY <2>1, <2>2, Zenon
<1>12. /\ rd' = Place + 1 + (Len(name) + 3) /\ Place + 1 \in 1 .. Len(t) + 1
       /\ Len(args') = SeparatorsBefore(t, Place + 1)
  <2>1. rd' = Place + 1 + (Len(name) + 3) /\ Place + 1 \in 1 .. Len(t) + 1
    <3>1. rd' = rd + 1
      BY <1>1
    <3> QED BY <1>2, <1>3, <3>1
  <2>2. Len(args') = SeparatorsBefore(t, Place + 1)
    BY <1>1, <1>2, <1>7
  <2> QED BY <2>1, <2>2
<1>13. pc' = "split" /\ UNCHANGED <<line, kind, name>>
  BY <1>1
<1> QED
  <2>1. r \in 1 .. Len(t) + 1 /\ rd' = r + (Len(name) + 3) /\ Len(args') = SeparatorsBefore(t, r)
    BY <1>12
  <2>2. ~Literal(t, r)
    BY <1>7
  <2>4. /\ \A k \in 1 .. Len(args') :
             SubSeq(buf', args'[k], SlotLimit(k)' - 1) = Chars(t, KeptBefore(t, k, r))
        /\ SubSeq(buf', slotStart', wr' - 1) = Chars(t, KeptBefore(t, Len(args') + 1, r))
    BY <1>9, <1>10
  <2> HIDE DEF r
  <2> QED BY <1>1, <1>11, <1>13, <2>1, <2>2, <2>4, SplitFurther

\* The slots when one more is ended.
LEMMA EndedReads ==
  ASSUME Exact, pc = "split", Write(NUL), args' = Append(args, slotStart),
         NEW k \in 1 .. Len(args'), NEW limit,
         limit = IF k < Len(args') THEN args'[k + 1] - 1 ELSE wr
  PROVE  SubSeq(buf', args'[k], limit - 1)
         = Chars(Params(name), KeptBefore(Params(name), k, Place))
<1> DEFINE t == Params(name)
<1>0. IInv
  BY DEF Exact
<1>1. args \in Seq(Nat) /\ slotStart \in Nat /\ NUL \in Char
  BY <1>0, CharAssumption DEF IInv, TypeOK, Special
<1>2. /\ Len(args') = Len(args) + 1 /\ args'[Len(args) + 1] = slotStart
      /\ \A j \in 1 .. Len(args) : args'[j] = args[j]
  BY <1>1
<1>3. /\ \A j \in 1 .. Len(args) :
           SubSeq(buf', args[j], SlotLimit(j) - 1) = Chars(t, KeptBefore(t, j, Place))
      /\ SubSeq(buf', slotStart, wr - 1) = Chars(t, KeptBefore(t, Len(args) + 1, Place))
  BY <1>1, SlotsWritten
<1>4. CASE k \in 1 .. Len(args)
  <2>1. limit = SlotLimit(k)
    BY <1>1, <1>2, <1>4 DEF SlotLimit
  <2> QED BY <1>2, <1>3, <1>4, <2>1
<1>5. CASE k = Len(args) + 1
  <2>1. limit = wr /\ args'[k] = slotStart
    BY <1>1, <1>2, <1>5
  <2> QED BY <1>3, <1>5, <2>1
<1> QED BY <1>1, <1>2, <1>4, <1>5

LEMMA SlotCommaReads ==
  ASSUME Exact, SlotComma
  PROVE  Found' /\ SplitSoFar' /\ SplitDone' /\ NothingAsked'
<1> DEFINE t == Params(name)
           n == Len(args)
           r == Place + 1
<1>1. /\ pc = "split" /\ buf[rd] = Comma /\ ~inQuote /\ Write(NUL) /\ Push("split")
      /\ wr' = wr + 1 /\ rd' = rd + 1 /\ slotStart' = wr + 1
      /\ UNCHANGED <<line, kind, name, inQuote>>
  BY Zenon DEF SlotComma, At
<1>2. /\ t \in Seq(Char) /\ Len(t) \in Nat /\ Len(name) \in Nat
      /\ Place \in 1 .. Len(t) + 1 /\ ~Literal(t, Place)
      /\ inQuote <=> Quoted(t, Place - 1)
      /\ n = SeparatorsBefore(t, Place) /\ rd = Place + (Len(name) + 3)
      /\ Place <= Len(t) => buf[rd] = t[Place]
      /\ Place = Len(t) + 1 => buf[rd] = NUL
  BY <1>1, Situation
<1>3. Place \in 1 .. Len(t) /\ t[Place] = Comma
  BY <1>1, <1>2, SpecialAssumption
<1>4. Mark(t, Place, Comma) /\ ~Quoted(t, Place - 1)
  <2>1. Mark(t, Place, Comma)
    BY <1>2, <1>3 DEF Mark
  <2>2. ~Quoted(t, Place - 1)
    BY <1>1, <1>2, Zenon
  <2> QED BY <2>1, <2>2
<1>5. n \in Nat /\ args \in Seq(Nat) /\ slotStart \in Nat /\ wr \in Nat
  BY DEF Exact, IInv, TypeOK
<1>6. ASSUME NEW k \in Nat
      PROVE  /\ ~Literal(t, r) /\ ~Quoted(t, Place)
             /\ SeparatorsBefore(t, r) = n + 1
             /\ KeptBefore(t, k, r) = KeptBefore(t, k, Place)
  BY <1>2, <1>3, <1>4, ReadSeparator
<1>7. ~Literal(t, r) /\ ~Quoted(t, Place) /\ SeparatorsBefore(t, r) = n + 1
  <2>1. 0 \in Nat
    OBVIOUS
  <2> QED BY <1>6, <2>1
<1>8. r \in 1 .. Len(t) + 1 /\ r - 1 = Place /\ rd' = r + (Len(name) + 3)
  <2>1. rd' = rd + 1
    BY <1>1
  <2> QED BY <1>2, <1>3, <2>1
<1> HIDE DEF r
<1>9. CASE n >= ArgMax
  <2>1. Fail /\ line' = line
    BY <1>1, <1>9 DEF Push
  <2>2. ~Splits(t)
    <3>1. Len(SlotsOf(t)) >= n + 1 + 1
      <4>1. /\ SeparatorsBefore(t, r) <= Cardinality(Separators(t))
            /\ Cardinality(Separators(t)) \in Nat
        BY <1>2, <1>8, SeparatorsStep
      <4> QED BY <1>2, <1>5, <1>7, <4>1, SlotsOfLen
    <3>2. ~(Len(SlotsOf(t)) <= ArgMax)
      <4>1. Len(SlotsOf(t)) \in Nat
        BY <1>2, SlotsOfLen, SeparatorsStep
      <4> QED BY <1>5, <1>9, <3>1, <4>1, ArgMaxAssumption
    <3> QED BY <3>2 DEF Splits
  <2> QED BY <1>1, <2>1, <2>2, FailsRightly
<1>10. CASE ~(n >= ArgMax)
  <2>1. pc' = "split" /\ args' = Append(args, slotStart)
    BY <1>1, <1>10 DEF Push
  <2>2. Len(args') = n + 1
    BY <1>5, <2>1
  <2>3. ASSUME NEW k \in 1 .. Len(args')
        PROVE  SubSeq(buf', args'[k], SlotLimit(k)' - 1) = Chars(t, KeptBefore(t, k, r))
    <3> DEFINE limit == IF k < Len(args') THEN args'[k + 1] - 1 ELSE wr
    <3>1. SlotLimit(k)' = limit
      BY <1>1, <1>5, <2>1 DEF SlotLimit
    <3> HIDE DEF limit
    <3>2. SubSeq(buf', args'[k], limit - 1) = Chars(t, KeptBefore(t, k, Place))
      BY <1>1, <2>1, EndedReads DEF limit
    <3>3. k \in Nat
      BY <1>5, <2>2
    <3> QED BY <1>6, <3>1, <3>2, <3>3
  <2>4. SubSeq(buf', slotStart', wr' - 1) = Chars(t, KeptBefore(t, Len(args') + 1, r))
    <3>1. SubSeq(buf', slotStart', wr' - 1) = <<>>
      <4> DEFINE i == wr + 1
                 b == buf'
      <4>1. wr' - 1 = wr /\ slotStart' = i /\ i \in Nat /\ wr < i
        BY <1>1, <1>5
      <4>2. \A m \in i .. wr : b[m] \in Char
        BY <4>1, <1>5
      <4> HIDE DEF i, b
      <4>3. SubSeq(b, i, wr) \in Seq(Char) /\ Len(SubSeq(b, i, wr)) = 0
        BY <1>5, <4>1, <4>2, SubSeqProperties
      <4> DEFINE u == SubSeq(b, i, wr)
      <4>4. u = <<>>
        <5>1. u \in Seq(Char) /\ Len(u) = 0
          BY <4>3
        <5> HIDE DEF u
        <5> QED BY <5>1, EmptySeq
      <4> QED BY <4>1, <4>4 DEF b
    <3>2. Len(args') + 1 = n + 2 /\ n + 2 \in Nat
      BY <1>5, <2>2
    <3>3. KeptBefore(t, n + 2, r) = KeptBefore(t, n + 2, Place)
      BY <1>6, <3>2
    <3>4. Chars(t, KeptBefore(t, n + 2, Place)) = <<>>
      BY <1>2, NotYetOpened
    <3> QED BY <3>1, <3>2, <3>3, <3>4
  <2>5. inQuote' <=> Quoted(t, r - 1)
    <3>1. ~inQuote' /\ ~Quoted(t, Place)
      BY <1>1, <1>7, Zenon
    <3> QED BY <1>8, <3>1
  <2>6. Len(args') = SeparatorsBefore(t, r)
    BY <1>7, <2>2
  <2> QED BY <1>1, <1>7, <1>8, <2>1, <2>3, <2>4, <2>5, <2>6, SplitFurther
<1> QED BY <1>5, <1>9, <1>10, ArgMaxAssumption

LEMMA SlotEndReads ==
  ASSUME Exact, SlotEnd
  PROVE  Found' /\ SplitSoFar' /\ SplitDone' /\ NothingAsked'
<1> DEFINE t == Params(name)
           n == Len(args)
<1>1. /\ pc = "split" /\ buf[rd] = NUL /\ ~inQuote /\ Write(NUL) /\ Push("handler")
      /\ UNCHANGED <<line, kind, name>> /\ wr' = wr /\ slotStart' = slotStart
  BY Zenon DEF SlotEnd, At, cursors
<1>2. /\ t \in Seq(Char) /\ Len(t) \in Nat
      /\ Place \in 1 .. Len(t) + 1 /\ ~Literal(t, Place)
      /\ inQuote <=> Quoted(t, Place - 1)
      /\ n = SeparatorsBefore(t, Place)
      /\ Place <= Len(t) => buf[rd] = t[Place] /\ t[Place] # NUL
      /\ kind = "setup"
  BY <1>1, Situation
<1>3. Place = Len(t) + 1
  BY <1>1, <1>2
<1>4. ~Quoted(t, Len(t))
  <2>1. Place - 1 = Len(t)
    BY <1>2, <1>3
  <2>2. ~Quoted(t, Place - 1)
    BY <1>1, <1>2, Zenon
  <2> QED BY <2>1, <2>2
<1>5. n \in Nat /\ args \in Seq(Nat) /\ slotStart \in Nat
  BY DEF Exact, IInv, TypeOK
<1>6. /\ Closed(t) /\ Len(SlotsOf(t)) = n + 1
      /\ \A k \in 1 .. Len(SlotsOf(t)) : SlotsOf(t)[k] = Chars(t, KeptBefore(t, k, Place))
  <2>1. ~Literal(t, Len(t) + 1)
    BY <1>2, <1>3
  <2> QED BY <1>2, <1>3, <1>4, <2>1, AllRead
<1>7. CASE n >= ArgMax
  <2>1. Fail
    BY <1>1, <1>7 DEF Push
  <2>2. ~Splits(t)
    <3>1. ~(n + 1 <= ArgMax)
      BY <1>5, <1>7, ArgMaxAssumption
    <3> QED BY <1>6, <3>1 DEF Splits
  <2> QED BY <1>1, <2>1, <2>2, FailsRightly
<1>8. CASE ~(n >= ArgMax)
  <2>1. pc' = "handler" /\ args' = Append(args, slotStart)
    BY <1>1, <1>8 DEF Push
  <2>2. Len(args') = n + 1
    BY <1>5, <2>1
  <2>3. Splits(t)
    <3>1. n + 1 <= ArgMax
      BY <1>5, <1>8, ArgMaxAssumption
    <3> QED BY <1>6, <3>1 DEF Splits
  <2>4. ASSUME NEW k \in 1 .. Len(args')
        PROVE  Slot(k)' = SlotsOf(t)[k]
    <3> DEFINE limit == IF k < Len(args') THEN args'[k + 1] - 1 ELSE wr
    <3>1. SlotLimit(k)' = limit
      BY <1>1, <1>5, <2>1 DEF SlotLimit
    <3> HIDE DEF limit
    <3>2. SubSeq(buf', args'[k], limit - 1) = Chars(t, KeptBefore(t, k, Place))
      BY <1>1, <2>1, EndedReads DEF limit
    <3>3. Slot(k)' = SubSeq(buf', args'[k], limit - 1)
      BY <3>1 DEF Slot
    <3> QED BY <1>6, <2>2, <3>2, <3>3
  <2>5. Params(name)' = t
    BY <1>1, SameParams
  <2>6. SplitDone'
    <3>1. Splits(Params(name)') /\ Len(args') = Len(SlotsOf(Params(name)'))
      BY <1>6, <2>2, <2>3, <2>5
    <3>2. \A k \in 1 .. Len(args') : Slot(k)' = SlotsOf(Params(name)')[k]
      BY <2>4, <2>5
    <3>3. kind' = "setup"
      BY <1>1, <1>2
    <3> QED BY <3>1, <3>2, <3>3 DEF SplitDone
  <2>7. Found'
    BY <1>1, StillFound
  <2> QED BY <2>1, <2>6, <2>7 DEF SplitSoFar, NothingAsked
<1> QED BY <1>5, <1>7, <1>8, ArgMaxAssumption

LEMMA UnclosedReads ==
  ASSUME Exact, Unclosed \/ Dangling
  PROVE  Found' /\ SplitSoFar' /\ SplitDone' /\ NothingAsked'
<1> DEFINE t == Params(name)
<1>1. pc = "split" /\ Fail /\ line' = line
  BY DEF Unclosed, Dangling, At
<1>2. /\ t \in Seq(Char) /\ Len(t) \in Nat
      /\ Place \in 1 .. Len(t) + 1 /\ ~Literal(t, Place)
      /\ inQuote <=> Quoted(t, Place - 1)
      /\ Place <= Len(t) => buf[rd] = t[Place] /\ t[Place] # NUL
      /\ Place = Len(t) + 1 => buf[rd] = NUL
      /\ Place < Len(t) => buf[rd + 1] = t[Place + 1] /\ t[Place + 1] # NUL
  BY <1>1, Situation
<1>3. CASE Unclosed
  <2>1. buf[rd] = NUL /\ inQuote
    BY <1>3, Zenon DEF Unclosed, At
  <2>2. Place - 1 = Len(t)
    BY <1>2, <2>1
  <2>3. Quoted(t, Place - 1)
    BY <1>2, <2>1, Zenon
  <2>4. ~Splits(t)
    BY <2>2, <2>3 DEF Splits, Closed
  <2> QED BY <1>1, <2>4, FailsRightly
<1>4. CASE Dangling
  <2>1. buf[rd] = Escape /\ buf[rd + 1] = NUL
    BY <1>4, Zenon DEF Dangling, At
  <2>2. Place = Len(t) /\ t[Place] = Escape
    BY <1>2, <2>1, SpecialAssumption
  <2>3. t # <<>>
    <3>1. Len(t) # 0
      BY <1>2, <2>2
    <3> QED BY <3>1, EmptySeq
  <2>4. Mark(t, Len(t), Escape)
    BY <1>2, <2>2 DEF Mark
  <2>5. ~Splits(t)
    BY <2>3, <2>4 DEF Splits, Closed
  <2> QED BY <1>1, <2>5, FailsRightly
<1> QED BY <1>3, <1>4

-----------------------------------------------------------------------------
(* core_parse_line, up to the handler *)

LEMMA BadPrefixReads ==
  ASSUME Exact, BadPrefix
  PROVE  Found' /\ SplitSoFar' /\ SplitDone' /\ NothingAsked'
<1>1. pc = "parse" /\ ~(buf[1] = A /\ buf[2] = T) /\ pc' = "failed" /\ line' = line
  BY DEF BadPrefix, Fail
<1>2. line \in Seq(Char) /\ buf = Sent
  BY <1>1 DEF Exact, IInv, TypeOK, Loaded, Sent
<1>3. ASSUME NEW r \in Requests PROVE FALSE
  <2>1. r[1] \in DOMAIN Commands /\ r[2] \in Kinds /\ Shape(r[1], r[2])
    BY DEF Requests
  <2>2. r[1] \in Seq(Char) /\ Begins(r[1])
    BY <1>2, <2>1, ShapeNames
  <2>3. 1 \in 1 .. Len(Text) /\ 2 \in 1 .. Len(Text) /\ Text[1] = A /\ Text[2] = T
    BY <1>2, <2>2, TextIs DEF Begins
  <2>4. buf[1] = A /\ buf[2] = T
    BY <1>2, <2>3, TextIs
  <2> QED BY <1>1, <2>4
<1>4. Requests' = {}
  BY <1>1, <1>3, SameLine
<1> QED BY <1>1, <1>4 DEF Found, SplitSoFar, SplitDone, NothingAsked

\* The name that Named looks up is the one of any request.
LEMMA NamedReads ==
  ASSUME Exact, NEW p \in 3 .. Len(buf), Named(p)
  PROVE  /\ pc = "parse" /\ line \in Seq(Char) /\ Len(name') = p - 3
         /\ name' \in Seq(Char)
         /\ \A k \in Kinds : Shape(name', k) <=> KindAt(p) = k
         /\ ~Has(name', KindAt(p)) => Requests = {}
<1>1. /\ pc = "parse" /\ buf[1] = A /\ buf[2] = T /\ Delimiter(p)
      /\ name' = SubSeq(buf, 3, p - 1)
  BY DEF Named
<1> DEFINE n == SubSeq(buf, 3, p - 1)
<1>2. /\ line \in Seq(Char) /\ n \in Seq(Char) /\ Len(n) = p - 3 /\ Begins(n) /\ NameEnd(p)
      /\ \A k \in Kinds : Shape(n, k) <=> KindAt(p) = k
  BY <1>1, DelimiterIs DEF Exact
<1> HIDE DEF n
<1>3. ASSUME NEW r \in Requests PROVE Has(n, KindAt(p))
  <2>1. /\ r[1] \in DOMAIN Commands /\ r[2] \in Kinds /\ r[2] \in Commands[r[1]]
        /\ Shape(r[1], r[2])
    BY DEF Requests
  <2>2. r[1] \in Seq(Char) /\ Begins(r[1]) /\ NameEnd(Len(r[1]) + 3)
    BY <1>2, <2>1, ShapeNames
  <2>3. Len(r[1]) + 3 = p
    BY <1>2, <2>2, TextIs, OneNameEnd
  <2>4. Len(r[1]) = Len(n)
    BY <1>2, <2>2, <2>3
  <2>5. r[1] = n
    BY <1>2, <2>2, <2>4, OneName
  <2>6. KindAt(p) = r[2]
    BY <1>2, <2>1, <2>5
  <2> QED BY <2>1, <2>5, <2>6 DEF Has
<1> QED BY <1>1, <1>2, <1>3 DEF n

LEMMA NoHandlerReads ==
  ASSUME Exact, NEW p \in 3 .. Len(buf), NoHandler(p)
  PROVE  Found' /\ SplitSoFar' /\ SplitDone' /\ NothingAsked'
<1>1. Named(p) /\ ~Has(name', KindAt(p)) /\ pc' = "failed" /\ line' = line
  BY DEF NoHandler, Fail
<1>2. Requests = {}
  BY <1>1, NamedReads
<1>3. Requests' = {}
  BY <1>1, <1>2, SameLine
<1> QED BY <1>1, <1>3 DEF Found, SplitSoFar, SplitDone, NothingAsked

\* A handler that is registered for what the line looks like.
LEMMA HandlerFound ==
  ASSUME Exact, NEW p \in 3 .. Len(buf), Named(p), Has(name', KindAt(p)),
         kind' = KindAt(p), line' = line
  PROVE  Found'
<1>1. name' \in DOMAIN Commands /\ KindAt(p) \in Commands[name']
  BY DEF Has
<1>2. KindAt(p) \in Kinds
  <2>1. Commands[name'] \subseteq Kinds
    BY <1>1, CommandsAssumption
  <2> QED BY <1>1, <2>1
<1>3. Shape(name', KindAt(p))
  BY <1>2, NamedReads
<1>4. Shape(name, kind)'
  <2>1. \A n, k : Shape(n, k)' = Shape(n, k)
    BY SameLine
  <2> QED BY <1>3, <2>1 DEF Shape, Params, Text, CStr
<1>5. Has(name, kind)'
  BY <1>1 DEF Has
<1> QED BY <1>2, <1>4, <1>5 DEF Found

LEMMA CallReads ==
  ASSUME Exact, NEW p \in 3 .. Len(buf), Call(p)
  PROVE  Found' /\ SplitSoFar' /\ SplitDone' /\ NothingAsked'
<1>1. /\ Named(p) /\ Has(name', KindAt(p)) /\ KindAt(p) # "setup"
      /\ pc' = "handler" /\ kind' = KindAt(p) /\ line' = line /\ args' = args
  BY DEF Call
<1>2. args = <<>>
  BY <1>1 DEF Named, Exact, IInv, Loaded
<1>3. Found'
  BY <1>1, HandlerFound
<1>4. SplitDone'
  BY <1>1, <1>2 DEF SplitDone
<1> QED BY <1>1, <1>3, <1>4 DEF SplitSoFar, NothingAsked

LEMMA SplitStartReads ==
  ASSUME Exact, NEW p \in 3 .. Len(buf), SplitStart(p)
  PROVE  Found' /\ SplitSoFar' /\ SplitDone' /\ NothingAsked'
<1>1. /\ Named(p) /\ Has(name', KindAt(p)) /\ KindAt(p) = "setup"
      /\ pc' = "split" /\ kind' = "setup" /\ line' = line /\ args' = <<>>
      /\ rd' = p + 1 /\ wr' = p + 1 /\ slotStart' = p + 1
  BY DEF SplitStart
<1>2. Found'
  BY <1>1, HandlerFound
<1> DEFINE t == Params(name')
<1>3. /\ line \in Seq(Char) /\ Len(name') = p - 3 /\ name' \in Seq(Char)
      /\ Shape(name', "setup")
  BY <1>1, NamedReads DEF Kinds
<1>4. t \in Seq(Char) /\ Len(t) \in Nat
  <2>1. Len(Text) >= Len(name') + 3
    BY <1>3, ShapeIs
  <2> QED BY <1>3, <2>1, ParamsIs
<1>5. Params(name)' = t
  <2>1. \A n : Params(n)' = Params(n)
    BY <1>1, SameLine
  <2> QED BY <2>1 DEF Params, Text, CStr
<1>6. Place' = 1
  BY <1>1, <1>3 DEF Place
<1>7. ~inQuote'
  BY Zenon DEF SplitStart
<1>8. /\ ~Literal(t, 1) /\ ~Quoted(t, 1 - 1) /\ SeparatorsBefore(t, 1) = 0
      /\ \A k \in {1} : KeptBefore(t, k, 1) = {}
  BY <1>4, LiteralStep, QuotedStep, SeparatorsStep, KeptStep
<1>9. Chars(t, KeptBefore(t, 1, 1)) = <<>>
  <2>1. 1 \in 1 .. Len(t) + 1 /\ 2 = SeparatorsBefore(t, 1) + 2
    BY <1>4, <1>8
  <2>2. Chars(t, KeptBefore(t, 2, 1)) = <<>>
    BY <1>4, <2>1, NotYetOpened
  <2>3. KeptBefore(t, 2, 1) = {} /\ KeptBefore(t, 1, 1) = {}
    BY <1>4, KeptStep
  <2> QED BY <2>2, <2>3
<1>10. SubSeq(buf', slotStart', wr' - 1) = <<>>
  <2> DEFINE i == p + 1
             b == buf'
             u == SubSeq(b, i, p)
  <2>1. slotStart' = i /\ wr' - 1 = p /\ i \in Nat /\ p \in Nat /\ p < i
    BY <1>1
  <2>2. \A m \in i .. p : b[m] \in Char
    BY <2>1
  <2> HIDE DEF i, b
  <2>3. u \in Seq(Char) /\ Len(u) = 0
    BY <2>1, <2>2, SubSeqProperties
  <2> HIDE DEF u
  <2>4. u = <<>>
    BY <2>3, EmptySeq
  <2> QED BY <2>1, <2>4 DEF u, b
<1>11. SplitSoFar'
  <2> DEFINE v == Params(name)'
  <2>1. Place' \in 1 .. Len(v) + 1 /\ ~Literal(v, Place') /\ Len(args') = SeparatorsBefore(v, Place')
    BY <1>1, <1>4, <1>5, <1>6, <1>8
  <2>2. inQuote' <=> Quoted(v, Place' - 1)
    BY <1>5, <1>6, <1>7, <1>8
  <2>3. \A k \in 1 .. Len(args') : Slot(k)' = Chars(v, KeptBefore(v, k, Place'))
    BY <1>1
  <2>4. SubSeq(buf', slotStart', wr' - 1) = Chars(v, KeptBefore(v, Len(args') + 1, Place'))
    <3>1. Len(args') + 1 = 1
      BY <1>1
    <3>2. Chars(v, KeptBefore(v, Len(args') + 1, Place')) = <<>>
      BY <1>5, <1>6, <1>9, <3>1
    <3> QED BY <1>10, <3>2
  <2>5. kind' = "setup"
    BY <1>1
  <2> QED BY <2>1, <2>2, <2>3, <2>4, <2>5, Zenon DEF SplitSoFar
<1> QED BY <1>1, <1>2, <1>11 DEF SplitDone, NothingAsked

LEMMA RestReads ==
  ASSUME Exact, ExecLine \/ Return \/ UNCHANGED vars
  PROVE  Found' /\ SplitSoFar' /\ SplitDone' /\ NothingAsked'
<1>1. CASE ExecLine \/ Return
  <2>1. pc' \in {"parse", "idle"}
    BY <1>1 DEF ExecLine, Return
  <2> QED BY <2>1 DEF Found, SplitSoFar, SplitDone, NothingAsked
<1>2. CASE UNCHANGED vars
  <2>1. UNCHANGED <<line, buf, pc, kind, name, rd, wr, slotStart, args>>
    BY <1>2 DEF vars, cursors
  <2>2. inQuote' = inQuote
    BY <1>2, Zenon DEF vars, cursors
  <2>3. CASE pc \in {"idle", "parse", "failed"}
    <3>1. pc = "failed" => Requests' = {}
      BY <2>1, SameLine DEF Exact, NothingAsked
    <3> QED BY <2>1, <2>3, <3>1 DEF Found, SplitSoFar, SplitDone, NothingAsked
  <2>4. CASE pc \in {"split", "handler"}
    <3>1. Found'
      BY <2>1, <2>4, StillFound
    <3>2. Params(name)' = Params(name) /\ Place' = Place
      BY <2>1, SameParams DEF Place
    <3>3. \A k \in 1 .. Len(args) : Slot(k)' = Slot(k)
      BY <2>1 DEF Slot, SlotLimit
    <3>4. SplitSoFar'
      <4> DEFINE t == Params(name)
                 u == Params(name)'
      <4>1. ASSUME pc = "split"
            PROVE  /\ kind = "setup"
                   /\ Place \in 1 .. Len(t) + 1 /\ ~Literal(t, Place)
                   /\ inQuote <=> Quoted(t, Place - 1)
                   /\ Len(args) = SeparatorsBefore(t, Place)
                   /\ \A k \in 1 .. Len(args) : Slot(k) = Chars(t, KeptBefore(t, k, Place))
                   /\ SubSeq(buf, slotStart, wr - 1) = Chars(t, KeptBefore(t, Len(args) + 1, Place))
        BY <4>1, Zenon DEF Exact, SplitSoFar
      <4>2. ASSUME pc' = "split"
            PROVE  /\ kind' = "setup"
                   /\ Place' \in 1 .. Len(u) + 1 /\ ~Literal(u, Place')
                   /\ Len(args') = SeparatorsBefore(u, Place')
                   /\ \A k \in 1 .. Len(args') : Slot(k)' = Chars(u, KeptBefore(u, k, Place'))
                   /\ SubSeq(buf', slotStart', wr' - 1)
                      = Chars(u, KeptBefore(u, Len(args') + 1, Place'))
        BY <2>1, <3>2, <3>3, <4>1, <4>2
      <4>3. ASSUME pc' = "split" PROVE inQuote' <=> Quoted(u, Place' - 1)
        BY <2>1, <2>2, <3>2, <4>1, <4>3, Zenon
      <4> QED BY <4>2, <4>3, Zenon DEF SplitSoFar
    <3>5. SplitDone'
      <4> DEFINE t == Params(name)
                 u == Params(name)'
      <4>1. ASSUME pc = "handler"
            PROVE  /\ kind # "setup" => args = <<>>
                   /\ kind = "setup" => /\ Splits(t) /\ Len(args) = Len(SlotsOf(t))
                                        /\ \A k \in 1 .. Len(args) : Slot(k) = SlotsOf(t)[k]
        BY <4>1, Zenon DEF Exact, SplitDone
      <4>2. ASSUME pc' = "handler"
            PROVE  /\ kind' # "setup" => args' = <<>>
                   /\ kind' = "setup" => /\ Splits(u) /\ Len(args') = Len(SlotsOf(u))
                                         /\ \A k \in 1 .. Len(args') : Slot(k)' = SlotsOf(u)[k]
        BY <2>1, <3>2, <3>3, <4>1, <4>2
      <4> QED BY <4>2, Zenon DEF SplitDone
    <3> QED BY <2>1, <2>4, <3>1, <3>4, <3>5 DEF NothingAsked
  <2> QED BY <2>3, <2>4 DEF Exact, IInv, TypeOK
<1> QED BY <1>1, <1>2

\* The parser holds what the line means, from the first character of a line to its
\* handler or its failure.
THEOREM ParseExact == Spec => []Exact
<1>1. Init => Exact
  <2> SUFFICES ASSUME Init PROVE Exact
    OBVIOUS
  <2>1. pc = "idle"
    BY DEF Init
  <2> QED BY <2>1, InitEstablishesIInv DEF Exact, Found, SplitSoFar, SplitDone, NothingAsked
<1>2. ASSUME Exact, IInv', [Next]_vars PROVE Exact'
  <2>1. CASE ExecLine \/ Return \/ UNCHANGED vars
    BY <1>2, <2>1, RestReads DEF Exact
  <2>2. CASE BadPrefix
    BY <1>2, <2>2, BadPrefixReads DEF Exact
  <2>3. CASE Unclosed \/ Dangling
    BY <1>2, <2>3, UnclosedReads DEF Exact
  <2>4. CASE SlotEnd
    BY <1>2, <2>4, SlotEndReads DEF Exact
  <2>5. CASE SlotComma
    BY <1>2, <2>5, SlotCommaReads DEF Exact
  <2>6. CASE QuoteMark
    BY <1>2, <2>6, QuoteMarkReads DEF Exact
  <2>7. CASE Escaped
    BY <1>2, <2>7, EscapedReads DEF Exact
  <2>8. CASE Plain
    BY <1>2, <2>8, PlainReads DEF Exact
  <2>9. CASE \E p \in 3 .. Len(buf) : NoHandler(p)
    BY <1>2, <2>9, NoHandlerReads DEF Exact
  <2>10. CASE \E p \in 3 .. Len(buf) : Call(p)
    BY <1>2, <2>10, CallReads DEF Exact
  <2>11. CASE \E p \in 3 .. Len(buf) : SplitStart(p)
    BY <1>2, <2>11, SplitStartReads DEF Exact
  <2> QED BY <1>2, <2>1, <2>2, <2>3, <2>4, <2>5, <2>6, <2>7, <2>8, <2>9, <2>10, <2>11
          DEF Next, Split
<1> QED BY <1>1, <1>2, ParseSafe, PTL DEF Spec

\* For every line and every set of commands: a handler runs if and only if the line
\* asks for it.
THEOREM ParseDispatchExact == Spec => []DispatchExact
<1>1. Exact => DispatchExact
  <2> SUFFICES ASSUME Exact PROVE DispatchExact
    OBVIOUS
  <2>1. ASSUME pc = "handler" PROVE Requests = {<<name, kind>>}
    <3>1. /\ name \in DOMAIN Commands /\ kind \in Commands[name] /\ kind \in Kinds
          /\ Shape(name, kind) /\ line \in Seq(Char)
      BY <2>1 DEF Exact, Found, Has, IInv, TypeOK
    <3>2. kind = "setup" => Splits(Params(name))
      BY <2>1, Zenon DEF Exact, SplitDone
    <3>3. <<name, kind>> \in Requests
      BY <3>1, <3>2 DEF Requests
    <3>4. \A r \in Requests : r = <<name, kind>>
      BY <3>1, OneRequest
    <3> QED BY <3>3, <3>4
  <2>2. pc = "failed" => Requests = {}
    BY DEF Exact, NothingAsked
  <2> QED BY <2>1, <2>2 DEF DispatchExact
<1> QED BY <1>1, ParseExact, PTL

\* The C string that a handler gets for a slot is the whole slot.
LEMMA SlotString ==
  ASSUME IInv, pc = "handler", NEW k \in 1 .. Len(args)
  PROVE  CStr(buf, args[k]) = Slot(k) /\ Slot(k) \in Seq(Char)
<1>1. /\ args \in Seq(Nat) /\ buf \in Seq(Char) /\ wr \in Nat
      /\ 1 <= args[k] /\ args[k] <= SlotLimit(k) /\ SlotLimit(k) <= wr
      /\ wr <= Len(buf)
      /\ buf[SlotLimit(k)] = NUL
      /\ \A i \in args[k] .. SlotLimit(k) - 1 : buf[i] # NUL
  BY DEF IInv, TypeOK, SlotsApart
<1> DEFINE e == SlotLimit(k)
<1>2. args[k] \in Nat /\ Len(buf) \in Nat
  BY <1>1
<1>3. e \in Int
  <2>1. k < Len(args) => k + 1 \in 1 .. Len(args)
    BY <1>1
  <2>2. k < Len(args) => args[k + 1] \in Nat
    BY <1>1, <2>1
  <2> QED BY <1>1, <2>2 DEF SlotLimit
<1>4. /\ args[k] <= e /\ e <= wr /\ buf[e] = NUL
      /\ \A i \in args[k] .. e - 1 : buf[i] # NUL
  BY <1>1
<1> HIDE DEF e
<1>5. e \in args[k] .. Len(buf)
  BY <1>1, <1>2, <1>3, <1>4
<1>6. CStr(buf, args[k]) = SubSeq(buf, args[k], e - 1)
  BY <1>2, <1>4, <1>5, CStrIs
<1>7. SubSeq(buf, args[k], e - 1) \in Seq(Char)
  <2> DEFINE h == e - 1
  <2>1. h \in Int /\ h <= Len(buf)
    BY <1>2, <1>5
  <2>2. \A i \in args[k] .. h : buf[i] \in Char
    BY <1>1, <1>2, <2>1
  <2> HIDE DEF h
  <2>3. SubSeq(buf, args[k], h) \in Seq(Char)
    BY <1>2, <2>1, <2>2, SubSeqProperties
  <2> QED BY <2>3 DEF h
<1> QED BY <1>6, <1>7 DEF Slot, e

\* For every line: a setup handler sees the slots that the text stands for.
THEOREM ParseSlotsExact == Spec => []SlotsExact
<1>1. Exact => SlotsExact
  <2> SUFFICES ASSUME Exact, pc = "handler"
               PROVE  Slots = IF kind = "setup" THEN SlotsOf(Params(name)) ELSE <<>>
    BY Zenon DEF SlotsExact
  <2>1. args \in Seq(Nat)
    BY DEF Exact, IInv, TypeOK
  <2>2. \A k \in 1 .. Len(args) : CStr(buf, args[k]) = Slot(k)
    BY SlotString DEF Exact
  <2>3. Slots = [k \in 1 .. Len(args) |-> Slot(k)]
    BY <2>2 DEF Slots
  <2>4. CASE kind = "setup"
    <3> DEFINE t == Params(name)
    <3>1. Len(args) = Len(SlotsOf(t)) /\ \A k \in 1 .. Len(args) : Slot(k) = SlotsOf(t)[k]
      BY <2>4, Zenon DEF Exact, SplitDone
    <3>2. Slots = [k \in 1 .. Len(args) |-> SlotsOf(t)[k]]
      BY <2>3, <3>1
    <3>3. t \in Seq(Char)
      <4>1. /\ line \in Seq(Char) /\ name \in Seq(Char) /\ Shape(name, "setup")
        BY <2>4, CommandsAssumption DEF Exact, Found, Has, IInv, TypeOK
      <4>2. Len(Text) >= Len(name) + 3
        BY <4>1, ShapeIs
      <4> QED BY <4>1, <4>2, ParamsIs
    <3>4. SlotsOf(t) = [k \in 1 .. Len(SlotsOf(t)) |-> SlotsOf(t)[k]]
      <4> DEFINE c == Cardinality(Separators(t)) + 1
      <4>1. SlotsOf(t) = [k \in 1 .. c |-> Chars(t, Kept(t, k))] /\ Len(SlotsOf(t)) = c
        BY <3>3, SlotsOfLen DEF SlotsOf
      <4> HIDE DEF c
      <4> QED BY <4>1
    <3> QED BY <2>4, <3>1, <3>2, <3>4
  <2>5. CASE kind # "setup"
    <3>1. args = <<>>
      BY <2>5, Zenon DEF Exact, SplitDone
    <3>2. Len(args) = 0
      BY <3>1
    <3>3. DOMAIN Slots = 1 .. 0 /\ Slots = [k \in 1 .. 0 |-> Slots[k]]
      BY <2>3, <3>2
    <3> DEFINE f == Slots
    <3>4. DOMAIN f = 1 .. 0 /\ f = [k \in 1 .. 0 |-> f[k]]
      BY <3>3
    <3> HIDE DEF f
    <3>5. f \in [1 .. 0 -> Char]
      BY <3>4
    <3>6. f \in Seq(Char) /\ Len(f) = 0
      BY <3>5
    <3>7. f = <<>>
      BY <3>6, EmptySeq
    <3> QED BY <2>5, <3>7 DEF f
  <2> QED BY <2>4, <2>5
<1> QED BY <1>1, ParseExact, PTL

-----------------------------------------------------------------------------
(* lw_at_get_para_digit *)

\* f adds up the digits of s behind place a.
Adds(f, a, b, s) == f = [i \in a .. b |-> IF i < a + 1 THEN 0 ELSE 10 * f[i - 1] + Digit[s[i]]]

LEMMA AddsExists ==
  ASSUME NEW a \in Nat, NEW b \in Nat, a <= b, NEW s, \A i \in a + 1 .. b : Digit[s[i]] \in Nat
  PROVE  \E f : Adds(f, a, b, s) /\ \A i \in a .. b : f[i] \in Nat
<1> DEFINE Done(m) == \E f \in [a .. m -> Nat] : Adds(f, a, m, s)
           S == {m \in a .. b : ~Done(m)}
<1>1. Done(a)
  <2> DEFINE f == [i \in a .. a |-> 0]
  <2>1. f \in [a .. a -> Nat]
    OBVIOUS
  <2>2. f = [i \in a .. a |-> IF i < a + 1 THEN 0 ELSE 10 * f[i - 1] + Digit[s[i]]]
    OBVIOUS
  <2> HIDE DEF f
  <2> QED BY <2>1, <2>2 DEF Adds
<1>2. ASSUME NEW m \in a .. b, Done(m), m + 1 <= b PROVE Done(m + 1)
  <2>1. PICK f \in [a .. m -> Nat] : Adds(f, a, m, s)
    BY <1>2
  <2>2. \A i \in a .. m : f[i] = IF i < a + 1 THEN 0 ELSE 10 * f[i - 1] + Digit[s[i]]
    BY <2>1 DEF Adds
  <2> DEFINE x == 10 * f[m] + Digit[s[m + 1]]
             g == [i \in a .. m + 1 |-> IF i = m + 1 THEN x ELSE f[i]]
  <2>3. m \in Nat /\ m + 1 \in a + 1 .. b /\ m \in a .. m
    BY <1>2
  <2>4. f[m] \in Nat /\ Digit[s[m + 1]] \in Nat
    BY <2>3
  <2>5. x \in Nat
    BY <2>4
  <2> HIDE DEF x
  <2>6. g \in [a .. m + 1 -> Nat]
    BY <2>3, <2>5
  <2>7. /\ DOMAIN g = a .. m + 1 /\ g[m + 1] = x
        /\ \A i \in a .. m : g[i] = f[i]
    BY <2>3
  <2> HIDE DEF g
  <2>8. ASSUME NEW i \in a .. m + 1
        PROVE  g[i] = IF i < a + 1 THEN 0 ELSE 10 * g[i - 1] + Digit[s[i]]
    <3>1. CASE i = m + 1
      <4>1. ~(i < a + 1) /\ i - 1 = m
        BY <2>3, <3>1
      <4>2. g[i - 1] = f[m]
        BY <2>3, <2>7, <4>1
      <4> QED BY <2>7, <3>1, <4>1, <4>2 DEF x
    <3>2. CASE i \in a .. m
      <4>1. ~(i < a + 1) => i - 1 \in a .. m
        BY <2>3, <3>2
      <4> QED BY <2>2, <2>7, <3>2, <4>1
    <3> QED BY <2>3, <3>1, <3>2
  <2>9. g = [i \in a .. m + 1 |-> IF i < a + 1 THEN 0 ELSE 10 * g[i - 1] + Digit[s[i]]]
    BY <2>6, <2>8
  <2> QED BY <2>6, <2>9 DEF Adds
<1> HIDE DEF Done
<1>3. S = {}
  <2> SUFFICES ASSUME S # {} PROVE FALSE
    OBVIOUS
  <2>1. S \subseteq Nat
    OBVIOUS
  <2>2. PICK m \in S : \A j \in S : m <= j
    <3> HIDE DEF S
    <3> QED BY <2>1, LeastNat
  <2>3. m \in a .. b /\ ~Done(m)
    OBVIOUS
  <2>4. PICK h \in Int : m = h + 1
    <3>1. m - 1 \in Int /\ m = m - 1 + 1
      BY <2>3
    <3> QED BY <3>1
  <2>5. h \in a .. b
    <3>1. m # a
      BY <1>1, <2>3
    <3> QED BY <2>3, <2>4, <3>1
  <2>6. h \notin S
    <3> HIDE DEF S
    <3> QED BY <2>2, <2>4, <2>5
  <2>7. Done(h)
    BY <2>5, <2>6
  <2> QED BY <1>2, <2>3, <2>4, <2>5, <2>7
<1>4. Done(b)
  BY <1>3
<1>5. PICK f \in [a .. b -> Nat] : Adds(f, a, b, s)
  BY <1>4 DEF Done
<1> QED BY <1>5

\* Two sums over the same digits, at different places, are the same.
SameDigits(s, a, u, n) == \A i \in 1 .. n : Digit[s[a + i]] = Digit[u[i]] /\ Digit[u[i]] \in Nat
SameSums(f, a, g, n)   == \A i \in 0 .. n : f[a + i] = g[i] /\ g[i] \in Nat

LEMMA AddsSame ==
  ASSUME NEW a \in Nat, NEW n \in Nat, NEW b, b = a + n, NEW f, NEW s, NEW g, NEW u,
         Adds(f, a, b, s), Adds(g, 0, n, u), SameDigits(s, a, u, n)
  PROVE  SameSums(f, a, g, n)
<1>0. \A i \in 1 .. n : Digit[s[a + i]] = Digit[u[i]] /\ Digit[u[i]] \in Nat
  BY DEF SameDigits
<1> DEFINE Same(i) == f[a + i] = g[i] /\ g[i] \in Nat
           S == {i \in 0 .. n : ~Same(i)}
<1>1. /\ \A i \in a .. a + n : f[i] = IF i < a + 1 THEN 0 ELSE 10 * f[i - 1] + Digit[s[i]]
      /\ \A i \in 0 .. n : g[i] = IF i < 0 + 1 THEN 0 ELSE 10 * g[i - 1] + Digit[u[i]]
  BY DEF Adds
<1>2. Same(0)
  <2>1. a + 0 \in a .. a + n /\ a + 0 < a + 1 /\ 0 \in 0 .. n /\ 0 < 0 + 1
    OBVIOUS
  <2>2. f[a + 0] = 0 /\ g[0] = 0
    BY <1>1, <2>1
  <2> QED BY <2>2
<1>3. ASSUME NEW h \in 0 .. n, h + 1 <= n, Same(h) PROVE Same(h + 1)
  <2>1. /\ a + (h + 1) \in a .. a + n /\ ~(a + (h + 1) < a + 1) /\ a + (h + 1) - 1 = a + h
        /\ h + 1 \in 0 .. n /\ ~(h + 1 < 0 + 1) /\ h + 1 - 1 = h /\ h + 1 \in 1 .. n
    BY <1>3
  <2>2. f[a + (h + 1)] = 10 * f[a + h] + Digit[s[a + (h + 1)]] /\ g[h + 1] = 10 * g[h] + Digit[u[h + 1]]
    BY <1>1, <2>1
  <2>3. Digit[s[a + (h + 1)]] = Digit[u[h + 1]] /\ Digit[u[h + 1]] \in Nat
    BY <1>0, <2>1
  <2> QED BY <1>3, <2>2, <2>3
<1> HIDE DEF Same
<1>4. S = {}
  <2> SUFFICES ASSUME S # {} PROVE FALSE
    OBVIOUS
  <2>1. S \subseteq Nat
    OBVIOUS
  <2>2. PICK m \in S : \A j \in S : m <= j
    <3> HIDE DEF S
    <3> QED BY <2>1, LeastNat
  <2>3. m \in 0 .. n /\ ~Same(m)
    OBVIOUS
  <2>4. PICK h \in Int : m = h + 1
    <3>1. m - 1 \in Int /\ m = m - 1 + 1
      BY <2>3
    <3> QED BY <3>1
  <2>5. h \in 0 .. n
    <3>1. m # 0
      BY <1>2, <2>3
    <3> QED BY <2>3, <2>4, <3>1
  <2>6. h \notin S
    <3> HIDE DEF S
    <3> QED BY <2>2, <2>4, <2>5
  <2>7. Same(h)
    BY <2>5, <2>6
  <2> QED BY <1>3, <2>3, <2>4, <2>5, <2>7
<1>5. \A i \in 0 .. n : Same(i)
  BY <1>4
<1> QED BY <1>5 DEF Same, SameSums

\* The digits that strtol reads: all that stand in a row.
DigitRow(s, from, n) == /\ n \in 0 .. Len(s) - from + 1
                        /\ \A i \in from .. from + n - 1 : s[i] \in DOMAIN Digit
                        /\ from + n <= Len(s) => s[from + n] \notin DOMAIN Digit

LEMMA DigitRowExists ==
  ASSUME NEW s \in Seq(Char), NEW from \in Nat, from >= 1, from <= Len(s) + 1
  PROVE  \E n : DigitRow(s, from, n)
<1> DEFINE S == {n \in 0 .. Len(s) - from + 1 :
                   from + n = Len(s) + 1 \/ s[from + n] \notin DOMAIN Digit}
<1>1. Len(s) - from + 1 \in S
  OBVIOUS
<1>2. PICK n \in S : \A m \in S : n <= m
  <2>1. S \subseteq Nat
    OBVIOUS
  <2> HIDE DEF S
  <2> QED BY <1>1, <2>1, LeastNat
<1>3. n \in 0 .. Len(s) - from + 1 /\ (from + n = Len(s) + 1 \/ s[from + n] \notin DOMAIN Digit)
  BY <1>2
<1>4. ASSUME NEW i \in from .. from + n - 1 PROVE s[i] \in DOMAIN Digit
  <2> DEFINE m == i - from
  <2>1. m \in 0 .. Len(s) - from + 1 /\ m < n /\ from + m = i /\ i # Len(s) + 1
    BY <1>3
  <2>2. m \notin S
    <3> HIDE DEF S, m
    <3> QED BY <1>2, <1>3, <2>1
  <2> HIDE DEF m
  <2> QED BY <2>1, <2>2
<1>5. from + n <= Len(s) => s[from + n] \notin DOMAIN Digit
  BY <1>3
<1> QED BY <1>3, <1>4, <1>5 DEF DigitRow

\* strtol by its parts: how many blanks it skips, where its digits begin, how many they are.
Blanks(s) == CHOOSE n \in 0 .. Len(s) : /\ \A i \in 1 .. n : s[i] \in Blank
                                        /\ n < Len(s) => s[n + 1] \notin Blank
From(s)   == IF Blanks(s) < Len(s) /\ s[Blanks(s) + 1] \in {Plus, Minus}
             THEN Blanks(s) + 2 ELSE Blanks(s) + 1
Number(s) == CHOOSE n \in 0 .. Len(s) - From(s) + 1 :
               /\ \A i \in From(s) .. From(s) + n - 1 : s[i] \in DOMAIN Digit
               /\ From(s) + n <= Len(s) => s[From(s) + n] \notin DOMAIN Digit
Total(s)  == CHOOSE v : v = [i \in From(s) - 1 .. From(s) + Number(s) - 1 |->
                               IF i < From(s) THEN 0 ELSE 10 * v[i - 1] + Digit[s[i]]]
Signed(s) == IF Number(s) = 0 THEN 0
             ELSE IF From(s) > 1 /\ s[From(s) - 1] = Minus
                  THEN 0 - Total(s)[From(s) + Number(s) - 1]
             ELSE Total(s)[From(s) + Number(s) - 1]

LEMMA StrtolIs ==
  ASSUME NEW s
  PROVE  Strtol(s) = [len |-> IF Number(s) = 0 THEN 0 ELSE From(s) + Number(s) - 1,
                      val |-> IF Signed(s) > LongMax THEN LongMax
                              ELSE IF Signed(s) < LongMin THEN LongMin ELSE Signed(s)]
BY Zenon DEF Strtol, Blanks, From, Number, Total, Signed

\* What strtol skips is all blanks and ends in front of the first character that is none.
LEMMA BlanksIs ==
  ASSUME NEW s \in Seq(Char)
  PROVE  /\ Blanks(s) \in 0 .. Len(s)
         /\ \A i \in 1 .. Blanks(s) : s[i] \in Blank
         /\ Blanks(s) < Len(s) => s[Blanks(s) + 1] \notin Blank
<1> DEFINE B == 0 .. Len(s)
           P(n) == /\ \A i \in 1 .. n : s[i] \in Blank
                   /\ n < Len(s) => s[n + 1] \notin Blank
           S == {n \in B : n = Len(s) \/ s[n + 1] \notin Blank}
<1>1. Len(s) \in Nat /\ Len(s) \in S /\ S \subseteq Nat
  OBVIOUS
<1>2. PICK n \in S : \A m \in S : n <= m
  <2> HIDE DEF S
  <2> QED BY <1>1, LeastNat
<1>3. n \in B /\ (n = Len(s) \/ s[n + 1] \notin Blank)
  BY <1>2
<1>4. ASSUME NEW i \in 1 .. n PROVE s[i] \in Blank
  <2>1. i - 1 \in B /\ i - 1 < n /\ i - 1 # Len(s) /\ i - 1 + 1 = i
    BY <1>1, <1>3
  <2>2. i - 1 \notin S
    <3> HIDE DEF S
    <3> QED BY <1>1, <1>2, <1>3, <2>1
  <2> QED BY <2>1, <2>2
<1>5. \E m \in B : P(m)
  BY <1>3, <1>4
<1>6. Blanks(s) = CHOOSE m \in B : P(m)
  BY DEF Blanks
<1>7. Blanks(s) \in B /\ P(Blanks(s))
  <2> HIDE DEF B, P
  <2> QED BY <1>5, <1>6
<1> QED BY <1>7

LEMMA FromIs ==
  ASSUME NEW s \in Seq(Char)
  PROVE  /\ Len(s) \in Nat /\ From(s) \in 1 .. Len(s) + 1
         /\ From(s) > 1 => s[From(s) - 1] \in Blank \cup {Plus, Minus}
         /\ \A i \in 1 .. From(s) - 2 : s[i] \in Blank
<1> DEFINE b == Blanks(s)
<1>1. /\ b \in 0 .. Len(s) /\ Len(s) \in Nat
      /\ \A i \in 1 .. b : s[i] \in Blank
  BY BlanksIs
<1>2. From(s) = IF b < Len(s) /\ s[b + 1] \in {Plus, Minus} THEN b + 2 ELSE b + 1
  BY DEF From
<1> HIDE DEF b
<1>3. CASE b < Len(s) /\ s[b + 1] \in {Plus, Minus}
  <2>1. From(s) = b + 2 /\ From(s) - 1 = b + 1 /\ From(s) - 2 = b
    BY <1>1, <1>2, <1>3
  <2> QED BY <1>1, <1>3, <2>1
<1>4. CASE ~(b < Len(s) /\ s[b + 1] \in {Plus, Minus})
  <2>1. From(s) = b + 1 /\ From(s) - 1 = b
    BY <1>1, <1>2, <1>4
  <2>2. b > 0 => s[b] \in Blank
    BY <1>1
  <2> QED BY <1>1, <2>1, <2>2
<1> QED BY <1>3, <1>4

\* An integer's digits begin where strtol begins to read digits.
LEMMA IntegerFrom ==
  ASSUME NEW s \in Seq(Char), NEW d \in DOMAIN s, IntegerAt(s, d)
  PROVE  d = From(s)
<1> DEFINE b == Blanks(s)
<1>1. /\ b \in 0 .. Len(s) /\ Len(s) \in Nat /\ d \in 1 .. Len(s)
      /\ \A i \in 1 .. b : s[i] \in Blank
      /\ b < Len(s) => s[b + 1] \notin Blank
  BY BlanksIs
<1>2. From(s) = IF b < Len(s) /\ s[b + 1] \in {Plus, Minus} THEN b + 2 ELSE b + 1
  BY DEF From
<1>3. /\ s[d] \in DOMAIN Digit
      /\ d > 1 => s[d - 1] \in Blank \cup {Plus, Minus}
      /\ \A i \in 1 .. d - 2 : s[i] \in Blank
  <2>1. d \in d .. Len(s)
    BY <1>1
  <2> QED BY <2>1 DEF IntegerAt
<1>4. s[d] \notin Blank /\ s[d] \notin {Plus, Minus}
  BY <1>3, SpecialAssumption, RangesAssumption DEF Special
<1> HIDE DEF b
<1>5. b < d
  BY <1>1, <1>4
<1>6. CASE d = 1 \/ s[d - 1] \in Blank
  <2>1. b + 1 <= d - 1 => s[b + 1] \in Blank
    <3>1. b + 1 <= d - 1 => b + 1 \in 1 .. d - 2 \/ b + 1 = d - 1
      BY <1>1
    <3> QED BY <1>1, <1>3, <1>6, <3>1
  <2>2. b = d - 1
    BY <1>1, <1>5, <2>1
  <2>3. b + 1 = d
    BY <1>1, <2>2
  <2> QED BY <1>2, <1>4, <2>3
<1>7. CASE d > 1 /\ s[d - 1] \in {Plus, Minus}
  <2>1. s[d - 1] \notin Blank
    BY <1>7, SpecialAssumption DEF Special
  <2>2. b < d - 1
    BY <1>1, <1>5, <2>1, <1>7
  <2>3. b + 1 <= d - 2 => s[b + 1] \in Blank
    BY <1>1, <1>3
  <2>4. b = d - 2
    BY <1>1, <2>2, <2>3
  <2>5. b + 1 = d - 1 /\ b < Len(s) /\ b + 2 = d
    BY <1>1, <2>4
  <2> QED BY <1>2, <1>7, <2>5
<1> QED BY <1>1, <1>3, <1>6, <1>7

\* The text behind blanks and sign.
Unsigned(s) == SubSeq(s, From(s), Len(s))

LEMMA UnsignedIs ==
  ASSUME NEW s \in Seq(Char)
  PROVE  /\ Unsigned(s) \in Seq(Char) /\ Len(Unsigned(s)) = Len(s) - From(s) + 1
         /\ \A i \in 1 .. Len(Unsigned(s)) : Unsigned(s)[i] = s[From(s) - 1 + i]
<1>1. Len(s) \in Nat /\ From(s) \in 1 .. Len(s) + 1
  BY FromIs
<1> DEFINE f == From(s)
<1> HIDE DEF f
<1>2. ASSUME f \in 1 .. Len(s) + 1
      PROVE  /\ SubSeq(s, f, Len(s)) \in Seq(Char) /\ Len(SubSeq(s, f, Len(s))) = Len(s) - f + 1
             /\ \A i \in 1 .. Len(SubSeq(s, f, Len(s))) : SubSeq(s, f, Len(s))[i] = s[f - 1 + i]
  BY <1>1, <1>2
<1> QED BY <1>1, <1>2 DEF f, Unsigned

LEMMA NumberIs ==
  ASSUME NEW s \in Seq(Char)
  PROVE  DigitRow(s, From(s), Number(s))
<1> DEFINE from == From(s)
           P(n) == /\ \A i \in from .. from + n - 1 : s[i] \in DOMAIN Digit
                   /\ from + n <= Len(s) => s[from + n] \notin DOMAIN Digit
           B == 0 .. Len(s) - from + 1
<1>1. from \in Nat /\ from >= 1 /\ from <= Len(s) + 1
  BY FromIs
<1>2. \E n : DigitRow(s, from, n)
  BY <1>1, DigitRowExists
<1>3. \E n \in B : P(n)
  BY <1>2 DEF DigitRow
<1>4. Number(s) = CHOOSE n \in B : P(n)
  BY DEF Number
<1>5. Number(s) \in B /\ P(Number(s))
  <2> HIDE DEF B, P
  <2> QED BY <1>3, <1>4
<1> QED BY <1>5 DEF DigitRow

\* An integer is what strtol reads to its end.
LEMMA IntegerIs ==
  ASSUME NEW s \in Seq(Char)
  PROVE  Integer(s) <=> Number(s) = Len(s) - From(s) + 1 /\ Number(s) # 0
<1> DEFINE n == Number(s)
           from == From(s)
           l == Len(s)
<1>1. /\ l \in Nat /\ from \in 1 .. l + 1
      /\ from > 1 => s[from - 1] \in Blank \cup {Plus, Minus}
      /\ \A i \in 1 .. from - 2 : s[i] \in Blank
  BY FromIs
<1>2. /\ n \in 0 .. l - from + 1
      /\ \A i \in from .. from + n - 1 : s[i] \in DOMAIN Digit
      /\ from + n <= l => s[from + n] \notin DOMAIN Digit
  BY NumberIs DEF DigitRow
<1>3. ASSUME Integer(s) PROVE n = l - from + 1 /\ n # 0
  <2>1. PICK d \in DOMAIN s : IntegerAt(s, d)
    BY <1>3 DEF Integer
  <2>2. d = from
    BY <2>1, IntegerFrom
  <2>3. from \in 1 .. l /\ \A i \in from .. l : s[i] \in DOMAIN Digit
    BY <2>1, <2>2 DEF IntegerAt
  <2> HIDE DEF n, from, l
  <2>4. ~(from + n <= l)
    BY <1>1, <1>2, <2>3
  <2> QED BY <1>1, <1>2, <2>3, <2>4
<1>4. ASSUME n = l - from + 1, n # 0 PROVE Integer(s)
  <2>1. from \in 1 .. l /\ from + n - 1 = l
    <3> HIDE DEF n, from, l
    <3> QED BY <1>1, <1>2, <1>4
  <2>2. IntegerAt(s, from)
    <3> HIDE DEF n, from
    <3> QED BY <1>1, <1>2, <2>1 DEF IntegerAt
  <2>3. from \in DOMAIN s
    BY <2>1
  <2> QED BY <2>2, <2>3 DEF Integer
<1> QED BY <1>3, <1>4

LEMMA IntegerValueIs ==
  ASSUME NEW s \in Seq(Char), Integer(s)
  PROVE  IntegerValue(s) = IF From(s) > 1 /\ s[From(s) - 1] = Minus
                           THEN 0 - Value(Unsigned(s)) ELSE Value(Unsigned(s))
<1> DEFINE d == CHOOSE i \in DOMAIN s : IntegerAt(s, i)
<1>1. d \in DOMAIN s /\ IntegerAt(s, d)
  BY DEF Integer
<1>2. d = From(s)
  <2> HIDE DEF d
  <2> QED BY <1>1, IntegerFrom
<1>3. IntegerValue(s) = IF d > 1 /\ s[d - 1] = Minus
                        THEN 0 - Value(SubSeq(s, d, Len(s))) ELSE Value(SubSeq(s, d, Len(s)))
  BY Zenon DEF IntegerValue
<1> HIDE DEF d
<1> QED BY <1>2, <1>3, Zenon DEF Unsigned

\* Where all is read, strtol has the value of the integer, before it is cut to long.
LEMMA SignedIs ==
  ASSUME NEW s \in Seq(Char), Integer(s)
  PROVE  Signed(s) = IntegerValue(s) /\ IntegerValue(s) \in Int
<1> DEFINE u == Unsigned(s)
           n == Number(s)
           from == From(s)
           a == from - 1
           l == Len(s)
<1>1. n = l - from + 1 /\ n # 0 /\ from \in 1 .. l + 1 /\ l \in Nat /\ n \in Nat
  BY IntegerIs, FromIs, NumberIs DEF DigitRow
<1>2. n \in Nat /\ a \in Nat /\ a + n = l /\ from = a + 1 /\ from + n - 1 = l
  BY <1>1
<1>3. /\ u \in Seq(Char) /\ Len(u) = n
      /\ \A i \in 1 .. n : u[i] = s[a + i]
  BY <1>1, UnsignedIs
<1>4. \A i \in a + 1 .. l : s[i] \in DOMAIN Digit
  BY <1>1, <1>2, NumberIs DEF DigitRow
<1> DEFINE tot == Total(s)
           val == CHOOSE v : v = [i \in 0 .. Len(u) |-> IF i = 0 THEN 0
                                                        ELSE 10 * v[i - 1] + Digit[u[i]]]
<1>5. Value(u) = val[Len(u)]
  BY Zenon DEF Value
<1>6. tot = CHOOSE v : v = [i \in from - 1 .. from + n - 1 |->
                              IF i < from THEN 0 ELSE 10 * v[i - 1] + Digit[s[i]]]
  BY Zenon DEF Total
<1>7. Signed(s) = IF from > 1 /\ s[from - 1] = Minus THEN 0 - tot[l] ELSE tot[l]
  BY <1>1, <1>2 DEF Signed
<1>8. IntegerValue(s) = IF from > 1 /\ s[from - 1] = Minus THEN 0 - Value(u) ELSE Value(u)
  BY IntegerValueIs
<1>10. \A i \in 1 .. n : u[i] \in DOMAIN Digit
  <2>1. \A i \in 1 .. n : a + i \in a + 1 .. l
    BY <1>2
  <2> QED BY <1>3, <1>4, <2>1
<1> HIDE DEF u, n, from, a, l, tot, val
<1>11. Adds(tot, a, l, s)
  <2> DEFINE R(v) == v = [i \in from - 1 .. from + n - 1 |->
                            IF i < from THEN 0 ELSE 10 * v[i - 1] + Digit[s[i]]]
  <2>1. PICK f : Adds(f, a, l, s)
    <3>1. a <= l /\ \A i \in a + 1 .. l : Digit[s[i]] \in Nat
      BY <1>1, <1>2, <1>4, RangesAssumption
    <3> QED BY <1>1, <1>2, <3>1, AddsExists
  <2>2. from - 1 = a /\ from + n - 1 = l
    BY <1>2
  <2>3. ASSUME NEW v PROVE R(v) <=> Adds(v, a, l, s)
    BY <1>2, <2>2 DEF Adds
  <2>4. R(f)
    BY <2>1, <2>3
  <2>5. tot = CHOOSE v : R(v)
    BY <1>6
  <2>6. R(tot)
    <3> HIDE DEF R
    <3> QED BY <2>4, <2>5
  <2> QED BY <2>3, <2>6
<1>12. Adds(val, 0, n, u)
  <2> DEFINE R(v) == v = [i \in 0 .. Len(u) |-> IF i = 0 THEN 0 ELSE 10 * v[i - 1] + Digit[u[i]]]
  <2>1. PICK f : Adds(f, 0, n, u)
    <3>1. 0 <= n /\ \A i \in 0 + 1 .. n : Digit[u[i]] \in Nat
      BY <1>2, <1>10, RangesAssumption
    <3> QED BY <1>2, <3>1, AddsExists
  <2>2. ASSUME NEW v PROVE R(v) <=> Adds(v, 0, n, u)
    <3>1. \A i \in 0 .. n : i = 0 <=> i < 0 + 1
      BY <1>2
    <3> QED BY <1>3, <3>1 DEF Adds
  <2>3. R(f)
    BY <2>1, <2>2
  <2>4. val = CHOOSE v : R(v)
    BY DEF val
  <2>5. R(val)
    <3> HIDE DEF R
    <3> QED BY <2>3, <2>4
  <2> QED BY <2>2, <2>5
<1>13. tot[l] = val[n] /\ val[n] \in Nat
  <2>1. ASSUME NEW i \in 1 .. n PROVE Digit[s[a + i]] = Digit[u[i]] /\ Digit[u[i]] \in Nat
    <3>1. Digit[u[i]] \in 0 .. 9
      BY <1>10, RangesAssumption
    <3> QED BY <1>3, <3>1
  <2>2. \A i \in 0 .. n : tot[a + i] = val[i] /\ val[i] \in Nat
    <3>1. l = a + n /\ n \in Nat /\ a \in Nat
      BY <1>2
    <3>2. SameDigits(s, a, u, n)
      BY <2>1 DEF SameDigits
    <3>3. SameSums(tot, a, val, n)
      BY <1>11, <1>12, <3>1, <3>2, AddsSame
    <3> QED BY <3>3 DEF SameSums
  <2>3. n \in 0 .. n
    BY <1>2
  <2> QED BY <1>2, <2>2, <2>3
<1>14. Value(u) = tot[l]
  BY <1>3, <1>5, <1>13
<1> QED BY <1>7, <1>8, <1>13, <1>14

\* Where long is wider than int, lw_at_get_para_digit tells the integers that int32_t
\* holds from all else.
LEMMA DigitExact ==
  ASSUME LongMin < IntMin, IntMax < LongMax, NEW s \in Seq(Char)
  PROVE  ParaDigit(s) = CASE s = <<>> -> [rc |-> "OMITTED"]
                          [] s # <<>> /\ Integer(s) /\ IntegerValue(s) \in IntMin .. IntMax
                               -> [rc |-> "OK", val |-> IntegerValue(s)]
                          [] OTHER -> [rc |-> "FAIL"]
<1>1. CASE s = <<>>
  BY <1>1 DEF ParaDigit
<1>2. CASE s # <<>>
  <2> DEFINE r == Strtol(s)
             x == Signed(s)
             n == Number(s)
             from == From(s)
             l == Len(s)
  <2>1. ParaDigit(s) = IF r.len # l \/ r.len = 0 \/ r.val < IntMin \/ r.val > IntMax
                       THEN [rc |-> "FAIL"] ELSE [rc |-> "OK", val |-> r.val]
    BY <1>2 DEF ParaDigit
  <2>2. /\ r.len = IF n = 0 THEN 0 ELSE from + n - 1
        /\ r.val = IF x > LongMax THEN LongMax ELSE IF x < LongMin THEN LongMin ELSE x
    BY StrtolIs
  <2>3. /\ n \in Nat /\ from \in 1 .. l + 1 /\ l \in Nat
        /\ Integer(s) <=> n = l - from + 1 /\ n # 0
    BY NumberIs, FromIs, IntegerIs DEF DigitRow
  <2> HIDE DEF r, x, n, from, l
  <2>4. Integer(s) <=> r.len = l /\ r.len # 0
    BY <2>2, <2>3
  <2>5. CASE ~Integer(s)
    BY <1>2, <2>1, <2>4, <2>5
  <2>6. CASE Integer(s)
    <3> DEFINE v == IntegerValue(s)
    <3>1. x = v /\ v \in Int
      BY <1>2, <2>6, SignedIs DEF x
    <3>2. {IntMin, IntMax, LongMin, LongMax} \subseteq Int /\ IntMin < 0 /\ 0 < IntMax
      BY RangesAssumption
    <3> HIDE DEF v
    <3>3. CASE v \in IntMin .. IntMax
      <4>1. r.val = v /\ ~(r.val < IntMin) /\ ~(r.val > IntMax)
        BY <2>2, <3>1, <3>2, <3>3
      <4>2. ParaDigit(s) = [rc |-> "OK", val |-> v]
        BY <2>1, <2>4, <2>6, <4>1
      <4> QED BY <1>2, <2>6, <3>3, <4>2 DEF v
    <3>4. CASE v \notin IntMin .. IntMax
      <4>1. r.val < IntMin \/ r.val > IntMax
        BY <2>2, <3>1, <3>2, <3>4
      <4>2. ParaDigit(s) = [rc |-> "FAIL"]
        BY <2>1, <4>1
      <4> QED BY <1>2, <3>4, <4>2 DEF v
    <3> QED BY <3>3, <3>4
  <2> QED BY <2>5, <2>6
<1> QED BY <1>1, <1>2

\* Where long is wider than int, as on LP64: lw_at_get_para_digit returns the integers
\* that int32_t holds and refuses all else, for every slot of every line.
THEOREM ParseDigitsExact ==
  ASSUME LongMin < IntMin, IntMax < LongMax
  PROVE  Spec => []DigitsExact
<1>1. IInv => DigitsExact
  <2> SUFFICES ASSUME IInv, pc = "handler", NEW k \in DOMAIN Slots
               PROVE  Slots[k] \in Seq(Char)
    BY DigitExact, Zenon DEF DigitsExact
  <2>1. k \in 1 .. Len(args) /\ Slots[k] = CStr(buf, args[k])
    BY DEF Slots
  <2> QED BY <2>1, SlotString
<1> QED BY <1>1, ParseSafe, PTL
=============================================================================
