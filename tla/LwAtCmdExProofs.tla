-------------------------- MODULE LwAtCmdExProofs --------------------------
(***************************************************************************)
(* The usage example for every set of slot texts, every buffer size and    *)
(* every segment length.                                                   *)
(***************************************************************************)
EXTENDS LwAtCmdEx, TLAPS

-----------------------------------------------------------------------------
(* core_write_all, whatever the port does to a write *)

\* The last byte on the wire is where core_write_all stands.
Reached ==
  IF data = 0 THEN wire = <<>> \/ wire[Len(wire)][1] < cur
              ELSE wire # <<>> /\ wire[Len(wire)] = <<cur, data>>

OutInv ==
  /\ cur \in Nat \ {0} /\ data \in 0 .. SegLen - 1 /\ len = SegLen - data
  /\ wire \in Seq(Nat \X Nat)
  /\ Reached
  /\ WireExact

LEMMA PutInv == ASSUME NEW s, Put(s) PROVE OutInv'
BY SegLenAssumption, SMT DEF Put, OutInv, Reached, WireExact, InOrder, Whole

LEMMA WriteFailInv == ASSUME OutInv, WriteFail PROVE OutInv'
<1> USE SegLenAssumption DEF OutInv, WriteFail, NextSegment
<1>1. Reached'
  BY SMT DEF Reached
<1>2. InOrder'
  BY DEF WireExact, InOrder
<1>3. Whole'
  <2> SUFFICES ASSUME NEW i \in 1 .. cur' - 1, i \notin cut'
               PROVE  \E j \in 1 .. Len(wire) : wire[j] = <<i, SegLen>>
    BY DEF Whole
  <2>1. i # cur /\ i \notin cut
    OBVIOUS
  <2>2. i \in 1 .. cur - 1
    BY <2>1
  <2> QED
    BY <2>1, <2>2 DEF WireExact, Whole
<1> QED
  BY <1>1, <1>2, <1>3 DEF WireExact

LEMMA WriteSomeInv ==
  ASSUME OutInv, NEW n \in 1 .. SegLen, WriteSome(n)
  PROVE  OutInv'
<1> USE SegLenAssumption
<1> DEFINE L == Len(wire)
<1>1. L \in Nat /\ n \in Nat \ {0} /\ n <= len /\ len = SegLen - data
        /\ cur \in Nat \ {0} /\ data \in 0 .. SegLen - 1 /\ wire \in Seq(Nat \X Nat)
  BY DEF OutInv, WriteSome
<1>2. wire' \in Seq(Nat \X Nat) /\ Len(wire') = L + n
  BY <1>1, SMT DEF WriteSome
<1>3. \A j \in 1 .. L : wire'[j] = wire[j]
  BY <1>1, SMT DEF WriteSome
<1>4. \A k \in 1 .. n : wire'[L + k] = <<cur, data + k>>
  BY <1>1, SMT DEF WriteSome
<1>5. IF n = len THEN cur' = cur + 1 /\ data' = 0 /\ len' = SegLen
                 ELSE cur' = cur /\ data' = data + n /\ len' = len - n
  BY DEF WriteSome, NextSegment
<1>6. cut' = cut
  BY DEF WriteSome
<1>7. wire'[L + n] = <<cur, data + n>>
  BY <1>1, <1>4
<1> HIDE DEF L
<1>8. Reached'
  BY <1>1, <1>2, <1>5, <1>7, SMT DEF Reached
<1>9. ASSUME NEW j \in 1 .. L + n
      PROVE  Follows(wire'[j], IF j = 1 THEN <<0, SegLen>> ELSE wire'[j - 1])
  <2>1. CASE j <= L
    <3>1. j \in 1 .. L /\ (j # 1 => j - 1 \in 1 .. L)
      BY <1>1, <2>1
    <3>2. Follows(wire[j], IF j = 1 THEN <<0, SegLen>> ELSE wire[j - 1])
      BY <3>1 DEF OutInv, WireExact, InOrder, L
    <3> QED
      BY <1>3, <3>1, <3>2
  <2>2. CASE j = L + 1
    <3>1. wire'[j] = <<cur, data + 1>>
      BY <1>1, <1>4, <2>2
    <3>2. CASE L = 0
      BY <1>1, <2>2, <3>1, <3>2, SMT DEF OutInv, Reached, L, Follows
    <3>3. CASE L > 0
      <4>1. wire'[j - 1] = wire[L] /\ j # 1
        BY <1>1, <1>3, <2>2, <3>3
      <4>2. wire[L] \in Nat \X Nat
        BY <1>1, <3>3 DEF L
      <4> QED
        BY <1>1, <3>1, <3>3, <4>1, <4>2, SMT DEF OutInv, Reached, L, Follows
    <3> QED
      BY <1>1, <3>2, <3>3
  <2>3. CASE j > L + 1
    <3>1. wire'[j] = <<cur, data + (j - L)>>
      <4>1. j - L \in 1 .. n /\ j = L + (j - L)
        BY <1>1, <2>3
      <4> QED
        BY <1>4, <4>1
    <3>2. wire'[j - 1] = <<cur, data + (j - 1 - L)>>
      <4>1. j - 1 - L \in 1 .. n /\ j - 1 = L + (j - 1 - L)
        BY <1>1, <2>3
      <4> QED
        BY <1>4, <4>1
    <3>3. j # 1 /\ data + (j - L) = data + (j - 1 - L) + 1
      BY <1>1, <2>3
    <3> QED
      BY <3>1, <3>2, <3>3 DEF Follows
  <2> QED
    BY <1>1, <2>1, <2>2, <2>3
<1>10. ASSUME NEW i \in 1 .. cur' - 1, i \notin cut'
       PROVE  \E j \in 1 .. L + n : wire'[j] = <<i, SegLen>>
  <2>1. CASE i \in 1 .. cur - 1
    <3>1. PICK j \in 1 .. L : wire[j] = <<i, SegLen>>
      BY <1>6, <1>10, <2>1 DEF OutInv, WireExact, Whole, L
    <3>2. j \in 1 .. L + n
      BY <1>1
    <3> QED
      BY <1>3, <3>1, <3>2
  <2>2. CASE n = len /\ i = cur
    <3>1. wire'[L + n] = <<i, SegLen>> /\ L + n \in 1 .. L + n
      BY <1>1, <1>7, <2>2
    <3> QED
      BY <3>1
  <2>3. i \in 1 .. cur - 1 \/ (n = len /\ i = cur)
    BY <1>1, <1>5
  <2> QED
    BY <2>1, <2>2, <2>3
<1>11. WireExact'
  BY <1>2, <1>9, <1>10 DEF WireExact, InOrder, Whole
<1>12. cur' \in Nat \ {0} /\ data' \in 0 .. SegLen - 1 /\ len' = SegLen - data'
  BY <1>1, <1>5
<1> QED
  BY <1>2, <1>8, <1>11, <1>12 DEF OutInv

\* Every step of the way out, and every new call, keeps the wire exact.
LEMMA WriteInv == ASSUME OutInv, Write \/ Link PROVE OutInv'
<1>1. CASE Return
  BY <1>1, PutInv DEF Return
<1>2. CASE Link
  BY <1>2 DEF Link, OutInv, Reached, WireExact, InOrder, Whole
<1> QED
  BY <1>1, <1>2, WriteFailInv, WriteSomeInv DEF Write

-----------------------------------------------------------------------------
(* The gate: a request and a STREAM session live only in pass-through mode *)

LEMMA GateStep == StreamNeedsPass /\ [Next]_vars => StreamNeedsPass'
<1> SUFFICES ASSUME StreamNeedsPass, [Next]_vars PROVE StreamNeedsPass'
  OBVIOUS
<1> USE DEF StreamNeedsPass, session, settings
<1>1. CASE Gated \/ NoHandler \/ AtExe \/ Test \/ WriteRaw \/ Output
  BY <1>1 DEF Gated, NoHandler, AtExe, Test, WriteRaw, Output
<1>2. ASSUME NEW c, Query(c) PROVE StreamNeedsPass'
  BY <1>2 DEF Query
<1>3. CASE Setup
  BY <1>3 DEF Setup, AtPrompt
<1>4. ASSUME NEW args, CipsendRefused(args) PROVE StreamNeedsPass'
  BY <1>4 DEF CipsendRefused
<1>5. ASSUME NEW args, CipsendSetup(args) PROVE StreamNeedsPass'
  BY <1>5 DEF CipsendSetup, AtPrompt
<1>6. ASSUME NEW n, Deliver(n) PROVE StreamNeedsPass'
  BY <1>6 DEF Deliver
<1>7. ASSUME NEW n, ExitFixed(n) PROVE StreamNeedsPass'
  BY <1>7 DEF ExitFixed
<1>8. CASE CipsendExe
  BY <1>8 DEF CipsendExe, AtPrompt
<1>9. CASE Confirm \/ Cancel \/ EndStream
  BY <1>9 DEF Confirm, Cancel, EndStream
<1>10. CASE UNCHANGED vars
  BY <1>10 DEF vars
<1> QED
  BY <1>1, <1>2, <1>3, <1>4, <1>5, <1>6, <1>7, <1>8, <1>9, <1>10 DEF Next

\* Whatever the host sends between +CIPSEND and its confirmation, pass-through runs in
\* CIPMODE=1 only.
THEOREM ExampleStreamNeedsPass == Spec => []StreamNeedsPass
<1>1. Init => StreamNeedsPass
  BY DEF Init, StreamNeedsPass
<1> QED
  BY <1>1, GateStep, PTL DEF Spec

-----------------------------------------------------------------------------
(* The settings *)

ToldOK == told \in [Setups \ {"+CIPSEND"} -> Seq(Slot)]

SettingsInv == ToldOK /\ SettingsAreTold

LEMMA SetupStep ==
  ASSUME SettingsInv, Setup
  PROVE  SettingsInv'
<1> USE DEF SettingsInv, ToldOK, SettingsAreTold, Answer, IntAt, TextAt, Digit, Text, Empty
<1>1. \A c \in Setups : \A args \in ArgLists[c] : args \in Seq(Slot) /\ args # <<>>
  BY ArgListsAssumption
<1>2. Setups = {"+INT", "+STR", "+MIX", "+SLOT", "+CIPMODE", "+CIPSEND"}
  BY DEF Setups
<1>3. ASSUME NEW args \in ArgLists["+INT"], IntSetup(args) PROVE SettingsInv'
  BY <1>1, <1>2, <1>3, SMT DEF IntSetup
<1>4. ASSUME NEW args \in ArgLists["+STR"], StrSetup(args) PROVE SettingsInv'
  BY <1>1, <1>2, <1>4, SMT DEF StrSetup
<1>5. ASSUME NEW args \in ArgLists["+MIX"], MixSetup(args) PROVE SettingsInv'
  BY <1>1, <1>2, <1>5, SMT DEF MixSetup
<1>6. ASSUME NEW args \in ArgLists["+SLOT"], SlotSetup(args) PROVE SettingsInv'
  BY <1>1, <1>2, <1>6, SMT DEF SlotSetup
<1>7. ASSUME NEW args \in ArgLists["+CIPMODE"], CipmodeSetup(args) PROVE SettingsInv'
  BY <1>1, <1>2, <1>7, SMT DEF CipmodeSetup
<1> QED
  BY <1>3, <1>4, <1>5, <1>6, <1>7 DEF Setup

LEMMA SettingsStep == SettingsInv /\ [Next]_vars => SettingsInv'
<1> SUFFICES ASSUME SettingsInv, [Next]_vars PROVE SettingsInv'
  OBVIOUS
<1>1. CASE Setup
  BY <1>1, SetupStep
<1>2. CASE UNCHANGED <<settings, told>>
  BY <1>2 DEF settings, SettingsInv, ToldOK, SettingsAreTold, IntAt, TextAt
<1>3. Next => Setup \/ UNCHANGED <<settings, told>>
  BY DEF Next, Gated, NoHandler, AtExe, Test, Query, CipsendRefused, CipsendSetup, Deliver,
         ExitFixed, CipsendExe, Confirm, Cancel, EndStream, WriteRaw, Output
<1>4. UNCHANGED vars => UNCHANGED <<settings, told>>
  BY DEF vars
<1> QED
  BY <1>1, <1>2, <1>3, <1>4

\* For all texts and slot lists: every setting is the one last answered OK.
THEOREM ExampleSettingsAreTold == Spec => []SettingsAreTold
<1>1. Init => SettingsInv
  BY DEF Init, SettingsInv, ToldOK, SettingsAreTold, IntAt, TextAt, Setups
<1>2. SettingsInv => SettingsAreTold
  BY DEF SettingsInv
<1> QED
  BY <1>1, <1>2, SettingsStep, PTL DEF Spec

-----------------------------------------------------------------------------
(* cipsend_buf *)

BufferInv ==
  /\ cipsend_buf \in [0 .. Cap - 1 -> {0, 1} \X Nat]
  /\ cipsend_len \in 0 .. Cap - 1 /\ given \in Nat /\ sess \in {0, 1}
  /\ BufferIsSession

LEMMA ChunkInv ==
  ASSUME BufferInv, NEW n \in Nat, Chunk(n)
  PROVE  BufferInv'
<1> DEFINE k == IF n <= Cap - 1 - cipsend_len THEN n ELSE Cap - 1 - cipsend_len
<1> USE CapAssumption DEF BufferInv, BufferIsSession
<1>1. k \in Nat /\ cipsend_len + k \in 0 .. Cap - 1
  OBVIOUS
<1>2. cipsend_len' = cipsend_len + k /\ given' = given + n /\ sess' = sess
  BY DEF Chunk
<1>3. given' \in Nat /\ cipsend_len' = (IF given' <= Cap - 1 THEN given' ELSE Cap - 1)
  BY <1>1, <1>2
<1>4. k > 0 => given = cipsend_len
  OBVIOUS
<1>5. cipsend_buf' = [i \in 0 .. Cap - 1 |->
        IF i \in cipsend_len .. cipsend_len + k - 1
        THEN <<sess, given + (i - cipsend_len) + 1>>
        ELSE IF i = cipsend_len + k THEN NUL ELSE cipsend_buf[i]]
  BY DEF Chunk, Payload
<1> HIDE DEF k
<1>6. cipsend_buf'[cipsend_len'] = NUL
  BY <1>1, <1>2, <1>5
<1>7. ASSUME NEW i \in 0 .. cipsend_len' - 1 PROVE cipsend_buf'[i] = Payload(sess, i + 1)
  <2>1. CASE i \in 0 .. cipsend_len - 1
    BY <1>1, <1>2, <1>5, <2>1
  <2>2. CASE i \in cipsend_len .. cipsend_len + k - 1
    <3>1. given = cipsend_len
      BY <1>1, <1>4, <2>2
    <3>2. given + (i - cipsend_len) + 1 = i + 1
      BY <3>1
    <3> QED
      BY <1>1, <1>2, <1>5, <2>2, <3>2 DEF Payload
  <2> QED
    BY <1>1, <1>2, <2>1, <2>2
<1>8. cipsend_buf' \in [0 .. Cap - 1 -> {0, 1} \X Nat]
  BY <1>1, <1>5 DEF NUL
<1> QED
  BY <1>1, <1>2, <1>3, <1>6, <1>7, <1>8

LEMMA BufferStep == BufferInv /\ [Next]_vars => BufferInv'
<1> SUFFICES ASSUME BufferInv, [Next]_vars PROVE BufferInv'
  OBVIOUS
<1>1. ASSUME NEW n \in Nat, Chunk(n) PROVE BufferInv'
  BY <1>1, ChunkInv
<1>2. ASSUME NEW args, CipsendSetup(args) PROVE BufferInv'
  BY <1>2, CapAssumption DEF CipsendSetup, BufferInv, BufferIsSession, NUL
<1>3. CASE UNCHANGED buffer
  BY <1>3 DEF buffer, BufferInv, BufferIsSession
<1>4. Next => (\E n \in Nat : Chunk(n)) \/ (\E args : CipsendSetup(args)) \/ UNCHANGED buffer
  <2>1. ASSUME NEW n \in 1 .. Cap, Deliver(n) PROVE \E m \in Nat : Chunk(m)
    BY <2>1, CapAssumption DEF Deliver
  <2>2. ASSUME NEW n \in 0 .. RingMax, ExitFixed(n) PROVE \E m \in Nat : Chunk(m)
    BY <2>2, CapAssumption DEF ExitFixed
  <2> QED
    BY <2>1, <2>2 DEF Next, Gated, NoHandler, AtExe, Test, Query, Setup, CipsendRefused,
       CipsendExe, Confirm, Cancel, EndStream, WriteRaw, Output
<1>5. UNCHANGED vars => UNCHANGED buffer
  BY DEF vars
<1> QED
  BY <1>1, <1>2, <1>3, <1>4, <1>5

\* For every capacity and all chunk sizes cipsend_buf is a string inside of its bounds
\* and holds the session's bytes from the first on.
THEOREM ExampleBufferIsSession == Spec => []BufferIsSession
<1>1. Init => BufferInv
  BY CapAssumption DEF Init, BufferInv, BufferIsSession, NUL
<1>2. BufferInv => BufferIsSession
  BY DEF BufferInv
<1> QED
  BY <1>1, <1>2, BufferStep, PTL DEF Spec

-----------------------------------------------------------------------------
(* The way out *)

LEMMA ExampleOutStep == OutInv /\ [Next]_vars => OutInv'
<1> SUFFICES ASSUME OutInv, [Next]_vars PROVE OutInv'
  OBVIOUS
<1>1. ASSUME NEW s, Put(s) PROVE OutInv'
  BY <1>1, PutInv
<1>2. CASE Output
  BY <1>2, WriteInv DEF Output
<1>3. CASE UNCHANGED outVars
  BY <1>3 DEF outVars, OutInv, Reached, WireExact, InOrder, Whole
<1>4. Setup => \E s : Put(s)
  BY DEF Setup, IntSetup, StrSetup, MixSetup, SlotSetup, CipmodeSetup, Answer, Final
<1>5. \A n : Deliver(n) => (\E s : Put(s)) \/ UNCHANGED outVars
  BY DEF Deliver, Final
<1>6. CipsendExe => \E s : Put(s)
  BY DEF CipsendExe, Final
<1>7. \A c : Query(c) => \E s : Put(s)
  BY DEF Query, SendLine
<1>8. Next => (\E s : Put(s)) \/ UNCHANGED outVars \/ Output
  BY <1>4, <1>5, <1>6, <1>7
     DEF Next, Gated, NoHandler, AtExe, Test, CipsendRefused, CipsendSetup, ExitFixed,
         Confirm, Cancel, EndStream, WriteRaw, Final, SendLine
<1>9. UNCHANGED vars => UNCHANGED outVars
  BY DEF vars
<1> QED
  BY <1>1, <1>2, <1>3, <1>8, <1>9

\* For every segment length and every way the port splits or fails its writes, the host
\* gets what the library printed, in order and without a repeat or a gap.
THEOREM ExampleWireExact == Spec => []WireExact
<1>1. Init => OutInv
  BY SegLenAssumption DEF Init, OutInit, OutInv, Reached, WireExact, InOrder, Whole
<1>2. OutInv => WireExact
  BY DEF OutInv
<1> QED
  BY <1>1, <1>2, ExampleOutStep, PTL DEF Spec
=============================================================================
