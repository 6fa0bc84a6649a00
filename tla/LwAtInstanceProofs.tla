------------------------- MODULE LwAtInstanceProofs -------------------------
(***************************************************************************)
(* The instance on the Windows timer, for every number of armings and      *)
(* lines: its steps are steps of the port, and after lw_at_deinit nothing  *)
(* of the former life is left.                                             *)
(***************************************************************************)
EXTENDS LwAtInstance, LwAtPortWinProofs

ArmPoints  == {"arm_delete", "arm_wait", "arm_cb", "arm_user", "arm_create", "arm_store"}
StopPoints == {"stop_delete", "stop_wait", "stop_cb"}

InstTypeOK ==
  /\ inited \in {0, 1} /\ pending \in {0, 1}
  /\ apc \in {"idle", "init", "feed", "feed_arm", "process", "lines", "deinit"}
  /\ cbpc \in [Arms -> {"start", "check", "notify", "end"}]
  /\ epoch \in 0 .. MaxArms /\ by \in 0 .. MaxArms

\* The main thread is inside timer_arm only for lw_at_feed, inside timer_stop only for
\* lw_at_deinit, and holds no timer once the latter has returned.
Nesting ==
  /\ pc \in ArmPoints => apc = "feed_arm" /\ arms > epoch
  /\ pc \in StopPoints => apc = "deinit"
  /\ inited = 0 => apc \in {"idle", "init"} /\ g_timer = 0
  /\ apc = "init" => inited = 0
  /\ apc = "deinit" /\ pc = "idle" => g_timer = 0

\* Every timer that is still live was armed after the last clearing, and so was the
\* one that set pending.
Fresh ==
  /\ epoch <= arms
  /\ \A h \in Arms : Live(h) => h > epoch
  /\ pending = 1 => by > epoch

\* A callback past its first step is inside cb, and idle_cb stays set for it.
Inside == \A h \in Arms : /\ cbpc[h] \in {"check", "notify"} => pool[h] = "called"
                          /\ cbpc[h] = "notify" => idle_cb = 1

InstInv == PortInv /\ InstTypeOK /\ Nesting /\ Fresh /\ Inside

-----------------------------------------------------------------------------
(* The instance runs the port's own steps *)

LEMMA InstIsPort == [Next]_vars => [PortNext]_portVars
<1> SUFFICES ASSUME [Next]_vars PROVE [PortNext]_portVars
  OBVIOUS
<1>1. CASE InitClear \/ FeedStore \/ ProcessRead \/ InitReady \/ FeedReturn \/ ProcessClear
           \/ ProcessLines \/ DeinitClear \/ UNCHANGED vars
  BY <1>1 DEF InitClear, FeedStore, ProcessRead, InitReady, FeedReturn, ProcessClear,
              ProcessLines, DeinitClear, vars
<1>2. CASE FeedArm \/ DeinitCall \/ PortCall
  BY <1>2 DEF FeedArm, DeinitCall, PortCall, PortNext
<1>3. ASSUME NEW h \in Arms, CbStep(h) PROVE [PortNext]_portVars
  <2>1. CASE CbEnter(h) \/ CbReturn(h)
    BY <2>1 DEF CbEnter, CbReturn, PoolStep, PortNext
  <2>2. CASE CbPending(h) \/ CbCheck(h) \/ CbNotify(h)
    BY <2>2 DEF CbPending, CbCheck, CbNotify
  <2> QED
    BY <1>3, <2>1, <2>2 DEF CbStep
<1> QED
  BY <1>1, <1>2, <1>3 DEF Next, MainStep

\* The life of the instance is a life of the port, whose theorems therefore hold of it.
THEOREM InstImplementsPort == Spec => PortSpec
<1>1. Init => PortInit
  BY DEF Init
<1> QED
  BY <1>1, InstIsPort, PTL DEF Spec, PortSpec

\* lw_at_feed and lw_at_deinit use the timer within the contract of lw_at.h.
THEOREM InstImplementsTimer == Spec => ImplementsTimer
BY InstImplementsPort, PortImplementsTimer, PTL

\* The port's invariant holds whenever the library is the one that calls it.
THEOREM InstPortSafe == Spec => []PortInv
BY InstImplementsPort, PortSafe, PTL

-----------------------------------------------------------------------------
(* The instance's own invariant *)

LEMMA InstInit == Init => InstInv
<1> SUFFICES ASSUME Init PROVE InstInv
  OBVIOUS
<1>1. PortInv
  BY PortInitInv DEF Init
<1>2. InstTypeOK /\ Nesting /\ Fresh /\ Inside
  BY MaxArmsAssumption, SMT
     DEF Init, PortInit, InstTypeOK, Nesting, Fresh, Inside, Live, InCallback, Arms,
         ArmPoints, StopPoints
<1> QED
  BY <1>1, <1>2 DEF InstInv

\* No timer is live while the main thread holds none.
LEMMA NoneHeld ==
  ASSUME PortInv, g_timer = 0, pc # "arm_store"
  PROVE  \A h \in Arms : ~Live(h)
BY MaxArmsAssumption, SMT DEF PortInv, OneLive, Held, Arms

LEMMA MainInv ==
  ASSUME InstInv, InitClear \/ FeedStore \/ ProcessRead \/ DeinitCall \/ MainStep
  PROVE  InstTypeOK' /\ Nesting' /\ Fresh' /\ Inside'
<1> USE MaxArmsAssumption
    DEF InstInv, InstTypeOK, Nesting, Fresh, Inside, Live, InCallback, Arms, ArmPoints,
        StopPoints, inst, hist, portVars, globals
<1>0. arms \in 0 .. MaxArms /\ pool \in [Arms -> PoolValues]
  BY DEF PortInv, PortTypeOK
<1>1. CASE InitClear
  BY <1>0, <1>1, NoneHeld, SMT DEF InitClear, Clear
<1>2. CASE InitReady
  BY <1>0, <1>2, NoneHeld, SMT DEF InitReady
<1>3. CASE FeedStore
  BY <1>0, <1>3, SMT DEF FeedStore
<1>4. CASE FeedArm
  BY <1>0, <1>4, SMT DEF FeedArm, ArmCall
<1>5. CASE FeedReturn
  BY <1>0, <1>5, SMT DEF FeedReturn
<1>6. CASE ProcessRead
  BY <1>0, <1>6, SMT DEF ProcessRead
<1>7. CASE ProcessClear
  BY <1>0, <1>7, SMT DEF ProcessClear
<1>8. CASE ProcessLines
  BY <1>0, <1>8, SMT DEF ProcessLines
<1>9. CASE DeinitCall
  BY <1>0, <1>9, SMT DEF DeinitCall, StopCall
<1>10. CASE DeinitClear
  BY <1>0, <1>10, NoneHeld, SMT DEF DeinitClear, Clear
<1> QED
  BY <1>1, <1>2, <1>3, <1>4, <1>5, <1>6, <1>7, <1>8, <1>9, <1>10 DEF MainStep

LEMMA PortCallInv ==
  ASSUME InstInv, PortCall
  PROVE  InstTypeOK' /\ Nesting' /\ Fresh' /\ Inside'
<1> USE MaxArmsAssumption
    DEF InstInv, InstTypeOK, Nesting, Fresh, Inside, Live, InCallback, Arms, ArmPoints,
        StopPoints, instVars, inst, hist, globals
<1>0. arms \in 0 .. MaxArms /\ pool \in [Arms -> PoolValues] /\ AtPoint
  BY DEF PortInv, PortTypeOK
<1>1. CASE Delete /\ UNCHANGED instVars
  BY <1>0, <1>1, SMT DEF Delete
<1>2. CASE Deleted /\ UNCHANGED instVars
  BY <1>0, <1>2, SMT DEF Deleted
<1>3. CASE (ArmCb \/ ArmUser) /\ UNCHANGED instVars
  BY <1>0, <1>3, SMT DEF ArmCb, ArmUser
<1>4. CASE ArmCreate /\ UNCHANGED instVars
  BY <1>0, <1>4, SMT DEF ArmCreate, AtPoint
<1>5. CASE ArmStore /\ UNCHANGED instVars
  BY <1>0, <1>5, SMT DEF ArmStore
<1>6. CASE StopCb /\ UNCHANGED instVars
  BY <1>0, <1>6, SMT DEF StopCb, AtPoint
<1>7. CASE ArmFail /\ UNCHANGED <<inst, apc, flag, cbpc, epoch, by, lost>>
  BY <1>0, <1>7, SMT DEF ArmFail
<1> QED
  BY <1>1, <1>2, <1>3, <1>4, <1>5, <1>6, <1>7 DEF PortCall, CallStep

LEMMA CbStepInv ==
  ASSUME InstInv, NEW h \in Arms, CbStep(h)
  PROVE  InstTypeOK' /\ Nesting' /\ Fresh' /\ Inside'
<1> USE MaxArmsAssumption
    DEF InstInv, InstTypeOK, Nesting, Fresh, Inside, Live, InCallback, Arms, ArmPoints,
        StopPoints, instVars, inst, hist, portVars, globals
<1>0. arms \in 0 .. MaxArms /\ pool \in [Arms -> PoolValues]
  BY DEF PortInv, PortTypeOK
<1>1. CASE Fire(h) /\ UNCHANGED instVars
  BY <1>0, <1>1, SMT DEF Fire
<1>2. CASE ReadCb(h) /\ UNCHANGED instVars
  BY <1>0, <1>2, SMT DEF ReadCb
<1>3. CASE ReadUser(h) /\ UNCHANGED instVars
  BY <1>0, <1>3, SMT DEF ReadUser
<1>4. CASE CbPending(h)
  BY <1>0, <1>4, SMT DEF CbPending
<1>5. CASE CbCheck(h)
  BY <1>0, <1>5, SMT DEF CbCheck
<1>6. CASE CbNotify(h)
  BY <1>0, <1>6, SMT DEF CbNotify
<1>7. CASE CbReturn(h)
  BY <1>0, <1>7, SMT DEF CbReturn, Finish
<1> QED
  BY <1>1, <1>2, <1>3, <1>4, <1>5, <1>6, <1>7 DEF CbStep, CbEnter

LEMMA InstStep == InstInv /\ [Next]_vars => InstInv'
<1> SUFFICES ASSUME InstInv, [Next]_vars PROVE InstInv'
  OBVIOUS
<1>1. PortInv'
  <2>1. CASE PortNext
    BY <2>1, MainStepInv, PoolStepInv DEF PortNext, InstInv
  <2>2. CASE UNCHANGED portVars
    BY <2>2 DEF InstInv, portVars, globals, PortInv, PortTypeOK, OneLive, AtPoint,
                CallbackIsItsOwn, Live, InCallback, Held
  <2> QED
    BY <2>1, <2>2, InstIsPort
<1>2. CASE Next
  BY <1>1, <1>2, MainInv, PortCallInv, CbStepInv DEF Next, InstInv
<1>3. CASE UNCHANGED vars
  BY <1>1, <1>3 DEF vars, portVars, globals, instVars, inst, hist, InstInv, InstTypeOK,
                    Nesting, Fresh, Inside, Live, InCallback
<1> QED
  BY <1>2, <1>3

\* The invariant of the instance and its timer together.
THEOREM InstSafe == Spec => []InstInv
BY InstInit, InstStep, PTL DEF Spec

\* After lw_at_deinit no timer is set and no callback runs.
THEOREM InstDeinitQuiet == Spec => []DeinitQuiet
<1>1. InstInv => DeinitQuiet
  <2> SUFFICES ASSUME InstInv, inited = 0 PROVE \A h \in Arms : ~Live(h)
    BY DEF DeinitQuiet
  <2>1. g_timer = 0 /\ pc # "arm_store"
    BY DEF InstInv, Nesting, ArmPoints
  <2> QED
    BY <2>1, NoneHeld DEF InstInv
<1> QED
  BY <1>1, InstSafe, PTL

\* An expiry of a former life never makes lw_at_process take lines.
THEOREM InstNoStaleExpiry == Spec => []NoStaleExpiry
<1>1. InstInv => NoStaleExpiry
  BY DEF InstInv, Fresh, NoStaleExpiry
<1> QED
  BY <1>1, InstSafe, PTL

\* idle_cb is not cleared between the test in at_timer_expired and the call.
THEOREM InstNoNullCall == Spec => []NoNullCall
<1>1. InstInv => NoNullCall
  BY DEF InstInv, Inside, NoNullCall
<1> QED
  BY <1>1, InstSafe, PTL
=============================================================================
