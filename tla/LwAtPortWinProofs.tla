------------------------- MODULE LwAtPortWinProofs -------------------------
(***************************************************************************)
(* The Windows timer for every number of armings: PortInv is inductive,    *)
(* and with it each step is one of LwAtTimer's or leaves it alone.         *)
(***************************************************************************)
EXTENDS LwAtPortWin, TLAPS

LEMMA PortInitInv == PortInit => PortInv
BY MaxArmsAssumption, SMT
   DEF PortInit, PortInv, PortTypeOK, OneLive, AtPoint, CallbackIsItsOwn, Live, InCallback,
       Held, Arms, PcValues, PoolValues

LEMMA MainStepInv ==
  ASSUME PortInv, ArmCall \/ StopCall \/ CallStep \/ ArmFail
  PROVE  PortInv'
<1> USE MaxArmsAssumption
    DEF PortInv, PortTypeOK, OneLive, AtPoint, CallbackIsItsOwn, Live, InCallback, Held,
        Arms, PcValues, PoolValues, globals
<1>1. CASE ArmCall
  BY <1>1, SMT DEF ArmCall
<1>2. CASE StopCall
  BY <1>2, SMT DEF StopCall
<1>3. CASE Delete
  BY <1>3, SMT DEF Delete
<1>4. CASE Deleted
  BY <1>4, SMT DEF Deleted
<1>5. CASE ArmCb
  BY <1>5, SMT DEF ArmCb
<1>6. CASE ArmUser
  BY <1>6, SMT DEF ArmUser
<1>7. CASE ArmCreate
  BY <1>7, SMT DEF ArmCreate
<1>8. CASE ArmStore
  BY <1>8, SMT DEF ArmStore
<1>9. CASE ArmFail
  BY <1>9, SMT DEF ArmFail
<1>10. CASE StopCb
  BY <1>10, SMT DEF StopCb
<1> QED
  BY <1>1, <1>2, <1>3, <1>4, <1>5, <1>6, <1>7, <1>8, <1>9, <1>10 DEF CallStep

LEMMA PoolStepInv ==
  ASSUME PortInv, NEW h \in Arms, PoolStep(h)
  PROVE  PortInv'
<1> USE MaxArmsAssumption
    DEF PortInv, PortTypeOK, OneLive, AtPoint, CallbackIsItsOwn, Live, InCallback, Held,
        Arms, PcValues, PoolValues, globals
<1>1. CASE Fire(h)
  BY <1>1, SMT DEF Fire
<1>2. CASE ReadCb(h)
  BY <1>2, SMT DEF ReadCb
<1>3. CASE ReadUser(h)
  BY <1>3, SMT DEF ReadUser
<1>4. CASE Finish(h)
  BY <1>4, SMT DEF Finish
<1> QED
  BY <1>1, <1>2, <1>3, <1>4 DEF PoolStep

\* For every number of armings the port keeps its invariant: at most one timer is
\* live, it is the held one, and the globals are its own.
THEOREM PortSafe == PortSpec => []PortInv
<1>1. PortInit => PortInv
  BY PortInitInv
<1>2. PortInv /\ [PortNext]_portVars => PortInv'
  <2> SUFFICES ASSUME PortInv, [PortNext]_portVars PROVE PortInv'
    OBVIOUS
  <2>1. CASE PortNext
    BY <2>1, MainStepInv, PoolStepInv DEF PortNext
  <2>2. CASE UNCHANGED portVars
    BY <2>2 DEF portVars, globals, PortInv, PortTypeOK, OneLive, AtPoint, CallbackIsItsOwn,
                Live, InCallback, Held
  <2> QED
    BY <2>1, <2>2
<1> QED
  BY <1>1, <1>2, PTL DEF PortSpec

\* No callback runs with the cb of one arming and the user of another.
THEOREM PortCallbackIsItsOwn == PortSpec => []CallbackIsItsOwn
<1>1. PortInv => CallbackIsItsOwn
  BY DEF PortInv
<1> QED
  BY <1>1, PortSafe, PTL

-----------------------------------------------------------------------------
(* Refinement *)

LEMMA InitRefines == PortInit => Timer!Init
BY MaxArmsAssumption, SMT DEF PortInit, Timer!Init, InCallback, RunsFor, Arms

LEMMA MainStepRefines ==
  ASSUME PortInv, ArmCall \/ StopCall \/ CallStep \/ ArmFail
  PROVE  [Timer!Next]_(Timer!vars)
<1> USE MaxArmsAssumption
    DEF PortInv, PortTypeOK, OneLive, AtPoint, CallbackIsItsOwn, Live, InCallback, Held,
        Arms, PcValues, PoolValues, globals, RunsFor, Timer!vars
<1>1. CASE ArmCall
  BY <1>1, SMT DEF ArmCall, Timer!BeginArm, Timer!Next
<1>2. CASE StopCall
  BY <1>2, SMT DEF StopCall, Timer!BeginStop, Timer!Next
<1>3. CASE Delete
  <2>1. g_timer \in Arms /\ Held = g_timer
    BY <1>3, SMT DEF Delete
  <2>2. \A h \in Arms : pool'[h] # "pending"
    BY <1>3, <2>1, SMT DEF Delete
  <2>3. {h \in Arms : pool[h] = "pending"}' = {}
    BY <2>2
  <2>4. \A h \in Arms : (pool'[h] = "called" <=> pool[h] = "called")
                       /\ (InCallback(h)' <=> InCallback(h)) /\ seen' = seen
    BY <1>3, <2>1, SMT DEF Delete
  <2>5. {RunsFor(h) : h \in {k \in Arms : InCallback(k)}}'
          = {RunsFor(h) : h \in {k \in Arms : InCallback(k)}}
    BY <2>4
  <2> QED
    BY <1>3, <2>3, <2>5, SMT DEF Delete, Timer!Cancel, Timer!Next
<1>4. CASE Deleted
  BY <1>4, SMT DEF Deleted
<1>5. CASE ArmCb
  BY <1>5, SMT DEF ArmCb
<1>6. CASE ArmUser
  BY <1>6, SMT DEF ArmUser
<1>7. CASE ArmCreate
  BY <1>7, SMT DEF ArmCreate, Timer!Set, Timer!Next
<1>8. CASE ArmStore
  BY <1>8, SMT DEF ArmStore, Timer!EndArm, Timer!Next
<1>9. CASE ArmFail
  BY <1>9, SMT DEF ArmFail, Timer!EndQuiet, Timer!Next
<1>10. CASE StopCb
  BY <1>10, SMT DEF StopCb, Timer!EndQuiet, Timer!Next
<1> QED
  BY <1>1, <1>2, <1>3, <1>4, <1>5, <1>6, <1>7, <1>8, <1>9, <1>10 DEF CallStep

LEMMA PoolStepRefines ==
  ASSUME PortInv, NEW h \in Arms, PoolStep(h)
  PROVE  [Timer!Next]_(Timer!vars)
<1> USE MaxArmsAssumption
    DEF PortInv, PortTypeOK, OneLive, AtPoint, CallbackIsItsOwn, Live, InCallback, Held,
        Arms, PcValues, PoolValues, globals, RunsFor, Timer!vars
<1>1. CASE Fire(h)
  BY <1>1, SMT DEF Fire, Timer!Fire, Timer!Next
<1>2. CASE ReadCb(h)
  BY <1>2, SMT DEF ReadCb
<1>3. CASE ReadUser(h)
  BY <1>3, SMT DEF ReadUser
<1>4. CASE Finish(h)
  <2>1. RunsFor(h) = h /\ \A k \in Arms : InCallback(k) <=> k = h
    BY <1>4, SMT DEF Finish
  <2>2. \A k \in Arms : ~InCallback(k)' /\ (pool'[k] = "pending" <=> pool[k] = "pending")
    BY <1>4, <2>1, SMT DEF Finish
  <2>3. {RunsFor(k) : k \in {i \in Arms : InCallback(i)}} = {h}
    BY <2>1
  <2>4. {i \in Arms : InCallback(i)}' = {}
    BY <2>2
  <2>5. {RunsFor(k) : k \in {i \in Arms : InCallback(i)}}' = {}
    BY <2>4
  <2>6. {k \in Arms : pool[k] = "pending"}' = {k \in Arms : pool[k] = "pending"}
    BY <2>2
  <2>7. {} = {h} \ {h} /\ h \in {h}
    OBVIOUS
  <2>8. UNCHANGED <<pc, arms>>
    BY <1>4 DEF Finish
  <2>9. Timer!Return(h)
    BY ONLY <2>3, <2>5, <2>6, <2>7, <2>8, Zenon DEF Timer!Return
  <2> QED
    BY ONLY <2>3, <2>7, <2>9, Zenon DEF Timer!Next
<1> QED
  BY <1>1, <1>2, <1>3, <1>4 DEF PoolStep

\* For every number of armings the unlocked globals and the two Windows calls implement
\* the one-shot timer of lw_at.h.
THEOREM PortImplementsTimer == PortSpec => ImplementsTimer
<1>1. PortInit => Timer!Init
  BY InitRefines
<1>2. PortInv /\ [PortNext]_portVars => [Timer!Next]_(Timer!vars)
  <2> SUFFICES ASSUME PortInv, [PortNext]_portVars PROVE [Timer!Next]_(Timer!vars)
    OBVIOUS
  <2>1. CASE PortNext
    BY <2>1, MainStepRefines, PoolStepRefines DEF PortNext
  <2>2. CASE UNCHANGED portVars
    BY <2>2 DEF portVars, globals, InCallback, RunsFor, Timer!vars
  <2> QED
    BY <2>1, <2>2
<1> QED
  BY <1>1, <1>2, PortSafe, PTL DEF PortSpec, ImplementsTimer, Timer!Spec
=============================================================================
