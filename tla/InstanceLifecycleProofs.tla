---------------------- MODULE InstanceLifecycleProofs ----------------------
(***************************************************************************)
(* ProvisionedInstance implements InstanceLifecycle, for every set of      *)
(* instances and every number of faults.                                   *)
(***************************************************************************)
EXTENDS ProvisionedInstanceProofs

\* An object that has not been created has nothing set.
AbsentOK == \A p \in Instances : api[p].phase = "absent" => api[p] = NoObject

-----------------------------------------------------------------------------
(***************************************************************************)
(* Phases.                                                                 *)
(***************************************************************************)
\* The phase that the owner sees of an object, case by case.
LEMMA PhaseCases ==
  ASSUME NEW o \in Object
  PROVE  /\ o.phase # "present" => PhaseOf(o) = o.phase
         /\ o.phase = "present" =>
              /\ o.preemptionNotice => PhaseOf(o) = "lost"
              /\ ~o.preemptionNotice =>
                   /\ o.state = "RUNNING" => PhaseOf(o) = IF o.joinedCluster THEN "ready" ELSE "running"
                   /\ o.state = "STAGING" => PhaseOf(o) = "staging"
                   /\ o.state \notin {"RUNNING", "STAGING"} => PhaseOf(o) = "starting"
BY DEF Object, PhaseOf

\* The order of the phases.
LEMMA PhaseOrder ==
  /\ Lifecycle!Phase = {"absent", "starting", "staging", "running", "ready", "lost", "gone"}
  /\ \A b \in {"staging", "running", "ready", "lost", "gone"} : Lifecycle!Before("starting", b)
  /\ \A b \in {"running", "ready", "lost", "gone"} : Lifecycle!Before("staging", b)
  /\ \A b \in {"ready", "lost", "gone"} : Lifecycle!Before("running", b)
  /\ \A b \in {"lost", "gone"} : Lifecycle!Before("ready", b)
  /\ Lifecycle!Before("lost", "gone")
<1> DEFINE Order == Lifecycle!Order
<1>1. /\ Order[1] = "absent" /\ Order[2] = "starting" /\ Order[3] = "staging"
      /\ Order[4] = "running" /\ Order[5] = "ready" /\ Order[6] = "lost" /\ Order[7] = "gone"
  BY DEF Lifecycle!Order
<1>2. 1..7 = {1, 2, 3, 4, 5, 6, 7}
  OBVIOUS
<1> HIDE DEF Order
<1>3. \A i, j \in 1..7 : i < j => Lifecycle!Before(Order[i], Order[j])
  BY DEF Order, Lifecycle!Before
<1>4. Lifecycle!Phase = {"absent", "starting", "staging", "running", "ready", "lost", "gone"}
  BY <1>1, <1>2 DEF Order, Lifecycle!Phase
<1> QED BY <1>1, <1>3, <1>4

\* What becomes of an object that is there, as the owner sees it: it stays where
\* it is, moves forward, or starts anew before its loss was noticed.
LEMMA PhaseMoves ==
  ASSUME NEW o \in Object, NEW n \in Object, o.phase = "present", Earlier(o, n)
  PROVE  \/ PhaseOf(n) = PhaseOf(o)
         \/ Lifecycle!Before(PhaseOf(o), PhaseOf(n))
         \/ /\ PhaseOf(o) \in {"staging", "running", "ready"}
            /\ PhaseOf(n) \in {"starting", "staging"}
<1>1. n.phase \in {"present", "gone"}
  BY DEF Earlier, Object
<1>2. CASE n.phase = "gone"
  BY <1>2, PhaseCases, PhaseOrder
<1>3. CASE n.phase = "present" /\ n.preemptionNotice
  BY <1>3, PhaseCases, PhaseOrder
<1>4. CASE n.phase = "present" /\ ~n.preemptionNotice
  <2>1. ~o.preemptionNotice /\ (o.joinedCluster => n.joinedCluster)
    BY <1>4 DEF Earlier
  <2> QED BY <1>4, <2>1, PhaseCases, PhaseOrder
<1> QED BY <1>1, <1>2, <1>3, <1>4

-----------------------------------------------------------------------------
(***************************************************************************)
(* Steps.                                                                  *)
(***************************************************************************)
\* A step changes one object at most, and an object that was not there only by
\* creating it.
LEMMA OneObject ==
  ASSUME IInv, [Next]_vars
  PROVE  \/ UNCHANGED api
         \/ \E p \in Instances :
              /\ \A q \in Instances \ {p} : api'[q] = api[q]
              /\ api[p].phase = "absent" => api'[p] = Created(api[p])
<1> DEFINE Change(p) == /\ \A q \in Instances \ {p} : api'[q] = api[q]
                        /\ api[p].phase = "absent" => api'[p] = Created(api[p])
<1>1. TypeOK
  BY DEF IInv
<1>2. ASSUME NEW p \in Instances, NEW n, pc[p] # "idle", Commit(p, n)
      PROVE  Change(p)
  BY <1>1, <1>2 DEF Commit, Fresh, IInv, ReconcileOK, TypeOK
<1>3. ASSUME NEW p \in Instances,
             \/ AddFinalizer(p) \/ InitStatus(p) \/ Record(p) \/ LostStatus(p)
             \/ UpdateStatus(p) \/ RemoveFinalizer(p)
      PROVE  Change(p)
  <2>1. pc[p] # "idle" /\ \E n : Commit(p, n)
    BY <1>3 DEF AddFinalizer, InitStatus, Record, LostStatus, UpdateStatus, RemoveFinalizer
  <2> HIDE DEF Change
  <2> QED BY <1>2, <2>1
<1>4. ASSUME NEW p \in Instances, CreateObject(p) \/ DeleteObject(p)
      PROVE  Change(p)
  BY <1>1, <1>4 DEF CreateObject, DeleteObject, TypeOK
<1>5. UNCHANGED vars => UNCHANGED api
  BY DEF vars
<1> HIDE DEF Change
<1>6. UNCHANGED api \/ \E p \in Instances : Change(p)
  BY <1>3, <1>4, <1>5
  DEF Next, Reconcile, Environment, Begin, Dispatch, ListInstances, Insert, InsertDone,
      InsertFails, Check, DeleteNode, DeleteVM, DeleteDone, Fail, Sync, VMProgress,
      Preempt, DeleteInConsole, VMStep, NodeJoins, Crash, DeleteTemplate
<1> QED BY <1>6 DEF Change

\* Nothing is set before an object is created.
LEMMA AbsentStep ==
  ASSUME IInv, AbsentOK, [Next]_vars
  PROVE  AbsentOK'
<1>1. TypeOK
  BY DEF IInv
<1>2. \A o \in Object : Created(o).phase = "present"
  BY DEF Object, Created
<1>3. ASSUME NEW q \in Instances, api'[q].phase = "absent"
      PROVE  api[q].phase = "absent" /\ api'[q] = api[q]
  <2>1. Earlier(api[q], api'[q]) /\ api[q] \in Object
    BY <1>1, ObjectsAdvance DEF TypeOK
  <2>2. api[q].phase = "absent"
    BY <1>3, <2>1 DEF Earlier, Object
  <2>3. api'[q] # Created(api[q])
    BY <1>2, <1>3, <2>1
  <2> QED BY <2>2, <2>3, OneObject
<1> QED BY <1>3 DEF AbsentOK

\* A step of ProvisionedInstance is a step of InstanceLifecycle, or none.
LEMMA StepImplements ==
  ASSUME IInv, TypeOK', AbsentOK, [Next]_vars
  PROVE  [Lifecycle!Next]_([p \in Instances |-> PhaseOf(api[p])])
<1> DEFINE phase == [p \in Instances |-> PhaseOf(api[p])]
<1>1. api \in [Instances -> Object] /\ api' \in [Instances -> Object]
  BY DEF IInv, TypeOK
<1>2. CASE UNCHANGED api
  BY <1>2
<1>3. ASSUME NEW p \in Instances, \A q \in Instances \ {p} : api'[q] = api[q],
             api[p].phase = "absent" => api'[p] = Created(api[p])
      PROVE  Lifecycle!Next \/ UNCHANGED phase
  <2>1. phase' = [phase EXCEPT ![p] = PhaseOf(api'[p])]
    BY <1>3
  <2>2. phase[p] = PhaseOf(api[p]) /\ api[p] \in Object /\ api'[p] \in Object
    BY <1>1
  <2>3. PhaseOf(api'[p]) \in Lifecycle!Phase
    BY <2>2, PhaseCases, PhaseOrder DEF Object
  <2>4. CASE PhaseOf(api'[p]) = PhaseOf(api[p])
    BY <2>1, <2>4
  <2>5. CASE api[p].phase = "absent"
    <3>1. phase[p] = "absent"
      BY <2>2, <2>5, PhaseCases
    <3>2. PhaseOf(api'[p]) = "starting"
      <4>1. api[p] = NoObject
        BY <2>5 DEF AbsentOK
      <4>2. api'[p] = Created(NoObject)
        BY <1>3, <2>5, <4>1
      <4>3. /\ Created(NoObject).phase = "present"
            /\ ~Created(NoObject).preemptionNotice
            /\ Created(NoObject).state = ""
        BY DEF NoObject, Created
      <4> QED BY <2>2, <4>2, <4>3, PhaseCases
    <3>3. Lifecycle!Create(p)
      BY <2>1, <3>1, <3>2 DEF Lifecycle!Create
    <3> QED BY <3>3 DEF Lifecycle!Next
  <2>6. CASE api[p].phase = "gone"
    <3>1. api'[p].phase = "gone"
      BY <2>6, ObjectsAdvance DEF Earlier
    <3> QED BY <2>2, <2>4, <2>6, <3>1, PhaseCases
  <2>7. CASE api[p].phase = "present" /\ Lifecycle!Before(PhaseOf(api[p]), PhaseOf(api'[p]))
    <3>1. phase[p] # "absent"
      BY <2>2, <2>7, PhaseCases
    <3>2. Lifecycle!Advance(p)
      BY <2>1, <2>2, <2>3, <2>7, <3>1 DEF Lifecycle!Advance
    <3> QED BY <3>2 DEF Lifecycle!Next
  <2>8. CASE /\ PhaseOf(api[p]) \in {"staging", "running", "ready"}
             /\ PhaseOf(api'[p]) \in {"starting", "staging"}
    <3>1. Lifecycle!Replace(p)
      BY <2>1, <2>2, <2>8 DEF Lifecycle!Replace
    <3> QED BY <3>1 DEF Lifecycle!Next
  <2>9. api[p].phase \in {"absent", "present", "gone"}
    BY <2>2 DEF Object
  <2>10. CASE api[p].phase = "present"
    BY <2>2, <2>4, <2>7, <2>8, <2>10, ObjectsAdvance, PhaseMoves
  <2> QED BY <2>5, <2>6, <2>9, <2>10
<1> QED BY <1>2, <1>3, OneObject

\* Seen through its status an instance moves forward only, and one that is lost
\* is never live again: what the owner relies on when it skips lost instances
\* and reuses their index (spotinstancejob_provisionedinstance.go, lines 89-103).
THEOREM Implements == Spec => LifecycleSpec
<1>1. Init => Lifecycle!Init
  <2>1. NoObject \in Object /\ NoObject.phase = "absent"
    BY NoObjectTyped DEF NoObject
  <2>2. PhaseOf(NoObject) = "absent"
    BY <2>1, PhaseCases
  <2> QED BY <2>2 DEF Init, Lifecycle!Init
<1>2. Init => AbsentOK
  BY DEF Init, AbsentOK
<1>3. AbsentOK /\ IInv /\ [Next]_vars => AbsentOK'
  BY AbsentStep
<1>4. IInv /\ IInv' /\ AbsentOK /\ [Next]_vars
        => [Lifecycle!Next]_([p \in Instances |-> PhaseOf(api[p])])
  BY StepImplements DEF IInv
<1> QED
  BY <1>1, <1>2, <1>3, <1>4, Invariance, PTL DEF Spec, LifecycleSpec, Lifecycle!Spec
=============================================================================
