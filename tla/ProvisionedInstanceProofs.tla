--------------------- MODULE ProvisionedInstanceProofs ---------------------
(***************************************************************************)
(* Proofs about ProvisionedInstance, for every set of instances and every  *)
(* number of faults.                                                       *)
(***************************************************************************)
EXTENDS ProvisionedInstance, TLAPS

-----------------------------------------------------------------------------
(***************************************************************************)
(* The inductive invariant.                                                *)
(***************************************************************************)
\* o is an earlier version of n, or the same: no mark is ever cleared and an
\* object that is gone does not come back.
Earlier(o, n) ==
  /\ o.phase = "gone"    => n.phase = "gone"
  /\ o.phase = "present" => n.phase # "absent"
  /\ o.deletionTimestamp => n.deletionTimestamp
  /\ o.finalizer         => n.finalizer
  /\ o.instanceName      => n.instanceName
  /\ o.joinedCluster     => n.joinedCluster
  /\ o.preemptionNotice  => n.preemptionNotice

\* Copies lag behind the API server.
CopiesEarlier ==
  \A p \in Instances : Earlier(cache[p], api[p]) /\ Earlier(obj[p], api[p])

\* A reconcile past the finalizer works on a live object that has it, and a
\* reconcile in handleDeletion on one whose deletion the cache shows, too.
Deletion  == {"deleteVM", "deleteWait", "deleteNode", "removeFinalizer"}
Provision == PC \ (Deletion \cup {"idle", "addFinalizer"})

ReconcileOK ==
  \A p \in Instances :
    /\ pc[p] # "idle" => obj[p].phase = "present"
    /\ pc[p] \in Provision => obj[p].finalizer /\ api[p].phase # "gone"
    /\ pc[p] \in Deletion => obj[p].deletionTimestamp /\ cache[p].deletionTimestamp
    /\ pc[p] = "deleteNode" => obj[p].joinedCluster

\* An object leaves by way of its deletion timestamp; with the finalizer it
\* leaves only after the cache has shown that.
DepartureOK ==
  \A p \in Instances :
    /\ api[p].phase = "gone" => api[p].deletionTimestamp
    /\ api[p].phase = "gone" /\ api[p].finalizer => cache[p].deletionTimestamp
    /\ api[p].joinedCluster => api[p].instanceName
    /\ cache[p].joinedCluster => cache[p].instanceName
    /\ obj[p].joinedCluster => obj[p].instanceName

\* What a reconcile has learned about the VM stays true until it acts on it,
\* unless it took a failing call for the answer.
KnowledgeOK ==
  \A p \in Instances :
    /\ pc[p] = "status" => seen[p] \in GCPStatus
    /\ pc[p] = "status" /\ seen[p] \in Stopped => vm[p] \in Stopped \cup {"DELETING", "none"}
    /\ pc[p] = "status" /\ seen[p] = "TERMINATED" => vm[p] \in {"TERMINATED", "DELETING", "none"}
    /\ pc[p] = "termNode" => vm[p] \in {"TERMINATED", "DELETING", "none"}
    /\ pc[p] \in {"lostNode", "lostStatus"} => vm[p] = "none" \/ "VM" \in swallowed[p]
    /\ pc[p] \in {"deleteNode", "removeFinalizer"} /\ obj[p].instanceName
         => vm[p] = "none" \/ "VM" \in swallowed[p]

\* A VM has the finalizer's protection.
VMProtected == \A p \in Instances : vm[p] # "none" => api[p].finalizer

IInv == TypeOK /\ CopiesEarlier /\ ReconcileOK /\ DepartureOK /\ KnowledgeOK /\ VMProtected

-----------------------------------------------------------------------------
(***************************************************************************)
(* Type correctness.                                                       *)
(***************************************************************************)
\* Whatever a write makes of an object is an object.
LEMMA WritesTyped ==
  ASSUME NEW o \in Object
  PROVE  /\ Created(o) \in Object
         /\ Deleted(o) \in Object
         /\ Finalized(o) \in Object
         /\ Initialized(o) \in Object
         /\ Unprotected(o) \in Object
         /\ Recorded(o) \in Object
         /\ Lost(o) \in Object
BY DEF Object, GCPStatus, Created, Deleted, Finalized, Initialized, Unprotected,
       Recorded, Lost

\* What updateInstanceStatus writes (lines 304-349) is an object.
LEMMA StatusTyped ==
  ASSUME NEW o \in Object, NEW s \in GCPStatus, NEW n \in BOOLEAN
  PROVE  NewStatus(o, s, n) \in Object
BY DEF NewStatus, Object, GCPStatus, Stopped

\* So is the copy that a reconcile keeps when it has returned.
LEMMA NoObjectTyped == NoObject \in Object
BY DEF NoObject, Object

\* Return, Goto and Commit keep the types of what they change.
LEMMA ReturnTyped ==
  ASSUME TypeOK, NEW p \in Instances, NEW again \in BOOLEAN, Return(p, again)
  PROVE  /\ pc' \in [Instances -> PC]
         /\ obj' \in [Instances -> Object]
         /\ seen' \in [Instances -> GCPStatus \cup {"none"}]
         /\ swallowed' \in [Instances -> SUBSET {"VM", "Node"}]
         /\ queue' \in SUBSET Instances
BY NoObjectTyped DEF TypeOK, Return, PC

\* Counting a fault and marking what is swallowed keep the types.
LEMMA TakenTyped ==
  ASSUME TypeOK, NEW p \in Instances, TakenForMissing(p)
  PROVE  /\ faults' \in Nat
         /\ swallowed' \in [Instances -> SUBSET {"VM", "Node"}]
BY DEF TypeOK, TakenForMissing, Fault

\* A write leaves objects in the API server.
LEMMA CommitTyped ==
  ASSUME TypeOK, NEW p \in Instances, NEW new \in Object, Commit(p, new)
  PROVE  api' \in [Instances -> Object]
BY DEF TypeOK, Commit

\* The controller starts with every variable in its type.
LEMMA TypeInit == Init => TypeOK
BY NoObjectTyped DEF Init, TypeOK, VM, PC, GCPStatus

\* Every step of the controller and of its environment keeps the types.
LEMMA TypeStep == TypeOK /\ KnowledgeOK /\ [Next]_vars => TypeOK'
<1> SUFFICES ASSUME TypeOK, KnowledgeOK, [Next]_vars
             PROVE  TypeOK'
  OBVIOUS
<1>1. ASSUME NEW p \in Instances, Begin(p)
      PROVE  TypeOK'
  <2>1. FirstCall(cache[p]) \in PC
    BY DEF FirstCall, AfterVM, AfterFinalizer, PC, Updates, GCPCalls, NodeDeletes
  <2> QED BY <1>1, <2>1 DEF Begin, Goto, TypeOK
<1>2. ASSUME NEW p \in Instances, AddFinalizer(p)
      PROVE  TypeOK'
  <2>1. Finalized(obj[p]) \in Object
    BY WritesTyped DEF TypeOK
  <2>2. AfterFinalizer(Finalized(obj[p])) \in PC
    BY DEF AfterFinalizer, PC, Updates
  <2>3. api' \in [Instances -> Object]
    BY <1>2, <2>1, CommitTyped DEF AddFinalizer
  <2> QED BY <1>2, <2>1, <2>2, <2>3 DEF AddFinalizer, Goto, TypeOK
<1>3. ASSUME NEW p \in Instances, InitStatus(p)
      PROVE  TypeOK'
  <2>1. Initialized(obj[p]) \in Object
    BY WritesTyped DEF TypeOK
  <2>2. api' \in [Instances -> Object]
    BY <1>3, <2>1, CommitTyped DEF InitStatus
  <2> QED BY <1>3, <2>1, <2>2 DEF InitStatus, Goto, PC, TypeOK
<1>4. ASSUME NEW p \in Instances, Dispatch(p)
      PROVE  TypeOK'
  <2>1. CASE template
    BY <1>4, <2>1 DEF Dispatch, Goto, TypeOK, PC, GCPCalls
  <2>2. CASE ~template
    BY <1>4, <2>2, ReturnTyped DEF Dispatch, TypeOK
  <2> QED BY <2>1, <2>2
<1>5. ASSUME NEW p \in Instances, ListInstances(p)
      PROVE  TypeOK'
  <2>1. vm[p] # "none" => VMStatus(p) \in GCPStatus
    BY DEF TypeOK, VM, VMStatus, GCPStatus
  <2>2. pc' \in [Instances -> PC]
    BY <1>5 DEF ListInstances, Goto, TypeOK, PC, GCPCalls, Updates
  <2>3. seen' \in [Instances -> GCPStatus \cup {"none"}]
    BY <1>5, <2>1 DEF ListInstances, TypeOK
  <2> QED BY <1>5, <2>2, <2>3 DEF ListInstances, TypeOK
<1>6. ASSUME NEW p \in Instances, Insert(p)
      PROVE  TypeOK'
  BY <1>6 DEF Insert, Goto, TypeOK, PC, GCPCalls, VM, GCPStatus
<1>7. ASSUME NEW p \in Instances, InsertDone(p)
      PROVE  TypeOK'
  <2>1. CASE vm[p] = "none"
    BY <1>7, <2>1, ReturnTyped DEF InsertDone, TypeOK
  <2>2. CASE vm[p] # "none"
    BY <1>7, <2>2 DEF InsertDone, Goto, TypeOK, PC, Updates
  <2> QED BY <2>1, <2>2
<1>8. ASSUME NEW p \in Instances, InsertFails(p)
      PROVE  TypeOK'
  <2>1. /\ faults' \in Nat
        /\ vm' \in [Instances -> VM]
    BY <1>8 DEF InsertFails, Fault, TypeOK, VM
  <2> QED BY <1>8, <2>1, ReturnTyped DEF InsertFails, TypeOK
<1>9. ASSUME NEW p \in Instances, Record(p)
      PROVE  TypeOK'
  <2>1. Recorded(obj[p]) \in Object
    BY WritesTyped DEF TypeOK
  <2> QED BY <1>9, <2>1, CommitTyped, ReturnTyped DEF Record, TypeOK
<1>10. ASSUME NEW p \in Instances, Check(p)
       PROVE  TypeOK'
  <2>1. vm[p] # "none" => VMStatus(p) \in GCPStatus
    BY DEF TypeOK, VM, VMStatus, GCPStatus
  <2>2. pc' \in [Instances -> PC]
    BY <1>10 DEF Check, Goto, TypeOK, PC, NodeDeletes, Updates
  <2>3. seen' \in [Instances -> GCPStatus \cup {"none"}]
    BY <1>10, <2>1 DEF Check, TypeOK
  <2>4. faults' \in Nat /\ swallowed' \in [Instances -> SUBSET {"VM", "Node"}]
    BY <1>10, TakenTyped DEF Check, TypeOK
  <2> QED BY <1>10, <2>2, <2>3, <2>4 DEF Check, TypeOK
<1>11. ASSUME NEW p \in Instances, LostStatus(p)
       PROVE  TypeOK'
  <2>1. Lost(obj[p]) \in Object
    BY WritesTyped DEF TypeOK
  <2> QED BY <1>11, <2>1, CommitTyped, ReturnTyped DEF LostStatus, TypeOK
<1>12. ASSUME NEW p \in Instances, UpdateStatus(p)
       PROVE  TypeOK'
  <2> DEFINE new == NewStatus(obj[p], seen[p], node[p])
  <2>1. new \in Object
    BY <1>12, StatusTyped DEF UpdateStatus, TypeOK, KnowledgeOK
  <2> HIDE DEF new
  <2>2. api' \in [Instances -> Object]
    BY <1>12, <2>1, CommitTyped DEF UpdateStatus, new
  <2>3. CASE seen[p] = "TERMINATED" /\ new.joinedCluster
    <3>1. /\ obj' = [obj EXCEPT ![p] = new]
          /\ pc' = [pc EXCEPT ![p] = "termNode"]
          /\ UNCHANGED <<cache, template, vm, node, queue, seen, swallowed, faults>>
      BY <1>12, <2>3 DEF UpdateStatus, Goto, new
    <3>2. obj' \in [Instances -> Object] /\ pc' \in [Instances -> PC]
      BY <2>1, <3>1 DEF TypeOK, PC, NodeDeletes
    <3> QED BY <2>2, <3>1, <3>2 DEF TypeOK
  <2>4. CASE ~(seen[p] = "TERMINATED" /\ new.joinedCluster)
    BY <1>12, <2>2, <2>4, ReturnTyped DEF UpdateStatus, TypeOK, new
  <2> QED BY <2>3, <2>4
<1>13. ASSUME NEW p \in Instances, DeleteNode(p)
       PROVE  TypeOK'
  <2>1. faults' = faults \/ faults' = faults + 1
    BY <1>13 DEF DeleteNode, Fault
  <2>2. faults' \in Nat
    BY <2>1 DEF TypeOK
  <2>3. node' \in [Instances -> BOOLEAN]
    BY <1>13 DEF DeleteNode, TypeOK
  <2>4. CASE pc[p] = "termNode"
    BY <1>13, <2>2, <2>3, <2>4, ReturnTyped DEF DeleteNode, TypeOK
  <2>5. CASE pc[p] # "termNode"
    <3>1. swallowed' = swallowed \/ swallowed' = [swallowed EXCEPT ![p] = @ \cup {"Node"}]
      BY <1>13, <2>5 DEF DeleteNode
    <3>2. swallowed' \in [Instances -> SUBSET {"VM", "Node"}]
      BY <3>1 DEF TypeOK
    <3> QED BY <1>13, <2>2, <2>3, <2>5, <3>2 DEF DeleteNode, Goto, TypeOK, PC, Updates
  <2> QED BY <2>4, <2>5
<1>14. ASSUME NEW p \in Instances, DeleteVM(p)
       PROVE  TypeOK'
  <2>1. AfterVM(obj[p]) \in PC
    BY DEF AfterVM, PC, Updates, NodeDeletes
  <2>2. CASE ~template
    BY <1>14, <2>2, ReturnTyped DEF DeleteVM, TypeOK
  <2>3. CASE template
    <3>1. faults' \in Nat /\ swallowed' \in [Instances -> SUBSET {"VM", "Node"}]
      BY <1>14, <2>3, TakenTyped DEF DeleteVM, TypeOK
    <3> QED BY <1>14, <2>1, <2>3, <3>1 DEF DeleteVM, Goto, TypeOK, PC, GCPCalls, VM
  <2> QED BY <2>2, <2>3
<1>15. ASSUME NEW p \in Instances, DeleteDone(p)
       PROVE  TypeOK'
  <2>1. faults' \in Nat /\ swallowed' \in [Instances -> SUBSET {"VM", "Node"}]
    BY <1>15, TakenTyped DEF DeleteDone
  <2> QED BY <1>15, <2>1 DEF DeleteDone, AfterVM, Goto, TypeOK, PC, Updates, NodeDeletes
<1>16. ASSUME NEW p \in Instances, RemoveFinalizer(p)
       PROVE  TypeOK'
  <2>1. Unprotected(obj[p]) \in Object
    BY WritesTyped DEF TypeOK
  <2> QED BY <1>16, <2>1, CommitTyped, ReturnTyped DEF RemoveFinalizer, TypeOK
<1>17. ASSUME NEW p \in Instances, Fail(p)
       PROVE  TypeOK'
  <2>1. faults' \in Nat
    BY <1>17 DEF Fail, Fault, TypeOK
  <2> QED BY <1>17, <2>1, ReturnTyped DEF Fail, TypeOK
<1>18. ASSUME NEW p \in Instances, Environment(p)
       PROVE  TypeOK'
  <2>1. CASE Sync(p)
    BY <2>1 DEF Sync, TypeOK
  <2>2. CASE CreateObject(p)
    BY <2>2, WritesTyped DEF CreateObject, TypeOK
  <2>3. CASE DeleteObject(p)
    BY <2>3, WritesTyped DEF DeleteObject, TypeOK
  <2>4. CASE VMProgress(p) \/ Preempt(p) \/ DeleteInConsole(p)
    BY <2>4 DEF VMProgress, Preempt, DeleteInConsole, VMStep, TypeOK, VM, GCPStatus
  <2>5. CASE NodeJoins(p)
    BY <2>5 DEF NodeJoins, TypeOK
  <2> QED BY <1>18, <2>1, <2>2, <2>3, <2>4, <2>5 DEF Environment
<1>19. CASE Crash
  BY <1>19, NoObjectTyped DEF Crash, Fault, TypeOK, PC
<1>20. CASE DeleteTemplate
  BY <1>20 DEF DeleteTemplate, TypeOK
<1>21. CASE UNCHANGED vars
  BY <1>21 DEF vars, TypeOK
<1> QED
  BY <1>1, <1>2, <1>3, <1>4, <1>5, <1>6, <1>7, <1>8, <1>9, <1>10, <1>11, <1>12,
     <1>13, <1>14, <1>15, <1>16, <1>17, <1>18, <1>19, <1>20, <1>21
  DEF Next, Reconcile

-----------------------------------------------------------------------------
(***************************************************************************)
(* The invariant is inductive.                                             *)
(***************************************************************************)
\* n is what a write of a reconcile may make of o.
Rewrite(o, n) ==
  /\ Earlier(o, n)
  /\ n.phase = o.phase
  /\ n.deletionTimestamp = o.deletionTimestamp
  /\ (o.joinedCluster => o.instanceName) => (n.joinedCluster => n.instanceName)

\* The writes of lines 79-89, 213-218, 259-270 and 282-293 add marks and take
\* none back.
LEMMA Rewrites ==
  ASSUME NEW o \in Object
  PROVE  /\ Rewrite(o, Finalized(o)) /\ Finalized(o).finalizer
         /\ Rewrite(o, Initialized(o))
         /\ Rewrite(o, Recorded(o))
         /\ Rewrite(o, Lost(o))
BY DEF Rewrite, Earlier, Object, Finalized, Initialized, Recorded, Lost

\* Nor does the write of updateInstanceStatus, which sets JoinedCluster and
\* PreemptionNotice and never clears them (lines 321-349).
LEMMA StatusRewrites ==
  ASSUME NEW o \in Object, NEW s \in GCPStatus, NEW n \in BOOLEAN
  PROVE  Rewrite(o, NewStatus(o, s, n))
BY DEF Rewrite, Earlier, Object, NewStatus

\* An object is an earlier version of itself, ...
LEMMA EarlierReflexive ==
  ASSUME NEW o \in Object
  PROVE  Earlier(o, o)
BY DEF Earlier, Object

\* ... a version earlier than an earlier one is earlier, ...
LEMMA EarlierTransitive ==
  ASSUME NEW a \in Object, NEW b \in Object, NEW c \in Object,
         Earlier(a, b), Earlier(b, c)
  PROVE  Earlier(a, c)
BY DEF Earlier, Object

\* ... and the object that does not exist yet is earlier than any.
LEMMA NoObjectEarlier ==
  ASSUME NEW o
  PROVE  Earlier(NoObject, o)
BY DEF Earlier, NoObject

\* The invariant holds when the controller starts.
LEMMA InvInit == Init => IInv
<1> SUFFICES ASSUME Init
             PROVE  IInv
  OBVIOUS
<1>1. TypeOK
  BY TypeInit
<1>2. CopiesEarlier
  BY NoObjectEarlier DEF Init, CopiesEarlier
<1>3. ReconcileOK /\ KnowledgeOK
  BY DEF Init, ReconcileOK, KnowledgeOK, Provision, Deletion, PC
<1>4. DepartureOK /\ VMProtected
  BY DEF Init, DepartureOK, VMProtected, Gone, NoObject
<1> QED BY <1>1, <1>2, <1>3, <1>4 DEF IInv

\* A write of a reconcile that goes on or returns.
LEMMA WriteStep ==
  ASSUME IInv, NEW p \in Instances, NEW n \in Object,
         pc[p] # "idle", Commit(p, n), Rewrite(obj[p], n),
         UNCHANGED <<cache, vm>>
  PROVE  /\ \A q \in Instances : Earlier(cache[q], api'[q])
         /\ \A q \in Instances : Earlier(obj[q], api'[q])
         /\ \A q \in Instances : api'[q].phase = api[q].phase
         /\ VMProtected'
<1>1. TypeOK /\ obj[p] = api[p] /\ api' = [api EXCEPT ![p] = n] /\ api \in [Instances -> Object]
  BY DEF IInv, Commit, Fresh, TypeOK
<1>2. \A q \in Instances : Earlier(api[q], api'[q]) /\ api'[q].phase = api[q].phase
  BY <1>1, EarlierReflexive DEF Rewrite
<1>3. \A q \in Instances : Earlier(cache[q], api'[q]) /\ Earlier(obj[q], api'[q])
  BY <1>1, <1>2, EarlierTransitive DEF IInv, CopiesEarlier, TypeOK
<1>4. obj[p].phase = "present"
  BY DEF IInv, ReconcileOK
<1>5. VMProtected'
  BY <1>1, <1>2, <1>4 DEF IInv, VMProtected, Gone, Earlier
<1> QED BY <1>2, <1>3, <1>5

\* A reconcile that returns without a write keeps the invariant.
LEMMA ReturnStep ==
  ASSUME IInv, NEW p \in Instances, NEW again \in BOOLEAN, Return(p, again),
         UNCHANGED <<cache, vm>>,
         \A q \in Instances : api'[q].phase # api[q].phase => q = p
  PROVE  ReconcileOK' /\ KnowledgeOK'
<1>1. TypeOK
  BY DEF IInv
<1> QED BY <1>1 DEF IInv, Return, ReconcileOK, KnowledgeOK, TypeOK, Provision, Deletion

\* Every step of the controller and of its environment keeps the invariant.
LEMMA InvStep == IInv /\ [Next]_vars => IInv'
<1> SUFFICES ASSUME IInv, [Next]_vars
             PROVE  IInv'
  OBVIOUS
<1> USE DEF IInv
<1>0. TypeOK /\ TypeOK'
  BY TypeStep
<1>1. ASSUME NEW p \in Instances, Begin(p)
      PROVE  IInv'
  <2>1. CASE cache[p].phase = "present"
    <3>1. obj' = [obj EXCEPT ![p] = cache[p]] /\ pc' = [pc EXCEPT ![p] = FirstCall(cache[p])]
      BY <1>1, <2>1 DEF Begin, Goto
    <3>2. CopiesEarlier'
      BY <1>0, <1>1, <3>1 DEF Begin, CopiesEarlier, TypeOK
    <3>3. ReconcileOK'
      BY <1>0, <1>1, <2>1, <3>1
      DEF Begin, ReconcileOK, TypeOK, CopiesEarlier, DepartureOK, Earlier, Provision, Deletion,
          FirstCall, AfterVM, AfterFinalizer
    <3>4. DepartureOK' /\ KnowledgeOK' /\ VMProtected'
      BY <1>0, <1>1, <2>1, <3>1
      DEF Begin, DepartureOK, KnowledgeOK, VMProtected, Gone, TypeOK,
          FirstCall, AfterVM, AfterFinalizer
    <3> QED BY <1>0, <3>2, <3>3, <3>4
  <2>2. CASE cache[p].phase # "present"
    BY <1>0, <1>1, <2>2 DEF Begin, CopiesEarlier, ReconcileOK, DepartureOK, KnowledgeOK, VMProtected, Gone
  <2> QED BY <2>1, <2>2
<1>2. ASSUME NEW p \in Instances, AddFinalizer(p)
      PROVE  IInv'
  <2> DEFINE n == Finalized(obj[p])
  <2>1. n \in Object /\ Rewrite(obj[p], n) /\ n.finalizer
    BY <1>0, WritesTyped, Rewrites DEF TypeOK
  <2> HIDE DEF n
  <2>2. /\ pc[p] = "addFinalizer"
        /\ Commit(p, n)
        /\ obj' = [obj EXCEPT ![p] = n]
        /\ pc' = [pc EXCEPT ![p] = AfterFinalizer(n)]
        /\ UNCHANGED <<cache, vm, seen, swallowed>>
    BY <1>2 DEF AddFinalizer, Goto, n
  <2>3. api' = [api EXCEPT ![p] = n] /\ obj[p] = api[p]
    BY <2>2 DEF Commit, Fresh
  <2>4. CopiesEarlier' /\ VMProtected'
    BY <1>0, <2>1, <2>2, <2>3, WriteStep, EarlierReflexive DEF CopiesEarlier, TypeOK
  <2>5. ReconcileOK'
    BY <1>0, <2>1, <2>2, <2>3 DEF ReconcileOK, TypeOK, Rewrite, AfterFinalizer, Provision, Deletion
  <2>6. DepartureOK' /\ KnowledgeOK'
    BY <1>0, <2>1, <2>2, <2>3
    DEF ReconcileOK, DepartureOK, KnowledgeOK, TypeOK, Rewrite, AfterFinalizer
  <2> QED BY <1>0, <2>4, <2>5, <2>6
<1>3. ASSUME NEW p \in Instances, InitStatus(p)
      PROVE  IInv'
  <2> DEFINE n == Initialized(obj[p])
  <2>1. n \in Object /\ Rewrite(obj[p], n)
    BY <1>0, WritesTyped, Rewrites DEF TypeOK
  <2> HIDE DEF n
  <2>2. /\ pc[p] = "initStatus"
        /\ Commit(p, n)
        /\ obj' = [obj EXCEPT ![p] = n]
        /\ pc' = [pc EXCEPT ![p] = "dispatch"]
        /\ UNCHANGED <<cache, vm, seen, swallowed>>
    BY <1>3 DEF InitStatus, Goto, n
  <2>3. api' = [api EXCEPT ![p] = n] /\ obj[p] = api[p]
    BY <2>2 DEF Commit, Fresh
  <2>4. CopiesEarlier' /\ VMProtected'
    BY <1>0, <2>1, <2>2, <2>3, WriteStep, EarlierReflexive DEF CopiesEarlier, TypeOK
  <2>5. ReconcileOK'
    BY <1>0, <2>1, <2>2, <2>3
    DEF ReconcileOK, TypeOK, Rewrite, Earlier, Provision, Deletion, PC, Updates
  <2>6. DepartureOK' /\ KnowledgeOK'
    BY <1>0, <2>1, <2>2, <2>3
    DEF ReconcileOK, DepartureOK, KnowledgeOK, TypeOK, Rewrite
  <2> QED BY <1>0, <2>4, <2>5, <2>6
<1>4. ASSUME NEW p \in Instances, NEW n \in Object, NEW again \in BOOLEAN,
             pc[p] # "idle", Commit(p, n), Rewrite(obj[p], n), Return(p, again),
             UNCHANGED <<cache, vm>>
      PROVE  IInv'
  <2>1. api' = [api EXCEPT ![p] = n] /\ obj[p] = api[p] /\ obj' = [obj EXCEPT ![p] = NoObject]
    BY <1>4 DEF Commit, Fresh, Return
  <2>2. CopiesEarlier' /\ VMProtected'
    BY <1>0, <1>4, <2>1, WriteStep, NoObjectEarlier DEF CopiesEarlier, TypeOK
  <2>3. ReconcileOK' /\ KnowledgeOK'
    BY <1>4, <2>1, WriteStep, ReturnStep
  <2>4. DepartureOK'
    BY <1>0, <1>4, <2>1 DEF ReconcileOK, DepartureOK, TypeOK, Rewrite, NoObject
  <2> QED BY <1>0, <2>2, <2>3, <2>4
<1>5. ASSUME NEW p \in Instances, Record(p)
      PROVE  IInv'
  <2>1. Recorded(obj[p]) \in Object /\ Rewrite(obj[p], Recorded(obj[p]))
    BY <1>0, WritesTyped, Rewrites DEF TypeOK
  <2> QED BY <1>4, <1>5, <2>1 DEF Record
<1>6. ASSUME NEW p \in Instances, LostStatus(p)
      PROVE  IInv'
  <2>1. Lost(obj[p]) \in Object /\ Rewrite(obj[p], Lost(obj[p]))
    BY <1>0, WritesTyped, Rewrites DEF TypeOK
  <2> QED BY <1>4, <1>6, <2>1 DEF LostStatus
<1>7. ASSUME NEW p \in Instances, UpdateStatus(p)
      PROVE  IInv'
  <2> DEFINE n == NewStatus(obj[p], seen[p], node[p])
  <2>1. n \in Object /\ Rewrite(obj[p], n)
    BY <1>0, <1>7, StatusTyped, StatusRewrites DEF UpdateStatus, TypeOK, KnowledgeOK
  <2> HIDE DEF n
  <2>2. pc[p] = "status" /\ Commit(p, n) /\ UNCHANGED <<cache, vm>>
    BY <1>7 DEF UpdateStatus, n
  <2>3. CASE seen[p] = "TERMINATED" /\ n.joinedCluster
    <3>1. /\ obj' = [obj EXCEPT ![p] = n]
          /\ pc' = [pc EXCEPT ![p] = "termNode"]
          /\ seen' = seen /\ swallowed' = swallowed
      BY <1>7, <2>3 DEF UpdateStatus, Goto, n
    <3>2. api' = [api EXCEPT ![p] = n] /\ obj[p] = api[p]
      BY <2>2 DEF Commit, Fresh
    <3>3. CopiesEarlier' /\ VMProtected'
      BY <1>0, <2>1, <2>2, <3>1, <3>2, WriteStep, EarlierReflexive DEF CopiesEarlier, TypeOK
    <3>4. ReconcileOK'
      BY <1>0, <2>1, <2>2, <3>1, <3>2
      DEF ReconcileOK, TypeOK, Rewrite, Earlier, Provision, Deletion, PC, Updates
    <3>5. DepartureOK' /\ KnowledgeOK'
      BY <1>0, <2>1, <2>2, <2>3, <3>1, <3>2
      DEF ReconcileOK, DepartureOK, KnowledgeOK, TypeOK, Rewrite
    <3> QED BY <1>0, <3>3, <3>4, <3>5
  <2>4. CASE ~(seen[p] = "TERMINATED" /\ n.joinedCluster)
    <3>1. Return(p, seen[p] # "TERMINATED")
      BY <1>7, <2>4 DEF UpdateStatus, n
    <3> QED BY <1>4, <2>1, <2>2, <3>1
  <2> QED BY <2>3, <2>4
<1>8. ASSUME NEW p \in Instances, RemoveFinalizer(p)
      PROVE  IInv'
  <2> DEFINE n == Unprotected(obj[p])
  <2>1. /\ n \in Object
        /\ n.phase = "gone"
        /\ n.deletionTimestamp = obj[p].deletionTimestamp
        /\ n.finalizer = obj[p].finalizer
        /\ n.instanceName = obj[p].instanceName
        /\ n.joinedCluster = obj[p].joinedCluster
        /\ n.preemptionNotice = obj[p].preemptionNotice
    <3>1. obj[p] \in Object
      BY <1>0 DEF TypeOK
    <3> QED BY <3>1 DEF Object, Unprotected
  <2> HIDE DEF n
  <2>2. /\ pc[p] = "removeFinalizer"
        /\ api' = [api EXCEPT ![p] = n] /\ obj[p] = api[p]
        /\ Return(p, FALSE)
        /\ UNCHANGED <<cache, vm>>
    BY <1>8 DEF RemoveFinalizer, Commit, Fresh, n
  <2>3. CopiesEarlier'
    <3>1. obj' = [obj EXCEPT ![p] = NoObject]
      BY <2>2 DEF Return
    <3>2. Earlier(cache[p], n)
      BY <1>0, <2>1, <2>2 DEF CopiesEarlier, Earlier, TypeOK, Object
    <3> QED BY <1>0, <2>2, <3>1, <3>2, NoObjectEarlier DEF CopiesEarlier, TypeOK
  <2>4. \A q \in Instances : q # p => api'[q] = api[q]
    BY <1>0, <2>2 DEF TypeOK
  <2>5. ReconcileOK' /\ KnowledgeOK'
    BY <2>2, <2>4, ReturnStep
  <2>6. DepartureOK'
    BY <1>0, <2>1, <2>2
    DEF DepartureOK, ReconcileOK, Return, TypeOK, NoObject, Deletion
  <2>7. VMProtected'
    BY <1>0, <2>1, <2>2 DEF VMProtected, KnowledgeOK, Gone, TypeOK
  <2> QED BY <1>0, <2>3, <2>5, <2>6, <2>7
<1>9. ASSUME NEW p \in Instances, NEW again \in BOOLEAN, Return(p, again),
             UNCHANGED <<api, cache, vm>>
      PROVE  IInv'
  <2>1. CopiesEarlier' /\ DepartureOK' /\ VMProtected'
    BY <1>0, <1>9, NoObjectEarlier
    DEF Return, CopiesEarlier, DepartureOK, VMProtected, Gone, TypeOK, NoObject
  <2>2. ReconcileOK' /\ KnowledgeOK'
    BY <1>9, ReturnStep
  <2> QED BY <1>0, <2>1, <2>2
<1>10. ASSUME UNCHANGED <<api, cache, vm, obj>>, ReconcileOK', KnowledgeOK'
       PROVE  IInv'
  BY <1>0, <1>10 DEF CopiesEarlier, DepartureOK, VMProtected, Gone
<1>11. ASSUME NEW p \in Instances, Dispatch(p)
       PROVE  IInv'
  <2>1. CASE template
    <3>1. ReconcileOK' /\ KnowledgeOK'
      BY <1>0, <1>11, <2>1
      DEF Dispatch, Goto, ReconcileOK, KnowledgeOK, TypeOK, Provision, Deletion, PC, GCPCalls
    <3> QED BY <1>10, <1>11, <2>1, <3>1 DEF Dispatch
  <2>2. CASE ~template
    BY <1>9, <1>11, <2>2 DEF Dispatch
  <2> QED BY <2>1, <2>2
<1>12. ASSUME NEW p \in Instances, ListInstances(p)
       PROVE  IInv'
  <2>1. ReconcileOK'
    BY <1>0, <1>12
    DEF ListInstances, Goto, ReconcileOK, TypeOK, Provision, Deletion, PC, GCPCalls, Updates
  <2>2. KnowledgeOK'
    BY <1>0, <1>12
    DEF ListInstances, Goto, KnowledgeOK, TypeOK, VM, VMStatus, GCPStatus, Stopped
  <2> QED BY <1>10, <1>12, <2>1, <2>2 DEF ListInstances
<1>13. ASSUME NEW p \in Instances, Check(p)
       PROVE  IInv'
  <2>1. ReconcileOK'
    BY <1>0, <1>13
    DEF Check, Goto, ReconcileOK, TypeOK, Provision, Deletion, PC, NodeDeletes, Updates, GCPCalls
  <2>2. KnowledgeOK'
    BY <1>0, <1>13
    DEF Check, TakenForMissing, Goto, KnowledgeOK, TypeOK, VM, VMStatus, GCPStatus, Stopped
  <2> QED BY <1>10, <1>13, <2>1, <2>2 DEF Check
<1>14. ASSUME NEW p \in Instances, Insert(p)
       PROVE  IInv'
  <2>1. /\ obj[p].finalizer
        /\ api[p].phase # "gone"
    BY <1>14 DEF Insert, ReconcileOK, Provision, Deletion, PC, GCPCalls
  <2>2. VMProtected'
    BY <1>0, <1>14, <2>1 DEF Insert, VMProtected, CopiesEarlier, Earlier, Gone, TypeOK
  <2>3. ReconcileOK' /\ KnowledgeOK'
    BY <1>0, <1>14, <2>1
    DEF Insert, Goto, ReconcileOK, KnowledgeOK, TypeOK, Provision, Deletion, PC, GCPCalls
  <2> QED BY <1>0, <1>14, <2>2, <2>3 DEF Insert, CopiesEarlier, DepartureOK
<1>15. ASSUME NEW p \in Instances, InsertDone(p)
       PROVE  IInv'
  <2>1. CASE vm[p] = "none"
    BY <1>9, <1>15, <2>1 DEF InsertDone
  <2>2. CASE vm[p] # "none"
    <3>1. ReconcileOK' /\ KnowledgeOK'
      BY <1>0, <1>15, <2>2
      DEF InsertDone, Goto, ReconcileOK, KnowledgeOK, TypeOK, Provision, Deletion, PC, GCPCalls, Updates
    <3> QED BY <1>10, <1>15, <2>2, <3>1 DEF InsertDone
  <2> QED BY <2>1, <2>2
<1>16. ASSUME NEW p \in Instances, InsertFails(p)
       PROVE  IInv'
  <2>1. CopiesEarlier' /\ DepartureOK' /\ VMProtected'
    BY <1>0, <1>16, NoObjectEarlier
    DEF InsertFails, Return, CopiesEarlier, DepartureOK, VMProtected, Gone, TypeOK, NoObject
  <2>2. ReconcileOK' /\ KnowledgeOK'
    BY <1>0, <1>16
    DEF InsertFails, Return, ReconcileOK, KnowledgeOK, TypeOK, Provision, Deletion
  <2> QED BY <1>0, <2>1, <2>2
<1>17. ASSUME NEW p \in Instances, DeleteNode(p)
       PROVE  IInv'
  <2>4. pc[p] # "termNode" =>
          \A q \in Instances : "VM" \in swallowed[q] => "VM" \in swallowed'[q]
    BY <1>0, <1>17 DEF DeleteNode, TypeOK
  <2>1. CASE pc[p] = "termNode"
    BY <1>9, <1>17, <2>1 DEF DeleteNode
  <2>2. CASE pc[p] = "lostNode"
    <3>1. pc' = [pc EXCEPT ![p] = "lostStatus"] /\ UNCHANGED <<api, cache, vm, obj, seen>>
      BY <1>17, <2>2 DEF DeleteNode, Goto
    <3>2. ReconcileOK' /\ KnowledgeOK'
      BY <1>0, <2>2, <2>4, <3>1
      DEF ReconcileOK, KnowledgeOK, TypeOK, Provision, Deletion, PC, Updates, NodeDeletes
    <3> QED BY <1>10, <3>1, <3>2
  <2>3. CASE pc[p] = "deleteNode"
    <3>1. pc' = [pc EXCEPT ![p] = "removeFinalizer"] /\ UNCHANGED <<api, cache, vm, obj, seen>>
      BY <1>17, <2>3 DEF DeleteNode, Goto
    <3>2. ReconcileOK' /\ KnowledgeOK'
      BY <1>0, <2>3, <2>4, <3>1
      DEF ReconcileOK, KnowledgeOK, TypeOK, Provision, Deletion
    <3> QED BY <1>10, <3>1, <3>2
  <2> QED BY <1>17, <2>1, <2>2, <2>3 DEF DeleteNode
<1>18. ASSUME NEW p \in Instances, DeleteVM(p)
       PROVE  IInv'
  <2>1. CASE ~template
    BY <1>9, <1>18, <2>1 DEF DeleteVM
  <2>2. CASE template /\ TakenForMissing(p) /\ Goto(p, AfterVM(obj[p])) /\ UNCHANGED <<vm, obj, seen>>
    <3>1. ReconcileOK' /\ KnowledgeOK'
      BY <1>0, <1>18, <2>2
      DEF DeleteVM, TakenForMissing, AfterVM, Goto, ReconcileOK, KnowledgeOK, TypeOK,
          Provision, Deletion
    <3> QED BY <1>10, <1>18, <2>2, <3>1 DEF DeleteVM
  <2>3. CASE /\ vm[p] # "none"
             /\ vm' = [vm EXCEPT ![p] = "DELETING"]
             /\ Goto(p, "deleteWait")
             /\ UNCHANGED <<obj, seen, swallowed>>
    <3>1. CopiesEarlier' /\ DepartureOK' /\ VMProtected'
      BY <1>0, <1>18, <2>3
      DEF DeleteVM, CopiesEarlier, DepartureOK, VMProtected, Gone, TypeOK
    <3>2. ReconcileOK' /\ KnowledgeOK'
      BY <1>0, <1>18, <2>3
      DEF DeleteVM, Goto, ReconcileOK, KnowledgeOK, TypeOK, Provision, Deletion
    <3> QED BY <1>0, <3>1, <3>2
  <2> QED BY <1>18, <2>1, <2>2, <2>3 DEF DeleteVM
<1>19. ASSUME NEW p \in Instances, DeleteDone(p)
       PROVE  IInv'
  <2>1. ReconcileOK' /\ KnowledgeOK'
    BY <1>0, <1>19
    DEF DeleteDone, TakenForMissing, AfterVM, Goto, ReconcileOK, KnowledgeOK, TypeOK,
        Provision, Deletion
  <2> QED BY <1>10, <1>19, <2>1 DEF DeleteDone
<1>20. ASSUME NEW p \in Instances, Fail(p)
       PROVE  IInv'
  BY <1>9, <1>20 DEF Fail
<1>21. ASSUME NEW p \in Instances, Sync(p)
       PROVE  IInv'
  <2>1. CopiesEarlier'
    BY <1>0, <1>21, EarlierReflexive DEF Sync, CopiesEarlier, TypeOK
  <2>2. ReconcileOK' /\ KnowledgeOK'
    BY <1>0, <1>21 DEF Sync, ReconcileOK, KnowledgeOK, CopiesEarlier, Earlier, TypeOK
  <2>3. DepartureOK' /\ VMProtected'
    BY <1>0, <1>21 DEF Sync, DepartureOK, VMProtected, Gone, TypeOK
  <2> QED BY <1>0, <2>1, <2>2, <2>3
<1>22. ASSUME NEW p \in Instances, CreateObject(p)
       PROVE  IInv'
  <2> DEFINE n == Created(api[p])
  <2>1. /\ n.phase = "present"
        /\ n.deletionTimestamp = api[p].deletionTimestamp
        /\ n.finalizer = api[p].finalizer
        /\ n.instanceName = api[p].instanceName
        /\ n.joinedCluster = api[p].joinedCluster
        /\ n.preemptionNotice = api[p].preemptionNotice
    <3>1. api[p] \in Object
      BY <1>0 DEF TypeOK
    <3> QED BY <3>1 DEF Object, Created
  <2> HIDE DEF n
  <2>2. /\ api[p].phase = "absent"
        /\ api' = [api EXCEPT ![p] = n]
        /\ UNCHANGED <<cache, vm, pc, obj, seen, swallowed>>
    BY <1>22 DEF CreateObject, n
  <2>3. Earlier(cache[p], n) /\ Earlier(obj[p], n)
    BY <1>0, <2>1, <2>2 DEF CopiesEarlier, Earlier
  <2>4. CopiesEarlier'
    BY <1>0, <2>2, <2>3 DEF CopiesEarlier, TypeOK
  <2>5. ReconcileOK' /\ KnowledgeOK'
    BY <1>0, <2>1, <2>2 DEF ReconcileOK, KnowledgeOK, TypeOK
  <2>6. DepartureOK' /\ VMProtected'
    BY <1>0, <2>1, <2>2 DEF DepartureOK, VMProtected, Gone, TypeOK
  <2> QED BY <1>0, <2>4, <2>5, <2>6
<1>23. ASSUME NEW p \in Instances, DeleteObject(p)
       PROVE  IInv'
  <2> DEFINE n == Deleted(api[p])
  <2>1. /\ n.phase = IF api[p].finalizer THEN "present" ELSE "gone"
        /\ n.deletionTimestamp
        /\ n.finalizer = api[p].finalizer
        /\ n.instanceName = api[p].instanceName
        /\ n.joinedCluster = api[p].joinedCluster
        /\ n.preemptionNotice = api[p].preemptionNotice
    <3>1. api[p] \in Object
      BY <1>0 DEF TypeOK
    <3> QED BY <3>1 DEF Object, Deleted
  <2> HIDE DEF n
  <2>2. /\ api[p].phase = "present"
        /\ api' = [api EXCEPT ![p] = n]
        /\ UNCHANGED <<cache, vm, pc, obj, seen, swallowed>>
    BY <1>23 DEF DeleteObject, n
  <2>3. Earlier(cache[p], n) /\ Earlier(obj[p], n)
    BY <1>0, <2>1, <2>2 DEF CopiesEarlier, Earlier
  <2>4. CopiesEarlier'
    BY <1>0, <2>2, <2>3 DEF CopiesEarlier, TypeOK
  <2>5. ReconcileOK' /\ KnowledgeOK'
    BY <1>0, <2>1, <2>2 DEF ReconcileOK, KnowledgeOK, CopiesEarlier, Earlier, TypeOK
  <2>6. DepartureOK' /\ VMProtected'
    BY <1>0, <2>1, <2>2 DEF DepartureOK, VMProtected, Gone, TypeOK
  <2> QED BY <1>0, <2>4, <2>5, <2>6
<1>24. ASSUME NEW p \in Instances, VMProgress(p) \/ Preempt(p) \/ DeleteInConsole(p)
       PROVE  IInv'
  <2>1. PICK from \in VM \ {"none"}, to \in VM : VMStep(p, from, to)
    BY <1>24 DEF VMProgress, Preempt, DeleteInConsole, VM, GCPStatus
  <2>2. CopiesEarlier' /\ ReconcileOK' /\ DepartureOK' /\ VMProtected'
    BY <1>0, <2>1 DEF VMStep, CopiesEarlier, ReconcileOK, DepartureOK, VMProtected, Gone, TypeOK
  <2>3. KnowledgeOK'
    BY <1>0, <1>24
    DEF VMProgress, Preempt, DeleteInConsole, VMStep, KnowledgeOK, Stopped, GCPStatus, TypeOK
  <2> QED BY <1>0, <2>2, <2>3
<1>25. CASE (\E p \in Instances : NodeJoins(p)) \/ DeleteTemplate \/ UNCHANGED vars
  <2>1. UNCHANGED <<api, cache, vm, obj, pc, seen, swallowed>>
    BY <1>25 DEF NodeJoins, DeleteTemplate, vars
  <2>2. ReconcileOK' /\ KnowledgeOK'
    BY <2>1 DEF ReconcileOK, KnowledgeOK
  <2> QED BY <1>10, <2>1, <2>2
<1>26. CASE Crash
  <2>1. CopiesEarlier'
    BY <1>0, <1>26, NoObjectEarlier, EarlierReflexive DEF Crash, CopiesEarlier, TypeOK
  <2>2. ReconcileOK' /\ KnowledgeOK'
    BY <1>26 DEF Crash, ReconcileOK, KnowledgeOK, Provision, Deletion
  <2>3. DepartureOK' /\ VMProtected'
    BY <1>0, <1>26 DEF Crash, DepartureOK, VMProtected, Gone, NoObject
  <2> QED BY <1>0, <2>1, <2>2, <2>3
<1> QED
  BY <1>1, <1>2, <1>3, <1>5, <1>6, <1>7, <1>8, <1>11, <1>12, <1>13, <1>14, <1>15, <1>16,
     <1>17, <1>18, <1>19, <1>20, <1>21, <1>22, <1>23, <1>24, <1>25, <1>26
  DEF Next, Reconcile, Environment

\* The inductive invariant holds in every state of the controller and its
\* environment: what Reconcile knows from its cached copy and from GCP stays
\* true until it has used it.
THEOREM Invariance == Spec => []IInv
BY InvInit, InvStep, PTL DEF Spec

-----------------------------------------------------------------------------
(***************************************************************************)
(* What follows.                                                           *)
(***************************************************************************)
\* Every variable keeps its type, whatever the controller and its environment
\* do (the whole Reconcile of provisionedinstance_controller.go).
THEOREM TypeCorrect == Spec => []TypeOK
BY Invariance, PTL DEF IInv

\* No VM runs for an object that is there without the finalizer (lines 77-83).
THEOREM FinalizerGuardsVMAlways == Spec => []FinalizerGuardsVM
<1>1. IInv => FinalizerGuardsVM
  BY DEF IInv, VMProtected, FinalizerGuardsVM
<1> QED BY <1>1, Invariance, PTL

\* The object before any step is an earlier version of the one after it.
LEMMA ObjectsAdvance ==
  ASSUME IInv, [Next]_vars
  PROVE  \A q \in Instances : Earlier(api[q], api'[q])
<1>1. TypeOK
  BY DEF IInv
<1>2. ASSUME NEW p \in Instances, NEW n, Earlier(api[p], n), api' = [api EXCEPT ![p] = n]
      PROVE  \A q \in Instances : Earlier(api[q], api'[q])
  BY <1>1, <1>2, EarlierReflexive DEF TypeOK
<1>3. ASSUME NEW p \in Instances, NEW n, Rewrite(obj[p], n), Commit(p, n)
      PROVE  \A q \in Instances : Earlier(api[q], api'[q])
  BY <1>2, <1>3 DEF Commit, Fresh, Rewrite
<1>4. ASSUME UNCHANGED api
      PROVE  \A q \in Instances : Earlier(api[q], api'[q])
  BY <1>1, <1>4, EarlierReflexive DEF TypeOK
<1>5. ASSUME NEW p \in Instances,
             AddFinalizer(p) \/ InitStatus(p) \/ Record(p) \/ LostStatus(p)
      PROVE  \A q \in Instances : Earlier(api[q], api'[q])
  <2>1. obj[p] \in Object
    BY <1>1 DEF TypeOK
  <2>2. \/ Commit(p, Finalized(obj[p]))
        \/ Commit(p, Initialized(obj[p]))
        \/ Commit(p, Recorded(obj[p]))
        \/ Commit(p, Lost(obj[p]))
    BY <1>5 DEF AddFinalizer, InitStatus, Record, LostStatus
  <2> QED BY <1>3, <2>1, <2>2, Rewrites
<1>6. ASSUME NEW p \in Instances, UpdateStatus(p)
      PROVE  \A q \in Instances : Earlier(api[q], api'[q])
  <2>1. obj[p] \in Object /\ seen[p] \in GCPStatus /\ node[p] \in BOOLEAN
    BY <1>1, <1>6 DEF UpdateStatus, TypeOK, IInv, KnowledgeOK
  <2>2. Commit(p, NewStatus(obj[p], seen[p], node[p]))
    BY <1>6 DEF UpdateStatus
  <2> QED BY <1>3, <2>1, <2>2, StatusRewrites
<1>7. ASSUME NEW p \in Instances, RemoveFinalizer(p)
      PROVE  \A q \in Instances : Earlier(api[q], api'[q])
  <2>1. obj[p] = api[p] /\ obj[p] \in Object /\ api' = [api EXCEPT ![p] = Unprotected(obj[p])]
    BY <1>1, <1>7 DEF RemoveFinalizer, Commit, Fresh, TypeOK
  <2>2. ASSUME NEW o \in Object
        PROVE  Earlier(o, Unprotected(o))
    BY DEF Earlier, Object, Unprotected
  <2> QED BY <1>2, <2>1, <2>2
<1>8. ASSUME NEW p \in Instances, CreateObject(p) \/ DeleteObject(p)
      PROVE  \A q \in Instances : Earlier(api[q], api'[q])
  <2>1. ASSUME NEW o \in Object
        PROVE  /\ o.phase = "absent" => Earlier(o, Created(o))
               /\ o.phase = "present" => Earlier(o, Deleted(o))
    BY DEF Earlier, Object, Created, Deleted
  <2>2. api[p] \in Object
    BY <1>1 DEF TypeOK
  <2> QED BY <1>2, <1>8, <2>1, <2>2 DEF CreateObject, DeleteObject
<1>9. CASE UNCHANGED vars
  BY <1>4, <1>9 DEF vars
<1> QED
  BY <1>4, <1>5, <1>6, <1>7, <1>8, <1>9
  DEF Next, Reconcile, Environment, Begin, Dispatch, ListInstances, Insert, InsertDone,
      InsertFails, Check, DeleteNode, DeleteVM, DeleteDone, Fail, Sync, VMProgress,
      Preempt, DeleteInConsole, VMStep, NodeJoins, Crash, DeleteTemplate

\* No write takes back a mark that others act on, although every reconcile
\* writes the whole status that it once read from a cache.
THEOREM StatusNeverRegressesEver == Spec => StatusNeverRegresses
<1>1. IInv /\ [Next]_vars => \A q \in Instances : Earlier(api[q], api'[q])
  BY ObjectsAdvance
<1>2. IInv /\ [Next]_vars =>
        [\A p \in Instances :
           /\ Deleting(p) => api'[p].deletionTimestamp
           /\ api[p].instanceName => api'[p].instanceName
           /\ api[p].joinedCluster => api'[p].joinedCluster
           /\ api[p].preemptionNotice => api'[p].preemptionNotice]_vars
  BY <1>1 DEF Earlier, Deleting
<1> QED BY <1>2, Invariance, PTL DEF Spec, StatusNeverRegresses

\* The three callers of deleteNode call it when the VM has ended, or was taken
\* for missing.
THEOREM NodeDeletedOnlyAfterVMEver == Spec => NodeDeletedOnlyAfterVM
<1>1. ASSUME IInv, [Next]_vars, NEW q \in Instances, node[q], ~node'[q]
      PROVE  vm[q] \in {"TERMINATED", "DELETING", "none"} \/ "VM" \in swallowed[q]
  <2>1. TypeOK
    BY <1>1 DEF IInv
  <2>2. PICK p \in Instances : DeleteNode(p)
    BY <1>1, <2>1
    DEF Next, Reconcile, Environment, Begin, AddFinalizer, InitStatus, Dispatch, ListInstances,
        Insert, InsertDone, InsertFails, Record, Check, LostStatus, UpdateStatus, DeleteVM,
        DeleteDone, RemoveFinalizer, Fail, Sync, CreateObject, DeleteObject, VMProgress,
        Preempt, DeleteInConsole, VMStep, NodeJoins, Crash, DeleteTemplate, vars, TypeOK
  <2>3. p = q
    BY <1>1, <2>1, <2>2 DEF DeleteNode, TypeOK
  <2>4. pc[q] \in NodeDeletes
    BY <2>2, <2>3 DEF DeleteNode
  <2> QED BY <1>1, <2>4 DEF NodeDeletes, IInv, KnowledgeOK, ReconcileOK, DepartureOK
<1>2. IInv /\ [Next]_vars =>
        [\A p \in Instances :
           node[p] /\ ~node'[p]
             => vm[p] \in {"TERMINATED", "DELETING", "none"} \/ "VM" \in swallowed[p]]_vars
  BY <1>1
<1> QED BY <1>2, Invariance, PTL DEF Spec, NodeDeletedOnlyAfterVM

\* checkAndUpdateInstanceStatus and updateInstanceStatus give notice of a VM
\* that has stopped, is gone or was taken for missing, whatever happened since
\* they read its status.
THEOREM NoticeOnlyForStoppedVMEver == Spec => NoticeOnlyForStoppedVM
<1>1. ASSUME IInv, [Next]_vars, NEW q \in Instances,
             ~api[q].preemptionNotice, api'[q].preemptionNotice
      PROVE  vm[q] \in Stopped \cup {"DELETING", "none"} \/ "VM" \in swallowed[q]
  <2>1. TypeOK
    BY <1>1 DEF IInv
  <2>2. ASSUME NEW o \in Object, ~o.preemptionNotice
        PROVE  /\ ~Created(o).preemptionNotice
               /\ ~Deleted(o).preemptionNotice
               /\ ~Finalized(o).preemptionNotice
               /\ ~Initialized(o).preemptionNotice
               /\ ~Recorded(o).preemptionNotice
               /\ ~Unprotected(o).preemptionNotice
               /\ \A s \in GCPStatus, n \in BOOLEAN :
                    NewStatus(o, s, n).preemptionNotice => s \in Stopped
    BY <2>2 DEF Object, Created, Deleted, Finalized, Initialized, Recorded, Unprotected,
                NewStatus
  <2>3. api[q] \in Object
    BY <2>1 DEF TypeOK
  <2>4. ASSUME NEW p \in Instances, CreateObject(p) \/ DeleteObject(p)
        PROVE  FALSE
    BY <1>1, <2>1, <2>2, <2>3, <2>4 DEF CreateObject, DeleteObject, TypeOK
  <2>5. ASSUME NEW p \in Instances, NEW n, Commit(p, n)
        PROVE  p = q /\ obj[q] = api[q] /\ api'[q] = n
    BY <1>1, <2>1, <2>5 DEF Commit, Fresh, TypeOK
  <2>6. ASSUME NEW p \in Instances,
               AddFinalizer(p) \/ InitStatus(p) \/ Record(p) \/ RemoveFinalizer(p)
        PROVE  FALSE
    <3>1. \/ Commit(p, Finalized(obj[p]))
          \/ Commit(p, Initialized(obj[p]))
          \/ Commit(p, Recorded(obj[p]))
          \/ Commit(p, Unprotected(obj[p]))
      BY <2>6 DEF AddFinalizer, InitStatus, Record, RemoveFinalizer
    <3> QED BY <1>1, <2>2, <2>3, <2>5, <3>1
  <2>7. ASSUME NEW p \in Instances, LostStatus(p)
        PROVE  vm[q] = "none" \/ "VM" \in swallowed[q]
    BY <1>1, <2>5, <2>7 DEF LostStatus, IInv, KnowledgeOK
  <2>8. ASSUME NEW p \in Instances, UpdateStatus(p)
        PROVE  vm[q] \in Stopped \cup {"DELETING", "none"} \/ "VM" \in swallowed[q]
    <3>1. pc[p] = "status" /\ Commit(p, NewStatus(obj[p], seen[p], node[p]))
      BY <2>8 DEF UpdateStatus
    <3>2. p = q /\ seen[q] \in GCPStatus /\ node[q] \in BOOLEAN
      BY <1>1, <2>1, <2>5, <3>1 DEF IInv, KnowledgeOK, TypeOK
    <3>3. NewStatus(api[q], seen[q], node[q]).preemptionNotice
      BY <1>1, <2>5, <3>1, <3>2
    <3>4. seen[q] \in Stopped
      BY <1>1, <2>2, <2>3, <3>2, <3>3
    <3> QED BY <1>1, <3>1, <3>2, <3>4 DEF IInv, KnowledgeOK
  <2>9. CASE UNCHANGED api
    BY <1>1, <2>9
  <2> QED
    BY <1>1, <2>4, <2>6, <2>7, <2>8, <2>9
    DEF Next, Reconcile, Environment, Begin, Dispatch, ListInstances, Insert, InsertDone,
        InsertFails, Check, DeleteNode, DeleteVM, DeleteDone, Fail, Sync, VMProgress,
        Preempt, DeleteInConsole, VMStep, NodeJoins, Crash, DeleteTemplate, vars
<1>2. IInv /\ [Next]_vars =>
        [\A p \in Instances :
           ~api[p].preemptionNotice /\ api'[p].preemptionNotice
             => vm[p] \in Stopped \cup {"DELETING", "none"} \/ "VM" \in swallowed[p]]_vars
  BY <1>1
<1> QED BY <1>2, Invariance, PTL DEF Spec, NoticeOnlyForStoppedVM

-----------------------------------------------------------------------------
(***************************************************************************)
(* Nodes.                                                                  *)
(***************************************************************************)
\* Who knows a Node is guarded, and handleDeletion has deleted it before it lets
\* the object go, or has failed to.
NodesOK ==
  \A p \in Instances :
    /\ api[p].joinedCluster => api[p].finalizer
    /\ pc[p] = "removeFinalizer" /\ obj[p].joinedCluster /\ node[p] => swallowed[p] # {}

\* Only a running VM joins, and it stays.
LEMMA WhoJoins ==
  ASSUME TypeOK, [Next]_vars, NEW q \in Instances, node'[q]
  PROVE  node[q] \/ (vm[q] = "RUNNING" /\ UNCHANGED vm)
<1>1. \/ UNCHANGED node
      \/ \E p \in Instances : DeleteNode(p) \/ NodeJoins(p)
  BY DEF Next, Reconcile, Environment, Begin, AddFinalizer, InitStatus, Dispatch, ListInstances,
     Insert, InsertDone, InsertFails, Record, Check, LostStatus, UpdateStatus, DeleteVM,
     DeleteDone, RemoveFinalizer, Fail, Sync, CreateObject, DeleteObject, VMProgress, Preempt,
     DeleteInConsole, VMStep, Crash, DeleteTemplate, vars
<1> QED BY <1>1 DEF DeleteNode, NodeJoins, TypeOK

\* An object that is gone has been gone, was released by handleDeletion, or had
\* no finalizer; and a Node becomes known to an object that has one.
LEMMA WhoIsGone ==
  ASSUME IInv, [Next]_vars, NEW q \in Instances
  PROVE  /\ api'[q].joinedCluster => api[q].joinedCluster \/ api'[q].finalizer
         /\ Gone(q)' => /\ api'[q].joinedCluster => api[q].joinedCluster
                        /\ Gone(q) \/ ~api[q].finalizer \/ RemoveFinalizer(q)
<1> DEFINE Goal == /\ api'[q].joinedCluster => api[q].joinedCluster \/ api'[q].finalizer
                   /\ Gone(q)' => /\ api'[q].joinedCluster => api[q].joinedCluster
                                  /\ Gone(q) \/ ~api[q].finalizer \/ RemoveFinalizer(q)
<1>1. TypeOK /\ api[q] \in Object
  BY DEF IInv, TypeOK
<1>2. CASE api'[q] = api[q]
  BY <1>2 DEF Gone
<1>3. ASSUME NEW p \in Instances, CreateObject(p) \/ DeleteObject(p)
      PROVE  Goal
  <2>1. api'[q] = api[q] \/ api'[q] = Created(api[q]) \/ api'[q] = Deleted(api[q])
    BY <1>1, <1>3 DEF CreateObject, DeleteObject, TypeOK
  <2> QED BY <1>1, <1>2, <2>1 DEF Created, Deleted, Object, Gone
<1>4. ASSUME NEW p \in Instances, NEW n, Commit(p, n)
      PROVE  api'[q] = api[q] \/ (p = q /\ obj[q] = api[q] /\ api'[q] = n)
  BY <1>1, <1>4 DEF Commit, Fresh, TypeOK
<1>5. ASSUME NEW p \in Instances,
             AddFinalizer(p) \/ InitStatus(p) \/ Record(p) \/ LostStatus(p) \/ RemoveFinalizer(p)
      PROVE  Goal
  <2>1. \/ Commit(p, Finalized(obj[p])) \/ Commit(p, Initialized(obj[p]))
        \/ Commit(p, Recorded(obj[p])) \/ Commit(p, Lost(obj[p]))
        \/ Commit(p, Unprotected(obj[p])) /\ RemoveFinalizer(p)
    BY <1>5 DEF AddFinalizer, InitStatus, Record, LostStatus, RemoveFinalizer
  <2>2. CASE api'[q] = api[q]
    BY <1>2, <2>2
  <2>3. CASE api'[q] \in {Finalized(api[q]), Initialized(api[q]), Recorded(api[q]), Lost(api[q])}
    <3>1. api'[q].phase = api[q].phase /\ api'[q].joinedCluster = api[q].joinedCluster
      BY <1>1, <2>3 DEF Finalized, Initialized, Recorded, Lost, Object
    <3> QED BY <3>1 DEF Gone
  <2>4. CASE RemoveFinalizer(q) /\ api'[q] = Unprotected(api[q])
    BY <1>1, <2>4 DEF Unprotected, Object
  <2>5. CASE Commit(p, Unprotected(obj[p])) /\ RemoveFinalizer(p)
    BY <1>4, <2>2, <2>4, <2>5
  <2>6. CASE ~(Commit(p, Unprotected(obj[p])) /\ RemoveFinalizer(p))
    <3>1. PICK n : /\ n \in {Finalized(obj[p]), Initialized(obj[p]), Recorded(obj[p]), Lost(obj[p])}
                   /\ Commit(p, n)
      BY <2>1, <2>6
    <3> QED BY <1>4, <2>2, <2>3, <3>1
  <2> QED BY <2>5, <2>6
<1>6. ASSUME NEW p \in Instances, UpdateStatus(p)
      PROVE  Goal
  <2>1. pc[p] = "status" /\ Commit(p, NewStatus(obj[p], seen[p], node[p]))
    BY <1>6 DEF UpdateStatus
  <2>2. CASE api'[q] = api[q]
    BY <1>2, <2>2
  <2>3. CASE p = q /\ obj[q] = api[q] /\ api'[q] = NewStatus(api[q], seen[q], node[q])
    <3>1. api[q].finalizer /\ api[q].phase = "present"
      BY <2>1, <2>3 DEF IInv, ReconcileOK, Provision, Deletion, PC, Updates
    <3>2. api'[q].finalizer = api[q].finalizer /\ api'[q].phase = api[q].phase
      BY <1>1, <2>3 DEF NewStatus, Object
    <3> QED BY <3>1, <3>2 DEF Gone
  <2> QED BY <1>4, <2>1, <2>2, <2>3
<1>7. CASE UNCHANGED api
  BY <1>2, <1>7
<1> HIDE DEF Goal
<1>8. Goal
  BY <1>3, <1>5, <1>6, <1>7
  DEF Goal, Next, Reconcile, Environment, Begin, Dispatch, ListInstances, Insert, InsertDone,
      InsertFails, Check, DeleteNode, DeleteVM, DeleteDone, Fail, Sync, VMProgress,
      Preempt, DeleteInConsole, VMStep, NodeJoins, Crash, DeleteTemplate, vars
<1> QED BY <1>8 DEF Goal

\* Nothing writes to an object that is gone.
LEMMA StaysGone ==
  ASSUME IInv, [Next]_vars, NEW q \in Instances, Gone(q)
  PROVE  api'[q] = api[q]
<1>1. TypeOK
  BY DEF IInv
<1>2. ASSUME NEW p \in Instances, NEW n, Commit(p, n), pc[p] # "idle"
      PROVE  api'[q] = api[q]
  <2>1. api[p].phase = "present"
    BY <1>2 DEF Commit, Fresh, IInv, ReconcileOK
  <2> QED BY <1>1, <1>2, <2>1 DEF Commit, Gone, TypeOK
<1>3. ASSUME NEW p \in Instances, CreateObject(p) \/ DeleteObject(p)
      PROVE  api'[q] = api[q]
  BY <1>1, <1>3 DEF CreateObject, DeleteObject, Gone, TypeOK
<1>4. ASSUME NEW p \in Instances,
             \/ AddFinalizer(p) \/ InitStatus(p) \/ Record(p) \/ LostStatus(p)
             \/ RemoveFinalizer(p) \/ UpdateStatus(p)
      PROVE  api'[q] = api[q]
  <2>1. pc[p] # "idle" /\ \E n : Commit(p, n)
    BY <1>4 DEF AddFinalizer, InitStatus, Record, LostStatus, RemoveFinalizer, UpdateStatus
  <2> QED BY <1>2, <2>1
<1>5. CASE UNCHANGED api
  BY <1>5
<1> QED
  BY <1>3, <1>4, <1>5
  DEF Next, Reconcile, Environment, Begin, Dispatch, ListInstances, Insert, InsertDone,
      InsertFails, Check, DeleteNode, DeleteVM, DeleteDone, Fail, Sync, VMProgress,
      Preempt, DeleteInConsole, VMStep, NodeJoins, Crash, DeleteTemplate, vars

\* handleDeletion comes to the finalizer by way of the Node, where it knows one.
LEMMA WhoRemovesFinalizer ==
  ASSUME TypeOK, [Next]_vars, NEW q \in Instances,
         pc'[q] = "removeFinalizer", obj'[q].joinedCluster
  PROVE  \/ UNCHANGED <<pc[q], obj[q], swallowed[q]>>
         \/ ~node'[q] \/ swallowed'[q] # {}
<1>1. CASE UNCHANGED <<pc[q], obj[q], swallowed[q]>>
  BY <1>1
<1>2. ASSUME NEW p \in Instances, Begin(p)
      PROVE  UNCHANGED <<pc[q], obj[q], swallowed[q]>>
  <2>1. CASE cache[p].phase = "present"
    <3>1. obj' = [obj EXCEPT ![p] = cache[p]] /\ pc' = [pc EXCEPT ![p] = FirstCall(cache[p])]
      BY <1>2, <2>1 DEF Begin, Goto
    <3>2. CASE p = q
      <4>1. obj'[q] = cache[q] /\ FirstCall(cache[q]) = "removeFinalizer"
        BY <3>1, <3>2 DEF TypeOK
      <4>2. ~cache[q].joinedCluster
        BY <4>1 DEF FirstCall, AfterVM, AfterFinalizer
      <4> QED BY <4>1, <4>2
    <3> QED BY <1>2, <3>1, <3>2 DEF Begin, TypeOK
  <2> QED BY <1>2, <2>1 DEF Begin
<1>3. ASSUME NEW p \in Instances, DeleteNode(p)
      PROVE  \/ UNCHANGED <<pc[q], obj[q], swallowed[q]>>
             \/ ~node'[q] \/ swallowed'[q] # {}
  <2>1. CASE p # q
    BY <1>1, <1>3, <2>1 DEF DeleteNode, Goto, Return, TypeOK
  <2>2. CASE p = q
    BY <1>3, <2>2 DEF DeleteNode, Goto, Return, TypeOK
  <2> QED BY <2>1, <2>2
<1>4. ASSUME NEW p \in Instances, DeleteVM(p) \/ DeleteDone(p)
      PROVE  UNCHANGED <<pc[q], obj[q], swallowed[q]>>
  <2>1. \/ Return(p, TRUE)
        \/ Goto(p, "deleteWait") /\ UNCHANGED <<obj, swallowed>>
        \/ Goto(p, AfterVM(obj[p])) /\ UNCHANGED obj
           /\ (UNCHANGED swallowed \/ swallowed' = [swallowed EXCEPT ![p] = @ \cup {"VM"}])
    BY <1>4 DEF DeleteVM, DeleteDone, TakenForMissing
  <2>2. AfterVM(obj[q]) = "removeFinalizer" => ~obj[q].joinedCluster
    BY DEF AfterVM
  <2> QED BY <2>1, <2>2 DEF Return, Goto, TypeOK
<1>5. ASSUME NEW p \in Instances, NEW again, Return(p, again)
      PROVE  UNCHANGED <<pc[q], obj[q], swallowed[q]>>
  BY <1>5 DEF Return, TypeOK
<1>6. ASSUME NEW p \in Instances,
             NEW call \in PC \ {"removeFinalizer"}, Goto(p, call),
             obj' = obj \/ \E n : obj' = [obj EXCEPT ![p] = n],
             UNCHANGED swallowed \/ swallowed' = [swallowed EXCEPT ![p] = @ \cup {"VM"}]
      PROVE  UNCHANGED <<pc[q], obj[q], swallowed[q]>>
  BY <1>6 DEF Goto, TypeOK
<1>7. ASSUME NEW p \in Instances, AddFinalizer(p) \/ InitStatus(p)
      PROVE  UNCHANGED <<pc[q], obj[q], swallowed[q]>>
  <2>1. \E call \in PC \ {"removeFinalizer"} :
          Goto(p, call) /\ (\E n : obj' = [obj EXCEPT ![p] = n]) /\ UNCHANGED swallowed
    BY <1>7 DEF AddFinalizer, InitStatus, AfterFinalizer, PC, Updates
  <2> QED BY <1>6, <2>1
<1>8. ASSUME NEW p \in Instances,
             \/ Dispatch(p) \/ ListInstances(p) \/ Insert(p) \/ InsertDone(p) \/ InsertFails(p)
             \/ Record(p) \/ Check(p) \/ LostStatus(p) \/ RemoveFinalizer(p) \/ Fail(p)
      PROVE  UNCHANGED <<pc[q], obj[q], swallowed[q]>>
  <2>1. \/ \E again : Return(p, again)
        \/ \E call \in PC \ {"removeFinalizer"} :
             /\ Goto(p, call) /\ UNCHANGED obj
             /\ UNCHANGED swallowed \/ swallowed' = [swallowed EXCEPT ![p] = @ \cup {"VM"}]
    BY <1>8 DEF TakenForMissing, Dispatch, ListInstances, Insert, InsertDone, InsertFails, Record, Check,
       LostStatus, RemoveFinalizer, Fail, PC, Updates, GCPCalls, NodeDeletes
  <2> QED BY <1>5, <1>6, <2>1
<1>9. ASSUME NEW p \in Instances, UpdateStatus(p)
      PROVE  UNCHANGED <<pc[q], obj[q], swallowed[q]>>
  <2>1. \/ \E again : Return(p, again)
        \/ Goto(p, "termNode") /\ (\E n : obj' = [obj EXCEPT ![p] = n]) /\ UNCHANGED swallowed
    BY <1>9 DEF UpdateStatus
  <2>2. "termNode" \in PC \ {"removeFinalizer"}
    BY DEF PC, NodeDeletes
  <2> QED BY <1>5, <1>6, <2>1, <2>2
<1>10. CASE Crash
  BY <1>10 DEF Crash
<1>11. CASE UNCHANGED <<pc, obj, swallowed>>
  BY <1>1, <1>11
<1> QED
  BY <1>1, <1>2, <1>3, <1>4, <1>7, <1>8, <1>9, <1>10, <1>11
  DEF Next, Reconcile, Environment, Sync, CreateObject, DeleteObject, VMProgress, Preempt,
      DeleteInConsole, VMStep, NodeJoins, DeleteTemplate, vars

\* Every step keeps it: whoever joins has the finalizer, and no VM that was
\* released joins again when handleDeletion has come past it.
LEMMA NodesStep == IInv /\ NodesOK /\ [Next]_vars => NodesOK'
<1> SUFFICES ASSUME IInv, NodesOK, [Next]_vars, NEW q \in Instances
             PROVE  /\ api'[q].joinedCluster => api'[q].finalizer
                    /\ pc'[q] = "removeFinalizer" /\ obj'[q].joinedCluster /\ node'[q]
                         => swallowed'[q] # {}
  BY DEF NodesOK
<1>1. TypeOK /\ Earlier(api[q], api'[q])
  BY ObjectsAdvance DEF IInv
<1>2. api'[q].joinedCluster => api'[q].finalizer
  BY <1>1, WhoIsGone DEF NodesOK, Earlier
<1>3. ASSUME pc'[q] = "removeFinalizer", obj'[q].joinedCluster, node'[q]
      PROVE  swallowed'[q] # {}
  <2>1. CASE UNCHANGED <<pc[q], obj[q], swallowed[q]>>
    <3>1. vm[q] = "none" \/ "VM" \in swallowed[q]
      BY <1>3, <2>1 DEF IInv, KnowledgeOK, DepartureOK
    <3>2. CASE vm[q] = "none"
      <4>1. node[q]
        BY <1>1, <1>3, <3>2, WhoJoins
      <4> QED BY <1>3, <2>1, <4>1 DEF NodesOK
    <3> QED BY <2>1, <3>1, <3>2
  <2> QED BY <1>1, <1>3, <2>1, WhoRemovesFinalizer
<1> QED BY <1>2, <1>3

\* Only Insert brings a VM.
LEMMA WhoInserts ==
  ASSUME TypeOK, [Next]_vars, NEW q \in Instances, vm'[q] # "none", ~Insert(q)
  PROVE  vm[q] # "none"
<1>1. \/ UNCHANGED vm
      \/ \E p \in Instances : \/ Insert(p) \/ InsertFails(p) \/ DeleteVM(p)
                              \/ VMProgress(p) \/ Preempt(p) \/ DeleteInConsole(p)
  BY DEF Next, Reconcile, Environment, Begin, AddFinalizer, InitStatus, Dispatch, ListInstances,
     InsertDone, Record, Check, LostStatus, UpdateStatus, DeleteNode, DeleteDone,
     RemoveFinalizer, Fail, Sync, CreateObject, DeleteObject, NodeJoins, Crash, DeleteTemplate, vars
<1>2. ASSUME NEW p \in Instances, Insert(p)
      PROVE  vm[q] # "none"
  BY <1>2 DEF Insert, TypeOK
<1>3. ASSUME NEW p \in Instances, InsertFails(p) \/ DeleteVM(p)
      PROVE  vm[q] # "none"
  BY <1>3 DEF InsertFails, DeleteVM, TypeOK
<1>4. ASSUME NEW p \in Instances, VMProgress(p) \/ Preempt(p) \/ DeleteInConsole(p)
      PROVE  vm[q] # "none"
  <2>1. PICK from \in VM \ {"none"}, to \in VM : VMStep(p, from, to)
    BY <1>4 DEF VMProgress, Preempt, DeleteInConsole, VM, GCPStatus
  <2> QED BY <2>1 DEF VMStep, TypeOK
<1> QED BY <1>1, <1>2, <1>3, <1>4

\* What is known of an instance that goes, or has gone.
LEMMA NodesAlways == Spec => []NodesOK
<1>1. Init => NodesOK
  <2> SUFFICES ASSUME Init, NEW p \in Instances
               PROVE  ~api[p].joinedCluster /\ pc[p] = "idle"
    BY DEF NodesOK
  <2> QED BY DEF Init, NoObject
<1> QED BY <1>1, NodesStep, Invariance, PTL DEF Spec

\* handleDeletion does not let an object go before the VM that its status names
\* has been deleted (lines 374-398), with any number of crashes, failed calls
\* and stale reads, unless that very reconcile took it for missing (line 427).
THEOREM RecordedVMReleasedAlways == Spec => RecordedVMReleased
<1>1. ASSUME IInv, [Next]_vars, NEW q \in LeftVMs' \ LeftVMs
      PROVE  "VM" \in swallowed[q]
  <2>1. /\ q \in Instances /\ Gone(q)' /\ api'[q].instanceName /\ vm'[q] # "none"
        /\ ~(Gone(q) /\ api[q].instanceName /\ vm[q] # "none")
    BY <1>1 DEF LeftVMs
  <2>2. TypeOK /\ Earlier(api[q], api'[q])
    BY <1>1, <2>1, ObjectsAdvance DEF IInv
  <2>3. vm[q] # "none" \/ Insert(q)
    BY <1>1, <2>1, <2>2, WhoInserts
  <2>4. ~Insert(q)
    BY <1>1, <2>1
    DEF Insert, Gone, IInv, ReconcileOK, Provision, Deletion, PC, GCPCalls
  <2>5. api[q].finalizer
    BY <1>1, <2>1, <2>3, <2>4 DEF IInv, VMProtected
  <2>6. Gone(q) \/ RemoveFinalizer(q)
    BY <1>1, <2>1, <2>5, WhoIsGone
  <2>7. CASE Gone(q)
    <3>1. Gone(q) /\ Gone(q)' => api'[q] = api[q]
      BY <1>1, <2>1, StaysGone
    <3> QED BY <2>1, <2>3, <2>4, <2>7, <3>1
  <2>8. CASE RemoveFinalizer(q)
    <3>1. /\ pc[q] = "removeFinalizer" /\ obj[q] = api[q]
          /\ api'[q] = Unprotected(api[q]) /\ vm' = vm
      BY <2>1, <2>2, <2>8 DEF RemoveFinalizer, Commit, Fresh, TypeOK
    <3>2. api[q] \in Object
      BY <2>1, <2>2 DEF TypeOK
    <3>3. api'[q].instanceName = api[q].instanceName
      BY <3>1, <3>2 DEF Unprotected, Object
    <3> QED BY <1>1, <2>1, <3>1, <3>3 DEF IInv, KnowledgeOK
  <2> QED BY <2>6, <2>7, <2>8
<1>2. IInv /\ [Next]_vars => [\A p \in LeftVMs' \ LeftVMs : "VM" \in swallowed[p]]_vars
  BY <1>1
<1> QED BY <1>2, Invariance, PTL DEF Spec, RecordedVMReleased

\* A Node that the status knows does not outlive the object (deleteNode in
\* handleDeletion, lines 384-390), whatever earlier reconcile failed or crashed,
\* unless the one that removes the finalizer failed to delete it or took its VM
\* for missing.
THEOREM KnownNodeReleasedAlways == Spec => KnownNodeReleased
<1>1. ASSUME IInv, NodesOK, [Next]_vars, NEW q \in LeftNodes' \ LeftNodes
      PROVE  swallowed[q] # {} \/ q \in LeftVMs
  <2>1. /\ q \in Instances /\ Gone(q)' /\ api'[q].joinedCluster /\ node'[q]
        /\ ~(Gone(q) /\ api[q].joinedCluster /\ node[q])
    BY <1>1 DEF LeftNodes
  <2>2. TypeOK
    BY <1>1 DEF IInv
  <2>3. api[q].joinedCluster /\ api[q].finalizer
    BY <1>1, <2>1, WhoIsGone DEF NodesOK
  <2>4. CASE Gone(q)
    <3>1. vm[q] = "RUNNING"
      BY <1>1, <2>1, <2>2, <2>3, <2>4, WhoJoins
    <3> QED BY <1>1, <2>1, <2>3, <2>4, <3>1 DEF LeftVMs, IInv, DepartureOK
  <2>5. CASE RemoveFinalizer(q)
    <3>1. pc[q] = "removeFinalizer" /\ obj[q] = api[q] /\ UNCHANGED node
      BY <2>5 DEF RemoveFinalizer, Commit, Fresh
    <3> QED BY <1>1, <2>1, <2>3, <3>1 DEF NodesOK
  <2> QED BY <1>1, <2>1, <2>3, <2>4, <2>5, WhoIsGone
<1>2. IInv /\ NodesOK /\ [Next]_vars =>
        [\A p \in LeftNodes' \ LeftNodes : swallowed[p] # {} \/ p \in LeftVMs]_vars
  BY <1>1
<1> QED BY <1>2, Invariance, NodesAlways, PTL DEF Spec, KnownNodeReleased
=============================================================================
