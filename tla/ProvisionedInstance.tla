------------------------ MODULE ProvisionedInstance ------------------------
(***************************************************************************)
(* The ProvisionedInstance controller                                      *)
(* (internal/controller/provisionedinstance_controller.go) together with   *)
(* what it talks to: the API server, the informer cache that its reads go  *)
(* through, the VMs of GCP (internal/gcp/provisioner.go) and the Nodes.    *)
(*                                                                         *)
(* A reconcile is a sequence of calls; every call that reads GCP or writes *)
(* something is a step of its own, so that users, GCP, kubelets and        *)
(* crashes interleave with it.  pc[p] is the call that the reconcile of p  *)
(* makes next and "idle" when there is none.                               *)
(***************************************************************************)
EXTENDS Naturals

CONSTANTS
  Instances,          \* the ProvisionedInstance objects
  MaxFaults,          \* bound: failed calls and crashes in a behaviour
  TemplateDeletable   \* may the user delete the InstanceTemplate?

ASSUME BoundsAssumption ==
  /\ MaxFaults \in Nat
  /\ TemplateDeletable \in BOOLEAN

VARIABLES
  api,        \* the objects in the API server
  cache,      \* the objects in the manager's informer cache
  template,   \* does the InstanceTemplate exist?
  vm,         \* the VM of each instance in GCP
  node,       \* is the Node of each instance registered in the cluster?
  queue,      \* the instances in the controller's workqueue
  pc,         \* the next call of each instance's reconcile
  obj,        \* the reconcile's working copy of the object
  seen,       \* the VM status that the reconcile read from GCP
  swallowed,  \* what the reconcile goes on from as if it were done, a record for
              \* the properties: "VM" taken for missing, "Node" that stays
  faults      \* failed calls and crashes so far

vars == <<api, cache, template, vm, node, queue, pc, obj, seen, swallowed, faults>>

-----------------------------------------------------------------------------
(***************************************************************************)
(* Objects.  InstanceID and InstanceName are always set together, as are   *)
(* JoinedCluster and NodeName: one Boolean stands for each pair.  The      *)
(* resourceVersion is not kept: an object does not go back to a content    *)
(* that the cache or the one running reconcile still holds, so a copy has  *)
(* the current version exactly when it equals the object.                  *)
(***************************************************************************)
GCPStatus == {"PROVISIONING", "STAGING", "RUNNING", "STOPPING", "TERMINATED"}
Stopped   == {"STOPPING", "TERMINATED"}

Object == [phase             : {"absent", "present", "gone"},
           deletionTimestamp : BOOLEAN,
           finalizer         : BOOLEAN,
           state             : GCPStatus \cup {"", "PENDING"},
           instanceName      : BOOLEAN,
           joinedCluster     : BOOLEAN,
           preemptionNotice  : BOOLEAN]

NoObject == [phase             |-> "absent",
             deletionTimestamp |-> FALSE,
             finalizer         |-> FALSE,
             state             |-> "",
             instanceName      |-> FALSE,
             joinedCluster     |-> FALSE,
             preemptionNotice  |-> FALSE]

\* "none": no such VM; "DELETING": a delete operation runs, GCP shows STOPPING.
VM == GCPStatus \cup {"none", "DELETING"}
VMStatus(p) == IF vm[p] = "DELETING" THEN "STOPPING" ELSE vm[p]

Updates  == {"addFinalizer", "initStatus", "record", "status", "lostStatus",
             "removeFinalizer"}
GCPCalls == {"list", "insert", "wait", "check", "deleteVM", "deleteWait"}
NodeDeletes == {"lostNode", "termNode", "deleteNode"}
PC == Updates \cup GCPCalls \cup NodeDeletes \cup {"idle", "dispatch"}

TypeOK ==
  /\ api   \in [Instances -> Object]
  /\ cache \in [Instances -> Object]
  /\ template \in BOOLEAN
  /\ vm    \in [Instances -> VM]
  /\ node  \in [Instances -> BOOLEAN]
  /\ queue \in SUBSET Instances
  /\ pc    \in [Instances -> PC]
  /\ obj   \in [Instances -> Object]
  /\ seen  \in [Instances -> GCPStatus \cup {"none"}]
  /\ swallowed \in [Instances -> SUBSET {"VM", "Node"}]
  /\ faults \in Nat

Init ==
  /\ api = [p \in Instances |-> NoObject]
  /\ cache = api
  /\ template = TRUE
  /\ vm = [p \in Instances |-> "none"]
  /\ node = [p \in Instances |-> FALSE]
  /\ queue = {}
  /\ pc = [p \in Instances |-> "idle"]
  /\ obj = api
  /\ seen = [p \in Instances |-> "none"]
  /\ swallowed = [p \in Instances |-> {}]
  /\ faults = 0

\* What a creation and a deletion by others make of an object.  Without a
\* finalizer a deleted object is gone at once.
Created(o) == [o EXCEPT !.phase = "present"]
Deleted(o) == [o EXCEPT !.deletionTimestamp = TRUE,
                        !.phase = IF o.finalizer THEN "present" ELSE "gone"]

\* What the writes of a reconcile make of it.
Finalized(o)   == [o EXCEPT !.finalizer = TRUE]
Initialized(o) == [o EXCEPT !.state = "PENDING"]
Unprotected(o) == [o EXCEPT !.phase = "gone"]      \* the last finalizer goes

\* Lines 212-216: PROVISIONING, whatever the VM has become by now.
Recorded(o) == [o EXCEPT !.instanceName = TRUE, !.state = "PROVISIONING"]

\* mutant: a missing VM gets a state of its own
LostWithOwnState(o) == [o EXCEPT !.state = "NOT_FOUND", !.preemptionNotice = TRUE]

\* Lines 259-260 and 282-283.
Lost(o) == [o EXCEPT !.state = "TERMINATED", !.preemptionNotice = TRUE]

\* updateInstanceStatus, from the VM's status and whether its Node is there.
NewStatus(o, status, registered) ==
  [o EXCEPT !.instanceName     = TRUE,
            !.state            = status,
            !.joinedCluster    = @ \/ (status = "RUNNING" /\ registered),
            !.preemptionNotice = @ \/ status \in Stopped]

-----------------------------------------------------------------------------
(***************************************************************************)
(* The ways a reconcile proceeds.                                          *)
(***************************************************************************)
Goto(p, call) == pc' = [pc EXCEPT ![p] = call]

\* Return from Reconcile.  RequeueAfter and an error both put p back in the
\* workqueue; how long the queue holds it back is left out.
Return(p, again) ==
  /\ pc'    = [pc EXCEPT ![p] = "idle"]
  /\ obj'   = [obj EXCEPT ![p] = NoObject]
  /\ seen'  = [seen EXCEPT ![p] = "none"]
  /\ swallowed' = [swallowed EXCEPT ![p] = {}]
  /\ queue' = IF again THEN queue \cup {p} ELSE queue

\* mutant: the API server takes a write whatever version it was based on
AlwaysFresh(p) == TRUE

\* The API server takes an Update only of the version it holds.
Fresh(p) == obj[p] = api[p]

Commit(p, new) ==
  /\ Fresh(p)
  /\ api' = [api EXCEPT ![p] = new]

Fault == faults < MaxFaults /\ faults' = faults + 1

\* What follows the finalizer (lines 85-121): the status of a new object is
\* initialised, any other goes to the template and credentials.
AfterFinalizer(o) == IF o.state = "" THEN "initStatus" ELSE "dispatch"

\* mutant: handleDeletion forgets the Node
AfterVMKeepingNode(o) == "removeFinalizer"

\* What follows the VM's deletion in handleDeletion.
AfterVM(o) == IF o.joinedCluster THEN "deleteNode" ELSE "removeFinalizer"

\* mutant: handleDeletion forgets the VM
FirstCallKeepingVM(o) ==
  IF o.deletionTimestamp THEN AfterVM(o)
  ELSE IF o.finalizer THEN AfterFinalizer(o) ELSE "addFinalizer"

\* mutant: the finalizer is not added
FirstCallWithoutFinalizer(o) ==
  IF o.deletionTimestamp THEN (IF o.instanceName THEN "deleteVM" ELSE AfterVM(o))
  ELSE AfterFinalizer(o)

\* An object with a deletion timestamp has the finalizer, the API server
\* removes any other at once: handleDeletion starts with the VM, if its name
\* is known.
FirstCall(o) ==
  IF o.deletionTimestamp
  THEN IF o.instanceName THEN "deleteVM" ELSE AfterVM(o)
  ELSE IF o.finalizer THEN AfterFinalizer(o) ELSE "addFinalizer"

-----------------------------------------------------------------------------
(***************************************************************************)
(* Reconcile.                                                              *)
(***************************************************************************)
\* The controller's single worker takes p from the queue and reads the cache.
Begin(p) ==
  /\ \A q \in Instances : pc[q] = "idle"
  /\ p \in queue
  /\ queue' = queue \ {p}
  /\ IF cache[p].phase = "present"
     THEN /\ obj' = [obj EXCEPT ![p] = cache[p]]
          /\ Goto(p, FirstCall(cache[p]))
     ELSE UNCHANGED <<obj, pc>>
  /\ UNCHANGED <<api, cache, template, vm, node, seen, swallowed, faults>>

\* Lines 77-83 and 85-91: two writes that the same reconcile goes on from.
AddFinalizer(p) ==
  LET new == Finalized(obj[p]) IN
  /\ pc[p] = "addFinalizer"
  /\ Commit(p, new)
  /\ obj' = [obj EXCEPT ![p] = new]
  /\ Goto(p, AfterFinalizer(new))
  /\ UNCHANGED <<cache, template, vm, node, queue, seen, swallowed, faults>>

InitStatus(p) ==
  LET new == Initialized(obj[p]) IN
  /\ pc[p] = "initStatus"
  /\ Commit(p, new)
  /\ obj' = [obj EXCEPT ![p] = new]
  /\ Goto(p, "dispatch")
  /\ UNCHANGED <<cache, template, vm, node, queue, seen, swallowed, faults>>

\* Lines 93-120: the template is needed for anything else to happen.
Dispatch(p) ==
  /\ pc[p] = "dispatch"
  /\ \/ /\ template
        /\ Goto(p, IF ~obj[p].instanceName /\ obj[p].state = "PENDING"
                   THEN "list" ELSE "check")
        /\ UNCHANGED <<obj, seen, swallowed, queue>>
     \/ /\ ~template
        /\ Return(p, TRUE)
  /\ UNCHANGED <<api, cache, template, vm, node, faults>>

\* provisionInstance adopts a VM that an earlier reconcile left behind.
ListInstances(p) ==
  /\ pc[p] = "list"
  /\ IF vm[p] = "none"
     THEN Goto(p, "insert") /\ UNCHANGED seen
     ELSE Goto(p, "status") /\ seen' = [seen EXCEPT ![p] = VMStatus(p)]
  /\ UNCHANGED <<api, cache, template, vm, node, queue, obj, swallowed, faults>>

Insert(p) ==
  /\ pc[p] = "insert"
  /\ vm' = [vm EXCEPT ![p] = "PROVISIONING"]
  /\ Goto(p, "wait")
  /\ UNCHANGED <<api, cache, template, node, queue, obj, seen, swallowed, faults>>

\* waitForOperation: done once the VM leaves PROVISIONING; the Get that
\* follows fails when somebody deleted the VM meanwhile.
InsertDone(p) ==
  /\ pc[p] = "wait"
  /\ vm[p] # "PROVISIONING"
  /\ IF vm[p] = "none" THEN Return(p, TRUE)
     ELSE Goto(p, "record") /\ UNCHANGED <<obj, seen, swallowed, queue>>
  /\ UNCHANGED <<api, cache, template, vm, node, faults>>

\* The operation ends in an error (a quota, no capacity in the zone).
InsertFails(p) ==
  /\ pc[p] = "wait"
  /\ vm[p] = "PROVISIONING"
  /\ vm' = [vm EXCEPT ![p] = "none"]
  /\ Fault
  /\ Return(p, TRUE)
  /\ UNCHANGED <<api, cache, template, node>>

\* Lines 212-223: the VM's name reaches the status.
Record(p) ==
  /\ pc[p] = "record"
  /\ Commit(p, Recorded(obj[p]))
  /\ Return(p, TRUE)
  /\ UNCHANGED <<cache, template, vm, node, faults>>

\* Lines 257 and 427 look for "404" or "notFound" in the text of an error.  It
\* is there when the VM is missing, but any failing call may carry it: the text
\* has the URL with the project and the instance's name, which ends in ten
\* digits.  A template whose zone or project was edited answers like that, too.
TakenForMissing(p) ==
  \/ vm[p] = "none" /\ UNCHANGED <<swallowed, faults>>
  \/ /\ vm[p] # "none"
     /\ Fault
     /\ swallowed' = [swallowed EXCEPT ![p] = @ \cup {"VM"}]

\* mutant: an instance that does not run yet is taken for a lost one
CheckTakingStartingForLost(p) ==
  /\ pc[p] = "check"
  /\ \/ /\ Goto(p, IF obj[p].joinedCluster THEN "lostNode" ELSE "lostStatus")
        /\ \/ vm[p] = "STAGING" /\ UNCHANGED <<swallowed, faults>>
           \/ TakenForMissing(p)
        /\ UNCHANGED seen
     \/ /\ vm[p] # "none"
        /\ Goto(p, "status")
        /\ seen' = [seen EXCEPT ![p] = VMStatus(p)]
        /\ UNCHANGED <<swallowed, faults>>
  /\ UNCHANGED <<api, cache, template, vm, node, queue, obj>>

\* checkAndUpdateInstanceStatus: a missing VM is marked TERMINATED.
Check(p) ==
  /\ pc[p] = "check"
  /\ \/ /\ TakenForMissing(p)
        /\ Goto(p, IF obj[p].joinedCluster THEN "lostNode" ELSE "lostStatus")
        /\ UNCHANGED seen
     \/ /\ vm[p] # "none"
        /\ Goto(p, "status")
        /\ seen' = [seen EXCEPT ![p] = VMStatus(p)]
        /\ UNCHANGED <<swallowed, faults>>
  /\ UNCHANGED <<api, cache, template, vm, node, queue, obj>>

LostStatus(p) ==
  /\ pc[p] = "lostStatus"
  /\ Commit(p, Lost(obj[p]))
  /\ Return(p, FALSE)
  /\ UNCHANGED <<cache, template, vm, node, faults>>

\* mutant: the instance is not polled again
UpdateStatusWithoutRequeue(p) ==
  /\ pc[p] = "status"
  /\ Commit(p, NewStatus(obj[p], seen[p], node[p]))
  /\ Return(p, FALSE)
  /\ UNCHANGED <<cache, template, vm, node, faults>>

\* mutant: the Node goes as soon as the VM is stopping
UpdateStatusDroppingNodeEarly(p) ==
  LET new == NewStatus(obj[p], seen[p], node[p]) IN
  /\ pc[p] = "status"
  /\ Commit(p, new)
  /\ IF seen[p] \in Stopped /\ new.joinedCluster
     THEN /\ obj' = [obj EXCEPT ![p] = new]
          /\ Goto(p, "termNode")
          /\ UNCHANGED <<seen, swallowed, queue>>
     ELSE Return(p, seen[p] # "TERMINATED")
  /\ UNCHANGED <<cache, template, vm, node, faults>>

\* updateInstanceStatus: only a TERMINATED instance is not polled again, and
\* its Node is deleted.
UpdateStatus(p) ==
  LET new == NewStatus(obj[p], seen[p], node[p]) IN
  /\ pc[p] = "status"
  /\ Commit(p, new)
  /\ IF seen[p] = "TERMINATED" /\ new.joinedCluster
     THEN /\ obj' = [obj EXCEPT ![p] = new]
          /\ Goto(p, "termNode")
          /\ UNCHANGED <<seen, swallowed, queue>>
     ELSE Return(p, seen[p] # "TERMINATED")
  /\ UNCHANGED <<cache, template, vm, node, faults>>

\* deleteNode.  All three callers log a failure and go on.
DeleteNode(p) ==
  /\ pc[p] \in NodeDeletes
  /\ \/ /\ pc[p] = "lostNode"
        /\ Goto(p, "lostStatus")
        /\ UNCHANGED <<obj, seen, queue>>
     \/ /\ pc[p] = "deleteNode"
        /\ Goto(p, "removeFinalizer")
        /\ UNCHANGED <<obj, seen, queue>>
     \/ pc[p] = "termNode" /\ Return(p, FALSE)
  /\ \/ /\ node' = [node EXCEPT ![p] = FALSE]
        /\ pc[p] # "termNode" => UNCHANGED swallowed
        /\ UNCHANGED faults
     \/ /\ Fault
        /\ pc[p] # "termNode" => swallowed' = [swallowed EXCEPT ![p] = @ \cup {"Node"}]
        /\ UNCHANGED node
  /\ UNCHANGED <<api, cache, template, vm>>

\* deleteGCPInstance: it needs the template; a VM that is missing is deleted.
DeleteVM(p) ==
  /\ pc[p] = "deleteVM"
  /\ \/ /\ ~template
        /\ Return(p, TRUE)
        /\ UNCHANGED <<vm, faults>>
     \/ /\ template
        /\ TakenForMissing(p)
        /\ Goto(p, AfterVM(obj[p]))
        /\ UNCHANGED <<vm, obj, seen, queue>>
     \/ /\ template
        /\ vm[p] # "none"
        /\ vm' = [vm EXCEPT ![p] = "DELETING"]
        /\ Goto(p, "deleteWait")
        /\ UNCHANGED <<obj, seen, swallowed, queue, faults>>
  /\ UNCHANGED <<api, cache, template, node>>

\* The operation is done, or a poll fails with such a text (provisioner.go:202).
DeleteDone(p) ==
  /\ pc[p] = "deleteWait"
  /\ TakenForMissing(p)
  /\ Goto(p, AfterVM(obj[p]))
  /\ UNCHANGED <<api, cache, template, vm, node, queue, obj, seen>>

\* The last finalizer goes, and with it the object.
RemoveFinalizer(p) ==
  /\ pc[p] = "removeFinalizer"
  /\ Commit(p, Unprotected(obj[p]))
  /\ Return(p, FALSE)
  /\ UNCHANGED <<cache, template, vm, node, faults>>

\* mutant: a failed call is not retried
FailWithoutRetry(p) ==
  /\ \/ pc[p] \in Updates /\ ~Fresh(p) /\ UNCHANGED faults
     \/ pc[p] \in Updates \cup GCPCalls \cup {"dispatch"} /\ Fault
  /\ Return(p, FALSE)
  /\ UNCHANGED <<api, cache, template, vm, node>>

\* An Update of an old version conflicts, and any call may fail: Reconcile
\* returns the error, and is called again.
Fail(p) ==
  /\ \/ pc[p] \in Updates /\ ~Fresh(p) /\ UNCHANGED faults
     \/ pc[p] \in Updates \cup GCPCalls \cup {"dispatch"} /\ Fault
  /\ Return(p, TRUE)
  /\ UNCHANGED <<api, cache, template, vm, node>>

Reconcile(p) ==
  \/ AddFinalizer(p) \/ InitStatus(p) \/ Dispatch(p)
  \/ ListInstances(p) \/ Insert(p) \/ InsertDone(p) \/ InsertFails(p) \/ Record(p)
  \/ Check(p) \/ LostStatus(p) \/ UpdateStatus(p) \/ DeleteNode(p)
  \/ DeleteVM(p) \/ DeleteDone(p) \/ RemoveFinalizer(p)
  \/ Fail(p)

-----------------------------------------------------------------------------
(***************************************************************************)
(* Around the controller.                                                  *)
(***************************************************************************)
\* The watch delivers the object's latest version; the event queues it.
Sync(p) ==
  /\ cache[p] # api[p]
  /\ cache' = [cache EXCEPT ![p] = api[p]]
  /\ queue' = queue \cup {p}
  /\ UNCHANGED <<api, template, vm, node, pc, obj, seen, swallowed, faults>>

\* The process dies; the new one lists the objects and queues them all.
Crash ==
  /\ Fault
  /\ pc' = [p \in Instances |-> "idle"]
  /\ obj' = [p \in Instances |-> NoObject]
  /\ seen' = [p \in Instances |-> "none"]
  /\ swallowed' = [p \in Instances |-> {}]
  /\ cache' = api
  /\ queue' = {p \in Instances : api[p].phase = "present"}
  /\ UNCHANGED <<api, template, vm, node>>

\* The owner creates the object, and somebody deletes it.
CreateObject(p) ==
  /\ api[p].phase = "absent"
  /\ api' = [api EXCEPT ![p] = Created(@)]
  /\ UNCHANGED <<cache, template, vm, node, queue, pc, obj, seen, swallowed, faults>>

DeleteObject(p) ==
  /\ api[p].phase = "present"
  /\ ~api[p].deletionTimestamp
  /\ api' = [api EXCEPT ![p] = Deleted(@)]
  /\ UNCHANGED <<cache, template, vm, node, queue, pc, obj, seen, swallowed, faults>>

DeleteTemplate ==
  /\ TemplateDeletable
  /\ template
  /\ template' = FALSE
  /\ UNCHANGED <<api, cache, vm, node, queue, pc, obj, seen, swallowed, faults>>

\* GCP starts the VM, preempts it, lets a user delete it in the console.
VMStep(p, from, to) ==
  /\ vm[p] = from
  /\ vm' = [vm EXCEPT ![p] = to]
  /\ UNCHANGED <<api, cache, template, node, queue, pc, obj, seen, swallowed, faults>>

VMProgress(p) ==
  \/ VMStep(p, "PROVISIONING", "STAGING")
  \/ VMStep(p, "STAGING", "RUNNING")
  \/ VMStep(p, "STOPPING", "TERMINATED")
  \/ VMStep(p, "DELETING", "none")

Preempt(p) ==
  \/ VMStep(p, "STAGING", "STOPPING")
  \/ VMStep(p, "RUNNING", "STOPPING")

DeleteInConsole(p) == \E from \in GCPStatus \ {"PROVISIONING"} : VMStep(p, from, "DELETING")

\* The startup script of a running VM joins it to the cluster.
NodeJoins(p) ==
  /\ vm[p] = "RUNNING"
  /\ ~node[p]
  /\ node' = [node EXCEPT ![p] = TRUE]
  /\ UNCHANGED <<api, cache, template, vm, queue, pc, obj, seen, swallowed, faults>>

Environment(p) ==
  \/ Sync(p) \/ CreateObject(p) \/ DeleteObject(p)
  \/ VMProgress(p) \/ Preempt(p) \/ DeleteInConsole(p) \/ NodeJoins(p)

Next ==
  \/ \E p \in Instances : Begin(p) \/ Reconcile(p) \/ Environment(p)
  \/ Crash
  \/ DeleteTemplate

Spec == Init /\ [][Next]_vars

\* The worker goes on with its reconcile and the FIFO workqueue gets to every
\* instance; watches deliver; GCP finishes what it started.  Users, crashes,
\* preemptions and joining nodes are under no obligation.
Fairness ==
  \A p \in Instances :
    /\ SF_vars(Begin(p))
    /\ WF_vars(Reconcile(p))
    /\ WF_vars(Sync(p))
    /\ WF_vars(VMProgress(p))

FairSpec == Spec /\ Fairness

-----------------------------------------------------------------------------
(***************************************************************************)
(* Safety.                                                                 *)
(***************************************************************************)
Gone(p)     == api[p].phase = "gone"
Present(p)  == api[p].phase = "present"
Deleting(p) == api[p].deletionTimestamp

\* Once the name of a VM is in the status, handleDeletion does not let the
\* object go and leave the VM (lines 374-398), whatever stale copy a reconcile
\* worked on and wherever an earlier one crashed or failed: only a reconcile that
\* itself took the text of a failing delete for a missing VM (line 427) does.
LeftVMs == {p \in Instances : Gone(p) /\ api[p].instanceName /\ vm[p] # "none"}

RecordedVMReleased == [][\A p \in LeftVMs' \ LeftVMs : "VM" \in swallowed[p]]_vars

\* A VM never outlives the protection of its object: while the object is there
\* and a VM runs for it, the finalizer of lines 77-83 keeps the object.
FinalizerGuardsVM ==
  \A p \in Instances : Present(p) /\ vm[p] # "none" => api[p].finalizer

\* What the documentation promises of deletion and the code does not keep:
\* "Finalizers for cleanup operations" (IMPLEMENTATION_SUMMARY.md).  No VM is
\* left behind by an object that is gone (line 375).
NoOrphanVM == \A p \in Instances : Gone(p) => vm[p] = "none"

\* A reconcile never overwrites what it has not seen: the marks that other
\* controllers act on (lines 64-347 set them, none clears them) stay, although
\* each reconcile writes back the whole status that it read from the cache.
StatusNeverRegresses ==
  [][\A p \in Instances :
       /\ Deleting(p) => api'[p].deletionTimestamp
       /\ api[p].instanceName => api'[p].instanceName
       /\ api[p].joinedCluster => api'[p].joinedCluster
       /\ api[p].preemptionNotice => api'[p].preemptionNotice]_vars

\* The owner deletes Jobs and starts restores on a PreemptionNotice: it is not
\* given for a VM that works, whatever changed between the read of GCP (line 254)
\* and the write of the status (lines 270, 293 and 347), but by the reconcile
\* that read "404" into the error of a failing call (line 257).
NoticeOnlyForStoppedVM ==
  [][\A p \in Instances :
       ~api[p].preemptionNotice /\ api'[p].preemptionNotice
         => vm[p] \in Stopped \cup {"DELETING", "none"} \/ "VM" \in swallowed[p]]_vars

\* A Node is deleted after its VM has ended, never under the pods of a VM that
\* works or has its seconds of grace left (lines 264, 287, 356 and 384), with
\* the same exception.
NodeDeletedOnlyAfterVM ==
  [][\A p \in Instances :
       node[p] /\ ~node'[p]
         => vm[p] \in {"TERMINATED", "DELETING", "none"} \/ "VM" \in swallowed[p]]_vars

\* A Node that the status knows does not outlive the object (lines 352-384):
\* deleteNode runs on every way out, whatever earlier reconcile crashed, failed
\* or was stale.  It stays only when the very reconcile that removes the
\* finalizer failed to delete it or took its VM for missing, and it comes back
\* only with a VM that was left.
LeftNodes == {p \in Instances : Gone(p) /\ api[p].joinedCluster /\ node[p]}

KnownNodeReleased ==
  [][\A p \in LeftNodes' \ LeftNodes : swallowed[p] # {} \/ p \in LeftVMs]_vars

-----------------------------------------------------------------------------
(***************************************************************************)
(* Liveness.                                                               *)
(***************************************************************************)
\* The ten-second poll (line 365) sees every preemption of a recorded VM,
\* unless the object or the template is on its way out, or a reconcile that
\* reads a cache from before the VM was recorded finds it gone and creates
\* another one.
PreemptionNoticed ==
  \A p \in Instances :
    (Present(p) /\ api[p].instanceName /\ vm[p] \in Stopped)
      ~> (\/ api[p].preemptionNotice \/ Deleting(p) \/ Gone(p)
          \/ vm[p] = "PROVISIONING" \/ ~template)

\* An object that is deleted goes away (lines 369-398), unless the template goes
\* first.
DeletionCompletes == \A p \in Instances : Deleting(p) ~> (Gone(p) \/ ~template)

-----------------------------------------------------------------------------
(***************************************************************************)
(* What the owner may rely on.                                             *)
(***************************************************************************)
PhaseOf(o) ==
  CASE o.phase # "present"                       -> o.phase
    [] o.phase = "present" /\ o.preemptionNotice -> "lost"
    [] o.phase = "present" /\ ~o.preemptionNotice ->
         CASE o.state = "RUNNING" /\ o.joinedCluster  -> "ready"
           [] o.state = "RUNNING" /\ ~o.joinedCluster -> "running"
           [] o.state = "STAGING"                     -> "staging"
           [] OTHER                                   -> "starting"

Lifecycle == INSTANCE InstanceLifecycle
               WITH phase <- [p \in Instances |-> PhaseOf(api[p])]

\* Seen through its status an instance moves forward, and a lost instance is
\* never live again (updateInstanceStatus and handleDeletion, lines 304-398):
\* the controller implements InstanceLifecycle.
LifecycleSpec == Lifecycle!Spec
=============================================================================
