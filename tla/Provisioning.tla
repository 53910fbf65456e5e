---------------------------- MODULE Provisioning ----------------------------
(***************************************************************************)
(* Several ProvisionedInstances and one zone of GCP: the calls of          *)
(* internal/gcp/provisioner.go, made by the one worker that all objects    *)
(* share and that waits for each operation of GCP to end.  A VM is known   *)
(* by its name, and found again, after a crash or a lost answer, by the    *)
(* prefix of its name in the first page of a list.                         *)
(*                                                                         *)
(* One object against a lagging cache, with its Node, is the module        *)
(* ProvisionedInstance; here objects are read as they are.                 *)
(***************************************************************************)
EXTENDS Naturals, FiniteSets, FiniteSetsExt

CONSTANTS
  Objects,    \* the ProvisionedInstances, each by the place of its name in the zone
  Others,     \* ... and the VMs that are none of the operator's
  Stem,       \* one object, or 0, ...
  Longer,     \* ... and the names that begin with its name
  PageSize,   \* VMs in one answer of Instances.List
  MaxFaults   \* bound: failed calls and crashes

Names == Objects \cup Others

\* A name comes after those it extends: GCP lists VMs by name.
ASSUME NamesAssumption ==
  /\ Names \subseteq Nat \ {0} /\ Objects \cap Others = {}
  /\ Stem \in Objects \cup {0} /\ Longer \subseteq {n \in Names : n > Stem}
  /\ PageSize \in Nat /\ MaxFaults \in Nat

VARIABLES
  object,   \* the objects
  zone,     \* the VMs
  queue,    \* the workqueue
  worker,   \* the object being reconciled, the step and what was read of GCP
  faults

vars == <<object, zone, queue, worker, faults>>

-----------------------------------------------------------------------------
None == 0

\* inserting and deleting: the operation has not ended.  down: STOPPING or
\* TERMINATED.
Status == {"none", "inserting", "up", "down", "deleting"}

\* new: PENDING, without InstanceName.  lost: with PreemptionNotice.
Phase == {"absent", "new", "recorded", "lost", "gone"}

Step == {"idle", "list", "insert", "wait", "record", "check", "update",
         "deleteVM", "deleteWait", "finalize"}

Idle == [object |-> None, step |-> "idle", name |-> None, status |-> "none"]

TypeOK ==
  /\ object \in [Objects -> [phase : Phase, name : Names \cup {None}, deleting : BOOLEAN]]
  /\ zone \in [Names -> Status]
  /\ queue \subseteq Objects
  /\ worker \in [object : Objects \cup {None}, step : Step,
                 name : Names \cup {None}, status : Status]
  /\ faults \in 0..MaxFaults

Init ==
  /\ object = [o \in Objects |-> [phase |-> "absent", name |-> None, deleting |-> FALSE]]
  /\ zone = [n \in Names |-> "none"]
  /\ queue = {}
  /\ worker = Idle
  /\ faults = 0

Exists(o) == object[o].phase \notin {"absent", "gone"}

-----------------------------------------------------------------------------
(***************************************************************************)
(* The worker.  me is the object that it reconciles.                       *)
(***************************************************************************)
me == worker.object

At(step) == worker.step = step
Goto(step) == worker' = [worker EXCEPT !.step = step]
Fault == faults < MaxFaults /\ faults' = faults + 1

\* RequeueAfter and errors put the object back in the queue.
Return(again) ==
  /\ worker' = Idle
  /\ queue' = IF again THEN queue \cup {me} ELSE queue

\* An Update conflicts when the object was deleted after it was read.
Commit(phase, name) ==
  /\ ~object[me].deleting
  /\ object' = [object EXCEPT ![me].phase = phase, ![me].name = name]

FirstStep(o) ==
  CASE ~Exists(o)                                                     -> "idle"
    [] Exists(o) /\ object[o].deleting /\ object[o].name # None       -> "deleteVM"
    [] Exists(o) /\ object[o].deleting /\ object[o].name = None       -> "finalize"
    [] Exists(o) /\ ~object[o].deleting /\ object[o].phase = "new"    -> "list"
    [] OTHER                                                          -> "check"

Take(o) ==
  /\ At("idle")
  /\ o \in queue
  /\ queue' = queue \ {o}
  /\ worker' = IF Exists(o) THEN [Idle EXCEPT !.object = o, !.step = FirstStep(o)] ELSE Idle
  /\ UNCHANGED <<object, zone, faults>>

\* ListInstancesByPrefix: the answer is one page, the others are not asked for.
Running == {n \in Names : zone[n] # "none"}
Page    == {n \in Running : Cardinality({m \in Running : m < n}) < PageSize}
Matching(o) == {n \in Page : n = o \/ (o = Stem /\ n \in Longer)}

\* mutant: the last one
AdoptedLast(o) == Max(Matching(o))

\* existingInstances[0]
Adopted(o) == Min(Matching(o))

\* mutant: the zone is not asked
ListNothing ==
  /\ At("list")
  /\ Goto("insert")
  /\ UNCHANGED <<object, zone, queue, faults>>

ListInstances ==
  /\ At("list")
  /\ worker' = IF Matching(me) = {} THEN [worker EXCEPT !.step = "insert"]
               ELSE [worker EXCEPT !.step = "update", !.name = Adopted(me),
                                   !.status = zone[Adopted(me)]]
  /\ UNCHANGED <<object, zone, queue, faults>>

\* Instances.Insert: a name that is taken is a conflict; the answer to an
\* insert that GCP has accepted may be lost.
Insert ==
  /\ At("insert")
  /\ \/ /\ zone[me] # "none"
        /\ Return(TRUE)
        /\ UNCHANGED <<zone, faults>>
     \/ /\ zone[me] = "none"
        /\ zone' = [zone EXCEPT ![me] = "inserting"]
        /\ (Goto("wait") /\ UNCHANGED <<queue, faults>>) \/ (Fault /\ Return(TRUE))
  /\ UNCHANGED object

\* waitForOperation, and the Get that follows it: there is no VM when the
\* operation has failed.
InsertDone ==
  /\ At("wait")
  /\ zone[me] # "inserting"
  /\ IF zone[me] = "none" THEN Return(TRUE) ELSE Goto("record") /\ UNCHANGED queue
  /\ UNCHANGED <<object, zone, faults>>

Record ==
  /\ At("record")
  /\ Commit("recorded", me)
  /\ Return(TRUE)
  /\ UNCHANGED <<zone, faults>>

\* GetInstance, by the name in the status.  An error may be taken for "none".
GetInstance ==
  LET name == object[me].name IN
  /\ At("check")
  /\ \E status \in {zone[name], "none"} :
       /\ worker' = [worker EXCEPT !.step = "update", !.name = name, !.status = status]
       /\ IF status = zone[name] THEN UNCHANGED faults ELSE Fault
  /\ UNCHANGED <<object, zone, queue>>

\* mutant: a missing VM gets a phase of its own
PhaseWithMissing(status) == IF status = "none" THEN "missing" ELSE "recorded"

\* The notice is for VMs that GCP stops, deletes or does not know.
PhaseFor(status) ==
  IF status \in {"none", "down", "deleting"} THEN "lost" ELSE "recorded"

\* mutant: an instance is polled once
UpdateWithoutRequeue ==
  /\ At("update")
  /\ Commit(IF object[me].phase = "lost" THEN "lost" ELSE PhaseFor(worker.status), worker.name)
  /\ Return(FALSE)
  /\ UNCHANGED <<zone, faults>>

\* A missing or TERMINATED VM is not polled again.
Requeues(status) ==
  CASE status = "none" -> {FALSE}
    [] status = "down" -> BOOLEAN
    [] OTHER           -> {TRUE}

\* A notice stays.
UpdateStatus ==
  /\ At("update")
  /\ Commit(IF object[me].phase = "lost" THEN "lost" ELSE PhaseFor(worker.status), worker.name)
  /\ \E again \in Requeues(worker.status) : Return(again)
  /\ UNCHANGED <<zone, faults>>

\* The controller takes the text of any error that has "404" or "notFound" in it
\* for a missing VM (its lines 257 and 427).
TakenForMissing(name) ==
  \/ zone[name] = "none" /\ UNCHANGED faults
  \/ zone[name] # "none" /\ Fault

\* DeleteInstance; a VM that is not there counts as deleted.
DeleteInstance ==
  LET name == object[me].name IN
  /\ At("deleteVM")
  /\ \/ TakenForMissing(name) /\ Goto("finalize") /\ UNCHANGED zone
     \/ /\ zone[name] # "none"
        /\ zone' = [zone EXCEPT ![name] = "deleting"]
        /\ Goto("deleteWait")
        /\ UNCHANGED faults
  /\ UNCHANGED <<object, queue>>

DeleteDone ==
  /\ At("deleteWait")
  /\ TakenForMissing(object[me].name)
  /\ Goto("finalize")
  /\ UNCHANGED <<object, zone, queue>>

Finalize ==
  /\ At("finalize")
  /\ object' = [object EXCEPT ![me].phase = "gone"]
  /\ Return(FALSE)
  /\ UNCHANGED <<zone, faults>>

\* mutant: a reconcile that fails is not repeated
FailWithoutRetry ==
  /\ \/ /\ worker.step \in {"record", "update"}
        /\ object[me].deleting
        /\ UNCHANGED faults
     \/ ~At("idle") /\ Fault
  /\ Return(FALSE)
  /\ UNCHANGED <<object, zone>>

\* A conflict, or a call that fails, the polls of an operation included.
Fail ==
  /\ \/ /\ worker.step \in {"record", "update"}
        /\ object[me].deleting
        /\ UNCHANGED faults
     \/ ~At("idle") /\ Fault
  /\ Return(TRUE)
  /\ UNCHANGED <<object, zone>>

Work ==
  \/ ListInstances \/ Insert \/ InsertDone \/ Record
  \/ GetInstance \/ UpdateStatus
  \/ DeleteInstance \/ DeleteDone \/ Finalize
  \/ Fail

Crash ==
  /\ Fault
  /\ worker' = Idle
  /\ queue' = {o \in Objects : Exists(o)}
  /\ UNCHANGED <<object, zone>>

-----------------------------------------------------------------------------
(***************************************************************************)
(* Users and GCP.                                                          *)
(***************************************************************************)
Create(o) ==
  /\ object[o].phase = "absent"
  /\ object' = [object EXCEPT ![o].phase = "new"]
  /\ queue' = queue \cup {o}
  /\ UNCHANGED <<zone, worker, faults>>

Delete(o) ==
  /\ Exists(o)
  /\ ~object[o].deleting
  /\ object' = [object EXCEPT ![o].deleting = TRUE]
  /\ queue' = queue \cup {o}
  /\ UNCHANGED <<zone, worker, faults>>

Becomes(n, from, to) ==
  /\ zone[n] = from
  /\ zone' = [zone EXCEPT ![n] = to]
  /\ UNCHANGED <<object, queue, worker>>

\* Operations end, ...
Operate(n) ==
  /\ Becomes(n, "inserting", "up") \/ Becomes(n, "deleting", "none")
  /\ UNCHANGED faults

\* ... an insert maybe in an error (a quota, no capacity).  VMs are preempted.
InsertFails(n) == Becomes(n, "inserting", "none") /\ Fault

Preempt(n) == Becomes(n, "up", "down") /\ UNCHANGED faults

Unrelated(n) ==
  /\ n \in Others
  /\ Becomes(n, "none", "up") \/ Becomes(n, "up", "none")
  /\ UNCHANGED faults

Next ==
  \/ \E o \in Objects : Take(o) \/ Create(o) \/ Delete(o)
  \/ Work
  \/ Crash
  \/ \E n \in Names : Operate(n) \/ InsertFails(n) \/ Preempt(n) \/ Unrelated(n)

Spec == Init /\ [][Next]_vars

\* The FIFO queue gets to every object, the worker goes on, operations end.
Fairness ==
  /\ \A o \in Objects : SF_vars(Take(o))
  /\ WF_vars(Work)
  /\ \A n \in Names : WF_vars(Operate(n))

FairSpec == Spec /\ Fairness

-----------------------------------------------------------------------------
(***************************************************************************)
(* Properties.                                                             *)
(***************************************************************************)
\* An object takes the VM of another name for its own only if it has none
\* (lines 170-173 of the controller and 176-193 of the provisioner), whichever
\* of them are on the page and whatever crashed since the insert.
AdoptsOwn ==
  [][\A o \in Objects :
       object'[o].name \notin {object[o].name, o} => zone[o] = "none"]_vars

\* The comment on the list: "List all instances in the zone" (line 178 of the
\* provisioner).  A VM inserted for an object is recorded in it, also when the
\* answer was lost, the wait failed or the manager crashed, so that its
\* deletion finds the VM.
EveryVMRecorded ==
  \A o \in Objects :
    (object[o].phase = "new" /\ zone[o] # "none")
      ~> (object[o].phase # "new" \/ object[o].deleting \/ zone[o] = "none")

\* The loss of a VM is noticed, however many objects the worker has to wait
\* for meanwhile (lines 248-365 of the controller), unless another object, whose
\* VM it was, has inserted that VM again.
LossNoticed ==
  \A o \in Objects :
    (object[o].phase = "recorded" /\ zone[object[o].name] \in {"none", "down"})
      ~> (\/ object[o].phase # "recorded" \/ object[o].deleting
          \/ zone[object[o].name] = "inserting")

\* Every deleted object goes, although the deletions share the worker and each
\* holds it until its operation ends (lines 369-398 of the controller).
EveryDeletionCompletes == \A o \in Objects : object[o].deleting ~> object[o].phase = "gone"
=============================================================================
