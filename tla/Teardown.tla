------------------------------ MODULE Teardown ------------------------------
(***************************************************************************)
(* A SpotInstanceJob and all that is created for it, from its creation to  *)
(* the end of its deletion: Reconcile of the SpotInstanceJob controller    *)
(* with the finalizer, the status writes and handleDeletion, next to the   *)
(* garbage collector, the controller of the instances and a goroutine that *)
(* restores a Job.                                                         *)
(*                                                                         *)
(* How many instances, Jobs and checkpoints a reconcile creates, and why,  *)
(* is the module SpotInstanceJob; here it may create any of them.          *)
(***************************************************************************)
EXTENDS Naturals

CONSTANTS
  Instances,          \* the ProvisionedInstances
  MaxJobs,            \* bound: the Jobs there may be at one time
  Backups,            \* the CheckpointBackups
  MaxFaults,          \* bound: failed calls and crashes
  TemplateDeletable   \* may the user delete the InstanceTemplate?

ASSUME BoundsAssumption ==
  MaxJobs \in Nat /\ MaxFaults \in Nat /\ TemplateDeletable \in BOOLEAN

VARIABLES
  owner,      \* the SpotInstanceJob in the API server
  cache,      \* ... in the informer cache
  obj,        \* ... in the hands of the reconcile
  template,   \* does the InstanceTemplate exist?
  instance,   \* the instances
  listed,     \* those that the informer cache has
  jobs,       \* how many Jobs there are
  backup,     \* the CheckpointBackups
  pc,         \* the step of the reconcile
  updates,    \* handlePreemption: how many Jobs may be restored
  doomed,     \* handleDeletion: backups and instances left to delete
  spared,     \* backups whose deletion has failed and was given up
  restorer,   \* a goroutine that restores a Job
  faults

locals == <<obj, updates, doomed>>
vars == <<owner, cache, template, instance, listed, jobs, backup, pc, locals, spared,
          restorer, faults>>

-----------------------------------------------------------------------------
(***************************************************************************)
(* The object has a new version when it has a new content: the worker is   *)
(* the only one that takes a content back (active), and it reads the cache *)
(* again in between.                                                       *)
(***************************************************************************)
Owner == [phase : {"absent", "present", "gone"}, deleting : BOOLEAN, finalizer : BOOLEAN,
          active : 0..MaxJobs]

NoOwner == [phase |-> "absent", deleting |-> FALSE, finalizer |-> FALSE, active |-> 0]

\* created: without the finalizer of its controller; up: with a ready node.
Phase == {"absent", "created", "guarded", "up", "lost", "gone"}
NoInstance == [phase |-> "absent", deleting |-> FALSE]

Step == {"idle", "addFinalizer", "initStatus", "template", "preemption", "restore", "recreate",
         "instances", "jobs", "status", "backups", "deleteBackups", "listInstances",
         "deleteInstances"}

Nothing == [backups |-> {}, instances |-> {}]

TypeOK ==
  /\ owner \in Owner /\ cache \in Owner /\ obj \in Owner
  /\ template \in BOOLEAN
  /\ instance \in [Instances -> [phase : Phase, deleting : BOOLEAN]]
  /\ listed \subseteq Instances
  /\ jobs \in 0..MaxJobs /\ updates \in 0..MaxJobs
  /\ backup \in [Backups -> {"none", "pending", "ended", "deleted"}]
  /\ pc \in Step
  /\ doomed \in [backups : SUBSET Backups, instances : SUBSET Instances]
  /\ spared \subseteq Backups
  /\ restorer \in {"idle", "started", "holds"}
  /\ faults \in 0..MaxFaults

Init ==
  /\ owner = NoOwner /\ cache = NoOwner /\ obj = NoOwner
  /\ template = TRUE
  /\ instance = [i \in Instances |-> NoInstance]
  /\ listed = {} /\ jobs = 0 /\ updates = 0
  /\ backup = [b \in Backups |-> "none"]
  /\ pc = "idle"
  /\ doomed = Nothing
  /\ spared = {}
  /\ restorer = "idle"
  /\ faults = 0

Exists(i) == instance[i].phase \notin {"absent", "gone"}
Up(i)     == instance[i].phase = "up"
Kept      == {b \in Backups : backup[b] \in {"pending", "ended"}}
Pending   == \E b \in Backups : backup[b] = "pending"
Ended     == \E b \in Backups : backup[b] = "ended"

\* Without a finalizer a deleted instance is gone at once.
Deleted(o) == IF o.phase = "created" THEN [o EXCEPT !.phase = "gone"]
              ELSE [o EXCEPT !.deleting = TRUE]

-----------------------------------------------------------------------------
(***************************************************************************)
(* Reconcile.  It is requeued after an error and after a minute: it may    *)
(* begin whenever the worker is idle.                                      *)
(***************************************************************************)
Goto(step) == pc' = step
Fault == faults < MaxFaults /\ faults' = faults + 1

Return ==
  /\ Goto("idle")
  /\ obj' = NoOwner
  /\ updates' = 0 /\ doomed' = Nothing

\* mutant: a write is taken whatever version it was based on
AlwaysFresh == TRUE

Fresh == obj = owner

AfterFinalizer(o) == IF o.active = 0 THEN "initStatus" ELSE "template"

Begin ==
  /\ pc = "idle"
  /\ cache.phase = "present"
  /\ obj' = cache
  /\ Goto(CASE cache.deleting                      -> "backups"
            [] ~cache.deleting /\ ~cache.finalizer -> "addFinalizer"
            [] ~cache.deleting /\ cache.finalizer  -> AfterFinalizer(cache))
  /\ UNCHANGED <<owner, cache, template, instance, listed, jobs, backup, updates, doomed, spared,
                 restorer, faults>>

AddFinalizer ==
  /\ pc = "addFinalizer"
  /\ Fresh
  /\ owner' = [obj EXCEPT !.finalizer = TRUE]
  /\ obj' = owner'
  /\ Goto(AfterFinalizer(obj))
  /\ UNCHANGED <<cache, template, instance, listed, jobs, backup, updates, doomed, spared,
                 restorer, faults>>

\* A write of what is there already still wants the version that is there.
InitStatus ==
  /\ pc = "initStatus"
  /\ Fresh
  /\ Goto("template")
  /\ UNCHANGED <<owner, cache, template, instance, listed, jobs, backup, locals, spared,
                 restorer, faults>>

FetchTemplate ==
  /\ pc = "template"
  /\ IF template THEN Goto("preemption") /\ UNCHANGED locals ELSE Return
  /\ UNCHANGED <<owner, cache, template, instance, listed, jobs, backup, spared, restorer, faults>>

Lost == \E i \in listed : instance[i].phase = "lost"

\* handlePreemption, when an instance is lost and no checkpoint is in progress:
\* with another one that runs, it restores Jobs from a completed checkpoint and
\* has a live one checkpointed; with none, it starts a goroutine.
HandlePreemption ==
  /\ pc = "preemption"
  /\ \/ Goto("instances") /\ UNCHANGED <<updates, restorer>>
     \/ /\ ~Pending /\ Lost
        /\ \E i \in listed : instance[i].phase \in {"guarded", "up"}
        /\ \E n \in 0..jobs : updates' = n
        /\ Goto("restore")
        /\ UNCHANGED restorer
     \/ /\ ~Pending /\ Lost
        /\ \A i \in listed : ~Up(i)
        /\ restorer = "idle"
        /\ restorer' = "started"
        /\ Goto("instances")
        /\ UNCHANGED updates
  /\ UNCHANGED <<owner, cache, template, instance, listed, jobs, backup, obj, doomed, spared,
                 faults>>

DeleteJob == jobs > 0 /\ jobs' = jobs - 1
AddJob    == jobs < MaxJobs /\ jobs' = jobs + 1

\* updateJobWithCheckpoint deletes a Job, waits, and creates it again, or gives
\* up where it finds no instance for it.
DeleteForUpdate ==
  /\ pc = "restore"
  /\ updates > 0
  /\ Ended
  /\ DeleteJob
  /\ updates' = updates - 1
  /\ Goto("recreate")
  /\ UNCHANGED <<owner, cache, template, instance, listed, backup, obj, doomed, spared,
                 restorer, faults>>

Recreated == UNCHANGED jobs \/ AddJob

RecreateUpdated ==
  /\ pc = "recreate"
  /\ Recreated
  /\ Goto("restore")
  /\ UNCHANGED <<owner, cache, template, instance, listed, backup, locals, spared,
                 restorer, faults>>

\* A CheckpointBackup has no owner reference.
DecideCheckpoint ==
  /\ pc = "restore"
  /\ \E new \in SUBSET {b \in Backups : backup[b] = "none"} :
       /\ new # {} => jobs > 0
       /\ backup' = [b \in Backups |-> IF b \in new THEN "pending" ELSE backup[b]]
  /\ updates' = 0
  /\ Goto("instances")
  /\ UNCHANGED <<owner, cache, template, instance, listed, jobs, obj, doomed, spared,
                 restorer, faults>>

\* reconcileProvisionedInstances, not while a checkpoint is in progress.
CreateInstance(i) ==
  /\ pc = "instances"
  /\ ~Pending
  /\ instance[i] = NoInstance
  /\ instance' = [instance EXCEPT ![i].phase = "created"]
  /\ UNCHANGED <<owner, cache, template, listed, jobs, backup, pc, locals, spared,
                 restorer, faults>>

\* reconcileJobReplicas; not while a checkpoint is in progress, but whether its
\* list has failed is not asked.
CreateJob ==
  /\ pc = "jobs"
  /\ IF Pending THEN Fault ELSE UNCHANGED faults
  /\ AddJob
  /\ UNCHANGED <<owner, cache, template, instance, listed, backup, pc, locals, spared, restorer>>

Created ==
  /\ \/ pc = "instances" /\ Goto("jobs")
     \/ pc = "jobs" /\ Goto("status")
  /\ UNCHANGED <<owner, cache, template, instance, listed, jobs, backup, locals, spared,
                 restorer, faults>>

\* mutant: one too many
UpdateStatusOffByOne ==
  /\ pc = "status"
  /\ Fresh
  /\ owner' = [obj EXCEPT !.active = jobs + 1]
  /\ Return
  /\ UNCHANGED <<cache, template, instance, listed, jobs, backup, spared, restorer, faults>>

\* updateStatus counts the Jobs that the Job controller has counted a pod of.
UpdateStatus ==
  /\ pc = "status"
  /\ Fresh
  /\ \E n \in 0..jobs : owner' = [obj EXCEPT !.active = n]
  /\ Return
  /\ UNCHANGED <<cache, template, instance, listed, jobs, backup, spared, restorer, faults>>

\* mutant: checkpoints in progress are left to the agent
ListEndedBackups ==
  /\ pc = "backups"
  /\ Goto("deleteBackups")
  /\ doomed' = [doomed EXCEPT !.backups = {b \in Backups : backup[b] = "ended"}]
  /\ UNCHANGED <<owner, cache, template, instance, listed, jobs, backup, obj, updates, spared,
                 restorer, faults>>

\* handleDeletion reads the backups from the API server; errors are logged.
ListBackups ==
  /\ pc = "backups"
  /\ \/ /\ Goto("deleteBackups")
        /\ doomed' = [doomed EXCEPT !.backups = Kept]
        /\ UNCHANGED <<spared, faults>>
     \/ /\ Fault
        /\ Goto("listInstances")
        /\ spared' = spared \cup Kept
        /\ UNCHANGED doomed
  /\ UNCHANGED <<owner, cache, template, instance, listed, jobs, backup, obj, updates, restorer>>

DeleteBackup(b) ==
  /\ pc = "deleteBackups"
  /\ b \in doomed.backups
  /\ doomed' = [doomed EXCEPT !.backups = @ \ {b}]
  /\ \/ /\ backup' = [backup EXCEPT ![b] = "deleted"]
        /\ spared' = spared \ {b}
        /\ UNCHANGED faults
     \/ /\ Fault
        /\ spared' = spared \cup {b}
        /\ UNCHANGED backup
  /\ UNCHANGED <<owner, cache, template, instance, listed, jobs, pc, obj, updates, restorer>>

BackupsDeleted ==
  /\ pc = "deleteBackups"
  /\ doomed.backups = {}
  /\ Goto("listInstances")
  /\ UNCHANGED <<owner, cache, template, instance, listed, jobs, backup, locals, spared,
                 restorer, faults>>

\* The instances come from the cache.
ListInstances ==
  /\ pc = "listInstances"
  /\ Goto("deleteInstances")
  /\ doomed' = [doomed EXCEPT !.instances = {i \in listed : Exists(i)}]
  /\ UNCHANGED <<owner, cache, template, instance, listed, jobs, backup, obj, updates, spared,
                 restorer, faults>>

DeleteInstance(i) ==
  /\ pc = "deleteInstances"
  /\ i \in doomed.instances
  /\ doomed' = [doomed EXCEPT !.instances = @ \ {i}]
  /\ \/ /\ instance' = [instance EXCEPT ![i] = IF Exists(i) THEN Deleted(@) ELSE @]
        /\ UNCHANGED faults
     \/ Fault /\ UNCHANGED instance
  /\ UNCHANGED <<owner, cache, template, listed, jobs, backup, pc, obj, updates, spared, restorer>>

\* mutant: not before the template is read
RemoveFinalizerByTemplate ==
  /\ pc = "deleteInstances"
  /\ doomed.instances = {}
  /\ Fresh /\ template
  /\ owner' = [obj EXCEPT !.finalizer = FALSE, !.phase = "gone"]
  /\ Return
  /\ UNCHANGED <<cache, template, instance, listed, jobs, backup, spared, restorer, faults>>

\* The last finalizer goes, and with it the object.
RemoveFinalizer ==
  /\ pc = "deleteInstances"
  /\ doomed.instances = {}
  /\ Fresh
  /\ owner' = [obj EXCEPT !.finalizer = FALSE, !.phase = "gone"]
  /\ Return
  /\ UNCHANGED <<cache, template, instance, listed, jobs, backup, spared, restorer, faults>>

\* An Update of an old version, or another call that ends the reconcile, fails.
Fail ==
  /\ \/ /\ pc \in {"addFinalizer", "initStatus", "status", "deleteInstances"}
        /\ doomed = Nothing
        /\ ~Fresh
        /\ UNCHANGED faults
     \/ /\ pc \notin {"idle", "backups", "deleteBackups"}
        /\ doomed = Nothing
        /\ Fault
  /\ Return
  /\ UNCHANGED <<owner, cache, template, instance, listed, jobs, backup, spared, restorer>>

Reconcile ==
  \/ Begin
  \/ AddFinalizer \/ InitStatus \/ FetchTemplate \/ HandlePreemption
  \/ DeleteForUpdate \/ RecreateUpdated \/ DecideCheckpoint
  \/ \E i \in Instances : CreateInstance(i) \/ DeleteInstance(i)
  \/ CreateJob \/ Created \/ UpdateStatus
  \/ ListBackups \/ BackupsDeleted \/ ListInstances \/ RemoveFinalizer
  \/ \E b \in Backups : DeleteBackup(b)
  \/ Fail

\* recreateJobFromLatestCheckpoint: the same two steps, in a goroutine that does
\* not look at the SpotInstanceJob again.
RestorerDeletes ==
  /\ restorer = "started"
  /\ \/ /\ Ended
        /\ DeleteJob
        /\ restorer' = "holds"
     \/ restorer' = "idle" /\ UNCHANGED jobs
  /\ UNCHANGED <<owner, cache, template, instance, listed, backup, pc, locals, spared, faults>>

RestorerCreates ==
  /\ restorer = "holds"
  /\ restorer' = "idle"
  /\ Recreated
  /\ UNCHANGED <<owner, cache, template, instance, listed, backup, pc, locals, spared, faults>>

-----------------------------------------------------------------------------
(***************************************************************************)
(* Around the controller.                                                  *)
(***************************************************************************)
Crash ==
  /\ Fault
  /\ Return
  /\ restorer' = "idle"
  /\ cache' = owner
  /\ listed' = {i \in Instances : Exists(i)}
  /\ UNCHANGED <<owner, template, instance, jobs, backup, spared>>

Sync ==
  /\ cache # owner
  /\ cache' = owner
  /\ UNCHANGED <<owner, template, instance, listed, jobs, backup, pc, locals, spared,
                 restorer, faults>>

Appear(i) ==
  /\ Exists(i) /\ i \notin listed
  /\ listed' = listed \cup {i}
  /\ UNCHANGED <<owner, cache, template, instance, jobs, backup, pc, locals, spared,
                 restorer, faults>>

\* The user, who may delete the template at any time after the SpotInstanceJob:
\* nothing holds it.
ByUser ==
  /\ \/ /\ owner = NoOwner
        /\ owner' = [owner EXCEPT !.phase = "present"]
        /\ UNCHANGED template
     \/ /\ owner.phase = "present" /\ ~owner.deleting
        /\ owner' = [owner EXCEPT !.deleting = TRUE,
                                  !.phase = IF owner.finalizer THEN "present" ELSE "gone"]
        /\ UNCHANGED template
     \/ /\ TemplateDeletable
        /\ owner.deleting /\ template
        /\ template' = FALSE
        /\ UNCHANGED owner
  /\ UNCHANGED <<cache, instance, listed, jobs, backup, pc, locals, spared, restorer, faults>>

Becomes(i, from, to) ==
  /\ instance[i].phase \in from
  /\ instance' = [instance EXCEPT ![i].phase = to]
  /\ UNCHANGED <<owner, cache, template, listed, jobs, backup, pc, locals, spared,
                 restorer, faults>>

\* The ProvisionedInstance controller: its finalizer, a VM that joins, is lost,
\* and is deleted, for which it needs the template.
Progress(i) ==
  \/ ~instance[i].deleting /\ Becomes(i, {"created"}, "guarded")
  \/ ~instance[i].deleting /\ template /\ Becomes(i, {"guarded"}, "up")

Lose(i) == ~instance[i].deleting /\ Becomes(i, {"guarded", "up"}, "lost")

Release(i) == instance[i].deleting /\ template /\ Becomes(i, {"guarded", "up", "lost"}, "gone")

\* mutant: instances have no owner reference
CollectJobs ==
  /\ owner.phase = "gone"
  /\ DeleteJob
  /\ UNCHANGED <<owner, cache, template, instance, listed, backup, pc, locals, spared,
                 restorer, faults>>

\* The garbage collector deletes what has an owner reference to what is gone.
Collect ==
  /\ owner.phase = "gone"
  /\ \/ DeleteJob /\ UNCHANGED instance
     \/ /\ \E i \in Instances : /\ Exists(i) /\ ~instance[i].deleting
                                /\ instance' = [instance EXCEPT ![i] = Deleted(@)]
        /\ UNCHANGED jobs
  /\ UNCHANGED <<owner, cache, template, listed, backup, pc, locals, spared, restorer, faults>>

BackupEnds(b) ==
  /\ backup[b] = "pending"
  /\ backup' = [backup EXCEPT ![b] = "ended"]
  /\ UNCHANGED <<owner, cache, template, instance, listed, jobs, pc, locals, spared,
                 restorer, faults>>

Next ==
  \/ Reconcile
  \/ RestorerDeletes \/ RestorerCreates
  \/ Crash \/ Sync \/ ByUser \/ Collect
  \/ \E i \in Instances : Appear(i) \/ Progress(i) \/ Lose(i) \/ Release(i)
  \/ \E b \in Backups : BackupEnds(b)

Spec == Init /\ [][Next]_vars

\* The worker goes on and is requeued, the cache catches up, the garbage
\* collector and the instances' controller get to everything.  Checkpoints are
\* not bound to end.
Fairness ==
  /\ WF_vars(Reconcile)
  /\ WF_vars(RestorerDeletes) /\ WF_vars(RestorerCreates)
  /\ WF_vars(Sync) /\ WF_vars(Collect)
  /\ \A i \in Instances : WF_vars(Release(i))

FairSpec == Spec /\ Fairness

-----------------------------------------------------------------------------
(***************************************************************************)
(* Properties.                                                             *)
(***************************************************************************)
\* CheckpointBackups have no owner reference: handleDeletion is the only one to
\* delete them (lines 59-86 of the status file).  None is left behind but those
\* whose deletion failed, wherever the manager crashed and whatever was created
\* by a reconcile that had not seen the deletion.
BackupsReleased == owner.phase = "gone" => Kept \subseteq spared

\* A reconcile that has not seen the deletion creates nothing that handleDeletion
\* comes too late for (lines 72-91 of the controller): instances and backups
\* are created only while the finalizer holds the SpotInstanceJob.
CreatedForOwner ==
  [][(\/ \E i \in Instances : instance[i].phase = "absent" /\ instance'[i].phase # "absent"
      \/ \E b \in Backups : backup[b] = "none" /\ backup'[b] # "none")
       => owner.phase = "present" /\ owner.finalizer]_vars

\* A SpotInstanceJob that is deleted goes away (lines 54-110 of the status
\* file): it waits neither for a checkpoint in progress nor for its instances.
OwnerReleased == owner.deleting ~> owner.phase = "gone"

Released == jobs = 0 /\ \A i \in Instances : ~Exists(i)

\* "To delete your training job and resources" (QUICKSTART.md, line 200): all
\* instances and Jobs go and none comes back, those that the cache of
\* handleDeletion missed or that a goroutine created late included, unless the
\* template goes first (deleteGCPInstance needs it).
EverythingReleased == [](owner.deleting => (<>[]Released \/ <>(~template)))
=============================================================================
