-------------------------- MODULE SpotInstanceJob --------------------------
(***************************************************************************)
(* The SpotInstanceJob controller (the spotinstancejob files of            *)
(* internal/controller) for one SpotInstanceJob: it keeps an instance and  *)
(* a Job for each replica, has a live replica checkpointed when another    *)
(* one is preempted, and restores the preempted one from the checkpoint.   *)
(*                                                                         *)
(* A reconcile is split where it writes.  Around it the instances go       *)
(* through their phases (see InstanceLifecycle), the Job controller starts *)
(* Jobs and gives up on them, and the checkpoint agent works.              *)
(***************************************************************************)
EXTENDS Naturals, FiniteSets, FiniteSetsExt

CONSTANTS
  Replicas,         \* Spec.Replicas
  MaxInstances,     \* bound: ProvisionedInstances ever created
  MaxJobs,          \* bound: Jobs at one time
  MaxRestorers,     \* bound: goroutines of recreateJobFromLatestCheckpoint
  MaxPreemptions,   \* bound: VMs that GCP preempts
  MaxFaults,        \* bound: reconciles that fail or crash on their way
  CacheLags,        \* may a list miss what was just created?
  StagingSeen,      \* does a poll ever find a VM in STAGING?
  JobsMayFinish,    \* may a Job succeed within the behaviour?
  JobsCountedInTime \* is the pod of a Job counted before the next reconcile?

ASSUME BoundsAssumption ==
  /\ Replicas \in Nat \ {0}
  /\ {MaxInstances, MaxJobs, MaxRestorers, MaxPreemptions, MaxFaults} \subseteq Nat
  /\ {CacheLags, StagingSeen, JobsMayFinish, JobsCountedInTime} \subseteq BOOLEAN

Instances == 1..MaxInstances
Jobs      == 1..MaxJobs
Restorers == 1..MaxRestorers
Limit     == 2 * Replicas        \* desiredReplicas*2
Indices   == 0..(Limit + Replicas + MaxFaults)
None      == 0                   \* no instance, no job
Elsewhere == MaxInstances + 1    \* a node that is no instance's

VARIABLES
  instance,      \* the ProvisionedInstances, as their status shows them
  job,           \* the Jobs
  checkpoint,    \* the CheckpointBackup taken from each Job
  unseen,        \* instances and jobs that the informer cache lacks
  overlooked,    \* a record for the properties: instances that lived when others
                 \* were created, and were not listed, or not counted
  pc,            \* the step of Reconcile that comes next
  lost,          \* handlePreemption: lost instances that are left to handle
  active,        \* ... and whether others ran when the instances were listed
  current,       \* ... and the one that is being handled
  jobsToUpdate,  \* ... the jobs of lost replicas found so far
  todo,          \* processCompletedCheckpoints: jobs not yet processed
  updating,      \* updateJobWithCheckpoint: the Job that it has deleted
  taken,         \* replica indices that have an instance, or a job
  needed,        \* instances or jobs still to create
  at,            \* replicaIndex
  restorer,      \* the goroutines
  preemptions, faults

locals == <<lost, active, current, jobsToUpdate, todo, updating, taken, needed, at>>
bounds == <<preemptions, faults>>
vars == <<instance, job, checkpoint, unseen, pc, locals, restorer, bounds, overlooked>>

-----------------------------------------------------------------------------
(***************************************************************************)
(* Phases of an instance, by Status.State: starting is "", PENDING and     *)
(* PROVISIONING.  The last two come with the PreemptionNotice.  joined:    *)
(* JoinedCluster and NodeName are set, and stay so if the VM is replaced.  *)
(***************************************************************************)
Lost  == {"stopping", "terminated"}
Phase == {"absent", "starting", "staging", "running"} \cup Lost

NoInstance == [phase |-> "absent", joined |-> FALSE, index |-> 0]

\* A Job's status: new is the time before the Job controller has counted its
\* pod (Active = 0).  An absent Job keeps its index: its name may be used
\* again.  pinned: its pod has a nodeName from the start, and not only when
\* the scheduler has placed it.  restored is the annotation checkpoint-updated.
JobStatus == {"absent", "new", "active", "succeeded", "failed"}
NoJob == [status |-> "absent", index |-> 0, host |-> None, pinned |-> FALSE, restored |-> FALSE]
Gone(o) == [NoJob EXCEPT !.index = o.index]

\* A failed CheckpointBackup has no effect and is left out, and the guards of
\* createCheckpointForJob allow one other for each Job.  recent: completed
\* less than five minutes ago.
Completed == {"recent", "old"}

\* Steps of Reconcile; restore to decide are within handlePreemption.
Step == {"idle", "preemption", "restore", "recreate", "decide",
         "instances", "createInstance", "jobs", "createJob", "placeJob"}

TypeOK ==
  /\ instance \in [Instances -> [phase : Phase, joined : BOOLEAN, index : Indices]]
  /\ job \in [Jobs -> [status : JobStatus, index : Indices,
                       host : Instances \cup {None, Elsewhere},
                       pinned : BOOLEAN, restored : BOOLEAN]]
  /\ checkpoint \in [Jobs -> {"none", "pending"} \cup Completed]
  /\ unseen \in [instances : SUBSET Instances, jobs : SUBSET Jobs]
  /\ overlooked \in [unlisted : SUBSET Instances, uncounted : SUBSET Instances]
  /\ pc \in Step
  /\ lost \subseteq Instances /\ active \in BOOLEAN
  /\ current \in Instances \cup {None}
  /\ jobsToUpdate \subseteq Jobs /\ todo \subseteq Jobs
  /\ updating \in Jobs \cup {None}
  /\ taken \subseteq Indices
  /\ needed \in 0..Replicas
  /\ at \in Indices
  /\ restorer \in [Restorers -> [step : {"idle", "get", "delete", "create"},
                                 job : Jobs \cup {None}]]
  /\ preemptions \in 0..MaxPreemptions
  /\ faults \in 0..MaxFaults

Idle == [step |-> "idle", job |-> None]

Init ==
  /\ instance = [i \in Instances |-> NoInstance]
  /\ job = [j \in Jobs |-> NoJob]
  /\ checkpoint = [j \in Jobs |-> "none"]
  /\ unseen = [instances |-> {}, jobs |-> {}]
  /\ overlooked = [unlisted |-> {}, uncounted |-> {}]
  /\ pc = "idle"
  /\ lost = {} /\ active = FALSE /\ current = None /\ jobsToUpdate = {} /\ todo = {} /\ updating = None
  /\ taken = {} /\ needed = 0 /\ at = 0
  /\ restorer = [r \in Restorers |-> Idle]
  /\ preemptions = 0 /\ faults = 0

-----------------------------------------------------------------------------
(***************************************************************************)
(* What the controller reads: instances, jobs and nodes from the cache,    *)
(* CheckpointBackups (unstructured) from the API server.                   *)
(***************************************************************************)
Listed     == {i \in Instances : instance[i].phase # "absent"} \ unseen.instances
ListedJobs == {j \in Jobs : job[j].status # "absent"} \ unseen.jobs

IsLost(i) == instance[i].phase \in Lost
Ready(i)  == instance[i].phase = "running" /\ instance[i].joined
Live(i)   == instance[i].phase \notin Lost \cup {"absent"}

\* hasPendingCheckpoints, hasCompletedCheckpoint, hasRestoredJobs
Pending   == \E j \in Jobs : checkpoint[j] = "pending"
CompletedCheckpoints == {j \in Jobs : checkpoint[j] \in Completed}
CompletedRecently    == \E j \in Jobs : checkpoint[j] = "recent"
RestoredJobs == {j \in ListedJobs : job[j].restored}

\* The node of an instance is Ready while its VM runs, and until it has ended.
NodeReady(h) ==
  \/ h = Elsewhere
  \/ h \in Instances /\ instance[h].joined /\ instance[h].phase \in {"running", "stopping"}

\* Jobs with a pod on a Ready node, whatever phase the pod is in.  That of a new
\* Job may be there already.
Alive    == {j \in ListedJobs : job[j].status # "new" /\ NodeReady(job[j].host)}
AliveNew == {j \in ListedJobs : job[j].status = "new" /\ NodeReady(job[j].host)}

\* findJobsOnNode
OnNode(i)    == {j \in ListedJobs : job[j].status # "new" /\ job[j].host = i}
OnNodeNew(i) == {j \in ListedJobs : job[j].status = "new" /\ job[j].host = i}

\* mutant: the jobs of every replica
AllJobs(i) == {j \in ListedJobs : ~job[j].restored}

\* The Jobs of i's replica that have not been restored yet.
JobsOfReplica(i) ==
  {j \in ListedJobs : job[j].index = instance[i].index /\ ~job[j].restored}

\* mutant: the replica index is not asked for
ReadyForAny(n) == {i \in Listed : Ready(i)}

\* The instances of replica n that can take its Job.
ReadyFor(n)  == {i \in Listed : instance[i].index = n /\ Ready(i)}
ActiveFor(n) == {i \in Listed : instance[i].index = n /\ ~IsLost(i)}

-----------------------------------------------------------------------------
(***************************************************************************)
(* Reconcile.  Nothing is modelled of the finalizer, the InstanceTemplate  *)
(* and the status, which others do not read here.                          *)
(***************************************************************************)
Goto(step) == pc' = step

Fault == faults < MaxFaults /\ faults' = faults + 1

\* Reconcile returns; its locals are forgotten.
Finish ==
  /\ Goto("idle")
  /\ lost' = {} /\ active' = FALSE /\ current' = None /\ jobsToUpdate' = {} /\ todo' = {}
  /\ updating' = None
  /\ taken' = {} /\ needed' = 0 /\ at' = 0

\* Lines 100-111 of the controller: preemptions are handled, from one list of
\* the instances, unless a checkpoint is in progress or the list of checkpoints
\* fails.
Begin ==
  /\ pc = "idle"
  /\ JobsCountedInTime => \A j \in Jobs : job[j].status # "new"
  /\ \/ /\ Goto("instances")
        /\ (Pending /\ UNCHANGED faults) \/ (~Pending /\ Fault)
        /\ UNCHANGED <<lost, active>>
     \/ /\ ~Pending
        /\ Goto("preemption")
        /\ lost' = {i \in Listed : IsLost(i)}
        /\ active' = \E i \in Listed : instance[i].phase = "running"
        /\ UNCHANGED faults
  /\ UNCHANGED <<instance, job, checkpoint, unseen, current, jobsToUpdate, todo, updating,
                 taken, needed, at, restorer, preemptions, overlooked>>

\* A goroutine for each of the Jobs, as far as the bound goes.
StartRestorers(found) ==
  LET idle == {r \in Restorers : restorer[r] = Idle} IN
  \E start \in SUBSET idle :
    /\ Cardinality(start) = Min({Cardinality(found), Cardinality(idle)})
    /\ \E f \in [start -> found] :
         /\ \A r, q \in start : f[r] = f[q] => r = q
         /\ restorer' = [r \in Restorers |-> IF r \in start THEN [step |-> "get", job |-> f[r]]
                                             ELSE restorer[r]]

\* handlePreemption, one lost instance.  Others run: completed checkpoints are
\* processed.  None does: a goroutine for each Job on its node.  Where the list
\* of Jobs, or of pods, fails none is found.
HandleLost(i) ==
  /\ pc = "preemption"
  /\ i \in lost
  /\ lost' = lost \ {i}
  /\ \/ jobsToUpdate' = jobsToUpdate \cup JobsOfReplica(i) /\ UNCHANGED faults
     \/ Fault /\ UNCHANGED jobsToUpdate
  /\ \/ /\ active
        /\ current' = i
        /\ todo' = jobsToUpdate'
        /\ Goto("restore")
        /\ UNCHANGED restorer
     \/ /\ ~active
        /\ \/ \E new \in SUBSET OnNodeNew(i) : StartRestorers(OnNode(i) \cup new)
           \/ faults' # faults /\ UNCHANGED restorer
        /\ UNCHANGED <<pc, current, todo>>
  /\ UNCHANGED <<instance, job, checkpoint, unseen, active, updating, taken, needed, at,
                 preemptions, overlooked>>

PreemptionHandled ==
  /\ pc = "preemption"
  /\ lost = {}
  /\ active' = FALSE /\ jobsToUpdate' = {}
  /\ Goto("instances")
  /\ UNCHANGED <<instance, job, checkpoint, unseen, lost, current, todo, updating,
                 taken, needed, at, restorer, bounds, overlooked>>

\* mutant: an old checkpoint will not do
RestorableFromRecent(j) == \E source \in Jobs \ {j} : checkpoint[source] = "recent"

\* processCompletedCheckpoints: j is restored from the checkpoint of another.
Restorable(j) == CompletedCheckpoints \ {j} # {}

\* updateJobWithCheckpoint deletes the Job first, ...
DeleteForUpdate(j) ==
  /\ pc = "restore"
  /\ j \in todo \cap ListedJobs
  /\ ~job[j].restored
  /\ Restorable(j)
  /\ job' = [job EXCEPT ![j] = Gone(@)]
  /\ updating' = j
  /\ todo' = todo \ {j}
  /\ Goto("recreate")
  /\ UNCHANGED <<instance, checkpoint, unseen, lost, active, current, jobsToUpdate,
                 taken, needed, at, restorer, bounds, overlooked>>

\* A Job appears, or appears again.
Put(j, new) ==
  /\ job' = [job EXCEPT ![j] = new]
  /\ unseen' = IF CacheLags THEN [unseen EXCEPT !.jobs = @ \cup {j}] ELSE unseen

OnHost(o, h) == [o EXCEPT !.status = "new", !.host = h, !.pinned = h # None]

\* ... waits, and creates it on the replica's ready instance.  Without one it
\* returns an error and leaves the Job deleted; it leaves the node to the
\* scheduler when the list of instances fails (lines 468-472).
CreateRestored(j) ==
  LET new(h) == [OnHost(job[j], h) EXCEPT !.restored = TRUE] IN
  \/ /\ job[j].status = "absent"
     /\ \/ (\E i \in ReadyFor(job[j].index) : Put(j, new(i))) /\ UNCHANGED faults
        \/ Put(j, new(None)) /\ Fault
  \/ /\ job[j].status = "absent" /\ ReadyFor(job[j].index) # {} => Fault
     /\ job[j].status # "absent" \/ ReadyFor(job[j].index) = {} => UNCHANGED faults
     /\ UNCHANGED <<job, unseen>>

RecreateUpdated ==
  /\ pc = "recreate"
  /\ CreateRestored(updating)
  /\ updating' = None
  /\ Goto("restore")
  /\ UNCHANGED <<instance, checkpoint, lost, active, current, jobsToUpdate, todo,
                 taken, needed, at, restorer, preemptions, overlooked>>

\* A call that fails leaves Jobs as they are until the next reconcile.
CheckpointsProcessed ==
  /\ pc = "restore"
  /\ \/ (\A j \in todo \cap ListedJobs : job[j].restored \/ ~Restorable(j)) /\ UNCHANGED faults
     \/ Fault
  /\ todo' = {}
  /\ Goto("decide")
  /\ UNCHANGED <<instance, job, checkpoint, unseen, lost, active, current, jobsToUpdate, updating,
                 taken, needed, at, restorer, preemptions, overlooked>>

\* createCheckpointForJob: not where there is one in progress or completed.
Checkpointed(j) ==
  checkpoint' = IF checkpoint[j] = "none" THEN [checkpoint EXCEPT ![j] = "pending"]
                ELSE checkpoint

\* Lines 135-231 of the preemption file: a pod that is alive, on another node
\* than the lost one, is checkpointed, unless that was done for this
\* preemption already.  When it cannot be told whether it was, it is done.
DecideCheckpoint ==
  LET done    == CompletedCheckpoints # {} /\ (RestoredJobs # {} \/ CompletedRecently)
      away(S) == {j \in S : job[j].host # current}
  IN
  /\ pc = "decide"
  /\ \/ done /\ UNCHANGED <<checkpoint, faults>>
     \/ /\ IF done THEN Fault ELSE UNCHANGED faults
        /\ \/ \E j \in away(Alive \cup AliveNew) : Checkpointed(j)
           \/ away(Alive) = {} /\ UNCHANGED checkpoint
     \/ Fault /\ UNCHANGED checkpoint
  /\ current' = None
  /\ Goto("preemption")
  /\ UNCHANGED <<instance, job, unseen, lost, active, jobsToUpdate, todo, updating,
                 taken, needed, at, restorer, preemptions, overlooked>>

-----------------------------------------------------------------------------
(***************************************************************************)
(* reconcileProvisionedInstances and reconcileJobReplicas.                 *)
(***************************************************************************)
\* mutant: only the instances that run count
CountedRunning == {i \in Listed : instance[i].phase = "running"}

\* Which instances count against Replicas; which ones hold their index.
Counted == {i \in Listed : instance[i].phase \in {"starting", "running"}}

\* mutant: only the instances that run hold their index
HoldingRunning == {i \in Listed : instance[i].phase = "running"}

\* mutant: a lost instance holds its index, too
HoldingLost == Listed

Holding == {i \in Listed : ~IsLost(i)}

\* Create n of what the replicas lack: at replica indices that are free.
Missing(held, n, step) ==
  IF n < Replicas
  THEN /\ taken' = held
       /\ needed' = Replicas - n
       /\ at' = 0
       /\ Goto(step)
       /\ UNCHANGED <<lost, active, current, jobsToUpdate, todo, updating>>
  ELSE IF step = "createInstance"
       THEN Goto("jobs") /\ UNCHANGED locals
       ELSE Finish

\* mutant: the checkpoints are not asked for again after the preemption
ReconcileInstancesAnyway ==
  /\ pc = "instances"
  /\ Missing({instance[i].index : i \in Holding}, Cardinality(Counted), "createInstance")
  /\ UNCHANGED <<instance, job, checkpoint, unseen, restorer, bounds, overlooked>>

\* What a list of the instances leaves out: those that the cache does not have
\* yet; and line 68 does not count STAGING.
Overlook ==
  LET unlisted == {i \in Instances : Live(i)} \ Listed
      staging  == {i \in Instances : instance[i].phase = "staging"}
  IN overlooked' = [unlisted  |-> overlooked.unlisted \cup unlisted,
                    uncounted |-> overlooked.uncounted \cup unlisted \cup staging]

\* Lines 113-129 of the controller, with reconcileProvisionedInstances: none is
\* created while a checkpoint is in progress, nor when its list fails.
ReconcileInstances ==
  /\ pc = "instances"
  /\ \/ /\ Goto("jobs")
        /\ (Pending /\ UNCHANGED faults) \/ (~Pending /\ Fault)
        /\ UNCHANGED <<locals, overlooked>>
     \/ /\ ~Pending
        /\ Missing({instance[i].index : i \in Holding}, Cardinality(Counted), "createInstance")
        /\ IF Cardinality(Counted) < Replicas THEN Overlook ELSE UNCHANGED overlooked
        /\ UNCHANGED faults
  /\ UNCHANGED <<instance, job, checkpoint, unseen, restorer, preemptions>>

\* The search for a free index stops at the limit, free or not (lines 113-119).
NextIndex == Min({n \in at..(Max(Indices) + 1) : n \notin taken \/ (n > at /\ n >= Limit)})

NewInstance == {i \in Instances : instance[i].phase = "absent"}

\* mutant: created <= needed
CreateInstanceOnceMore ==
  /\ pc = "createInstance"
  /\ needed \in Nat
  /\ NextIndex < Max(Indices)
  /\ \/ /\ NewInstance # {}
        /\ LET i == Min(NewInstance) IN
           /\ instance' = [instance EXCEPT ![i] = [phase |-> "starting", joined |-> FALSE,
                                                   index |-> NextIndex]]
           /\ unseen' = IF CacheLags THEN [unseen EXCEPT !.instances = @ \cup {i}] ELSE unseen
        /\ taken' = taken \cup {NextIndex}
        /\ needed' = needed - 1
        /\ UNCHANGED faults
     \/ /\ Fault
        /\ UNCHANGED <<instance, unseen, taken, needed>>
  /\ at' = NextIndex + 1
  /\ UNCHANGED <<job, checkpoint, pc, lost, active, current, jobsToUpdate, todo, updating,
                 restorer, preemptions, overlooked>>

\* A Create that fails is logged; the next index is tried (lines 148-152).
CreateInstance ==
  /\ pc = "createInstance"
  /\ needed > 0
  /\ NextIndex < Max(Indices)
  /\ \/ /\ NewInstance # {}
        /\ LET i == Min(NewInstance) IN
           /\ instance' = [instance EXCEPT ![i] = [phase |-> "starting", joined |-> FALSE,
                                                   index |-> NextIndex]]
           /\ unseen' = IF CacheLags THEN [unseen EXCEPT !.instances = @ \cup {i}] ELSE unseen
        /\ taken' = taken \cup {NextIndex}
        /\ needed' = needed - 1
        /\ UNCHANGED faults
     \/ /\ Fault
        /\ UNCHANGED <<instance, unseen, taken, needed>>
  /\ at' = NextIndex + 1
  /\ UNCHANGED <<job, checkpoint, pc, lost, active, current, jobsToUpdate, todo, updating,
                 restorer, preemptions, overlooked>>

InstancesCreated ==
  /\ pc = "createInstance"
  /\ needed = 0 \/ NewInstance = {}
  /\ taken' = {} /\ needed' = 0 /\ at' = 0
  /\ Goto("jobs")
  /\ UNCHANGED <<instance, job, checkpoint, unseen, lost, active, current, jobsToUpdate, todo,
                 updating, restorer, bounds, overlooked>>

\* Lines 91-107 and 137-173 of the job file: a Job keeps its replica's index
\* once its pod runs or has succeeded, or when it was restored.
Keeps(j) == job[j].status \in {"active", "succeeded"} \/ job[j].restored

Kept     == {job[j].index : j \in {k \in ListedJobs : Keeps(k)}}

\* Here a list of checkpoints that fails counts as none in progress (line 55).
ReconcileJobs ==
  /\ pc = "jobs"
  /\ \/ Pending /\ Finish /\ UNCHANGED faults
     \/ /\ Missing(Kept, Cardinality(Kept), "createJob")
        /\ (~Pending /\ UNCHANGED faults) \/ (Pending /\ Fault)
  /\ UNCHANGED <<instance, job, checkpoint, unseen, restorer, preemptions, overlooked>>

\* A name for a new Job.
NewJob ==
  {j \in Jobs : /\ job[j].status = "absent" /\ checkpoint[j] = "none"
                /\ j # updating /\ j \notin jobsToUpdate
                /\ \A r \in Restorers : restorer[r].job # j}

\* Replica indices whose Job is, or may be, created: the first listed instance
\* of the replica that is not lost has joined.  Which one is first is not known.
Free       == {n \in at..(Limit - 1) : n \notin taken}
Joined(n)  == {i \in ActiveFor(n) : instance[i].joined}
MayCreate  == {n \in Free \ Kept : Joined(n) # {}}
MustCreate == {n \in MayCreate : Joined(n) = ActiveFor(n)}

\* reconcileJobReplicas goes on to the next of them; to any free index, when a
\* list fails that would have held it back (lines 142 and 180).
CreateJob ==
  /\ pc = "createJob"
  /\ needed > 0 /\ NewJob # {}
  /\ \E n \in Free :
       /\ \A m \in MustCreate : n <= m
       /\ IF n \in MayCreate THEN UNCHANGED faults ELSE Fault
       /\ at' = n
  /\ Goto("placeJob")
  /\ UNCHANGED <<instance, job, checkpoint, unseen, lost, active, current, jobsToUpdate, todo,
                 updating, taken, needed, restorer, preemptions, overlooked>>

\* createJobReplica lists the instances again.  Without one that is ready, or
\* when the list fails, the node is left to the scheduler (lines 280-308); when
\* the Create fails the next index is tried.
PlaceJob ==
  /\ pc = "placeJob"
  /\ \/ /\ NewJob # {}
        /\ LET j == Min(NewJob)
               new(h) == OnHost([NoJob EXCEPT !.index = at], h)
           IN \/ (\E i \in ReadyFor(at) : Put(j, new(i))) /\ UNCHANGED faults
              \/ Put(j, new(None)) /\ IF ReadyFor(at) = {} THEN UNCHANGED faults ELSE Fault
        /\ taken' = taken \cup {at}
        /\ needed' = needed - 1
     \/ /\ Fault
        /\ UNCHANGED <<job, unseen, taken, needed>>
  /\ at' = at + 1
  /\ Goto("createJob")
  /\ UNCHANGED <<instance, checkpoint, lost, active, current, jobsToUpdate, todo, updating,
                 restorer, preemptions, overlooked>>

JobsCreated ==
  /\ pc = "createJob"
  /\ needed = 0 \/ MustCreate = {} \/ NewJob = {}
  /\ Finish
  /\ UNCHANGED <<instance, job, checkpoint, unseen, restorer, bounds, overlooked>>

Reconcile ==
  \/ Begin
  \/ \E i \in Instances : HandleLost(i)
  \/ \E j \in Jobs : DeleteForUpdate(j)
  \/ RecreateUpdated \/ CheckpointsProcessed \/ DecideCheckpoint \/ PreemptionHandled
  \/ ReconcileInstances \/ CreateInstance \/ InstancesCreated
  \/ ReconcileJobs \/ CreateJob \/ PlaceJob \/ JobsCreated

-----------------------------------------------------------------------------
(***************************************************************************)
(* recreateJobFromLatestCheckpoint runs in goroutines that nothing waits   *)
(* for and nothing keeps apart.                                            *)
(***************************************************************************)
Restorer(r, step) ==
  restorer' = [restorer EXCEPT ![r] = IF step = "idle" THEN Idle ELSE [@ EXCEPT !.step = step]]

\* mutant: the Job is deleted whether or not there is a checkpoint
RestorerGetAnyway(r) ==
  LET j == restorer[r].job IN
  /\ restorer[r].step = "get"
  /\ IF j \in ListedJobs /\ ~job[j].restored
     THEN Restorer(r, "delete")
     ELSE Restorer(r, "idle")
  /\ UNCHANGED <<instance, job, checkpoint, unseen, pc, locals, bounds, overlooked>>

RestorerGet(r) ==
  LET j == restorer[r].job IN
  /\ restorer[r].step = "get"
  /\ IF CompletedCheckpoints # {} /\ j \in ListedJobs /\ ~job[j].restored
     THEN Restorer(r, "delete")
     ELSE Restorer(r, "idle")
  /\ UNCHANGED <<instance, job, checkpoint, unseen, pc, locals, bounds, overlooked>>

\* mutant: a Job that is gone counts as deleted
RestorerDeleteAnyway(r) ==
  /\ restorer[r].step = "delete"
  /\ Restorer(r, "create")
  /\ job' = [job EXCEPT ![restorer[r].job] = Gone(@)]
  /\ UNCHANGED <<instance, checkpoint, unseen, pc, locals, bounds, overlooked>>

\* The Job of that name goes, whatever has become of it since the Get.
RestorerDelete(r) ==
  LET j == restorer[r].job IN
  /\ restorer[r].step = "delete"
  /\ IF job[j].status = "absent"
     THEN Restorer(r, "idle") /\ UNCHANGED job
     ELSE Restorer(r, "create") /\ job' = [job EXCEPT ![j] = Gone(@)]
  /\ UNCHANGED <<instance, checkpoint, unseen, pc, locals, bounds, overlooked>>

RestorerCreate(r) ==
  /\ restorer[r].step = "create"
  /\ CreateRestored(restorer[r].job)
  /\ Restorer(r, "idle")
  /\ UNCHANGED <<instance, checkpoint, pc, locals, preemptions, overlooked>>

Restore(r) == RestorerGet(r) \/ RestorerDelete(r) \/ RestorerCreate(r)

-----------------------------------------------------------------------------
(***************************************************************************)
(* Around the controller.                                                  *)
(***************************************************************************)
\* A list fails that a reconcile does not go on without; the process dies.
Abort ==
  /\ pc \in {"instances", "jobs"}
  /\ Fault
  /\ Finish
  /\ UNCHANGED <<instance, job, checkpoint, unseen, restorer, preemptions, overlooked>>

Crash ==
  /\ Fault
  /\ Finish
  /\ restorer' = [r \in Restorers |-> Idle]
  /\ unseen' = [instances |-> {}, jobs |-> {}]
  /\ UNCHANGED <<instance, job, checkpoint, preemptions, overlooked>>

\* The informers deliver what the cache lacked.
Appear ==
  /\ \E kind \in {"instances", "jobs"} :
       unseen[kind] # {} /\ unseen' = [unseen EXCEPT ![kind] = {}]
  /\ UNCHANGED <<instance, job, checkpoint, pc, locals, restorer, bounds, overlooked>>

Becomes(i, new) ==
  /\ instance' = [instance EXCEPT ![i] = new]
  /\ UNCHANGED <<job, checkpoint, unseen, pc, locals, restorer, overlooked>>

\* The ProvisionedInstance controller reports how the VM gets on, ...
Progress(i) ==
  /\ \/ \E step \in (IF StagingSeen THEN {<<"starting", "staging">>, <<"staging", "running">>}
                     ELSE {<<"starting", "running">>}) \cup {<<"stopping", "terminated">>} :
          /\ instance[i].phase = step[1]
          /\ Becomes(i, [instance[i] EXCEPT !.phase = step[2]])
     \/ /\ instance[i].phase = "running" /\ ~instance[i].joined
        /\ Becomes(i, [instance[i] EXCEPT !.joined = TRUE])
  /\ UNCHANGED bounds

\* ... that GCP has preempted it, which the poll may see at any later state, ...
Preempt(i) ==
  /\ preemptions < MaxPreemptions
  /\ preemptions' = preemptions + 1
  /\ Live(i)
  /\ \E phase \in Lost : Becomes(i, [instance[i] EXCEPT !.phase = phase])
  /\ UNCHANGED faults

\* ... or that the VM is another one, created again before the loss was noticed
\* (Replace of InstanceLifecycle).
Replace(i) ==
  /\ preemptions < MaxPreemptions
  /\ preemptions' = preemptions + 1
  /\ Fault
  /\ instance[i].phase \in {"staging", "running"}
  /\ Becomes(i, [instance[i] EXCEPT !.phase = "starting"])

JobBecomes(j, new) ==
  /\ job' = [job EXCEPT ![j] = new]
  /\ UNCHANGED <<instance, checkpoint, unseen, pc, locals, restorer, preemptions, overlooked>>

\* The Job controller counts the pod; ...
JobStarts(j) ==
  /\ job[j].status = "new"
  /\ JobBecomes(j, [job[j] EXCEPT !.status = "active"])
  /\ UNCHANGED faults

\* ... a pod whose node is gone is replaced on the same missing node until the
\* backoff limit is reached; a container that fails is started again, its pod
\* not counted for a while, up to the limit, too.
JobFails(j) ==
  /\ job[j].status = "active"
  /\ \/ /\ job[j].pinned /\ instance[job[j].host].phase \notin {"running", "stopping"}
        /\ JobBecomes(j, [job[j] EXCEPT !.status = "failed"])
        /\ UNCHANGED faults
     \/ /\ Fault
        /\ \E status \in {"new", "failed"} : JobBecomes(j, [job[j] EXCEPT !.status = status])

JobSucceeds(j) ==
  /\ JobsMayFinish
  /\ job[j].status = "active" /\ NodeReady(job[j].host)
  /\ JobBecomes(j, [job[j] EXCEPT !.status = "succeeded"])
  /\ UNCHANGED faults

\* The scheduler places a pod without a node, if it finds one, and the pod that
\* follows it when that node is gone.
Schedule(j) ==
  /\ job[j].status \in {"new", "active"} /\ ~job[j].pinned
  /\ ~NodeReady(job[j].host)
  /\ \E h \in {h \in Instances \cup {Elsewhere} : NodeReady(h)} \cup {None} :
       /\ h # job[j].host
       /\ JobBecomes(j, [job[j] EXCEPT !.host = h])
  /\ UNCHANGED faults

CheckpointBecomes(j, from, to) ==
  /\ checkpoint[j] = from
  /\ checkpoint' = [checkpoint EXCEPT ![j] = to]
  /\ UNCHANGED <<instance, job, unseen, pc, locals, restorer, bounds, overlooked>>

\* The agent on the pod's node takes the checkpoint of a pod that runs, or
\* fails; a checkpoint whose pod has ended or lost its node can only fail.
CheckpointCompletes(j) ==
  job[j].status = "active" /\ NodeReady(job[j].host) /\ CheckpointBecomes(j, "pending", "recent")
CheckpointFails(j) == CheckpointBecomes(j, "pending", "none")
CheckpointAges(j)  == CheckpointBecomes(j, "recent", "old")

Next ==
  \/ Reconcile
  \/ \E r \in Restorers : Restore(r)
  \/ Abort \/ Crash \/ Appear
  \/ \E i \in Instances : Progress(i) \/ Preempt(i) \/ Replace(i)
  \/ \E j \in Jobs :
       \/ JobStarts(j) \/ JobFails(j) \/ JobSucceeds(j) \/ Schedule(j)
       \/ CheckpointCompletes(j) \/ CheckpointFails(j) \/ CheckpointAges(j)

Spec == Init /\ [][Next]_vars

\* Reconcile is requeued every minute; VMs, Jobs and goroutines get on; the
\* scheduler places a pod; an agent that is asked again and again succeeds at
\* last, five minutes pass.
Fairness ==
  /\ WF_vars(Reconcile)
  /\ WF_vars(Appear)
  /\ \A r \in Restorers : WF_vars(Restore(r))
  /\ \A i \in Instances : WF_vars(Progress(i))
  /\ \A j \in Jobs :
       /\ WF_vars(JobStarts(j))
       /\ WF_vars(JobFails(j))
       /\ WF_vars(Schedule(j))
       /\ SF_vars(CheckpointCompletes(j))
       /\ WF_vars(CheckpointFails(j))
       /\ WF_vars(CheckpointAges(j))

FairSpec == Spec /\ Fairness

-----------------------------------------------------------------------------
(***************************************************************************)
(* Properties.                                                             *)
(***************************************************************************)
Unfinished(j) == job[j].status \in {"new", "active"}
Serving(j) ==
  /\ job[j].status \in {"active", "succeeded"}
  /\ job[j].host \in {Elsewhere} \cup {i \in Instances : Ready(i)}

\* A replica index that can get a Job has at most one instance that is not
\* lost: reconcileProvisionedInstances (lines 89-159) fills free indices, over
\* any number of preemptions, failed creations, failing reconciles and crashes.
\* Two there are only when the informer cache lacked one of them when the other
\* was created (line 57).
OneInstancePerReplica ==
  \A i, k \in Instances :
    Live(i) /\ Live(k) /\ instance[i].index = instance[k].index /\ instance[i].index < Limit
      => i = k \/ {i, k} \cap overlooked.unlisted # {}

\* No more VMs are kept than there are replicas, over any number of preemptions,
\* failed creations, failing reconciles and crashes (lines 66-159 of the same
\* file), but for those that were not counted when others were created: the cache
\* lacked them (line 57), or they were STAGING (line 68).
NoSurplusInstance ==
  Cardinality({i \in Instances : Live(i)} \ overlooked.uncounted) <= Replicas

\* A Job that is given a node is on an instance of its own replica, lost or not,
\* whoever created it (createJobReplica and updateJobWithCheckpoint).  Without an
\* instance in hand both leave the node to the scheduler: such a Job may be
\* anywhere.
JobOnItsReplica ==
  \A j \in Jobs :
    job[j].status # "absent" /\ job[j].pinned
      => job[j].host \in Instances /\ instance[job[j].host].index = job[j].index

\* Whoever deletes a Job to restore it has its name for itself until it has
\* created the Job again (updateJobWithCheckpoint, lines 412-541 of the job
\* file): among goroutines and the reconcile the deletion decides, and a Create
\* never meets another's Job (the AlreadyExists of line 512).
Restoring(j) == {r \in Restorers : restorer[r].step = "create" /\ restorer[r].job = j}

NameIsHeld ==
  \A j \in Jobs :
    /\ Restoring(j) # {} => job[j].status = "absent" /\ updating # j
    /\ updating = j => job[j].status = "absent"
    /\ \A r, q \in Restoring(j) : r = q

\* The reconcile (None) and the goroutines that have j in hand.
Holders(j) == {p \in Restorers \cup {None} : p \in Restoring(j) \/ (p = None /\ updating = j)}

Restoration == INSTANCE JobRestoration
  WITH Parties <- Restorers \cup {None},
       present <- {j \in Jobs : job[j].status # "absent"},
       replica <- [j \in Jobs |-> job[j].index],
       holders <- [j \in Jobs |-> Holders(j)]

\* A Job goes only by the hand of one party, which alone brings it back, for the
\* same replica, or gives up (updateJobWithCheckpoint, lines 335-542 of the job
\* file, in the reconcile and in goroutines): the controller implements
\* JobRestoration.
RestorationSpec == Restoration!Spec

Deleted(j) == job[j].status # "absent" /\ job'[j].status = "absent"

\* No Job is deleted before there is a checkpoint to restart it from, whoever
\* deletes it (processCompletedCheckpoints and recreateJobFromLatestCheckpoint,
\* lines 159-297 and 667-772 of the checkpoint file): the pod's progress would
\* be gone.
DeletedOnlyWithCheckpoint ==
  [][\A j \in Jobs : Deleted(j) => CompletedCheckpoints # {}]_vars

\* The controller deletes no Job of a replica that has not lost an instance
\* (handlePreemption, lines 50-96 and 236: jobsToUpdate, and the Jobs of a lost
\* node).  Jobs that the scheduler has placed may be on the node of another
\* replica, and go with it.
HealthyReplicaKept ==
  [][\A j \in Jobs :
       Deleted(j) /\ job[j].pinned /\ ~job[j].restored =>
         \E i \in Instances : instance[i].index = job[j].index /\ IsLost(i)]_vars

\* No instance is created while a checkpoint is in progress (lines 113-129 of
\* the controller): the checkpoint that handlePreemption has just created
\* counts, too.
NoInstanceDuringCheckpoint ==
  [][\A i \in Instances :
       instance[i].phase = "absent" /\ instance'[i].phase # "absent" => ~Pending]_vars

\* "Double-check that no job with this replica index exists" (line 137 of the
\* job file): no replica has two Jobs that are not finished.
OneJobPerReplica ==
  \A j, k \in Jobs :
    Unfinished(j) /\ Unfinished(k) /\ job[j].index = job[k].index => j = k

\* A replica that loses its instance runs again, on an instance that is ready,
\* restored from a checkpoint (QUICKSTART.md: "The job is restarted on the new
\* instance using the latest checkpoint").
ReplicaRecovers ==
  \A n \in 0..(Replicas - 1) :
    (\E i \in Instances : instance[i].index = n /\ IsLost(i))
      ~> (\E j \in Jobs : Serving(j) /\ job[j].index = n)

\* A Job that is running when its instance is lost is restored from a
\* checkpoint, whether or not its replica gets a fresh Job in between
\* (processCompletedCheckpoints, lines 159-297 of the checkpoint file).
ReplicaRestored ==
  \A n \in 0..(Replicas - 1) :
    (\E j \in Jobs : job[j].status = "active" /\ job[j].index = n /\ job[j].pinned
                     /\ IsLost(job[j].host))
      ~> (\E j \in Jobs : Serving(j) /\ job[j].index = n /\ job[j].restored)

\* "If other replicas are still running, it creates an immediate checkpoint"
\* (QUICKSTART.md, line 187): once the first loss of a replica has been handled
\* while another replica runs on a ready instance, earlier losses of others have
\* been made good and all checkpoints are old, there is a checkpoint of another
\* Job to restore the lost Job from, or one is in progress.
FirstLoss(i) ==
  \A k \in Instances : IsLost(k) /\ instance[k].index = instance[i].index => k = i

CheckpointForLoss ==
  [][(/\ pc = "decide" /\ pc' = "preemption"
      /\ FirstLoss(current) /\ jobsToUpdate = JobsOfReplica(current) /\ ~CompletedRecently
      /\ \E j \in Alive : Serving(j) /\ job[j].index # instance[current].index)
       => \A j \in JobsOfReplica(current) :
            job[j].host = current => \E source \in Jobs \ {j} : checkpoint'[source] # "none"]_vars
=============================================================================
