# Verification of the Spot Instance Training Operator

TLA+ modules, TLC runs and TLAPS proofs for the operator's two controllers and
its client of GCP:

- the **ProvisionedInstance controller**, which owns one spot VM of GCP, its
  Node and its status;
- the **GCP provisioner**, whose calls it makes, in a zone shared with others;
- the **SpotInstanceJob controller**, which keeps an instance and a Job for each
  replica, checkpoints a live replica when another is preempted, restores the
  preempted one, and takes everything down when its object is deleted.

`PROJECT.json` lists the components, runs, mutants, findings, hazards and
theorems, and maps each definition to the lines it stands for. Line numbers
below are of `src/internal/controller/` unless a path says otherwise.

## 1. The system

| Component | State | Operations | Hard parts |
| --- | --- | --- | --- |
| ProvisionedInstance controller (`provisionedinstance_controller.go`) | finalizer, status (State, InstanceName, JoinedCluster/NodeName, PreemptionNotice) | Reconcile: finalizer, first status, provision, poll every 10 s, notice of loss, deletion | cached reads against versioned writes, minutes-long waits in the middle, crashes between GCP and the status |
| GCP provisioner (`internal/gcp/provisioner.go`) | VMs and operations, in GCP | insert, wait, get, list by prefix, delete | preemption at any time, deletion in the console, answers that are lost, operations that fail, names that extend others, lists in pages, one worker for all waits |
| SpotInstanceJob controller (`spotinstancejob_*.go`) | ProvisionedInstances and Jobs by replica index, CheckpointBackups, annotation `checkpoint-updated` | handlePreemption, processCompletedCheckpoints, createCheckpointForJob, reconcileProvisionedInstances, reconcileJobReplicas, updateJobWithCheckpoint, restore goroutines | everything is derived anew from lists; delete-then-create of Jobs; goroutines beside the reconciles |
| SpotInstanceJob status and deletion (`spotinstancejob_status.go`) | ActiveReplicas, finalizer | updateStatus, handleDeletion | deletion in the middle of a reconcile, cached lists, errors that are only logged, goroutines that outlive the object, no owner reference on CheckpointBackups |
| Around them | the API server, informer caches, the Job controller, the checkpoint agent, kubelets, users | | |
| Not modelled | node_joiner.go (never called), cmd/main.go, generated code, manifests, test scaffolding | | |

How they interact. The owner creates ProvisionedInstances and reads only their
labels and status; the ProvisionedInstance controller never reads Jobs. The
owner creates Jobs pinned to a Node and CheckpointBackups that an external agent
completes. `Owns` makes every change of a Job or an instance a reconcile of the
owner, which also runs every minute. Both controllers have one worker; reads of
typed objects come from informer caches, CheckpointBackups (unstructured) from
the API server.

What makes each part correct:

- **ProvisionedInstance**: no VM or Node is leaked; the status never goes back;
  a preemption is noticed, and only a real one; a Node is not deleted under
  running pods; a deleted object goes away.
- **GCP provisioner**: every VM that was inserted for an object is found again
  and recorded, whatever was lost on the way; another's VM is not taken while
  there is an own one; no object waits for ever for the others.
- **SpotInstanceJob**: one instance and one Job per replica, no more; a Job is
  deleted only for a replica that lost its instance and only with a checkpoint;
  whoever restores a Job is alone with its name; a lost replica comes back.
- **Deletion**: nothing is created once it is through; backups, instances and
  Jobs all go, and the object waits for none of them.

The list of hazards, each at its line with the properties that would catch it,
is in `PROJECT.json`.

## 2. Modules

```
InstanceLifecycle            what a ProvisionedInstance promises its owner
   ^ implemented by (LifecycleSpec)
ProvisionedInstance          one object: controller, GCP, cache and workqueue
   ^ EXTENDS
ProvisionedInstanceProofs    its theorems
   ^ EXTENDS
InstanceLifecycleProofs      the refinement
Provisioning                 several objects, one worker, one zone
   ^ EXTENDS
ProvisioningProofs           its theorems
JobRestoration               what whoever restores a Job promises the others
   ^ implemented by (RestorationSpec)
SpotInstanceJob              the owner's reconciles while it is there
   ^ EXTENDS
SpotInstanceJobProofs        its theorems
   ^ EXTENDS
JobRestorationProofs         the refinement
Teardown                     the owner from its creation to the end of its deletion
   ^ EXTENDS
TeardownProofs               its theorems
Minimum                      a lemma on least elements, for two of the proofs
```

Each of the models below the first group keeps of its neighbours what it needs.
The instances of `SpotInstanceJob` and `Teardown` go through the phases of
`InstanceLifecycle`, which `ProvisionedInstance` is shown to implement.
`ProvisionedInstance` has the cache, the conflicts and the Node of one object;
`Provisioning` reads objects as they are and has what several of them share.
`SpotInstanceJob` has what decides how many instances, Jobs and checkpoints
there are; in `Teardown` a reconcile may create any of them.

### ProvisionedInstance

One step for each call that reads GCP or writes anything; `pc[p]` names the call
that comes next, so users, GCP, watches and crashes interleave with every
reconcile. The API server's object (`api`), the copy in the cache (`cache`) and
the copy a reconcile works on (`obj`) are three variables; a write is taken only
if the working copy is current (`Fresh`, for the resourceVersion: an object
never returns to a content that an older copy still holds). `Fail` is the error
return of any call and of a conflict; `Crash` loses everything but the API
server, GCP and the Nodes, and starts again from a full list.

Not every failing call returns for a retry. Lines 257 and 427 look for `404` or
`notFound` in the text of an error, which also has the request's URL in it, with
the project and the instance's name, and generated names end in ten digits. So
any failing GetInstance, DeleteInstance or poll of a deletion may be taken for a
missing VM (`TakenForMissing`, a fault), as may the answers after somebody has
edited the zone or the project of the template (lines 252 and 422). The three
callers of deleteNode log its error and go on (`DeleteNode`). `swallowed` records,
until the reconcile returns, what it went on from without having done it: the
properties that depend on it name exactly that exception.

| Code | Actions |
| --- | --- |
| Reconcile, lines 60-121 | Begin, AddFinalizer, InitStatus, Dispatch |
| provisionInstance, 160-224; `ProvisionSpotInstance` | ListInstances, Insert, InsertDone, InsertFails, Record |
| checkAndUpdateInstanceStatus, 248-301; updateInstanceStatus, 304-366 | Check, LostStatus, UpdateStatus, DeleteNode |
| handleDeletion, 369-398; deleteGCPInstance, 401-436; deleteNode, 439-457 | DeleteVM, DeleteDone, DeleteNode, RemoveFinalizer |
| GCP, users, kubelet, watch | VMProgress, Preempt, DeleteInConsole, NodeJoins, CreateObject, DeleteObject, DeleteTemplate, Sync |

Abstracted: InstanceID and InstanceName are one Boolean, as are JoinedCluster
and NodeName, since the code sets them together; the reads of the template and
of the Secrets are one step, of which the template's absence is told apart; how
long the workqueue holds a retry back; VMs that belong to another object (see
`Provisioning`); an insert into another zone, after the template was edited,
while a VM is left in the first one.

### Provisioning

Objects and other VMs of a zone are numbers, in the order in which GCP lists
names; `Longer` are the names that begin with the name of `Stem`. `worker` holds
the one object in reconciliation, its step and what was read of GCP, so that a
wait for an operation holds up all other objects.

| Code | Actions |
| --- | --- |
| ListInstancesByPrefix, `provisioner.go` 177-193 | ListInstances (`Page`, `Matching`, `Adopted`) |
| ProvisionSpotInstance, 56-155; waitForOperation, 196-215 | Insert, InsertDone |
| GetInstance, DeleteInstance | GetInstance, DeleteInstance, DeleteDone |
| provisionInstance, the status and the deletion, `provisionedinstance_controller.go` 160-457 | Record, UpdateStatus, Finalize, Take, Fail |
| GCP, users, other VMs | Operate, InsertFails, Preempt, Unrelated, Create, Delete, Crash |

An insert that GCP accepts may be answered with an error (`Insert` with a
fault), and so may the poll of its operation (`Fail` at `wait`); a name that is
taken conflicts. An error that is read as a missing VM is a fault here, too
(`GetInstance`, `TakenForMissing`). Abstracted: disks, networks, GPUs and
scripts; the template and the Node; the cache.

### InstanceLifecycle

The promise to the owner in terms of what it can see: absent, starting, staging,
running, ready, lost, gone. An instance moves forward, and a lost one is never
live again. One exception: a reconcile on a stale cache can list a VM that has
just disappeared, and create it again (`Replace`): the instance is then back at
starting without having been lost. `ProvisionedInstance` is checked to implement
it (`LifecycleSpec`). `SpotInstanceJob` uses the same phases, the last split in
stopping and terminated, for its instances.

### SpotInstanceJob

One SpotInstanceJob. A reconcile is split where it writes: `pc` follows
Reconcile (100-149) from `preemption` through the loop over lost instances
(`restore`, `recreate`, `decide`) to `instances`, `createInstance`, `jobs`,
`createJob` and `placeJob`. Between the steps instances are preempted, Jobs
start, fail or finish, checkpoints end, and the restore goroutines run.

A Job is `pinned` when it was created with a nodeName. createJobReplica lists the
instances a second time (line 276 of the job file, `PlaceJob`, after the list at
177 in `CreateJob`) and asks for RUNNING only then. When that list fails, or the
instance was lost in between, the Job is created without a node, as is a restored
Job when the list at 468 fails (`CreateRestored`); the scheduler then places its
pod, on the node of any instance or on one that is no instance's (`Schedule`,
`Elsewhere`). A list that fails at 142 or 180 lets the loop go on to create.
`overlooked` is a record for two properties: which live instances a reconcile left
out of its list (`unlisted`) or of its count (`uncounted`) when it went on to
create others.

| Code | Actions |
| --- | --- |
| Reconcile, `spotinstancejob_controller.go` 60-150 | Begin, ReconcileInstances, ReconcileJobs, Abort |
| handlePreemption, `spotinstancejob_preemption.go` 34-258 | HandleLost, DecideCheckpoint, PreemptionHandled |
| processCompletedCheckpoints, `spotinstancejob_checkpoint.go` 159-297 | DeleteForUpdate, RecreateUpdated, CheckpointsProcessed |
| createCheckpointForJob, 300-545 | DecideCheckpoint (`Checkpointed`) |
| recreateJobFromLatestCheckpoint, 667-772 | RestorerGet, RestorerDelete, RestorerCreate |
| updateJobWithCheckpoint, `spotinstancejob_job.go` 335-542 | DeleteForUpdate and RecreateUpdated, RestorerDelete and RestorerCreate |
| reconcileProvisionedInstances, `spotinstancejob_provisionedinstance.go` 47-162 | ReconcileInstances, CreateInstance, InstancesCreated |
| reconcileJobReplicas, createJobReplica, `spotinstancejob_job.go` 38-316 | ReconcileJobs, CreateJob, PlaceJob, JobsCreated |
| ProvisionedInstance controller | Progress, Preempt, Replace |
| Job controller, scheduler, checkpoint agent, informers (external) | Schedule, JobStarts, JobFails, JobSucceeds, CheckpointCompletes, CheckpointFails, CheckpointAges, Appear |

Abstracted:

- A checkpoint is pending, completed recently (five minutes, line 97 of the
  checkpoint file) or completed long ago; images and containers are left out,
  and a failed one leaves no trace, as nothing reads it.
- A Job deletion, with its pods, is immediate (background propagation).
- A call that fails inside a loop and is logged is a step of the model: the lists
  of Jobs and pods (`HandleLost`), of checkpoints (`Begin`, `ReconcileInstances`,
  `ReconcileJobs`, `CheckpointsProcessed`, `DecideCheckpoint`), of instances and
  Jobs (`CreateJob`, `PlaceJob`, `CreateRestored`), and the creations. Two are left
  out. A list that fails in createCheckpointForJob (line 314 of the checkpoint
  file) lets a second checkpoint be created for a Job that has one. And in
  processCompletedCheckpoints a Job whose update failed is tried again with the
  next completed checkpoint in the same pass; here, in the next reconcile.
- A list that fails and ends the reconcile is `Abort`. Before `instances` nothing
  has been written by then that the next reconcile would not find; the errors of
  updateStatus come after all that is modelled.
- The pod of a Job that is not yet counted may exist already or not (`AliveNew`,
  `OnNodeNew`).
- A Job fails when its node is gone for long; that a container fails on a node
  that works, or that Active drops to 0 between two of its pods, is a fault
  (`JobFails`).
- An instance that is created again keeps its name, which is the VM's and the
  Node's (line 62 of `provisioner.go`), and JoinedCluster (`Replace`).
- ProvisionedInstances are not deleted; the SpotInstanceJob is not either (see
  `Teardown`).
- Of several listed instances of one replica (there can be two when the cache
  lags) the Job takes any that is ready; `MayCreate` and `MustCreate` leave the
  order of the list open.

### JobRestoration

How a Job is restored, whoever does it: it is taken away by one party (`Take`),
which has one Job in hand at a time and brings it back for the same replica
(`Restore`) or gives up (`GiveUp`: no instance is ready, an error, a crash); no
new Job gets the name meanwhile (`Create`), and nothing else removes a Job. The
parties are the reconcile and the goroutines of recreateJobFromLatestCheckpoint.
In `SpotInstanceJob` a party is between the Delete (line 412 of the job file) and
the Create (512) of updateJobWithCheckpoint: `updating` says so of the reconcile,
`restorer` of the goroutines (`Holders`).

### Teardown

`owner`, `cache` and `obj` are the SpotInstanceJob in the API server, in the
cache and in the hands of the reconcile, as in `ProvisionedInstance`; `listed`
are the instances that the cache has. The SpotInstanceJob can be deleted between
any two writes of a reconcile, which goes on with the copy it read.

| Code | Actions |
| --- | --- |
| Reconcile, `spotinstancejob_controller.go` 60-150 | Begin, AddFinalizer, InitStatus, FetchTemplate, HandlePreemption, CreateInstance, CreateJob, Created, Fail |
| updateStatus, `spotinstancejob_status.go` 34-52 | UpdateStatus |
| handleDeletion, 55-112 | ListBackups, DeleteBackup, BackupsDeleted, ListInstances, DeleteInstance, RemoveFinalizer |
| handlePreemption and processCompletedCheckpoints, with updateJobWithCheckpoint in the reconcile | HandlePreemption, DeleteForUpdate, RecreateUpdated, DecideCheckpoint |
| the goroutine of recreateJobFromLatestCheckpoint | HandlePreemption (its start), RestorerDeletes, RestorerCreates |
| ProvisionedInstance controller | Progress, Lose, Release |
| garbage collector, agent, informers, users (external) | Collect, BackupEnds, Appear, Sync, ByUser |

Abstracted: which instances, Jobs and checkpoints a reconcile creates (any that
the guards of lines 113-135 allow, Jobs by their number); replica indices; the
steps of an instance's own deletion, of which the finalizer and the template are
kept.

## 3. Runs

| Run | Question | Bounds |
| --- | --- | --- |
| pi_controller | safety and action properties, the refinement of InstanceLifecycle, preemptions noticed, deletions completed | 1 instance, 3 faults, template may go |
| pi_orphan_vm | a finding, below | 1 instance, no faults |
| provisioning | own VMs first, every VM recorded, every loss noticed, every deletion completed? | 2 objects, one with the other's name as prefix, 1 other VM, 3 faults |
| provisioning_page | a finding, below | 1 object, 1 other VM, pages of 1, 1 fault |
| teardown | is nothing created too late, and does everything go? | 2 instances, 2 backups, 2 faults, template may go |
| sij_safety | the Jobs: those given a node on their replica's instance; deletions only with a checkpoint and only for a lost instance; names held; the refinement of JobRestoration; no instance created during a checkpoint | 2 replicas, 3 instances, 2 Jobs, 1 goroutine, 1 preemption, 1 fault, Jobs that finish |
| sij_lag | the instances: one live for each index, no surplus, but for the overlooked | 2 replicas, 3 instances, 2 preemptions, 1 fault, a lagging cache, STAGING |
| sij_recovery | does a replica that lost its instance serve again, and is its Job restored? | 2 replicas, 3 instances, 3 Jobs, 1 goroutine, 1 preemption |
| sij_second_preemption, sij_finished_replica, sij_no_checkpoint, sij_duplicate_job | findings, below | the smallest that show them |

Why the bounds are enough. Instances share the worker, the queue, the zone and
the template: `pi_controller` has every interleaving of one reconcile with its
environment, and its safety theorems below hold for any set of instances;
`provisioning` has two objects that wait for one worker, and a third VM to fill
the page. Three faults suffice for a crash, a failed call in the recovery and
another in the one after it. In `teardown`, two instances and two backups are
the least of which one is in time and one is late, one deletion works and one
fails. Two replicas are the default and the least that has a preempted and a
live one. Three instances replace one of two, or are one too many. One goroutine
meets the reconcile, which deletes and creates as it does. When no name for an
instance or a Job is left, the loops end as if none were needed; in the runs with
a counterexample the Jobs are enough for it not to come from there, and in
`sij_recovery` they are enough for every Job the behaviour needs.

The safety questions of SpotInstanceJob are split over two runs, since faults, a
lagging cache, STAGING, Jobs and goroutines together exceed what TLC can
enumerate. What decides the instances looks at Jobs only through the checkpoints
that hold instances back, which is a question of `sij_safety`; `sij_lag` has no
Jobs and a second preemption instead. What decides the Jobs does look at the
instances, and `sij_safety` has all of that but the lag and STAGING; with them
its properties are proved (section 4), not model-checked.

The constants of SpotInstanceJob that are not bounds name assumptions.
`JobsCountedInTime`: the Job controller counts the pod of a new Job before the
next reconcile starts. It is usually so, and without it a replica soon has two
Jobs (`sij_duplicate_job`), which hides everything else. `CacheLags`: a list may
miss what was created last. `StagingSeen` and `JobsMayFinish` switch on what some
runs leave off for their size. No safety property depends on any of them; the
recovery is checked with them off and without faults: an instance that the cache
does not show is created again, a Create that fails moves its replica to another
index (see the weaknesses below), and a Job that finishes is `sij_finished_replica`.

`CHECK_DEADLOCK FALSE` throughout: the bounds stop the environment, and an
object that is gone has no next step.

### Fairness

- ProvisionedInstance: the worker finishes what it does (`WF` of Reconcile), the
  FIFO workqueue reaches every instance (`SF` of Begin, as other instances keep
  the worker busy), watches deliver, GCP finishes operations. Users, failed
  calls, crashes and preemptions are under no obligation.
- Provisioning: the FIFO queue reaches every object (`SF` of Take: the worker
  goes idle between any two), the worker goes on, GCP ends every operation. The
  last is an assumption that waitForOperation depends on: it has no deadline.
- Teardown: the controller, the goroutine, the garbage collector and the
  instances' controller go on and the cache catches up. Checkpoints need not
  end, instances need not come up, and the cache need not show an instance.
- SpotInstanceJob: Reconcile goes on (it is requeued every minute), VMs get to
  ready, the Job controller counts and gives up, the scheduler places a pod that
  has no node, goroutines go on, five minutes pass. A pending checkpoint ends, since
  the agent reports either outcome; it succeeds if asked again and again (`SF` of
  CheckpointCompletes), which only holds for a pod that runs on a node that works.
  Preemptions are under no obligation and bounded.

### What holds

- Once a VM's name is in the status, its object does not go before the VM is
  deleted, but by a reconcile that itself took a failing delete for a missing VM;
  and while a VM runs for an object that is there the finalizer holds it
  (`RecordedVMReleased`, `FinalizerGuardsVM`).
- No stale reconcile takes back a mark; a notice is given only for a VM that has
  stopped, and a Node is deleted only after its VM has ended, with the same
  exception (`StatusNeverRegresses`, `NoticeOnlyForStoppedVM`,
  `NodeDeletedOnlyAfterVM`).
- A Node that the status knows goes with the object, whatever reconcile crashed
  or failed before, unless the one that removes the finalizer fails to delete the
  Node, or took its VM for missing (`KnownNodeReleased`).
- Every preemption of a recorded VM is noticed, while the template is there, and
  deletions complete unless it goes first (`PreemptionNoticed`,
  `DeletionCompletes`), also when the objects share the worker (`LossNoticed`,
  `EveryDeletionCompletes`).
- Lost answers, failed waits and crashes lose no VM as long as the zone fits in
  one page (`EveryVMRecorded`), and an object with a VM of its own takes no
  other (`AdoptsOwn`).
- Jobs that are given a node are on an instance of their own replica; Jobs are
  deleted only with a completed checkpoint at hand and, if they were given a
  node, only for a replica that lost an instance; between the deletion and the
  creation no one else creates the Job, which comes back for the same replica
  (`JobOnItsReplica`, `DeletedOnlyWithCheckpoint`, `HealthyReplicaKept`,
  `NameIsHeld`, `RestorationSpec`).
- A replica index has one live instance, unless one of two was missing in the list
  from which the other was created; there are no more live instances than
  replicas, but for those that were missing there or in STAGING; no instance is
  created during a checkpoint (`OneInstancePerReplica`, `NoSurplusInstance`,
  `NoInstanceDuringCheckpoint`).
- A replica that loses its instance once, in a job that does not finish
  meanwhile, serves again; the Job that ran on it is restored from a checkpoint
  (`ReplicaRecovers`, `ReplicaRestored`).
- A deleted SpotInstanceJob goes, waiting neither for a checkpoint nor for the
  template; then nothing is created for it any more, and its backups, instances
  and Jobs go (`OwnerReleased`, `CreatedForOwner`, `BackupsReleased`,
  `EverythingReleased`). The exceptions: backups whose deletion failed, which is
  only logged, and instances whose template went before them.

### What does not hold

| Run | What happens |
| --- | --- |
| pi_orphan_vm | an object deleted while its insert is waited for leaves its VM in GCP |
| provisioning_page | in a zone of more VMs than a page, a VM whose insert was not seen to end is never found again |
| sij_second_preemption | a restored Job that loses its instance again is never restored again |
| sij_finished_replica | the finished pod of another replica is checkpointed for ever, nothing recovers |
| sij_no_checkpoint | the replica that was the source of a checkpoint is lost later, and nothing is checkpointed for it |
| sij_duplicate_job | two reconciles before a pod is counted create two Jobs for a replica |

`PROJECT.json` quotes the documentation that each one contradicts. More
weaknesses show in the models and have no run of their own, since no document
denies them as plainly:

- a Node that joins after the last poll outlives its object (line 383 of
  `provisionedinstance_controller.go`);
- one failing call of which the error text has `404` in it, as any URL with the
  digits of a name may, gives a notice for a VM that works and deletes its Node
  (line 257, whose comment says "Check if it's a 404 (instance not found)"), or
  lets the object go and leaves the VM (line 427);
- without the InstanceTemplate a deleted instance never goes (line 405), and
  nothing keeps the template while there are instances (the cleanup of
  `QUICKSTART.md`, line 204, deletes a `spotinstancevm` next, a kind that the API
  does not have);
- a Job for which the instances could not be listed, or whose instance was lost
  between two lists, runs on whatever node the scheduler finds, and is deleted
  with the replica of that node (lines 280-308 and 471-472 of
  `spotinstancejob_job.go`);
- an object named by hand, of whose name another's is an extension, adopts and
  deletes the other's VM (line 187 of `provisioner.go`); generated names end in
  ten digits and are safe;
- an instance that is listed in STAGING is not counted and one more is created
  (line 68 of `spotinstancejob_provisionedinstance.go`); one that the cache does
  not show yet is created again for the same replica (line 57);
- a Create that fails leaves its index free and moves the replica to a further
  one; when an instance is lost later, its replacement comes up at the lowest free
  index, which is then another, and its Job is not restored (line 150 of the same
  file);
- the running Job on a healthy replacement instance is deleted to be restored,
  for the loss of its predecessor (line 87 of `spotinstancejob_preemption.go`);
- with two losses at once, the Job being checkpointed for one can be deleted for
  the other (line 243 of `spotinstancejob_checkpoint.go`).

## 4. Proofs

Every safety and action property of the passing runs is a theorem, for every
value of the constants, the switches included. The only assumptions are
those of the models: `BoundsAssumption` of `ProvisionedInstance` and
`SpotInstanceJob` (bounds are natural numbers, switches Booleans, there is a
replica), that of `Teardown` (also, that its instances are finitely many: they
are counted), and `NamesAssumption` of `Provisioning` (names are numbers in GCP's
order, and a name comes after those it extends).

Each proof has the same shape: an invariant `IInv`, of named parts; `InvInit`
and one lemma for each part, with a step for each action that can disturb it;
`Invariance` (`Spec => []IInv`); the properties from it. TLC has checked each
`IInv` on the bounds of the runs.

**ProvisionedInstanceProofs**, for any set of instances, any number of faults
and with or without deletion of the template: `TypeOK`, `RecordedVMReleased`,
`FinalizerGuardsVM`, `KnownNodeReleased`, `StatusNeverRegresses`,
`NodeDeletedOnlyAfterVM` and `NoticeOnlyForStoppedVM`. `RecordedVMReleased` is
not inductive: whether a reconcile may remove the finalizer depends on what it
did before, and what it knows may be old. `IInv` adds two things. What the next
call says of the working copy and the VM (for instance: after `deleteVM` of a
named VM, `removeFinalizer` is reached with no VM left or with `"VM"` in
`swallowed`, and a VM cannot come back as long as the copy has a deletion
timestamp). And the order of the copies: the
cache and the working copy are earlier versions of the object (`Earlier`: marks
are only added), so a copy that is current or a write that is taken never loses
one. The action properties use it through `ObjectsAdvance`. `KnownNodeReleased`
needs one thing more (`NodesOK`): a reconcile of an object with a Node comes to
`removeFinalizer` with the Node gone or with the failure recorded in `swallowed`.
It can only come there by `deleteNode`, and no Node joins in between, unless the
VM is there after all, which is recorded, too.

**InstanceLifecycleProofs**: ProvisionedInstance implements InstanceLifecycle
(`Implements`). A step changes one object (`OneObject`), which `ObjectsAdvance`
orders; `PhaseMoves` turns that order into the moves of the abstract
specification: without it a status that goes from ready back to running would
not be ruled out. That a created object starts at starting needs that nothing is
set before (`AbsentOK`).

**ProvisioningProofs**: `TypeOK` and `AdoptsOwn`. The name that a reconcile
records was read earlier, so the invariant says of the worker that it holds
another's name only while its own object has no VM (`AdoptionOK`): nobody else
inserts one. That it does so when it lists is `AdoptedName`: among the VMs that
match, the object's own name is the least, and if any of them is on the page its
own is. This holds for any size of a page, while what `provisioning_page` finds
is that none of them may be on it.

**SpotInstanceJobProofs**, for any number of replicas, instances, Jobs,
goroutines, preemptions and faults, with any of the switches:

- `JobOnItsReplica` needs that the instance of a Job with a given node exists,
  whose index therefore stays (`HostsOK`), and that whoever creates a Job again
  finds its old index
  under the name, which no new Job has taken (`JobsStep`).
- `NameIsHeld` is inductive with the types and with what the steps and the
  goroutines have in hand (`StepsOK`, `GoroutinesOK`). Every deletion of a Job is
  a success for one party only, so two that hold the name would have deleted it
  twice without a creation in between; a creation ends the holder's claim, and
  `NewJob` does not offer a name that is held.
- `HealthyReplicaKept` follows from `LossesOK`: whatever handlePreemption has noted
  to restore is of a replica that has lost an instance, and a lost one stays lost
  (`InstancesStep`), while the Jobs noted keep their index. A goroutine has a Job
  of such a replica, or one that the scheduler had placed on a lost node, or one
  that has been restored since (`MayGo`).
- `DeletedOnlyWithCheckpoint`: a goroutine deletes a Job several steps after it
  has seen a checkpoint. It is still there, because completed ones stay
  (`CheckpointsStep`).
- `NoInstanceDuringCheckpoint`: checkpoints are created only by handlePreemption,
  and so not while the same worker creates instances.
- `OneInstancePerReplica`: while instances are created, the indices of all live
  ones are in `taken`, or the list has left them out (`IndicesOK`), which
  ReconcileInstances has read and CreateInstance keeps. It holds whatever fails,
  since an index that is skipped stays free.
- `NoSurplusInstance`: what is live and was neither missing nor STAGING at some
  list was counted, so that those instances and the ones still to create are never
  more than the replicas (`SurplusOK`).

**JobRestorationProofs**: SpotInstanceJob implements JobRestoration
(`RestorationImplements`). Each deletion is a `Take` by a party that has nothing
in hand: of the reconcile because `updating` is set exactly at `recreate`
(`StepsOK`). Each creation after it is a `Restore`, where `NameIsHeld` says that
the party is the only holder; a step that creates nothing and takes nothing
(`NamesQuiet`) is a `GiveUp` of those who had something in hand before it and not
after it, of nobody as a rule.

**TeardownProofs**: `TypeOK`, `BackupsReleased` and `CreatedForOwner`. A
reconcile works on an old copy. What makes that safe is an order (`CacheOK`): the
finalizer is taken off only by handleDeletion, which starts from a cache that
shows the deletion, so that when a step of a working reconcile runs, the object
still has the finalizer (`ReconcileOK`). Together with where handleDeletion has
got to with its list (`BackupsOK`) this gives both properties: no checkpoint is
created after the list, and at each later step those that are left are to be
deleted or were spared by a failed call.

**Minimum** has the lemma that two of the proofs use for the loops and lists that
take the first of something: `Min` of a set of numbers that is not empty is in it
and least.

Only model-checked: the liveness properties (`PreemptionNoticed`,
`DeletionCompletes`, `EveryVMRecorded`, `LossNoticed`, `EveryDeletionCompletes`,
`OwnerReleased`, `EverythingReleased`, `ReplicaRecovers`, `ReplicaRestored`),
since fairness and ENABLED are out of the prover's reach, and the
counterexamples of the findings, which need no proof.

## 5. Not modelled

- `cmd/main.go`: flags, certificates, probes. What matters of it, one worker for
  each controller, cached reads and restarts, is in the modules.
- `internal/gcp/node_joiner.go` and the functions that nothing calls:
  CheckPreemption and DeleteSpotInstance of the provisioner, deleteJob and
  recreateJobWithCheckpoint of the job file, waitForCheckpointAndRecreateJob of
  the checkpoint file.
- Generated code, CRDs, RBAC, manifests, scripts and the scaffolding of tests;
  of the API types the fields that no controller acts on.
- What a checkpoint contains and which of several completed ones is taken
  (`spotinstancejob_checkpoint.go` 187); a second checkpoint in progress for one
  Job (314); calls that fail for ever; an InstanceTemplate whose zone or project is
  edited, but for the answers of calls about the VM, which are then read as
  missing. `PROJECT.json` has them as
  hazards without a property.
- A whole operator in one state space: the composition of the owner with the
  controller of its instances is by `InstanceLifecycle`, since both in full
  detail exceed what TLC can enumerate.

## 6. Plan

1. *Done*: ProvisionedInstance, InstanceLifecycle, SpotInstanceJob, the proofs
   for ProvisionedInstance and its refinement.
2. *Done*: Provisioning, Teardown, the goroutines' names and the restoration of
   Jobs in SpotInstanceJob.
3. *Done*: the proofs of every safety and action property of the passing runs:
   SpotInstanceJob, Teardown, Provisioning and `KnownNodeReleased`.
4. *Done*: the restoration of one Job as an abstract specification that
   SpotInstanceJob implements. Next, the owner's life (nothing before the
   finalizer, nothing after it) as one that `Teardown` implements.
5. What of the recovery is safety: a Job that is restored is restored from a
   checkpoint of another replica's Job, and a goroutine that is left over from an
   earlier preemption does not bring back a Job twice.

## 7. Running

```
tlc -workers 2 -config pi_controller.cfg ProvisionedInstance.tla
tlc -workers 2 -config provisioning.cfg Provisioning.tla
tlc -workers 2 -config teardown.cfg Teardown.tla
tlc -workers 2 -config sij_safety.cfg SpotInstanceJob.tla
tlapm ProvisionedInstanceProofs.tla
tlapm InstanceLifecycleProofs.tla
tlapm ProvisioningProofs.tla
tlapm SpotInstanceJobProofs.tla
tlapm JobRestorationProofs.tla
tlapm TeardownProofs.tla
tlapm Minimum.tla
```

The `pi_` runs are of `ProvisionedInstance`, the `provisioning` runs of
`Provisioning`, the `sij_` runs of `SpotInstanceJob`, `teardown` of `Teardown`.
Each `.cfg` gives the constants their values; `p1`, `i1`, `i2`, `b1` and `b2` are
model values.
