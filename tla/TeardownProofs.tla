--------------------------- MODULE TeardownProofs ---------------------------
(***************************************************************************)
(* Proofs about Teardown, for every set of instances and of checkpoints,   *)
(* and for every number of faults.                                         *)
(***************************************************************************)
EXTENDS Teardown, Integers, TLAPS

-----------------------------------------------------------------------------
(***************************************************************************)
(* The inductive invariant.                                                *)
(***************************************************************************)
\* Steps of a reconcile that has seen no deletion, and of handleDeletion.
Working  == {"initStatus", "template", "preemption", "restore", "recreate", "instances", "jobs",
             "status"}
Deleting == {"backups", "deleteBackups", "listInstances", "deleteInstances"}

\* The cache is behind the API server, yet a SpotInstanceJob that has had the
\* finalizer does not go before the cache shows its deletion: the only one to
\* take the finalizer off has read the deletion in the cache.
CacheOK ==
  /\ owner.finalizer => owner.phase = "present"
  /\ cache.finalizer => owner.finalizer \/ owner.phase = "gone"
  /\ cache.deleting => owner.deleting
  /\ owner.phase = "gone" /\ cache.finalizer => cache.deleting

\* So a reconcile that works, on whatever version, has the finalizer behind it.
ReconcileOK ==
  /\ pc \in Working => owner.phase = "present" /\ owner.finalizer
  /\ pc \in Deleting => cache.deleting
  /\ pc = "addFinalizer" => obj.phase = "present"

\* Where handleDeletion has got to with the checkpoints, which there are only
\* under the finalizer.
BackupsOK ==
  /\ Kept # {} => owner.finalizer \/ owner.phase = "gone"
  /\ pc = "deleteBackups" => Kept \subseteq doomed.backups \cup spared
  /\ pc \in {"listInstances", "deleteInstances"} => Kept \subseteq spared
  /\ BackupsReleased

\* What it is about to delete has been created.
DoomedOK == \A b \in doomed.backups : backup[b] # "none"

IInv == TypeOK /\ CacheOK /\ ReconcileOK /\ BackupsOK /\ DoomedOK

-----------------------------------------------------------------------------
(***************************************************************************)
(* Type correctness.                                                       *)
(***************************************************************************)
\* What the bounds of the model are, one by one.
LEMMA Bounds ==
  MaxJobs \in Nat /\ MaxFaults \in Nat /\ TemplateDeletable \in BOOLEAN
BY BoundsAssumption DEF BoundsAssumption

\* What a write makes of a SpotInstanceJob is one.
LEMMA OwnerTyped ==
  /\ NoOwner \in Owner
  /\ \A o \in Owner :
       /\ \A phase \in {"absent", "present", "gone"} : [o EXCEPT !.phase = phase] \in Owner
       /\ [o EXCEPT !.finalizer = TRUE] \in Owner
       /\ [o EXCEPT !.finalizer = FALSE, !.phase = "gone"] \in Owner
       /\ \A phase \in {"present", "gone"} :
            [o EXCEPT !.deleting = TRUE, !.phase = phase] \in Owner
       /\ \A n \in 0..MaxJobs : [o EXCEPT !.active = n] \in Owner
<1>1. 0 \in 0..MaxJobs
  BY Bounds
<1> QED BY <1>1 DEF Owner, NoOwner

\* What becomes of an instance is one.
LEMMA InstanceTyped ==
  ASSUME NEW o \in [phase : Phase, deleting : BOOLEAN]
  PROVE  /\ Deleted(o) \in [phase : Phase, deleting : BOOLEAN]
         /\ \A phase \in Phase : [o EXCEPT !.phase = phase] \in [phase : Phase, deleting : BOOLEAN]
BY DEF Deleted, Phase

\* What handleDeletion has in hand is of the objects there are.
LEMMA DoomedTyped ==
  ASSUME NEW d \in [backups : SUBSET Backups, instances : SUBSET Instances]
  PROVE  /\ Nothing \in [backups : SUBSET Backups, instances : SUBSET Instances]
         /\ \A S \in SUBSET Backups :
              [d EXCEPT !.backups = S] \in [backups : SUBSET Backups, instances : SUBSET Instances]
         /\ \A S \in SUBSET Instances :
              [d EXCEPT !.instances = S]
                \in [backups : SUBSET Backups, instances : SUBSET Instances]
BY DEF Nothing

\* A Job more or less is within its bound.
LEMMA JobsTyped ==
  ASSUME TypeOK
  PROVE  DeleteJob \/ AddJob => jobs' \in 0..MaxJobs
BY Bounds DEF TypeOK, DeleteJob, AddJob

\* What a reconcile forgets when it returns is in its type again.
LEMMA ReturnTyped ==
  ASSUME Return
  PROVE  /\ obj' \in Owner /\ updates' \in 0..MaxJobs /\ pc' \in Step
         /\ doomed' \in [backups : SUBSET Backups, instances : SUBSET Instances]
<1>1. doomed' \in [backups : SUBSET Backups, instances : SUBSET Instances]
  BY DEF Return, Nothing
<1>2. updates' \in 0..MaxJobs
  BY Bounds DEF Return
<1> QED BY <1>1, <1>2, OwnerTyped DEF Return, Goto, Step

\* Fault counts up to its bound.
LEMMA FaultTyped ==
  ASSUME TypeOK
  PROVE  Fault => faults' \in 0..MaxFaults
BY Bounds DEF TypeOK, Fault

\* The controller starts with every variable in its type.
LEMMA TypeInit == Init => TypeOK
<1> SUFFICES ASSUME Init
             PROVE  TypeOK
  OBVIOUS
<1>1. faults \in 0..MaxFaults
  BY Bounds DEF Init
<1>2. instance \in [Instances -> [phase : Phase, deleting : BOOLEAN]]
  BY DEF Init, NoInstance, Phase
<1>3. doomed \in [backups : SUBSET Backups, instances : SUBSET Instances]
  BY DEF Init, Nothing
<1>4. 0 \in 0..MaxJobs
  BY Bounds
<1> QED BY <1>1, <1>2, <1>3, <1>4, OwnerTyped DEF Init, TypeOK, Step

\* Every step keeps the types.
LEMMA TypeStep == TypeOK /\ [Next]_vars => TypeOK'
<1> SUFFICES ASSUME TypeOK, [Next]_vars
             PROVE  TypeOK'
  OBVIOUS
<1> USE DEF Goto
<1>1. CASE Begin
  <2>1. pc' \in Step
    BY <1>1 DEF Begin, AfterFinalizer, Step, TypeOK, Owner
  <2> QED BY <1>1, <2>1 DEF Begin, TypeOK
<1>2. CASE AddFinalizer
  BY <1>2, OwnerTyped DEF AddFinalizer, AfterFinalizer, TypeOK, Step
<1>3. CASE InitStatus
  BY <1>3 DEF InitStatus, TypeOK, locals, Step
<1>4. CASE FetchTemplate
  <2>1. CASE Return
    BY <1>4, <2>1, ReturnTyped DEF FetchTemplate, TypeOK
  <2>2. CASE Goto("preemption") /\ UNCHANGED locals
    BY <1>4, <2>2 DEF FetchTemplate, TypeOK, locals, Step
  <2> QED BY <1>4, <2>1, <2>2 DEF FetchTemplate
<1>5. CASE HandlePreemption
  <2>1. updates' \in 0..MaxJobs
    BY <1>5, Bounds DEF HandlePreemption, TypeOK
  <2> QED BY <1>5, <2>1 DEF HandlePreemption, TypeOK, Step
<1>6. ASSUME NEW i \in Instances, CreateInstance(i)
      PROVE  TypeOK'
  BY <1>6, InstanceTyped DEF CreateInstance, TypeOK, locals, Phase
<1>7. CASE CreateJob
  <2>1. jobs' \in 0..MaxJobs
    BY <1>7, JobsTyped DEF CreateJob
  <2>2. faults' \in 0..MaxFaults
    BY <1>7, FaultTyped DEF CreateJob, TypeOK
  <2> QED BY <1>7, <2>1, <2>2 DEF CreateJob, TypeOK, locals
<1>8. ASSUME NEW i \in Instances, DeleteInstance(i)
      PROVE  TypeOK'
  <2>1. instance' \in [Instances -> [phase : Phase, deleting : BOOLEAN]]
    <3>1. Deleted(instance[i]) \in [phase : Phase, deleting : BOOLEAN]
      BY InstanceTyped DEF TypeOK
    <3>2. \/ UNCHANGED instance
          \/ instance' = [instance EXCEPT ![i] = Deleted(instance[i])]
          \/ instance' = [instance EXCEPT ![i] = instance[i]]
      BY <1>8 DEF DeleteInstance, TypeOK
    <3> QED BY <3>1, <3>2 DEF TypeOK
  <2>2. doomed' \in [backups : SUBSET Backups, instances : SUBSET Instances]
    BY <1>8, DoomedTyped DEF DeleteInstance, TypeOK
  <2>3. faults' \in 0..MaxFaults
    BY <1>8, FaultTyped DEF DeleteInstance, TypeOK
  <2> QED BY <1>8, <2>1, <2>2, <2>3 DEF DeleteInstance, TypeOK
<1>9. CASE Created
  BY <1>9 DEF Created, TypeOK, locals, Step
<1>10. CASE UpdateStatus
  <2>1. PICK n \in 0..jobs : owner' = [obj EXCEPT !.active = n]
    BY <1>10 DEF UpdateStatus
  <2>2. n \in 0..MaxJobs
    BY Bounds DEF TypeOK
  <2>3. owner' \in Owner
    BY <2>1, <2>2, OwnerTyped DEF TypeOK
  <2> QED BY <1>10, <2>3, ReturnTyped DEF UpdateStatus, TypeOK
<1>11. CASE ListBackups
  <2>1. Kept \subseteq Backups
    BY DEF Kept
  <2>2. doomed' \in [backups : SUBSET Backups, instances : SUBSET Instances]
    BY <1>11, <2>1, DoomedTyped DEF ListBackups, TypeOK
  <2>3. spared' \subseteq Backups /\ faults' \in 0..MaxFaults
    BY <1>11, <2>1, FaultTyped DEF ListBackups, TypeOK
  <2> QED BY <1>11, <2>2, <2>3 DEF ListBackups, TypeOK, Step
<1>12. CASE BackupsDeleted
  BY <1>12 DEF BackupsDeleted, TypeOK, locals, Step
<1>13. CASE ListInstances
  <2>1. doomed' \in [backups : SUBSET Backups, instances : SUBSET Instances]
    BY <1>13, DoomedTyped DEF ListInstances, TypeOK
  <2> QED BY <1>13, <2>1 DEF ListInstances, TypeOK, Step
<1>14. CASE RemoveFinalizer
  BY <1>14, OwnerTyped, ReturnTyped DEF RemoveFinalizer, TypeOK
<1>15. ASSUME NEW b \in Backups, DeleteBackup(b)
       PROVE  TypeOK'
  <2>1. doomed' \in [backups : SUBSET Backups, instances : SUBSET Instances]
    BY <1>15, DoomedTyped DEF DeleteBackup, TypeOK
  <2>2. spared' \subseteq Backups /\ faults' \in 0..MaxFaults
    BY <1>15, FaultTyped DEF DeleteBackup, TypeOK
  <2> QED BY <1>15, <2>1, <2>2 DEF DeleteBackup, TypeOK
<1>16. CASE Fail
  <2>1. faults' \in 0..MaxFaults
    BY <1>16, FaultTyped DEF Fail, TypeOK
  <2> QED BY <1>16, <2>1, ReturnTyped DEF Fail, TypeOK
<1>17. CASE RestorerDeletes \/ RestorerCreates
  BY <1>17, JobsTyped DEF RestorerDeletes, RestorerCreates, Recreated, TypeOK, locals
<1>18. CASE Crash
  BY <1>18, FaultTyped, OwnerTyped, ReturnTyped DEF Crash, TypeOK
<1>19. CASE Sync
  BY <1>19 DEF Sync, TypeOK, locals
<1>20. CASE ByUser
  <2>1. owner' \in Owner /\ template' \in BOOLEAN
    BY <1>20, OwnerTyped DEF ByUser, TypeOK
  <2> QED BY <1>20, <2>1 DEF ByUser, TypeOK, locals
<1>21. ASSUME NEW i \in Instances, Appear(i)
       PROVE  TypeOK'
  BY <1>21 DEF Appear, TypeOK, locals
<1>22. ASSUME NEW i \in Instances, NEW from, NEW to \in Phase, Becomes(i, from, to)
       PROVE  TypeOK'
  BY <1>22, InstanceTyped DEF Becomes, TypeOK, locals
<1>23. ASSUME NEW i \in Instances, Progress(i) \/ Lose(i) \/ Release(i)
       PROVE  TypeOK'
  BY <1>22, <1>23 DEF Progress, Lose, Release, Phase
<1>24. CASE Collect
  <2>1. instance' \in [Instances -> [phase : Phase, deleting : BOOLEAN]]
    <3>1. CASE UNCHANGED instance
      BY <3>1 DEF TypeOK
    <3>2. ASSUME NEW i \in Instances, instance' = [instance EXCEPT ![i] = Deleted(@)]
          PROVE  instance' \in [Instances -> [phase : Phase, deleting : BOOLEAN]]
      BY <3>2, InstanceTyped DEF TypeOK
    <3> QED BY <1>24, <3>1, <3>2 DEF Collect
  <2>2. jobs' \in 0..MaxJobs
    BY <1>24, JobsTyped DEF Collect, TypeOK
  <2> QED BY <1>24, <2>1, <2>2 DEF Collect, TypeOK, locals
<1>25. ASSUME NEW b \in Backups, BackupEnds(b)
       PROVE  TypeOK'
  BY <1>25 DEF BackupEnds, TypeOK, locals
<1>26. CASE DeleteForUpdate \/ RecreateUpdated
  <2>1. jobs' \in 0..MaxJobs
    BY <1>26, JobsTyped DEF DeleteForUpdate, RecreateUpdated, Recreated, TypeOK
  <2>2. updates' \in 0..MaxJobs
    BY <1>26, Bounds DEF DeleteForUpdate, RecreateUpdated, TypeOK, locals
  <2> QED BY <1>26, <2>1, <2>2 DEF DeleteForUpdate, RecreateUpdated, TypeOK, locals, Step
<1>27. CASE DecideCheckpoint
  BY <1>27, Bounds DEF DecideCheckpoint, TypeOK, Step
<1>28. CASE UNCHANGED vars
  BY <1>28 DEF vars, TypeOK, locals
<1> HIDE DEF Goto
<1> QED
  BY <1>1, <1>2, <1>3, <1>4, <1>5, <1>6, <1>7, <1>8, <1>9, <1>10, <1>11, <1>12, <1>13, <1>14,
     <1>15, <1>16, <1>17, <1>18, <1>19, <1>20, <1>21, <1>23, <1>24, <1>25, <1>26, <1>27,
     <1>28
     DEF Next, Reconcile

-----------------------------------------------------------------------------
(***************************************************************************)
(* The steps of the invariant.                                             *)
(***************************************************************************)
\* Three write the SpotInstanceJob: the worker, whose version is the latest; the
\* last of its writes; the user.
LEMMA WhoWritesOwner ==
  ASSUME TypeOK, [Next]_vars
  PROVE  \/ UNCHANGED owner
         \/ AddFinalizer
         \/ UpdateStatus
         \/ RemoveFinalizer
         \/ ByUser
BY DEF Next, Reconcile, Begin, InitStatus, FetchTemplate, HandlePreemption, CreateInstance,
   CreateJob, DeleteForUpdate, RecreateUpdated, DecideCheckpoint, DeleteInstance, Created,
   ListBackups, BackupsDeleted, ListInstances, DeleteBackup, Fail, RestorerDeletes,
   RestorerCreates, Crash, Sync, Appear, Progress, Lose, Release, Becomes, Collect, BackupEnds,
   vars

\* What those writes do to it.
OwnerAdvance ==
  \/ UNCHANGED owner
  \/ pc = "addFinalizer" /\ obj = owner /\ owner' = [owner EXCEPT !.finalizer = TRUE]
  \/ /\ pc = "status"
     /\ \E n \in 0..jobs : owner' = [owner EXCEPT !.active = n]
  \/ pc = "deleteInstances" /\ owner' = [owner EXCEPT !.finalizer = FALSE, !.phase = "gone"]
  \/ owner = NoOwner /\ owner' = [owner EXCEPT !.phase = "present"]
  \/ /\ owner.phase = "present"
     /\ owner' = [owner EXCEPT !.deleting = TRUE,
                               !.phase = IF owner.finalizer THEN "present" ELSE "gone"]

\* They do no more than that.
LEMMA OwnerStep == TypeOK /\ [Next]_vars => OwnerAdvance
<1> SUFFICES ASSUME TypeOK, [Next]_vars
             PROVE  OwnerAdvance
  OBVIOUS
<1>1. CASE AddFinalizer \/ UpdateStatus \/ RemoveFinalizer
  BY <1>1 DEF AddFinalizer, UpdateStatus, RemoveFinalizer, Fresh, OwnerAdvance
<1>2. CASE ByUser
  BY <1>2 DEF ByUser, OwnerAdvance
<1> QED BY <1>1, <1>2, WhoWritesOwner DEF OwnerAdvance

\* The cache follows the API server.
LEMMA CacheFollows ==
  ASSUME [Next]_vars
  PROVE  cache' = cache \/ (cache' = owner /\ UNCHANGED owner)
BY DEF Next, Reconcile, Begin, AddFinalizer, InitStatus, FetchTemplate, HandlePreemption,
   CreateInstance, CreateJob, DeleteForUpdate, RecreateUpdated, DecideCheckpoint, DeleteInstance,
   Created, UpdateStatus, ListBackups, BackupsDeleted, ListInstances, RemoveFinalizer,
   DeleteBackup, Fail, RestorerDeletes, RestorerCreates, Crash, Sync, ByUser, Appear, Progress,
   Lose, Release, Becomes, Collect, BackupEnds, vars

\* A deletion that the cache shows stays, and the finalizer is not taken off
\* before it shows it.
LEMMA CacheStep == TypeOK /\ CacheOK /\ ReconcileOK /\ [Next]_vars => CacheOK'
<1> SUFFICES ASSUME TypeOK, CacheOK, ReconcileOK, [Next]_vars
             PROVE  CacheOK'
  OBVIOUS
<1>1. OwnerAdvance
  BY OwnerStep
<1>2. CASE UNCHANGED owner
  BY <1>2, CacheFollows DEF CacheOK
<1>3. CASE owner' # owner
  <2>1. cache' = cache
    BY <1>3, CacheFollows
  <2>2. owner \in Owner
    BY DEF TypeOK
  <2>3. CASE pc = "addFinalizer" /\ obj = owner /\ owner' = [owner EXCEPT !.finalizer = TRUE]
    BY <2>1, <2>2, <2>3 DEF CacheOK, ReconcileOK, Owner
  <2>4. CASE \E n \in 0..jobs : owner' = [owner EXCEPT !.active = n]
    BY <2>1, <2>2, <2>4 DEF CacheOK, Owner
  <2>5. CASE /\ pc = "deleteInstances"
             /\ owner' = [owner EXCEPT !.finalizer = FALSE, !.phase = "gone"]
    BY <2>1, <2>2, <2>5 DEF CacheOK, ReconcileOK, Owner, Deleting
  <2>6. CASE owner = NoOwner /\ owner' = [owner EXCEPT !.phase = "present"]
    BY <2>1, <2>2, <2>6 DEF CacheOK, Owner, NoOwner
  <2>7. CASE /\ owner.phase = "present"
             /\ owner' = [owner EXCEPT !.deleting = TRUE,
                                       !.phase = IF owner.finalizer THEN "present" ELSE "gone"]
    BY <2>1, <2>2, <2>7 DEF CacheOK, Owner
  <2> QED BY <1>1, <1>3, <2>3, <2>4, <2>5, <2>6, <2>7 DEF OwnerAdvance
<1> QED BY <1>2, <1>3

\* The step of the reconcile changes with its own actions only; those of the
\* others leave it, or end it.
LEMMA WhoMoves ==
  ASSUME [Next]_vars
  PROVE  \/ UNCHANGED <<pc, obj>>
         \/ pc' = "idle"
         \/ Begin \/ AddFinalizer \/ InitStatus \/ FetchTemplate \/ HandlePreemption \/ Created
         \/ DeleteForUpdate \/ RecreateUpdated \/ DecideCheckpoint
         \/ ListBackups \/ BackupsDeleted \/ ListInstances
BY DEF Next, Reconcile, CreateInstance, CreateJob, DeleteInstance, UpdateStatus, RemoveFinalizer,
   DeleteBackup, Fail, RestorerDeletes, RestorerCreates, Crash, Sync, ByUser, Appear, Progress,
   Lose, Release, Becomes, Collect, BackupEnds, Return, Goto, vars, locals

\* While a reconcile works the finalizer stays.
LEMMA FinalizerStays ==
  ASSUME TypeOK, OwnerAdvance, owner.phase = "present", owner.finalizer, pc # "deleteInstances"
  PROVE  owner'.phase = "present" /\ owner'.finalizer
BY DEF OwnerAdvance, TypeOK, Owner, NoOwner

\* A reconcile that goes on to its work has found the finalizer in the cache, or
\* has just put it there.
LEMMA ReconcileStep == TypeOK /\ CacheOK /\ ReconcileOK /\ [Next]_vars => ReconcileOK'
<1> SUFFICES ASSUME TypeOK, CacheOK, ReconcileOK, [Next]_vars
             PROVE  ReconcileOK'
  OBVIOUS
<1> USE DEF Goto, Working, Deleting
<1>1. OwnerAdvance
  BY OwnerStep
<1>2. cache.deleting => cache'.deleting
  BY CacheFollows DEF CacheOK
<1>3. CASE pc' = "idle"
  BY <1>3 DEF ReconcileOK
<1>4. CASE UNCHANGED <<pc, obj>>
  BY <1>1, <1>2, <1>4, FinalizerStays DEF ReconcileOK
<1>5. CASE Begin
  <2>1. UNCHANGED <<owner, cache>> /\ cache.phase = "present" /\ obj' = cache
    BY <1>5 DEF Begin
  <2>2. CASE cache.deleting
    BY <1>5, <2>1, <2>2 DEF Begin, ReconcileOK
  <2>3. CASE ~cache.deleting /\ ~cache.finalizer
    BY <1>5, <2>1, <2>3 DEF Begin, ReconcileOK
  <2>4. CASE ~cache.deleting /\ cache.finalizer
    <3>1. owner.phase = "present" /\ owner.finalizer
      BY <2>4 DEF CacheOK
    <3>2. pc' \in {"initStatus", "template"}
      BY <1>5, <2>4 DEF Begin, AfterFinalizer
    <3> QED BY <2>1, <3>1, <3>2 DEF ReconcileOK
  <2> QED BY <2>2, <2>3, <2>4 DEF TypeOK, Owner
<1>6. CASE AddFinalizer
  <2>1. pc' \in {"initStatus", "template"}
    BY <1>6 DEF AddFinalizer, AfterFinalizer
  <2>2. owner'.phase = "present" /\ owner'.finalizer
    BY <1>6 DEF AddFinalizer, ReconcileOK, TypeOK, Owner
  <2> QED BY <2>1, <2>2 DEF ReconcileOK
<1>7. CASE \/ InitStatus \/ FetchTemplate \/ HandlePreemption \/ Created
           \/ DeleteForUpdate \/ RecreateUpdated \/ DecideCheckpoint
  <2>1. pc \in Working /\ pc' \in Working \cup {"idle"} /\ UNCHANGED owner
    BY <1>7 DEF InitStatus, FetchTemplate, HandlePreemption, DeleteForUpdate, RecreateUpdated,
       DecideCheckpoint, Created, Return
  <2> QED BY <2>1 DEF ReconcileOK
<1>8. CASE ListBackups \/ BackupsDeleted \/ ListInstances
  <2>1. pc \in Deleting /\ pc' \in Deleting /\ UNCHANGED cache
    BY <1>8 DEF ListBackups, BackupsDeleted, ListInstances
  <2> QED BY <2>1 DEF ReconcileOK
<1> HIDE DEF Goto, Working, Deleting
<1> QED BY <1>3, <1>4, <1>5, <1>6, <1>7, <1>8, WhoMoves

\* Which steps make a checkpoint one that is kept, or make it go.
LEMMA WhoKeeps ==
  ASSUME TypeOK, [Next]_vars
  PROVE  \/ Kept' = Kept
         \/ DecideCheckpoint
         \/ \E b \in Backups : DeleteBackup(b)
<1>1. CASE UNCHANGED backup
  BY <1>1 DEF Kept
<1>2. ASSUME NEW b \in Backups, BackupEnds(b)
      PROVE  Kept' = Kept
  BY <1>2 DEF BackupEnds, Kept, TypeOK
<1>3. \/ UNCHANGED backup
      \/ DecideCheckpoint
      \/ \E b \in Backups : DeleteBackup(b) \/ BackupEnds(b)
  BY DEF Next, Reconcile, Begin, AddFinalizer, InitStatus, FetchTemplate, HandlePreemption,
     CreateInstance, CreateJob, DeleteForUpdate, RecreateUpdated, DeleteInstance, Created,
     UpdateStatus, ListBackups, BackupsDeleted, ListInstances, RemoveFinalizer, Fail,
     RestorerDeletes, RestorerCreates, Crash, Sync, ByUser, Appear, Progress, Lose, Release,
     Becomes, Collect, vars
<1> QED BY <1>1, <1>2, <1>3

\* The finalizer stays until the SpotInstanceJob is gone, and then it stays gone.
LEMMA OwnerEnds ==
  ASSUME TypeOK, CacheOK, ReconcileOK, OwnerAdvance
  PROVE  /\ owner.finalizer => owner'.finalizer \/ owner'.phase = "gone"
         /\ owner.phase = "gone" => owner'.phase = "gone"
         /\ owner'.phase = "gone" =>
              owner.phase = "gone" \/ pc = "deleteInstances" \/ ~owner.finalizer
<1>1. owner \in Owner
  BY DEF TypeOK
<1>2. CASE pc = "addFinalizer" /\ obj = owner /\ owner' = [owner EXCEPT !.finalizer = TRUE]
  BY <1>1, <1>2 DEF ReconcileOK, Owner
<1>3. CASE UNCHANGED owner \/ \E n \in 0..jobs : owner' = [owner EXCEPT !.active = n]
  BY <1>1, <1>3 DEF Owner
<1>4. CASE /\ pc = "deleteInstances"
           /\ owner' = [owner EXCEPT !.finalizer = FALSE, !.phase = "gone"]
  BY <1>1, <1>4 DEF Owner
<1>5. CASE owner = NoOwner /\ owner' = [owner EXCEPT !.phase = "present"]
  BY <1>5 DEF NoOwner
<1>6. CASE /\ owner.phase = "present"
           /\ owner' = [owner EXCEPT !.deleting = TRUE,
                                     !.phase = IF owner.finalizer THEN "present" ELSE "gone"]
  BY <1>1, <1>6 DEF Owner
<1> QED BY <1>2, <1>3, <1>4, <1>5, <1>6 DEF OwnerAdvance

\* Three steps change what is kept, or given up.
LEMMA WhoSpares ==
  ASSUME TypeOK, [Next]_vars
  PROVE  \/ Kept' = Kept /\ UNCHANGED spared
         \/ DecideCheckpoint
         \/ ListBackups
         \/ \E b \in Backups : DeleteBackup(b)
<1>1. \/ UNCHANGED spared
      \/ ListBackups
      \/ \E b \in Backups : DeleteBackup(b)
  BY DEF Next, Reconcile, Begin, AddFinalizer, InitStatus, FetchTemplate, HandlePreemption,
     DecideCheckpoint, CreateInstance, CreateJob, DeleteForUpdate, RecreateUpdated,
     DeleteInstance, Created, UpdateStatus, BackupsDeleted, ListInstances, RemoveFinalizer, Fail,
     RestorerDeletes, RestorerCreates, Crash, Sync, ByUser, Appear, Progress, Lose, Release,
     Becomes, Collect, BackupEnds, vars
<1> QED BY <1>1, WhoKeeps

\* Where the reconcile comes from when it deletes.
LEMMA WhoDeletes ==
  ASSUME [Next]_vars,
         pc' \in {"deleteBackups", "listInstances", "deleteInstances"}
  PROVE  \/ ListBackups
         \/ \E b \in Backups : DeleteBackup(b)
         \/ BackupsDeleted
         \/ pc = "listInstances" /\ ListInstances
         \/ pc = "deleteInstances" /\ pc' = pc
         \/ pc' = pc /\ UNCHANGED doomed
BY DEF Next, Reconcile, Begin, AfterFinalizer, AddFinalizer, InitStatus, FetchTemplate,
   HandlePreemption, CreateInstance, CreateJob, DeleteForUpdate, RecreateUpdated,
   DecideCheckpoint, DeleteInstance, Created, UpdateStatus, RemoveFinalizer, ListInstances, Fail,
   RestorerDeletes, RestorerCreates, Crash, Sync, ByUser, Appear, Progress, Lose, Release,
   Becomes, Collect, BackupEnds, Return, Goto, vars, locals

\* No checkpoint is kept that handleDeletion has neither before it nor given up.
LEMMA BackupsStep == TypeOK /\ CacheOK /\ ReconcileOK /\ BackupsOK /\ [Next]_vars => BackupsOK'
<1> SUFFICES ASSUME TypeOK, CacheOK, ReconcileOK, BackupsOK, [Next]_vars
             PROVE  BackupsOK'
  OBVIOUS
<1> USE DEF Goto, BackupsReleased
<1>1. OwnerAdvance
  BY OwnerStep
<1>2. CASE DecideCheckpoint
  <2>1. owner.phase = "present" /\ owner.finalizer /\ UNCHANGED owner /\ pc' = "instances"
    BY <1>2 DEF DecideCheckpoint, ReconcileOK, Working
  <2> QED BY <2>1 DEF BackupsOK
<1>3. CASE ListBackups
  <2>1. UNCHANGED <<owner, backup>> /\ Kept' = Kept
    BY <1>3 DEF ListBackups, Kept
  <2>2. CASE pc' = "deleteBackups" /\ doomed' = [doomed EXCEPT !.backups = Kept] /\ UNCHANGED spared
    <3>1. doomed'.backups = Kept
      BY <2>2 DEF TypeOK
    <3> QED BY <2>1, <2>2, <3>1 DEF BackupsOK
  <2>3. CASE pc' = "listInstances" /\ spared' = spared \cup Kept
    BY <2>1, <2>3 DEF BackupsOK
  <2> QED BY <1>3, <2>2, <2>3 DEF ListBackups
<1>4. ASSUME NEW b \in Backups, DeleteBackup(b)
      PROVE  BackupsOK'
  <2>1. /\ pc = "deleteBackups" /\ UNCHANGED <<owner, pc>>
        /\ doomed' = [doomed EXCEPT !.backups = @ \ {b}]
    BY <1>4 DEF DeleteBackup
  <2>2. doomed'.backups = doomed.backups \ {b}
    BY <2>1 DEF TypeOK
  <2>3. \/ Kept' = Kept \ {b} /\ spared' = spared \ {b}
        \/ Kept' = Kept /\ spared' = spared \cup {b}
    BY <1>4 DEF DeleteBackup, Kept, TypeOK
  <2> QED BY <2>1, <2>2, <2>3 DEF BackupsOK
<1>5. CASE Kept' = Kept /\ UNCHANGED spared /\ ~ListBackups /\ ~\E b \in Backups : DeleteBackup(b)
  <2>1. Kept' # {} => owner'.finalizer \/ owner'.phase = "gone"
    BY <1>1, <1>5, OwnerEnds DEF BackupsOK
  <2>2. pc' = "deleteBackups" => Kept' \subseteq doomed'.backups \cup spared'
    <3>1. BackupsDeleted \/ ListInstances => pc' # "deleteBackups"
      BY DEF BackupsDeleted, ListInstances
    <3> QED BY <1>5, <3>1, WhoDeletes DEF BackupsOK
  <2>3. pc' \in {"listInstances", "deleteInstances"} => Kept' \subseteq spared'
    <3>1. BackupsDeleted => pc = "deleteBackups" /\ doomed.backups = {}
      BY DEF BackupsDeleted
    <3> QED BY <1>5, <3>1, WhoDeletes DEF BackupsOK
  <2>4. owner'.phase = "gone" => Kept' \subseteq spared'
    BY <1>1, <1>5, OwnerEnds DEF BackupsOK
  <2> QED BY <2>1, <2>2, <2>3, <2>4 DEF BackupsOK
<1> HIDE DEF Goto
<1> QED BY <1>2, <1>3, <1>4, <1>5, WhoSpares

\* The list of checkpoints to delete gets shorter, but where it is made.
LEMMA WhoDooms ==
  ASSUME TypeOK, [Next]_vars
  PROVE  \/ doomed'.backups \subseteq doomed.backups
         \/ ListBackups
<1>1. CASE doomed' = doomed \/ doomed' = Nothing
  BY <1>1 DEF Nothing
<1>2. CASE ListInstances
  BY <1>2 DEF ListInstances, TypeOK
<1>3. CASE \E i \in Instances : DeleteInstance(i)
  BY <1>3 DEF DeleteInstance, TypeOK
<1>4. CASE \E b \in Backups : DeleteBackup(b)
  BY <1>4 DEF DeleteBackup, TypeOK
<1> QED
  BY <1>1, <1>2, <1>3, <1>4 DEF Next, Reconcile, Begin, AddFinalizer, InitStatus, FetchTemplate,
     HandlePreemption, CreateInstance, CreateJob, DeleteForUpdate, RecreateUpdated,
     DecideCheckpoint, Created, UpdateStatus, BackupsDeleted, RemoveFinalizer, Fail,
     RestorerDeletes, RestorerCreates, Crash, Sync, ByUser, Appear, Progress, Lose, Release,
     Becomes, Collect, BackupEnds, Return, vars, locals

\* A checkpoint that was created stays so, deleted or not; one that was not is
\* created by the decision on a checkpoint only.
LEMMA BackupsStay ==
  ASSUME TypeOK, DoomedOK, [Next]_vars, NEW b \in Backups
  PROVE  /\ backup[b] # "none" => backup'[b] # "none"
         /\ backup[b] = "none" => backup'[b] = "none" \/ DecideCheckpoint
<1>1. CASE UNCHANGED backup
  BY <1>1
<1>2. CASE DecideCheckpoint
  BY <1>2 DEF DecideCheckpoint, TypeOK
<1>3. ASSUME NEW k \in Backups, DeleteBackup(k)
      PROVE  /\ backup[b] # "none" => backup'[b] # "none"
             /\ backup[b] = "none" => backup'[b] = "none"
  <2>1. backup[k] # "none"
    BY <1>3 DEF DeleteBackup, DoomedOK
  <2> QED BY <1>3, <2>1 DEF DeleteBackup, TypeOK
<1>4. ASSUME NEW k \in Backups, BackupEnds(k)
      PROVE  /\ backup[b] # "none" => backup'[b] # "none"
             /\ backup[b] = "none" => backup'[b] = "none"
  BY <1>4 DEF BackupEnds, TypeOK
<1> QED
  BY <1>1, <1>2, <1>3, <1>4 DEF Next, Reconcile, Begin, AddFinalizer, InitStatus, FetchTemplate,
     HandlePreemption, CreateInstance, CreateJob, DeleteForUpdate, RecreateUpdated,
     DeleteInstance, Created, UpdateStatus, ListBackups, BackupsDeleted, ListInstances,
     RemoveFinalizer, Fail, RestorerDeletes, RestorerCreates, Crash, Sync, ByUser, Appear,
     Progress, Lose, Release, Becomes, Collect, vars

\* handleDeletion deletes what it has listed.
LEMMA DoomedStep == TypeOK /\ DoomedOK /\ [Next]_vars => DoomedOK'
<1> SUFFICES ASSUME TypeOK, DoomedOK, [Next]_vars, NEW b \in doomed'.backups
             PROVE  backup'[b] # "none"
  BY DEF DoomedOK
<1>1. CASE b \in doomed.backups
  BY <1>1, BackupsStay DEF DoomedOK, TypeOK
<1>2. CASE ListBackups
  <2>1. UNCHANGED backup /\ (doomed' = [doomed EXCEPT !.backups = Kept] \/ UNCHANGED doomed)
    BY <1>2 DEF ListBackups
  <2>2. b \in Kept \cup doomed.backups
    BY <2>1 DEF TypeOK
  <2> QED BY <1>1, <2>1, <2>2 DEF Kept
<1> QED BY <1>1, <1>2, WhoDooms

-----------------------------------------------------------------------------
(***************************************************************************)
(* The invariant, and what follows from it.                                *)
(***************************************************************************)
\* At the start there is nothing.
LEMMA InvInit == Init => IInv
<1> SUFFICES ASSUME Init
             PROVE  IInv
  OBVIOUS
<1>1. TypeOK
  BY TypeInit
<1>2. CacheOK /\ ReconcileOK /\ BackupsOK /\ DoomedOK
  BY DEF Init, CacheOK, ReconcileOK, BackupsOK, DoomedOK, Nothing, BackupsReleased, Kept, NoOwner,
     Working, Deleting
<1> QED BY <1>1, <1>2 DEF IInv

\* Every step keeps it.
LEMMA InvStep == IInv /\ [Next]_vars => IInv'
BY TypeStep, CacheStep, ReconcileStep, BackupsStep, DoomedStep DEF IInv

\* The invariant holds whatever the worker has read from a cache that is behind,
\* and wherever it crashes.
THEOREM Invariance == Spec => []IInv
BY InvInit, InvStep, PTL DEF Spec

\* The variables keep their types.
THEOREM TypeCorrect == Spec => []TypeOK
<1>1. IInv => TypeOK
  BY DEF IInv
<1> QED BY <1>1, Invariance, PTL

\* When the SpotInstanceJob is gone, no CheckpointBackup is left but those whose
\* deletion has failed (handleDeletion, lines 59-86 of the status file).
THEOREM BackupsReleasedAlways == Spec => []BackupsReleased
<1>1. IInv => BackupsReleased
  BY DEF IInv, BackupsOK
<1> QED BY <1>1, Invariance, PTL

\* Instances and checkpoints are created only while the finalizer holds the
\* SpotInstanceJob, however old the version is that the reconcile works on (lines
\* 72-91 of the controller).
THEOREM CreatedForOwnerEver == Spec => CreatedForOwner
<1>1. ASSUME IInv, [Next]_vars
      PROVE  [(\/ \E i \in Instances :
                    instance[i].phase = "absent" /\ instance'[i].phase # "absent"
               \/ \E b \in Backups : backup[b] = "none" /\ backup'[b] # "none")
               => owner.phase = "present" /\ owner.finalizer]_vars
  <2> SUFFICES ASSUME ~(owner.phase = "present" /\ owner.finalizer), [Next]_vars
               PROVE  /\ \A i \in Instances :
                           instance[i].phase = "absent" => instance'[i].phase = "absent"
                      /\ \A b \in Backups : backup[b] = "none" => backup'[b] = "none"
    BY <1>1
  <2> USE DEF TypeOK
  <2>1. TypeOK /\ pc \notin Working
    BY <1>1 DEF IInv, ReconcileOK
  <2>2. ASSUME NEW i \in Instances, instance[i].phase = "absent"
        PROVE  instance'[i].phase = "absent"
    <3>1. CASE UNCHANGED instance
      BY <2>2, <3>1
    <3>2. ASSUME NEW k \in Instances, CreateInstance(k)
          PROVE  FALSE
      BY <2>1, <3>2 DEF CreateInstance, Working
    <3>3. ASSUME NEW k \in Instances, DeleteInstance(k)
          PROVE  instance'[i].phase = "absent"
      BY <2>1, <2>2, <3>3 DEF DeleteInstance, Exists
    <3>4. ASSUME NEW k \in Instances, Progress(k) \/ Lose(k) \/ Release(k)
          PROVE  instance'[i].phase = "absent"
      BY <2>1, <2>2, <3>4 DEF Progress, Lose, Release, Becomes
    <3>5. ASSUME Collect
          PROVE  instance'[i].phase = "absent"
      BY <2>1, <2>2, <3>5 DEF Collect, Exists
    <3> HIDE DEF TypeOK
    <3> QED
      BY <3>1, <3>2, <3>3, <3>4, <3>5 DEF Next, Reconcile, Begin, AddFinalizer, InitStatus,
         FetchTemplate, HandlePreemption, CreateJob, DeleteForUpdate, RecreateUpdated,
         DecideCheckpoint, Created, UpdateStatus, ListBackups, BackupsDeleted, ListInstances,
         RemoveFinalizer, DeleteBackup, Fail, RestorerDeletes, RestorerCreates, Crash, Sync,
         ByUser, Appear, BackupEnds, vars
  <2>3. ASSUME NEW b \in Backups, backup[b] = "none"
        PROVE  backup'[b] = "none"
    <3>1. ~DecideCheckpoint
      BY <2>1 DEF DecideCheckpoint, Working
    <3>2. DoomedOK
      BY <1>1 DEF IInv
    <3> QED BY <2>1, <2>3, <3>1, <3>2, BackupsStay
  <2> QED BY <2>2, <2>3
<1> QED BY <1>1, Invariance, PTL DEF Spec, CreatedForOwner
=============================================================================
