----------------------- MODULE SpotInstanceJobProofs -----------------------
(***************************************************************************)
(* Proofs about SpotInstanceJob, for every number of replicas, instances,  *)
(* Jobs, goroutines, preemptions and faults, and whatever the cache lacks. *)
(***************************************************************************)
EXTENDS SpotInstanceJob, Minimum, FiniteSetTheorems, TLAPS

-----------------------------------------------------------------------------
(***************************************************************************)
(* The helpers of the model.                                               *)
(***************************************************************************)
\* What the bounds of the model are, one by one.
LEMMA Bounds ==
  /\ Replicas \in Nat /\ Replicas > 0
  /\ MaxInstances \in Nat /\ MaxJobs \in Nat /\ MaxRestorers \in Nat
  /\ MaxPreemptions \in Nat /\ MaxFaults \in Nat
  /\ CacheLags \in BOOLEAN
BY BoundsAssumption DEF BoundsAssumption

\* Max of the indices is their bound.
LEMMA MaxIndex == Max(Indices) = Limit + Replicas + MaxFaults
BY Bounds DEF Indices, Limit, Max

\* How many instances and indices there are is a number.
LEMMA SubsetsFinite ==
  /\ \A S \in SUBSET Instances : Cardinality(S) \in Nat
  /\ \A S \in SUBSET Indices : Cardinality(S) \in Nat
<1>1. IsFiniteSet(Instances)
  BY Bounds, FS_Interval DEF Instances
<1>2. IsFiniteSet(Indices)
  <2>1. Limit + Replicas + MaxFaults \in Int
    BY Bounds DEF Limit
  <2> QED BY <2>1, FS_Interval DEF Indices
<1> QED BY <1>1, <1>2, FS_Subset, FS_CardinalityType

\* None is neither an instance nor a Job, and an instance is not elsewhere.
LEMMA NoneApart == None \notin Instances /\ None \notin Jobs /\ Elsewhere \notin Instances
BY Bounds DEF None, Instances, Jobs, Elsewhere

-----------------------------------------------------------------------------
(***************************************************************************)
(* The inductive invariant.                                                *)
(***************************************************************************)
\* What the steps of a reconcile have in hand: a Job to create again, or a new
\* one to place; Jobs still to restore only within handlePreemption's loop; no
\* checkpoint in progress while instances are created.
StepsOK ==
  /\ pc = "recreate" <=> updating # None
  /\ todo \subseteq jobsToUpdate
  /\ pc \notin {"restore", "recreate"} => todo = {}
  /\ pc = "createInstance" => ~Pending
  /\ pc = "placeJob" => needed > 0 /\ at < Limit

\* A goroutine has a Job, and deletes it only when it has seen a checkpoint:
\* completed ones stay.
GoroutinesOK ==
  \A r \in Restorers :
    /\ restorer[r].step # "idle" => restorer[r].job # None
    /\ restorer[r].step = "delete" => CompletedCheckpoints # {}

\* The instance that a Job is pinned to exists (and so does not change its
\* index), and is of the Job's replica.
HostsOK ==
  \A j \in Jobs :
    job[j].status # "absent" /\ job[j].pinned =>
      /\ job[j].host \in Instances
      /\ instance[job[j].host].phase # "absent"
      /\ instance[job[j].host].index = job[j].index

\* The replica of a Job has lost an instance.
LostReplica(j) == \E i \in Instances : instance[i].index = job[j].index /\ IsLost(i)

\* A goroutine may have found a Job by its node: then it is of such a replica, or
\* was placed by the scheduler, or another has restored it since.
MayGo(j) == LostReplica(j) \/ ~job[j].pinned \/ job[j].restored

\* Whatever handlePreemption and the goroutines hold may go.
LossesOK ==
  /\ \A i \in lost : IsLost(i)
  /\ \A j \in jobsToUpdate : LostReplica(j)
  /\ \A r \in Restorers : restorer[r].step # "idle" => MayGo(restorer[r].job)

IInv == TypeOK /\ StepsOK /\ GoroutinesOK /\ HostsOK /\ LossesOK /\ NameIsHeld

\* While instances are created, no live one has an index that is free, unless the
\* list has left it out.
IndicesOK ==
  /\ pc = "createInstance" =>
       \A i \in Instances :
         Live(i) => instance[i].index \in taken \/ i \in overlooked.unlisted
  /\ OneInstancePerReplica

-----------------------------------------------------------------------------
(***************************************************************************)
(* Types of what is written.                                               *)
(***************************************************************************)
\* The records of instances and Jobs, of what an informer has not delivered, and
\* of what was overlooked.
InstanceRecord == [phase : Phase, joined : BOOLEAN, index : Indices]
JobRecord  == [status : JobStatus, index : Indices, host : Instances \cup {None, Elsewhere},
               pinned : BOOLEAN, restored : BOOLEAN]
Deliveries == [instances : SUBSET Instances, jobs : SUBSET Jobs]
Oversights == [unlisted : SUBSET Instances, uncounted : SUBSET Instances]
Goroutine  == [step : {"idle", "get", "delete", "create"}, job : Jobs \cup {None}]

\* TypeOK in those words.
LEMMA RecordsTyped ==
  TypeOK => /\ instance \in [Instances -> InstanceRecord]
            /\ job \in [Jobs -> JobRecord]
            /\ unseen \in Deliveries
            /\ overlooked \in Oversights
            /\ restorer \in [Restorers -> Goroutine]
BY DEF TypeOK, InstanceRecord, JobRecord, Deliveries, Oversights, Goroutine

\* What appears late is an instance or a Job.
LEMMA LateTyped ==
  ASSUME NEW u \in Deliveries
  PROVE  /\ \A i \in Instances : [u EXCEPT !.instances = @ \cup {i}] \in Deliveries
         /\ \A j \in Jobs : [u EXCEPT !.jobs = @ \cup {j}] \in Deliveries
         /\ [u EXCEPT !.instances = {}] \in Deliveries
         /\ [u EXCEPT !.jobs = {}] \in Deliveries
BY DEF Deliveries

\* What is overlooked is added to what was.
LEMMA OverlookEffect ==
  ASSUME TypeOK, Overlook
  PROVE  /\ overlooked' \in Oversights
         /\ overlooked.unlisted \subseteq overlooked'.unlisted
         /\ overlooked.uncounted \subseteq overlooked'.uncounted
         /\ \A i \in Instances : Live(i) => i \in Listed \/ i \in overlooked'.unlisted
         /\ \A i \in Instances : Live(i) => i \in Counted \/ i \in overlooked'.uncounted
<1>1. overlooked \in Oversights /\ instance \in [Instances -> InstanceRecord]
  BY RecordsTyped
<1>2. /\ overlooked'.unlisted = overlooked.unlisted \cup ({i \in Instances : Live(i)} \ Listed)
      /\ overlooked'.uncounted = overlooked.uncounted \cup ({i \in Instances : Live(i)} \ Listed)
                                   \cup {i \in Instances : instance[i].phase = "staging"}
  BY DEF Overlook
<1>3. overlooked' \in Oversights
  BY <1>1 DEF Overlook, Oversights
<1>4. \A i \in Instances : Live(i) /\ i \in Listed => i \in Counted \/ instance[i].phase = "staging"
  BY <1>1 DEF Live, Counted, Listed, Lost, Phase, InstanceRecord
<1> QED BY <1>1, <1>2, <1>3, <1>4

\* Goroutines go from step to step.
LEMMA RestorerTyped ==
  ASSUME TypeOK, NEW r \in Restorers, NEW step \in {"idle", "get", "delete", "create"},
         Restorer(r, step)
  PROVE  restorer' \in [Restorers -> Goroutine]
BY RecordsTyped DEF Restorer, Idle, Goroutine

\* Fault counts up to its bound.
LEMMA FaultTyped ==
  ASSUME TypeOK
  PROVE  Fault => faults' \in 0..MaxFaults
BY Bounds DEF TypeOK, Fault

-----------------------------------------------------------------------------
(***************************************************************************)
(* What happens to Jobs: one is deleted, created again, created, or goes   *)
(* on.                                                                     *)
(***************************************************************************)
Deletes(j) ==
  /\ job[j].status # "absent"
  /\ job' = [job EXCEPT ![j] = Gone(@)]

\* A Job that is given a node is given that of a ready instance of its replica.
PlacedWell(new) == new.pinned => new.host \in ReadyFor(new.index)

Returns(j, new) ==
  /\ job[j].status = "absent" /\ new.status = "new"
  /\ new.index = job[j].index /\ new.restored /\ PlacedWell(new)
  /\ job' = [job EXCEPT ![j] = new]

Creates(j, new) ==
  /\ j \in NewJob /\ new.status = "new" /\ PlacedWell(new)
  /\ job' = [job EXCEPT ![j] = new]

GoesOn(j, new) ==
  /\ job[j].status # "absent" /\ new.status # "absent"
  /\ new.index = job[j].index /\ new.pinned = job[j].pinned /\ new.restored = job[j].restored
  /\ new.pinned => new.host = job[j].host
  /\ job' = [job EXCEPT ![j] = new]

\* The steps of those around the controller.
VMSteps(i)    == Progress(i) \/ Preempt(i) \/ Replace(i)
JobSteps(j)   == JobStarts(j) \/ JobFails(j) \/ JobSucceeds(j) \/ Schedule(j)
AgentSteps(j) == CheckpointCompletes(j) \/ CheckpointFails(j) \/ CheckpointAges(j)

\* Who deletes leaves the Job's replica index with its name.
LEMMA GoneTyped == \A o \in JobRecord : Gone(o) \in JobRecord /\ Gone(o).index = o.index
                                        /\ Gone(o).status = "absent" /\ ~Gone(o).pinned
BY DEF Gone, NoJob, JobRecord, JobStatus

\* A Job that is put on a host.
LEMMA OnHostTyped ==
  ASSUME NEW o \in JobRecord, NEW h \in Instances \cup {None}
  PROVE  /\ OnHost(o, h) \in JobRecord
         /\ OnHost(o, h).status = "new" /\ OnHost(o, h).index = o.index
         /\ OnHost(o, h).restored = o.restored
         /\ OnHost(o, h).pinned <=> h # None
         /\ OnHost(o, h).host = h
         /\ LET new == [OnHost(o, h) EXCEPT !.restored = TRUE] IN
            /\ new \in JobRecord
            /\ new.status = "new" /\ new.index = o.index /\ new.restored
            /\ new.pinned <=> h # None
            /\ new.host = h
BY DEF OnHost, JobRecord, JobStatus

\* A new Job appears in the cache, or does so later.
LEMMA PutTyped ==
  ASSUME TypeOK, NEW j \in Jobs, NEW new \in JobRecord, Put(j, new)
  PROVE  /\ job' = [job EXCEPT ![j] = new]
         /\ job' \in [Jobs -> JobRecord] /\ unseen' \in Deliveries
BY RecordsTyped, LateTyped DEF Put

\* CreateRestored brings the Job back or does nothing.
LEMMA RestoredEffect ==
  ASSUME TypeOK, NEW j \in Jobs, CreateRestored(j)
  PROVE  /\ job' \in [Jobs -> JobRecord] /\ unseen' \in Deliveries
         /\ faults' \in 0..MaxFaults
         /\ UNCHANGED <<job, unseen>> \/ \E new \in JobRecord : Returns(j, new)
<1> DEFINE new(h) == [OnHost(job[j], h) EXCEPT !.restored = TRUE]
<1>1. job \in [Jobs -> JobRecord] /\ unseen \in Deliveries
  BY RecordsTyped
<1>2. \/ UNCHANGED <<job, unseen>>
      \/ /\ job[j].status = "absent"
         /\ \E h \in ReadyFor(job[j].index) \cup {None} : Put(j, new(h))
  BY DEF CreateRestored
<1>3. ASSUME NEW h \in ReadyFor(job[j].index) \cup {None}, Put(j, new(h)),
             job[j].status = "absent"
      PROVE  /\ job' \in [Jobs -> JobRecord] /\ unseen' \in Deliveries
             /\ \E n \in JobRecord : Returns(j, n)
  <2>1. h \in Instances \cup {None}
    BY DEF ReadyFor, Listed
  <2>2. /\ new(h) \in JobRecord
        /\ new(h).status = "new" /\ new(h).index = job[j].index /\ new(h).restored
        /\ new(h).pinned <=> h # None
        /\ new(h).host = h
    BY <1>1, <2>1, OnHostTyped
  <2> HIDE DEF new
  <2>3. PlacedWell(new(h))
    BY <2>2 DEF PlacedWell
  <2>4. job' \in [Jobs -> JobRecord] /\ unseen' \in Deliveries /\ Returns(j, new(h))
    BY <1>3, <2>2, <2>3, PutTyped DEF Returns
  <2> QED BY <2>2, <2>4
<1>4. faults' \in 0..MaxFaults
  BY FaultTyped DEF CreateRestored, TypeOK
<1> QED BY <1>1, <1>2, <1>3, <1>4

\* The search for a free index always finds one.
LEMMA NextIndexFound ==
  ASSUME TypeOK
  PROVE  /\ NextIndex \in Nat /\ at <= NextIndex
         /\ NextIndex \notin taken \/ NextIndex >= Limit
<1> DEFINE S == {n \in at..(Max(Indices) + 1) : n \notin taken \/ (n > at /\ n >= Limit)}
<1>1. at \in Nat /\ at <= Max(Indices) /\ Max(Indices) \in Nat /\ Limit <= Max(Indices)
  BY MaxIndex, Bounds DEF TypeOK, Indices, Limit
<1>2. S \in SUBSET Nat
  BY <1>1
<1>3. Max(Indices) + 1 \in S
  BY <1>1, Bounds DEF Limit
<1>4. Min(S) \in S
  BY <1>2, <1>3, MinIsLeast
<1>5. NextIndex = Min(S)
  BY DEF NextIndex
<1> HIDE DEF S
<1>6. NextIndex \in S
  BY <1>4, <1>5
<1> QED BY <1>6, <1>1 DEF S

\* A name that is free is found, too.
LEMMA NamesFound ==
  /\ NewInstance # {} => Min(NewInstance) \in NewInstance
  /\ NewJob # {} => Min(NewJob) \in NewJob
<1>1. NewInstance \in SUBSET Nat /\ NewJob \in SUBSET Nat
  BY Bounds DEF NewInstance, NewJob, Instances, Jobs
<1> QED BY <1>1, MinIsLeast

\* An instance appears at the index that the loop has found, under a name that was
\* free.
CreatedInstance(i) ==
  /\ instance' = [instance EXCEPT ![i] = [phase |-> "starting", joined |-> FALSE,
                                          index |-> NextIndex]]
  /\ unseen' = IF CacheLags THEN [unseen EXCEPT !.instances = @ \cup {i}] ELSE unseen
  /\ taken' = taken \cup {NextIndex}
  /\ needed' = needed - 1
  /\ UNCHANGED faults

\* A step of the loop that creates instances is a failed Create, or one of a name
\* that is free.
LEMMA CreateInstanceEffect ==
  ASSUME TypeOK, CreateInstance
  PROVE  /\ pc = "createInstance" /\ needed > 0
         /\ NextIndex \in Indices /\ at' \in Indices
         /\ UNCHANGED <<job, checkpoint, pc, lost, active, current, jobsToUpdate, todo,
                        updating, restorer, preemptions, overlooked>>
         /\ \/ Fault /\ UNCHANGED <<instance, unseen, taken, needed>>
            \/ \E i \in NewInstance : CreatedInstance(i)
<1>1. NextIndex \in Nat /\ NextIndex < Limit + Replicas + MaxFaults
  BY NextIndexFound, MaxIndex DEF CreateInstance
<1>2. NextIndex \in Indices /\ NextIndex + 1 \in Indices
  BY <1>1, Bounds DEF Indices, Limit
<1>3. \/ Fault /\ UNCHANGED <<instance, unseen, taken, needed>>
      \/ NewInstance # {} /\ CreatedInstance(Min(NewInstance))
  BY DEF CreateInstance, CreatedInstance
<1>4. \/ Fault /\ UNCHANGED <<instance, unseen, taken, needed>>
      \/ \E i \in NewInstance : CreatedInstance(i)
  BY <1>3, NamesFound
<1> QED BY <1>2, <1>4 DEF CreateInstance

\* So it is for Jobs, pinned to a ready instance of the replica or not at all.
LEMMA PlaceJobEffect ==
  ASSUME TypeOK, StepsOK, PlaceJob
  PROVE  /\ pc = "placeJob" /\ pc' = "createJob"
         /\ taken' \subseteq Indices /\ needed' \in 0..Replicas /\ at' \in Indices
         /\ faults' \in 0..MaxFaults
         /\ UNCHANGED <<instance, checkpoint, lost, active, current, jobsToUpdate, todo,
                        updating, restorer, preemptions, overlooked>>
         /\ job' \in [Jobs -> JobRecord] /\ unseen' \in Deliveries
         /\ \/ UNCHANGED <<job, unseen>>
            \/ \E j \in NewJob, new \in JobRecord : Creates(j, new)
<1> DEFINE new(h) == OnHost([NoJob EXCEPT !.index = at], h)
<1>1. /\ pc = "placeJob" /\ pc' = "createJob" /\ at' = at + 1
      /\ UNCHANGED <<instance, checkpoint, lost, active, current, jobsToUpdate, todo,
                     updating, restorer, preemptions, overlooked>>
  BY DEF PlaceJob, Goto
<1>2. at \in Indices /\ at' \in Indices /\ needed \in 0..Replicas /\ needed > 0
  BY <1>1, Bounds DEF StepsOK, TypeOK, Indices, Limit
<1>3. \/ Fault /\ UNCHANGED <<job, unseen, taken, needed>>
      \/ /\ NewJob # {} /\ taken' = taken \cup {at} /\ needed' = needed - 1
         /\ UNCHANGED faults \/ Fault
         /\ \E h \in ReadyFor(at) \cup {None} : Put(Min(NewJob), new(h))
  BY DEF PlaceJob
<1>4. taken' \subseteq Indices /\ needed' \in 0..Replicas /\ faults' \in 0..MaxFaults
  BY <1>2, <1>3, FaultTyped, Bounds DEF TypeOK
<1>5. job \in [Jobs -> JobRecord] /\ unseen \in Deliveries
  BY RecordsTyped
<1>6. ASSUME NEW h \in ReadyFor(at) \cup {None}, NEW j \in NewJob, Put(j, new(h))
      PROVE  /\ job' \in [Jobs -> JobRecord] /\ unseen' \in Deliveries
             /\ \E n \in JobRecord : Creates(j, n)
  <2>1. h \in Instances \cup {None} /\ j \in Jobs
    BY DEF ReadyFor, Listed, NewJob
  <2> DEFINE o == [NoJob EXCEPT !.index = at]
  <2>2. o \in JobRecord /\ o.index = at
    BY <1>2 DEF NoJob, JobRecord, JobStatus
  <2>3. new(h) = OnHost(o, h)
    OBVIOUS
  <2> HIDE DEF o, new
  <2>4. /\ OnHost(o, h) \in JobRecord
        /\ OnHost(o, h).status = "new" /\ OnHost(o, h).index = at
        /\ OnHost(o, h).pinned <=> h # None
        /\ OnHost(o, h).host = h
    BY <2>1, <2>2, OnHostTyped
  <2>5. PlacedWell(OnHost(o, h))
    BY <2>4 DEF PlacedWell
  <2>6. Put(j, OnHost(o, h))
    BY <1>6, <2>3
  <2>7. job' \in [Jobs -> JobRecord] /\ unseen' \in Deliveries /\ Creates(j, OnHost(o, h))
    BY <2>1, <2>4, <2>5, <2>6, PutTyped DEF Creates
  <2> QED BY <2>4, <2>7
<1> HIDE DEF new
<1>7. CASE NewJob # {} /\ \E h \in ReadyFor(at) \cup {None} : Put(Min(NewJob), new(h))
  <2>1. Min(NewJob) \in NewJob
    BY <1>7, NamesFound
  <2>2. PICK h \in ReadyFor(at) \cup {None} : Put(Min(NewJob), new(h))
    BY <1>7
  <2>3. /\ job' \in [Jobs -> JobRecord] /\ unseen' \in Deliveries
        /\ \E n \in JobRecord : Creates(Min(NewJob), n)
    BY <1>6, <2>1, <2>2
  <2> QED BY <1>1, <1>2, <1>4, <2>1, <2>3
<1>8. CASE UNCHANGED <<job, unseen>>
  BY <1>1, <1>2, <1>4, <1>5, <1>8
<1> QED BY <1>3, <1>7, <1>8

\* What the Job controller and the scheduler do to a Job.
LEMMA JobControllerEffect ==
  ASSUME TypeOK, NEW j \in Jobs, JobSteps(j)
  PROVE  /\ UNCHANGED <<instance, checkpoint, unseen, pc, locals, restorer, preemptions,
                        overlooked>>
         /\ faults' \in 0..MaxFaults
         /\ \E new \in JobRecord : GoesOn(j, new)
<1>1. job \in [Jobs -> JobRecord] /\ job[j] \in JobRecord
  BY RecordsTyped
<1>2. /\ faults' \in 0..MaxFaults
      /\ UNCHANGED <<instance, checkpoint, unseen, pc, locals, restorer, preemptions, overlooked>>
  BY FaultTyped DEF JobSteps, JobStarts, JobFails, JobSucceeds, Schedule, JobBecomes, TypeOK
<1> SUFFICES \E new \in JobRecord : GoesOn(j, new)
  BY <1>2
<1>3. ASSUME NEW status \in JobStatus \ {"absent"}, job[j].status # "absent",
             JobBecomes(j, [job[j] EXCEPT !.status = status])
      PROVE  \E new \in JobRecord : GoesOn(j, new)
  <2> DEFINE new == [job[j] EXCEPT !.status = status]
  <2>1. /\ new \in JobRecord /\ new.status = status /\ new.index = job[j].index
        /\ new.pinned = job[j].pinned /\ new.restored = job[j].restored
        /\ new.host = job[j].host
    BY <1>1 DEF JobRecord
  <2>2. job' = [job EXCEPT ![j] = new]
    BY <1>3 DEF JobBecomes
  <2> HIDE DEF new
  <2>3. GoesOn(j, new)
    BY <1>3, <2>1, <2>2 DEF GoesOn
  <2> QED BY <2>1, <2>3
<1>4. CASE JobStarts(j)
  BY <1>3, <1>4 DEF JobStarts, JobStatus
<1>5. CASE JobFails(j)
  BY <1>3, <1>5 DEF JobFails, JobStatus
<1>6. CASE JobSucceeds(j)
  BY <1>3, <1>6 DEF JobSucceeds, JobStatus
<1>7. CASE Schedule(j)
  <2>1. PICK h \in Instances \cup {None, Elsewhere} : JobBecomes(j, [job[j] EXCEPT !.host = h])
    BY <1>7 DEF Schedule
  <2> DEFINE new == [job[j] EXCEPT !.host = h]
  <2>2. /\ new \in JobRecord /\ new.status = job[j].status /\ new.index = job[j].index
        /\ new.pinned = job[j].pinned /\ new.restored = job[j].restored
    BY <1>1 DEF JobRecord
  <2>3. job' = [job EXCEPT ![j] = new]
    BY <2>1 DEF JobBecomes
  <2> HIDE DEF new
  <2>4. GoesOn(j, new)
    BY <1>7, <2>2, <2>3 DEF GoesOn, Schedule
  <2> QED BY <2>2, <2>4
<1> QED BY <1>4, <1>5, <1>6, <1>7 DEF JobSteps

\* What the controller of an instance does to it: one that is there stays, at its
\* index, and a lost one stays lost.
InstanceGoesOn(i, new) ==
  /\ instance[i].phase # "absent" /\ new.phase # "absent"
  /\ new.index = instance[i].index
  /\ IsLost(i) => new.phase \in Lost
  /\ instance' = [instance EXCEPT ![i] = new]

\* Each of its steps does that to one instance, and nothing else.
LEMMA InstanceControllerEffect ==
  ASSUME TypeOK, NEW i \in Instances, VMSteps(i)
  PROVE  /\ UNCHANGED <<job, checkpoint, unseen, pc, locals, restorer, overlooked>>
         /\ preemptions' \in 0..MaxPreemptions /\ faults' \in 0..MaxFaults
         /\ \E new \in InstanceRecord : InstanceGoesOn(i, new)
<1>1. instance \in [Instances -> InstanceRecord] /\ instance[i] \in InstanceRecord
  BY RecordsTyped
<1>2. UNCHANGED <<job, checkpoint, unseen, pc, locals, restorer, overlooked>>
  BY DEF VMSteps, Progress, Preempt, Replace, Becomes
<1>3. preemptions' \in 0..MaxPreemptions /\ faults' \in 0..MaxFaults
  BY FaultTyped, Bounds DEF VMSteps, Progress, Preempt, Replace, TypeOK, bounds
<1> SUFFICES \E new \in InstanceRecord : InstanceGoesOn(i, new)
  BY <1>2, <1>3
<1>4. ASSUME NEW phase \in Phase \ {"absent"}, instance[i].phase # "absent",
             IsLost(i) => phase \in Lost, Becomes(i, [instance[i] EXCEPT !.phase = phase])
      PROVE  \E new \in InstanceRecord : InstanceGoesOn(i, new)
  <2> DEFINE new == [instance[i] EXCEPT !.phase = phase]
  <2>1. new \in InstanceRecord /\ new.phase = phase /\ new.index = instance[i].index
    BY <1>1 DEF InstanceRecord
  <2>2. instance' = [instance EXCEPT ![i] = new]
    BY <1>4 DEF Becomes
  <2> HIDE DEF new
  <2>3. InstanceGoesOn(i, new)
    BY <1>4, <2>1, <2>2 DEF InstanceGoesOn
  <2> QED BY <2>1, <2>3
<1>5. CASE Progress(i)
  <2>1. CASE Becomes(i, [instance[i] EXCEPT !.joined = TRUE]) /\ instance[i].phase = "running"
    <3> DEFINE new == [instance[i] EXCEPT !.joined = TRUE]
    <3>1. new \in InstanceRecord /\ new.phase = "running" /\ new.index = instance[i].index
      BY <1>1, <2>1 DEF InstanceRecord
    <3>2. instance' = [instance EXCEPT ![i] = new]
      BY <2>1 DEF Becomes
    <3> HIDE DEF new
    <3>3. InstanceGoesOn(i, new)
      BY <2>1, <3>1, <3>2 DEF InstanceGoesOn, IsLost, Lost
    <3> QED BY <3>1, <3>3
  <2>2. CASE \E step \in {<<"starting", "staging">>, <<"staging", "running">>,
                          <<"starting", "running">>, <<"stopping", "terminated">>} :
               /\ instance[i].phase = step[1]
               /\ Becomes(i, [instance[i] EXCEPT !.phase = step[2]])
    BY <1>4, <2>2 DEF IsLost, Lost, Phase
  <2> QED BY <1>5, <2>1, <2>2 DEF Progress
<1>6. CASE Preempt(i)
  BY <1>4, <1>6 DEF Preempt, Live, Lost, Phase
<1>7. CASE Replace(i)
  BY <1>4, <1>7 DEF Replace, IsLost, Lost, Phase
<1> QED BY <1>5, <1>6, <1>7 DEF VMSteps

\* The agent's steps: completed checkpoints stay, and none is begun.
LEMMA AgentEffect ==
  ASSUME NEW j \in Jobs, AgentSteps(j)
  PROVE  \E from \in {"pending", "recent"}, to \in {"recent", "old", "none"} :
           CheckpointBecomes(j, from, to) /\ (from = "recent" => to = "old")
BY DEF AgentSteps, CheckpointCompletes, CheckpointFails, CheckpointAges

-----------------------------------------------------------------------------
(***************************************************************************)
(* Which actions write what.                                               *)
(***************************************************************************)
\* Jobs are written by the two places that delete them, the three that create
\* them, the Job controller and the scheduler.
JobWrites ==
  \/ \E j \in Jobs : DeleteForUpdate(j) \/ JobSteps(j)
  \/ RecreateUpdated \/ PlaceJob
  \/ \E r \in Restorers : RestorerDelete(r) \/ RestorerCreate(r)

\* Instances are written by the loop that creates them and by their own
\* controller, checkpoints by handlePreemption and the agent, what was overlooked
\* by the list of instances.
LEMMA WhoWrites ==
  ASSUME Next
  PROVE  /\ \/ UNCHANGED instance
            \/ CreateInstance
            \/ \E i \in Instances : VMSteps(i)
         /\ UNCHANGED job \/ JobWrites
         /\ \/ UNCHANGED checkpoint
            \/ DecideCheckpoint
            \/ \E j \in Jobs : AgentSteps(j)
         /\ UNCHANGED overlooked \/ Overlook
<1> USE DEF JobWrites, Finish, Goto, locals, bounds
<1>1. CASE Begin
  BY <1>1 DEF Begin
<1>2. CASE \E i \in Instances : HandleLost(i)
  BY <1>2 DEF HandleLost
<1>3. CASE \E j \in Jobs : DeleteForUpdate(j)
  BY <1>3 DEF DeleteForUpdate
<1>4. CASE RecreateUpdated
  BY <1>4 DEF RecreateUpdated
<1>5. CASE CheckpointsProcessed
  BY <1>5 DEF CheckpointsProcessed
<1>6. CASE DecideCheckpoint
  BY <1>6 DEF DecideCheckpoint
<1>7. CASE PreemptionHandled
  BY <1>7 DEF PreemptionHandled
<1>8. CASE ReconcileInstances \/ ReconcileJobs
  BY <1>8 DEF ReconcileInstances, ReconcileJobs
<1>9. CASE CreateInstance
  BY <1>9 DEF CreateInstance
<1>10. CASE InstancesCreated \/ JobsCreated \/ CreateJob
  BY <1>10 DEF InstancesCreated, JobsCreated, CreateJob
<1>11. CASE PlaceJob
  BY <1>11 DEF PlaceJob
<1>12. CASE \E r \in Restorers : RestorerGet(r)
  BY <1>12 DEF RestorerGet
<1>13. CASE \E r \in Restorers : RestorerDelete(r)
  BY <1>13 DEF RestorerDelete
<1>14. CASE \E r \in Restorers : RestorerCreate(r)
  BY <1>14 DEF RestorerCreate
<1>15. CASE Abort \/ Crash \/ Appear
  BY <1>15 DEF Abort, Crash, Appear
<1>16. CASE \E i \in Instances : VMSteps(i)
  BY <1>16 DEF VMSteps, Progress, Preempt, Replace, Becomes
<1>17. CASE \E j \in Jobs : JobSteps(j)
  BY <1>17 DEF JobSteps, JobStarts, JobFails, JobSucceeds, Schedule, JobBecomes
<1>18. CASE \E j \in Jobs : AgentSteps(j)
  BY <1>18, AgentEffect DEF CheckpointBecomes
<1> QED
  BY <1>1, <1>2, <1>3, <1>4, <1>5, <1>6, <1>7, <1>8, <1>9, <1>10, <1>11, <1>12, <1>13,
     <1>14, <1>15, <1>16, <1>17, <1>18
  DEF Next, Reconcile, Restore, VMSteps, JobSteps, AgentSteps

\* A step of a goroutine that has something to do has a Job.
LEMMA GoroutineHasJob ==
  ASSUME TypeOK, GoroutinesOK, NEW r \in Restorers, restorer[r].step # "idle"
  PROVE  restorer[r].job \in Jobs
BY DEF TypeOK, GoroutinesOK

\* What a goroutine's deletion does.
LEMMA RestorerDeleteEffect ==
  ASSUME TypeOK, GoroutinesOK, NEW r \in Restorers, RestorerDelete(r)
  PROVE  \E j \in Jobs : /\ j = restorer[r].job /\ restorer[r].step = "delete"
                         /\ \/ job[j].status = "absent" /\ UNCHANGED job /\ Restorer(r, "idle")
                            \/ Deletes(j) /\ Restorer(r, "create")
<1>1. restorer[r].job \in Jobs /\ restorer[r].step = "delete"
  BY GoroutineHasJob DEF RestorerDelete
<1> QED BY <1>1 DEF RestorerDelete, Deletes

\* So every write of the Jobs is of one of four kinds.
LEMMA JobEffect ==
  ASSUME TypeOK, StepsOK, GoroutinesOK, [Next]_vars
  PROVE  \/ UNCHANGED job
         \/ \E j \in Jobs : \/ Deletes(j)
                            \/ \E new \in JobRecord : \/ Returns(j, new)
                                                      \/ Creates(j, new)
                                                      \/ GoesOn(j, new)
<1> DEFINE Changes == \E j \in Jobs : \/ Deletes(j)
                                      \/ \E new \in JobRecord : \/ Returns(j, new)
                                                                \/ Creates(j, new)
                                                                \/ GoesOn(j, new)
<1>1. ASSUME NEW j \in Jobs, DeleteForUpdate(j)
      PROVE  Changes
  BY <1>1 DEF DeleteForUpdate, Deletes, ListedJobs
<1>2. ASSUME NEW j \in Jobs, JobSteps(j)
      PROVE  Changes
  BY <1>2, JobControllerEffect
<1>3. ASSUME RecreateUpdated
      PROVE  UNCHANGED job \/ Changes
  <2>1. updating \in Jobs
    BY <1>3 DEF RecreateUpdated, StepsOK, TypeOK
  <2> QED BY <1>3, <2>1, RestoredEffect DEF RecreateUpdated
<1>4. ASSUME PlaceJob
      PROVE  UNCHANGED job \/ Changes
  BY <1>4, PlaceJobEffect DEF NewJob
<1>5. ASSUME NEW r \in Restorers, RestorerDelete(r)
      PROVE  UNCHANGED job \/ Changes
  BY <1>5, RestorerDeleteEffect
<1>6. ASSUME NEW r \in Restorers, RestorerCreate(r)
      PROVE  UNCHANGED job \/ Changes
  <2>1. restorer[r].job \in Jobs
    BY <1>6, GoroutineHasJob DEF RestorerCreate
  <2> QED BY <1>6, <2>1, RestoredEffect DEF RestorerCreate
<1> HIDE DEF Changes
<1>7. UNCHANGED job \/ Changes
  <2>1. CASE UNCHANGED job
    BY <2>1
  <2>2. CASE JobWrites
    BY <1>1, <1>2, <1>3, <1>4, <1>5, <1>6, <2>2 DEF JobWrites
  <2>3. CASE Next
    BY <2>1, <2>2, <2>3, WhoWrites, Zenon
  <2> QED BY <2>1, <2>3 DEF vars
<1> QED BY <1>7 DEF Changes

\* The other Jobs are left alone.
LEMMA OtherJobs ==
  ASSUME TypeOK, NEW j \in Jobs,
         Deletes(j) \/ \E new \in JobRecord : Returns(j, new) \/ Creates(j, new) \/ GoesOn(j, new)
  PROVE  \A k \in Jobs \ {j} : job'[k] = job[k]
BY DEF Deletes, Returns, Creates, GoesOn, TypeOK

-----------------------------------------------------------------------------
(***************************************************************************)
(* Type correctness.                                                       *)
(***************************************************************************)
\* Finish leaves every local in its type.
LEMMA FinishTyped ==
  ASSUME Finish
  PROVE  /\ pc' \in Step
         /\ lost' \subseteq Instances /\ active' \in BOOLEAN
         /\ current' \in Instances \cup {None}
         /\ jobsToUpdate' \subseteq Jobs /\ todo' \subseteq Jobs
         /\ updating' \in Jobs \cup {None}
         /\ taken' \subseteq Indices /\ needed' \in 0..Replicas /\ at' \in Indices
<1>1. active' \in BOOLEAN
  BY Zenon DEF Finish
<1>2. /\ pc' = "idle" /\ lost' = {} /\ current' = None /\ jobsToUpdate' = {} /\ todo' = {}
      /\ updating' = None /\ taken' = {} /\ needed' = 0 /\ at' = 0
  BY DEF Finish, Goto
<1>3. 0 \in Indices /\ 0 \in 0..Replicas
  BY Bounds DEF Indices, Limit
<1> QED BY <1>1, <1>2, <1>3 DEF Step

\* So does Missing, which begins the two creating loops.
LEMMA MissingTyped ==
  ASSUME TypeOK, NEW held \in SUBSET Indices, NEW n \in Nat,
         NEW step \in {"createInstance", "createJob"}, Missing(held, n, step)
  PROVE  /\ pc' \in Step
         /\ lost' \subseteq Instances /\ active' \in BOOLEAN
         /\ current' \in Instances \cup {None}
         /\ jobsToUpdate' \subseteq Jobs /\ todo' \subseteq Jobs
         /\ updating' \in Jobs \cup {None}
         /\ taken' \subseteq Indices /\ needed' \in 0..Replicas /\ at' \in Indices
<1>1. CASE n < Replicas
  <2>1. Replicas - n \in 0..Replicas /\ 0 \in Indices
    BY <1>1, Bounds DEF Indices, Limit
  <2>2. /\ taken' = held /\ needed' = Replicas - n /\ at' = 0 /\ pc' = step
        /\ UNCHANGED <<lost, active, current, jobsToUpdate, todo, updating>>
    BY <1>1 DEF Missing, Goto
  <2> QED BY <2>1, <2>2 DEF Step, TypeOK
<1>2. CASE ~(n < Replicas) /\ step = "createInstance"
  BY <1>2 DEF Missing, Goto, Step, TypeOK, locals
<1>3. CASE ~(n < Replicas) /\ step # "createInstance"
  BY <1>3, FinishTyped DEF Missing
<1> QED BY <1>1, <1>2, <1>3

\* The controller starts with every variable in its type.
LEMMA TypeInit == Init => TypeOK
<1> SUFFICES ASSUME Init
             PROVE  TypeOK
  OBVIOUS
<1>1. 0 \in Indices /\ 0 \in 0..Replicas /\ 0 \in 0..MaxPreemptions /\ 0 \in 0..MaxFaults
  BY Bounds DEF Indices, Limit
<1>2. NoInstance \in InstanceRecord /\ NoJob \in JobRecord /\ Idle \in Goroutine
  BY <1>1 DEF NoInstance, NoJob, Idle, InstanceRecord, JobRecord, Goroutine, Phase, JobStatus
<1>3. /\ instance \in [Instances -> InstanceRecord] /\ job \in [Jobs -> JobRecord]
      /\ restorer \in [Restorers -> Goroutine]
  BY <1>2 DEF Init
<1>4. active \in BOOLEAN
  BY Zenon DEF Init
<1>5. /\ checkpoint \in [Jobs -> {"none", "pending"} \cup Completed]
      /\ unseen \in Deliveries /\ overlooked \in Oversights /\ pc \in Step
      /\ lost \subseteq Instances /\ current \in Instances \cup {None}
      /\ jobsToUpdate \subseteq Jobs /\ todo \subseteq Jobs /\ updating \in Jobs \cup {None}
      /\ taken \subseteq Indices /\ needed \in 0..Replicas /\ at \in Indices
      /\ preemptions \in 0..MaxPreemptions /\ faults \in 0..MaxFaults
  BY <1>1 DEF Init, Step, Deliveries, Oversights
<1> QED BY <1>3, <1>4, <1>5, Zenon
        DEF TypeOK, InstanceRecord, JobRecord, Goroutine, Deliveries, Oversights

\* A goroutine that is started has a Job of the node that was lost.
LEMMA StartedGoroutines ==
  ASSUME TypeOK, NEW i \in Instances, HandleLost(i)
  PROVE  /\ restorer' \in [Restorers -> Goroutine]
         /\ \A r \in Restorers :
              \/ restorer'[r] = restorer[r]
              \/ /\ restorer'[r].step = "get"
                 /\ restorer'[r].job \in OnNode(i) \cup OnNodeNew(i)
<1>1. CASE UNCHANGED restorer
  BY <1>1, RecordsTyped
<1>2. ASSUME NEW new \in SUBSET OnNodeNew(i), StartRestorers(OnNode(i) \cup new)
      PROVE  /\ restorer' \in [Restorers -> Goroutine]
             /\ \A r \in Restorers :
                  \/ restorer'[r] = restorer[r]
                  \/ /\ restorer'[r].step = "get"
                     /\ restorer'[r].job \in OnNode(i) \cup OnNodeNew(i)
  <2> DEFINE found == OnNode(i) \cup new
  <2>1. found \subseteq Jobs /\ found \subseteq OnNode(i) \cup OnNodeNew(i)
    BY DEF OnNode, OnNodeNew, ListedJobs
  <2> HIDE DEF found
  <2>2. PICK start \in SUBSET Restorers :
          \E f \in [start -> found] :
            restorer' = [r \in Restorers |-> IF r \in start THEN [step |-> "get", job |-> f[r]]
                                             ELSE restorer[r]]
    BY <1>2 DEF StartRestorers, found
  <2>3. PICK f \in [start -> found] :
          restorer' = [r \in Restorers |-> IF r \in start THEN [step |-> "get", job |-> f[r]]
                                           ELSE restorer[r]]
    BY <2>2
  <2>4. \A r \in start : f[r] \in found
    OBVIOUS
  <2>5. restorer' \in [Restorers -> Goroutine]
    BY <2>1, <2>3, <2>4, RecordsTyped DEF Goroutine
  <2> QED BY <2>1, <2>3, <2>4, <2>5
<1> QED BY <1>1, <1>2 DEF HandleLost

\* Every step keeps the types.
LEMMA TypeStep == TypeOK /\ StepsOK /\ GoroutinesOK /\ [Next]_vars => TypeOK'
<1> SUFFICES ASSUME TypeOK, StepsOK, GoroutinesOK, [Next]_vars
             PROVE  TypeOK'
  OBVIOUS
<1> USE DEF Goto
<1>1. CASE Begin
  <2>1. lost' \subseteq Instances /\ pc' \in Step /\ faults' \in 0..MaxFaults
    BY <1>1, FaultTyped DEF Begin, TypeOK, Step, Listed
  <2>2. active' = active \/ active' = \E i \in Listed : instance[i].phase = "running"
    BY <1>1, Zenon DEF Begin
  <2>3. active' \in BOOLEAN
    BY <2>2, Zenon DEF TypeOK
  <2>4. UNCHANGED <<instance, job, checkpoint, unseen, current, jobsToUpdate, todo, updating,
                    taken, needed, at, restorer, preemptions, overlooked>>
    BY <1>1 DEF Begin
  <2> HIDE DEF Goto
  <2> QED BY <2>1, <2>3, <2>4 DEF TypeOK
<1>2. ASSUME NEW i \in Instances, HandleLost(i)
      PROVE  TypeOK'
  <2>1. jobsToUpdate' \subseteq Jobs /\ faults' \in 0..MaxFaults
    BY <1>2, FaultTyped DEF HandleLost, TypeOK, JobsOfReplica, ListedJobs
  <2>2. restorer' \in [Restorers -> Goroutine]
    BY <1>2, StartedGoroutines
  <2>3. /\ lost' \subseteq Instances /\ pc' \in Step
        /\ current' \in Instances \cup {None} /\ todo' \subseteq Jobs
    BY <1>2, <2>1 DEF HandleLost, TypeOK, Step
  <2>4. UNCHANGED <<instance, job, checkpoint, unseen, active, updating, taken, needed, at,
                    preemptions, overlooked>>
    BY <1>2 DEF HandleLost
  <2> QED BY <2>1, <2>2, <2>3, <2>4 DEF TypeOK, Goroutine
<1>3. ASSUME NEW j \in Jobs, DeleteForUpdate(j)
      PROVE  TypeOK'
  <2>1. job' = [job EXCEPT ![j] = Gone(job[j])]
    BY <1>3 DEF DeleteForUpdate
  <2>2. job' \in [Jobs -> JobRecord]
    BY <2>1, RecordsTyped, GoneTyped
  <2> QED BY <1>3, <2>2 DEF DeleteForUpdate, TypeOK, Step, JobRecord, bounds
<1>4. CASE RecreateUpdated
  <2>1. updating \in Jobs
    BY <1>4 DEF RecreateUpdated, StepsOK, TypeOK
  <2>2. job' \in [Jobs -> JobRecord] /\ unseen' \in Deliveries /\ faults' \in 0..MaxFaults
    BY <1>4, <2>1, RestoredEffect DEF RecreateUpdated
  <2> QED BY <1>4, <2>2 DEF RecreateUpdated, TypeOK, Step, JobRecord, Deliveries
<1>5. CASE CheckpointsProcessed
  BY <1>5, FaultTyped DEF CheckpointsProcessed, TypeOK, Step
<1>6. CASE DecideCheckpoint
  <2>1. checkpoint' \in [Jobs -> {"none", "pending"} \cup Completed]
    <3>1. UNCHANGED checkpoint \/ \E j \in Jobs : Checkpointed(j)
      BY <1>6 DEF DecideCheckpoint, Alive, AliveNew, ListedJobs
    <3> QED BY <3>1 DEF TypeOK, Checkpointed
  <2>2. faults' \in 0..MaxFaults
    BY <1>6, FaultTyped DEF DecideCheckpoint, TypeOK
  <2> QED BY <1>6, <2>1, <2>2 DEF DecideCheckpoint, TypeOK, Step
<1>7. CASE PreemptionHandled
  <2>1. active' \in BOOLEAN
    BY <1>7, Zenon DEF PreemptionHandled
  <2> QED BY <1>7, <2>1 DEF PreemptionHandled, TypeOK, Step, bounds
<1>8. CASE ReconcileInstances
  <2>1. /\ UNCHANGED <<instance, job, checkpoint, unseen, restorer, preemptions>>
        /\ faults' \in 0..MaxFaults
    BY <1>8, FaultTyped DEF ReconcileInstances, TypeOK
  <2>2. overlooked' \in Oversights
    BY <1>8, RecordsTyped, OverlookEffect DEF ReconcileInstances
  <2>3. CASE pc' = "jobs" /\ UNCHANGED locals
    BY <2>1, <2>2, <2>3 DEF TypeOK, Step, locals, Oversights
  <2>4. CASE Missing({instance[i].index : i \in Holding}, Cardinality(Counted), "createInstance")
    <3>1. {instance[i].index : i \in Holding} \in SUBSET Indices
      BY DEF TypeOK, Holding, Listed
    <3>2. Cardinality(Counted) \in Nat
      BY SubsetsFinite DEF Counted, Listed
    <3> HIDE DEF Goto
    <3> QED BY <2>1, <2>2, <2>4, <3>1, <3>2, MissingTyped DEF TypeOK, Oversights
  <2> QED BY <1>8, <2>3, <2>4 DEF ReconcileInstances
<1>9. CASE CreateInstance
  <2>1. CASE Fault /\ UNCHANGED <<instance, unseen, taken, needed>>
    BY <1>9, <2>1, CreateInstanceEffect, FaultTyped DEF TypeOK
  <2>2. CASE \E i \in NewInstance : CreatedInstance(i)
    <3>1. PICK i \in NewInstance : CreatedInstance(i)
      BY <2>2
    <3>2. i \in Instances
      BY DEF NewInstance
    <3>3. NextIndex \in Indices
      BY <1>9, CreateInstanceEffect
    <3>4. instance' \in [Instances -> InstanceRecord]
      BY <3>1, <3>2, <3>3, RecordsTyped DEF InstanceRecord, Phase, CreatedInstance
    <3>5. unseen' \in Deliveries
      BY <3>1, <3>2, RecordsTyped, LateTyped DEF CreatedInstance
    <3>6. needed' \in 0..Replicas
      BY <1>9, <3>1, CreateInstanceEffect, Bounds DEF TypeOK, CreatedInstance
    <3> QED BY <1>9, <3>1, <3>3, <3>4, <3>5, <3>6, CreateInstanceEffect
            DEF TypeOK, Deliveries, InstanceRecord, CreatedInstance
  <2> QED BY <1>9, <2>1, <2>2, CreateInstanceEffect
<1>10. CASE InstancesCreated
  BY <1>10, Bounds DEF InstancesCreated, TypeOK, Step, bounds, Indices, Limit
<1>11. CASE ReconcileJobs
  <2>1. /\ UNCHANGED <<instance, job, checkpoint, unseen, restorer, preemptions, overlooked>>
        /\ faults' \in 0..MaxFaults
    BY <1>11, FaultTyped DEF ReconcileJobs, TypeOK
  <2> HIDE DEF Goto
  <2>2. CASE Finish
    BY <2>1, <2>2, FinishTyped DEF TypeOK
  <2>3. CASE Missing(Kept, Cardinality(Kept), "createJob")
    <3>1. Kept \in SUBSET Indices
      BY DEF TypeOK, Kept, ListedJobs
    <3>2. Cardinality(Kept) \in Nat
      BY <3>1, SubsetsFinite
    <3> QED BY <2>1, <2>3, <3>1, <3>2, MissingTyped DEF TypeOK
  <2> QED BY <1>11, <2>2, <2>3 DEF ReconcileJobs
<1>12. CASE CreateJob
  <2>1. at' \in Indices /\ faults' \in 0..MaxFaults
    BY <1>12, FaultTyped, Bounds DEF CreateJob, Free, TypeOK, Indices, Limit
  <2> QED BY <1>12, <2>1 DEF CreateJob, TypeOK, Step
<1>13. CASE PlaceJob
  BY <1>13, PlaceJobEffect DEF TypeOK, Step, JobRecord, Deliveries
<1>14. CASE JobsCreated
  BY <1>14, FinishTyped DEF JobsCreated, TypeOK, bounds
<1>15. ASSUME NEW r \in Restorers, RestorerGet(r)
       PROVE  TypeOK'
  <2>1. restorer' \in [Restorers -> Goroutine]
    BY <1>15, RestorerTyped DEF RestorerGet
  <2> QED BY <1>15, <2>1 DEF RestorerGet, TypeOK, Goroutine, locals, bounds
<1>16. ASSUME NEW r \in Restorers, RestorerDelete(r)
       PROVE  TypeOK'
  <2>1. PICK j \in Jobs : (UNCHANGED job \/ Deletes(j))
                          /\ (Restorer(r, "idle") \/ Restorer(r, "create"))
    BY <1>16, RestorerDeleteEffect
  <2>2. job' \in [Jobs -> JobRecord]
    BY <2>1, RecordsTyped, GoneTyped DEF Deletes
  <2>3. restorer' \in [Restorers -> Goroutine]
    BY <2>1, RestorerTyped
  <2> QED BY <1>16, <2>2, <2>3 DEF RestorerDelete, TypeOK, Goroutine, JobRecord, locals, bounds
<1>17. ASSUME NEW r \in Restorers, RestorerCreate(r)
       PROVE  TypeOK'
  <2>1. restorer[r].job \in Jobs
    BY <1>17, GoroutineHasJob DEF RestorerCreate
  <2>2. job' \in [Jobs -> JobRecord] /\ unseen' \in Deliveries /\ faults' \in 0..MaxFaults
    BY <1>17, <2>1, RestoredEffect DEF RestorerCreate
  <2>3. restorer' \in [Restorers -> Goroutine]
    BY <1>17, RestorerTyped DEF RestorerCreate
  <2> QED BY <1>17, <2>2, <2>3
          DEF RestorerCreate, TypeOK, Goroutine, JobRecord, Deliveries, locals
<1>18. CASE Abort
  BY <1>18, FinishTyped, FaultTyped DEF Abort, TypeOK
<1>19. CASE Crash
  <2>1. restorer' \in [Restorers -> Goroutine] /\ unseen' \in Deliveries
    BY <1>19 DEF Crash, Idle, Goroutine, Deliveries
  <2> HIDE DEF Goto
  <2> QED BY <1>19, <2>1, FinishTyped, FaultTyped DEF Crash, TypeOK, Goroutine, Deliveries
<1>20. CASE Appear
  <2>1. unseen' \in Deliveries
    BY <1>20, RecordsTyped, LateTyped DEF Appear
  <2> QED BY <1>20, <2>1 DEF Appear, TypeOK, Deliveries, locals, bounds
<1>21. ASSUME NEW i \in Instances, VMSteps(i)
       PROVE  TypeOK'
  <2>1. PICK new \in InstanceRecord : InstanceGoesOn(i, new)
    BY <1>21, InstanceControllerEffect
  <2>2. instance' \in [Instances -> InstanceRecord]
    BY <2>1, RecordsTyped DEF InstanceGoesOn
  <2> QED BY <1>21, <2>2, InstanceControllerEffect DEF TypeOK, InstanceRecord, locals
<1>22. ASSUME NEW j \in Jobs, JobSteps(j)
       PROVE  TypeOK'
  <2>1. PICK new \in JobRecord : GoesOn(j, new)
    BY <1>22, JobControllerEffect
  <2>2. job' \in [Jobs -> JobRecord]
    BY <2>1, RecordsTyped DEF GoesOn
  <2> QED BY <1>22, <2>2, JobControllerEffect DEF TypeOK, JobRecord, locals
<1>23. ASSUME NEW j \in Jobs, AgentSteps(j)
       PROVE  TypeOK'
  <2>1. PICK from \in {"pending", "recent"}, to \in {"recent", "old", "none"} :
          CheckpointBecomes(j, from, to)
    BY <1>23, AgentEffect
  <2> QED BY <2>1 DEF CheckpointBecomes, TypeOK, Completed, locals, bounds
<1>24. CASE UNCHANGED vars
  BY <1>24 DEF vars, TypeOK, locals, bounds
<1> HIDE DEF Goto
<1> QED
  BY <1>1, <1>2, <1>3, <1>4, <1>5, <1>6, <1>7, <1>8, <1>9, <1>10, <1>11, <1>12, <1>13, <1>14,
     <1>15, <1>16, <1>17, <1>18, <1>19, <1>20, <1>21, <1>22, <1>23, <1>24
  DEF Next, Reconcile, Restore, VMSteps, JobSteps, AgentSteps

-----------------------------------------------------------------------------
(***************************************************************************)
(* What never changes back.                                                *)
(***************************************************************************)
\* An instance that is there stays and keeps its replica index; one that is lost
\* stays lost (updateInstanceStatus of the ProvisionedInstance controller).
InstancesAdvance ==
  \A i \in Instances :
    instance[i].phase # "absent" => /\ instance'[i].phase # "absent"
                                    /\ instance'[i].index = instance[i].index
                                    /\ IsLost(i) => instance'[i].phase \in Lost

\* Every step does that.
LEMMA InstancesStep == TypeOK /\ [Next]_vars => InstancesAdvance
<1> SUFFICES ASSUME TypeOK, [Next]_vars
             PROVE  InstancesAdvance
  OBVIOUS
<1>1. CASE UNCHANGED instance
  BY <1>1 DEF InstancesAdvance, IsLost
<1>2. CASE CreateInstance
  <2>1. CASE \E k \in NewInstance : CreatedInstance(k)
    <3>1. PICK k \in NewInstance : CreatedInstance(k)
      BY <2>1
    <3>2. instance[k].phase = "absent"
      BY DEF NewInstance
    <3> QED BY <3>1, <3>2 DEF InstancesAdvance, CreatedInstance, TypeOK, IsLost
  <2> QED BY <1>1, <1>2, <2>1, CreateInstanceEffect
<1>3. ASSUME NEW k \in Instances, VMSteps(k)
      PROVE  InstancesAdvance
  <2>1. PICK new \in InstanceRecord : InstanceGoesOn(k, new)
    BY <1>3, InstanceControllerEffect
  <2> QED BY <2>1 DEF InstancesAdvance, InstanceGoesOn, TypeOK, IsLost
<1> QED BY <1>1, <1>2, <1>3, WhoWrites DEF vars

\* A completed checkpoint stays, and only DecideCheckpoint begins one.
CheckpointsAdvance ==
  /\ \A j \in Jobs : checkpoint[j] \in Completed => checkpoint'[j] \in Completed
  /\ Pending' => Pending \/ pc = "decide"

\* So it is in every step.
LEMMA CheckpointsStep == TypeOK /\ [Next]_vars => CheckpointsAdvance
<1> SUFFICES ASSUME TypeOK, [Next]_vars
             PROVE  CheckpointsAdvance
  OBVIOUS
<1>1. CASE UNCHANGED checkpoint
  BY <1>1 DEF CheckpointsAdvance, Pending
<1>2. CASE DecideCheckpoint
  <2>1. UNCHANGED checkpoint \/ \E j \in Jobs : Checkpointed(j)
    BY <1>2 DEF DecideCheckpoint, Alive, AliveNew, ListedJobs
  <2> QED BY <1>2, <2>1 DEF DecideCheckpoint, Checkpointed, CheckpointsAdvance, Completed, TypeOK
<1>3. ASSUME NEW k \in Jobs, AgentSteps(k)
      PROVE  CheckpointsAdvance
  <2>1. PICK from \in {"pending", "recent"}, to \in {"recent", "old", "none"} :
          CheckpointBecomes(k, from, to) /\ (from = "recent" => to = "old")
    BY <1>3, AgentEffect
  <2> QED BY <2>1 DEF CheckpointBecomes, CheckpointsAdvance, Completed, Pending, TypeOK
<1> QED BY <1>1, <1>2, <1>3, WhoWrites DEF vars

\* A name that somebody holds keeps its replica index, and its Job neither gets a
\* node before it is restored nor loses the mark of that.
JobsAdvance ==
  \A j \in Jobs \ NewJob :
    /\ job'[j].index = job[j].index
    /\ job'[j].pinned /\ ~job'[j].restored => job[j].pinned /\ ~job[j].restored

\* Every step keeps to that: whoever creates a Job again keeps its index.
LEMMA JobsStep == TypeOK /\ StepsOK /\ GoroutinesOK /\ [Next]_vars => JobsAdvance
<1> SUFFICES ASSUME TypeOK, StepsOK, GoroutinesOK, [Next]_vars
             PROVE  JobsAdvance
  OBVIOUS
<1>1. CASE UNCHANGED job
  BY <1>1 DEF JobsAdvance
<1>2. ASSUME NEW k \in Jobs, Deletes(k)
      PROVE  JobsAdvance
  BY <1>2, GoneTyped, RecordsTyped DEF Deletes, JobsAdvance
<1>3. ASSUME NEW k \in Jobs, NEW new \in JobRecord,
             Returns(k, new) \/ Creates(k, new) \/ GoesOn(k, new)
      PROVE  JobsAdvance
  BY <1>3, RecordsTyped DEF Returns, Creates, GoesOn, JobsAdvance
<1> QED BY <1>1, <1>2, <1>3, JobEffect

-----------------------------------------------------------------------------
(***************************************************************************)
(* The steps of the invariant.                                             *)
(***************************************************************************)
\* What Missing does to the reconcile.
LEMMA MissingSteps ==
  ASSUME NEW held, NEW n, NEW step \in {"createInstance", "createJob"}, Missing(held, n, step)
  PROVE  \/ /\ pc' = step /\ taken' = held
            /\ UNCHANGED <<lost, active, current, jobsToUpdate, todo, updating>>
         \/ pc' = "jobs" /\ UNCHANGED locals
         \/ Finish
BY DEF Missing, Goto

\* Those around the controller leave it where it is.
LEMMA OthersSteps ==
  ASSUME TypeOK,
         \/ \E i \in Instances : VMSteps(i)
         \/ \E j \in Jobs : JobSteps(j) \/ AgentSteps(j)
         \/ Appear
  PROVE  UNCHANGED <<pc, locals, restorer, overlooked>>
<1>1. ASSUME NEW i \in Instances, VMSteps(i)
      PROVE  UNCHANGED <<pc, locals, restorer, overlooked>>
  BY <1>1, InstanceControllerEffect
<1>2. ASSUME NEW j \in Jobs, JobSteps(j)
      PROVE  UNCHANGED <<pc, locals, restorer, overlooked>>
  BY <1>2, JobControllerEffect
<1>3. ASSUME NEW j \in Jobs, AgentSteps(j)
      PROVE  UNCHANGED <<pc, locals, restorer, overlooked>>
  BY <1>3, AgentEffect DEF CheckpointBecomes
<1> QED BY <1>1, <1>2, <1>3 DEF Appear

\* Every step keeps what a reconcile has in hand.
LEMMA StepsStep == TypeOK /\ StepsOK /\ [Next]_vars => StepsOK'
<1> SUFFICES ASSUME TypeOK, StepsOK, [Next]_vars
             PROVE  StepsOK'
  OBVIOUS
<1> USE DEF Goto
<1>0. CheckpointsAdvance
  BY CheckpointsStep
<1>1. CASE Finish
  BY <1>1 DEF Finish, StepsOK
<1>2. CASE Begin
  BY <1>2 DEF Begin, StepsOK
<1>3. ASSUME NEW i \in Instances, HandleLost(i)
      PROVE  StepsOK'
  BY <1>3 DEF HandleLost, StepsOK
<1>4. ASSUME NEW j \in Jobs, DeleteForUpdate(j)
      PROVE  StepsOK'
  BY <1>4, NoneApart DEF DeleteForUpdate, StepsOK
<1>5. CASE RecreateUpdated
  BY <1>5 DEF RecreateUpdated, StepsOK
<1>6. CASE CheckpointsProcessed
  BY <1>6 DEF CheckpointsProcessed, StepsOK
<1>7. CASE DecideCheckpoint
  BY <1>7 DEF DecideCheckpoint, StepsOK
<1>8. CASE PreemptionHandled
  BY <1>8 DEF PreemptionHandled, StepsOK
<1>9. CASE ReconcileInstances
  <2>1. CASE pc' = "jobs" /\ UNCHANGED locals
    BY <1>9, <2>1 DEF ReconcileInstances, StepsOK, locals
  <2>2. CASE /\ ~Pending /\ pc' = "createInstance"
             /\ UNCHANGED <<lost, active, current, jobsToUpdate, todo, updating>>
    BY <1>9, <2>2 DEF ReconcileInstances, StepsOK, Pending
  <2> QED BY <1>1, <1>9, <2>1, <2>2, MissingSteps DEF ReconcileInstances
<1>10. CASE CreateInstance
  BY <1>10, <1>0 DEF CreateInstance, StepsOK, CheckpointsAdvance
<1>11. CASE InstancesCreated
  BY <1>11 DEF InstancesCreated, StepsOK
<1>12. CASE ReconcileJobs
  <2>1. CASE pc' = "jobs" /\ UNCHANGED locals
    BY <1>12, <2>1 DEF ReconcileJobs, StepsOK, locals
  <2>2. CASE /\ pc' = "createJob"
             /\ UNCHANGED <<lost, active, current, jobsToUpdate, todo, updating>>
    BY <1>12, <2>2 DEF ReconcileJobs, StepsOK
  <2> QED BY <1>1, <1>12, <2>1, <2>2, MissingSteps DEF ReconcileJobs
<1>13. CASE CreateJob
  <2>1. at' < Limit
    BY <1>13, Bounds DEF CreateJob, Free, TypeOK, Indices, Limit
  <2> QED BY <1>13, <2>1 DEF CreateJob, StepsOK
<1>14. CASE PlaceJob
  BY <1>14 DEF PlaceJob, StepsOK
<1>15. CASE JobsCreated \/ Abort \/ Crash
  BY <1>1, <1>15 DEF JobsCreated, Abort, Crash
<1>16. CASE UNCHANGED <<pc, locals>>
  BY <1>0, <1>16 DEF StepsOK, CheckpointsAdvance, locals
<1>17. ASSUME NEW r \in Restorers, Restore(r)
       PROVE  StepsOK'
  BY <1>16, <1>17 DEF Restore, RestorerGet, RestorerDelete, RestorerCreate
<1>18. CASE \/ \E i \in Instances : VMSteps(i)
            \/ \E j \in Jobs : JobSteps(j) \/ AgentSteps(j)
            \/ Appear
  BY <1>16, <1>18, OthersSteps
<1>19. CASE UNCHANGED vars
  BY <1>16, <1>19 DEF vars
<1> HIDE DEF Goto
<1> QED
  BY <1>2, <1>3, <1>4, <1>5, <1>6, <1>7, <1>8, <1>9, <1>10, <1>11, <1>12, <1>13, <1>14, <1>15,
     <1>17, <1>18, <1>19 DEF Next, Reconcile, VMSteps, JobSteps, AgentSteps

\* Who moves a goroutine: the reconcile that starts it, itself, and a crash.
LEMMA WhoMovesGoroutines ==
  ASSUME TypeOK, Next
  PROVE  \/ UNCHANGED restorer
         \/ \E i \in Instances : HandleLost(i)
         \/ \E r \in Restorers : Restore(r)
         \/ restorer' = [r \in Restorers |-> Idle]
<1>1. CASE \/ \E i \in Instances : VMSteps(i)
           \/ \E j \in Jobs : JobSteps(j) \/ AgentSteps(j)
           \/ Appear
  BY <1>1, OthersSteps
<1>2. CASE Reconcile
  BY <1>2 DEF Reconcile, Begin, DeleteForUpdate, RecreateUpdated, CheckpointsProcessed,
     DecideCheckpoint, PreemptionHandled, ReconcileInstances, CreateInstance, InstancesCreated,
     ReconcileJobs, CreateJob, PlaceJob, JobsCreated
<1>3. CASE Abort \/ Crash
  BY <1>3 DEF Abort, Crash
<1> QED BY <1>1, <1>2, <1>3 DEF Next, VMSteps, JobSteps, AgentSteps

\* Every step keeps what a goroutine has in hand.
LEMMA GoroutinesStep == TypeOK /\ GoroutinesOK /\ [Next]_vars => GoroutinesOK'
<1> SUFFICES ASSUME TypeOK, GoroutinesOK, [Next]_vars, NEW q \in Restorers
             PROVE  /\ restorer'[q].step # "idle" => restorer'[q].job # None
                    /\ restorer'[q].step = "delete" => CompletedCheckpoints' # {}
  BY DEF GoroutinesOK
<1>0. CompletedCheckpoints # {} => CompletedCheckpoints' # {}
  BY CheckpointsStep DEF CheckpointsAdvance, CompletedCheckpoints
<1>1. CASE restorer'[q] = restorer[q]
  BY <1>0, <1>1 DEF GoroutinesOK
<1>2. ASSUME NEW i \in Instances, HandleLost(i)
      PROVE  /\ restorer'[q].step # "idle" => restorer'[q].job # None
             /\ restorer'[q].step = "delete" => CompletedCheckpoints' # {}
  <2>1. \A j \in OnNode(i) \cup OnNodeNew(i) : j # None
    BY NoneApart DEF OnNode, OnNodeNew, ListedJobs
  <2> QED BY <1>1, <1>2, <2>1, StartedGoroutines
<1>3. ASSUME NEW r \in Restorers, Restore(r)
      PROVE  /\ restorer'[q].step # "idle" => restorer'[q].job # None
             /\ restorer'[q].step = "delete" => CompletedCheckpoints' # {}
  <2>1. CASE q # r
    BY <1>1, <1>3, <2>1 DEF Restore, RestorerGet, RestorerDelete, RestorerCreate, Restorer, TypeOK
  <2>2. CASE q = r /\ RestorerGet(r)
    BY <1>0, <2>2 DEF RestorerGet, Restorer, Idle, GoroutinesOK, TypeOK
  <2>3. CASE q = r /\ (RestorerDelete(r) \/ RestorerCreate(r))
    BY <2>3 DEF RestorerDelete, RestorerCreate, Restorer, Idle, GoroutinesOK, TypeOK
  <2> QED BY <1>3, <2>1, <2>2, <2>3 DEF Restore
<1>4. CASE restorer' = [r \in Restorers |-> Idle]
  BY <1>4 DEF Idle
<1> QED BY <1>1, <1>2, <1>3, <1>4, WhoMovesGoroutines DEF vars

\* A Job that is pinned was pinned before, to the same instance, or has been
\* created on a ready instance of its replica.
JobsPlaced ==
  \A k \in Jobs :
    job'[k].status # "absent" /\ job'[k].pinned =>
      \/ /\ job[k].status # "absent" /\ job[k].pinned
         /\ job'[k].host = job[k].host /\ job'[k].index = job[k].index
      \/ job'[k].host \in ReadyFor(job'[k].index)

\* Every write of the Jobs keeps to that.
LEMMA JobsPlacedStep == TypeOK /\ StepsOK /\ GoroutinesOK /\ [Next]_vars => JobsPlaced
<1> SUFFICES ASSUME TypeOK, StepsOK, GoroutinesOK, [Next]_vars
             PROVE  JobsPlaced
  OBVIOUS
<1>1. CASE UNCHANGED job
  BY <1>1 DEF JobsPlaced
<1>2. ASSUME NEW j \in Jobs, Deletes(j)
      PROVE  JobsPlaced
  BY <1>2, GoneTyped, RecordsTyped DEF Deletes, JobsPlaced
<1>3. ASSUME NEW j \in Jobs, NEW new \in JobRecord, Returns(j, new) \/ Creates(j, new)
      PROVE  JobsPlaced
  BY <1>3, RecordsTyped DEF Returns, Creates, PlacedWell, JobsPlaced
<1>4. ASSUME NEW j \in Jobs, NEW new \in JobRecord, GoesOn(j, new)
      PROVE  JobsPlaced
  BY <1>4, RecordsTyped DEF GoesOn, JobsPlaced
<1> QED BY <1>1, <1>2, <1>3, <1>4, JobEffect

\* An instance that a Job is on, or is put on, keeps the index of the Job's
\* replica.
LEMMA HostsStep ==
  TypeOK /\ StepsOK /\ GoroutinesOK /\ HostsOK /\ [Next]_vars => HostsOK'
<1> SUFFICES ASSUME TypeOK, StepsOK, GoroutinesOK, HostsOK, [Next]_vars,
                    NEW k \in Jobs, job'[k].status # "absent", job'[k].pinned
             PROVE  /\ job'[k].host \in Instances
                    /\ instance'[job'[k].host].phase # "absent"
                    /\ instance'[job'[k].host].index = job'[k].index
  BY DEF HostsOK
<1>1. InstancesAdvance /\ JobsPlaced
  BY InstancesStep, JobsPlacedStep
<1>2. CASE /\ job[k].status # "absent" /\ job[k].pinned
           /\ job'[k].host = job[k].host /\ job'[k].index = job[k].index
  BY <1>1, <1>2 DEF HostsOK, InstancesAdvance
<1>3. CASE job'[k].host \in ReadyFor(job'[k].index)
  BY <1>1, <1>3 DEF ReadyFor, Listed, InstancesAdvance
<1> QED BY <1>1, <1>2, <1>3 DEF JobsPlaced

\* What handlePreemption holds: the losses that Begin has listed, the Jobs that
\* HandleLost has found.
LEMMA WhoHoldsLosses ==
  ASSUME TypeOK, Next
  PROVE  /\ lost' \subseteq lost \/ Begin
         /\ jobsToUpdate' \subseteq jobsToUpdate \/ \E i \in Instances : HandleLost(i)
<1> USE DEF Goto
<1>1. CASE Finish
  BY <1>1 DEF Finish
<1>2. CASE UNCHANGED locals
  BY <1>2 DEF locals
<1>3. CASE \/ \E i \in Instances : VMSteps(i)
           \/ \E j \in Jobs : JobSteps(j) \/ AgentSteps(j)
           \/ Appear
  BY <1>2, <1>3, OthersSteps
<1>4. CASE ReconcileInstances
  BY <1>1, <1>2, <1>4, MissingSteps DEF ReconcileInstances
<1>5. CASE ReconcileJobs
  BY <1>1, <1>2, <1>5, MissingSteps DEF ReconcileJobs
<1>6. CASE Abort \/ Crash \/ JobsCreated
  BY <1>1, <1>6 DEF Abort, Crash, JobsCreated
<1>7. CASE \E r \in Restorers : Restore(r)
  BY <1>2, <1>7 DEF Restore, RestorerGet, RestorerDelete, RestorerCreate
<1>8. CASE Begin
  BY <1>8 DEF Begin
<1>9. CASE \E i \in Instances : HandleLost(i)
  BY <1>9 DEF HandleLost
<1>10. CASE \/ \E j \in Jobs : DeleteForUpdate(j)
            \/ RecreateUpdated \/ CheckpointsProcessed \/ DecideCheckpoint \/ PreemptionHandled
            \/ CreateInstance \/ InstancesCreated \/ CreateJob \/ PlaceJob
  BY <1>10 DEF DeleteForUpdate, RecreateUpdated, CheckpointsProcessed, DecideCheckpoint,
     PreemptionHandled, CreateInstance, InstancesCreated, CreateJob, PlaceJob
<1> HIDE DEF Goto
<1> QED
  BY <1>3, <1>4, <1>5, <1>6, <1>7, <1>8, <1>9, <1>10
  DEF Next, Reconcile, VMSteps, JobSteps, AgentSteps

\* The same after a step, of a Job that is named before it.
LostReplicaNext(j) ==
  \E i \in Instances : instance'[i].index = job'[j].index /\ instance'[i].phase \in Lost
MayGoNext(j) == LostReplicaNext(j) \/ ~job'[j].pinned \/ job'[j].restored

\* Once a replica has lost an instance, it has lost one, and a Job that may go
\* may go until its name is free.
LEMMA LossesStay ==
  ASSUME TypeOK, InstancesAdvance, JobsAdvance, NEW j \in Jobs, j \notin NewJob
  PROVE  /\ LostReplica(j) => LostReplicaNext(j)
         /\ MayGo(j) => MayGoNext(j)
<1>1. LostReplica(j) => LostReplicaNext(j)
  BY DEF InstancesAdvance, JobsAdvance, LostReplica, LostReplicaNext, IsLost, Lost
<1> QED BY <1>1 DEF JobsAdvance, MayGo, MayGoNext

\* A Job of the lost instance's replica, and one on its node, may go.
LEMMA LossFound ==
  ASSUME TypeOK, HostsOK, NEW i \in Instances, IsLost(i)
  PROVE  /\ \A j \in JobsOfReplica(i) : j \in Jobs /\ j \notin NewJob /\ LostReplica(j)
         /\ \A j \in OnNode(i) \cup OnNodeNew(i) : j \in Jobs /\ j \notin NewJob /\ MayGo(j)
<1>1. \A j \in JobsOfReplica(i) : j \in Jobs /\ j \notin NewJob /\ LostReplica(j)
  BY DEF JobsOfReplica, ListedJobs, NewJob, LostReplica
<1>2. \A j \in OnNode(i) \cup OnNodeNew(i) :
        j \in Jobs /\ j \notin NewJob /\ job[j].status # "absent" /\ job[j].host = i
  BY DEF OnNode, OnNodeNew, ListedJobs, NewJob
<1> QED BY <1>1, <1>2 DEF HostsOK, MayGo, LostReplica

\* Every step keeps what handlePreemption and the goroutines hold to Jobs that may
\* go: a name they hold goes to no other replica.
LEMMA LossesStep ==
  TypeOK /\ StepsOK /\ GoroutinesOK /\ HostsOK /\ LossesOK /\ [Next]_vars => LossesOK'
<1> SUFFICES ASSUME TypeOK, StepsOK, GoroutinesOK, HostsOK, LossesOK, Next
             PROVE  LossesOK'
  BY DEF LossesOK, MayGo, LostReplica, IsLost, vars, locals
<1>1. InstancesAdvance /\ JobsAdvance
  BY InstancesStep, JobsStep
<1>2. \A i \in lost' : IsLost(i)'
  <2>1. CASE lost' \subseteq lost
    BY <1>1, <2>1 DEF LossesOK, InstancesAdvance, IsLost, TypeOK, Lost
  <2>2. CASE Begin
    <3>1. UNCHANGED instance
      BY <2>2 DEF Begin
    <3>2. lost' = lost \/ lost' = {i \in Listed : IsLost(i)}
      BY <2>2 DEF Begin
    <3> QED BY <2>1, <3>1, <3>2 DEF IsLost
  <2> QED BY <2>1, <2>2, WhoHoldsLosses
<1>3. ASSUME NEW j \in jobsToUpdate'
      PROVE  LostReplicaNext(j)
  <2>1. CASE j \in jobsToUpdate
    <3>1. j \notin NewJob /\ j \in Jobs
      BY <2>1 DEF NewJob, TypeOK
    <3> QED BY <1>1, <2>1, <3>1, LossesStay DEF LossesOK
  <2>2. ASSUME NEW i \in Instances, HandleLost(i)
        PROVE  LostReplicaNext(j)
    <3>1. i \in lost /\ jobsToUpdate' \subseteq jobsToUpdate \cup JobsOfReplica(i)
      BY <2>2 DEF HandleLost
    <3>2. IsLost(i)
      BY <3>1 DEF LossesOK
    <3>3. CASE j \in JobsOfReplica(i)
      BY <1>1, <3>2, <3>3, LossFound, LossesStay
    <3> QED BY <2>1, <3>1, <3>3
  <2> QED BY <2>1, <2>2, WhoHoldsLosses
<1>4. ASSUME NEW q \in Restorers, restorer'[q].step # "idle"
      PROVE  MayGoNext(restorer'[q].job)
  <2>1. CASE restorer[q].step # "idle" /\ restorer'[q].job = restorer[q].job
    <3> DEFINE j == restorer[q].job
    <3>1. j \notin NewJob /\ j \in Jobs
      BY <2>1, GoroutineHasJob DEF NewJob
    <3>2. MayGo(j)
      BY <2>1 DEF LossesOK
    <3> HIDE DEF j
    <3>3. MayGoNext(j)
      BY <1>1, <3>1, <3>2, LossesStay
    <3> QED BY <2>1, <3>3 DEF j
  <2>2. ASSUME NEW i \in Instances, HandleLost(i)
        PROVE  MayGoNext(restorer'[q].job)
    <3>1. i \in lost
      BY <2>2 DEF HandleLost
    <3>2. IsLost(i)
      BY <3>1 DEF LossesOK
    <3>3. CASE restorer'[q].job \in OnNode(i) \cup OnNodeNew(i)
      BY <1>1, <3>2, <3>3, LossFound, LossesStay
    <3> QED BY <1>4, <2>1, <2>2, <3>3, StartedGoroutines
  <2>3. ASSUME NEW r \in Restorers, Restore(r)
        PROVE  MayGoNext(restorer'[q].job)
    <3>1. restorer[q].step # "idle" /\ restorer'[q].job = restorer[q].job
      BY <1>4, <2>3 DEF Restore, RestorerGet, RestorerDelete, RestorerCreate, Restorer, Idle, TypeOK
    <3> QED BY <2>1, <3>1
  <2>4. CASE restorer' = [r \in Restorers |-> Idle]
    BY <1>4, <2>4 DEF Idle
  <2> QED BY <1>4, <2>1, <2>2, <2>3, <2>4, WhoMovesGoroutines
<1> QED BY <1>2, <1>3, <1>4
        DEF LossesOK, MayGo, MayGoNext, LostReplica, LostReplicaNext, IsLost

\* A step that creates no Job and after which nobody else is about to.
NamesQuiet ==
  /\ \A k \in Jobs : job[k].status = "absent" => job'[k].status = "absent"
  /\ \A r \in Restorers : restorer'[r].step = "create" => restorer'[r] = restorer[r]
  /\ updating' \in {updating, None}

\* Such a step leaves names as they are held.
LEMMA QuietNames == TypeOK /\ NameIsHeld /\ NamesQuiet => NameIsHeld'
<1> SUFFICES ASSUME TypeOK, NameIsHeld, NamesQuiet, NEW k \in Jobs
             PROVE  /\ Restoring(k)' # {} => job'[k].status = "absent" /\ updating' # k
                    /\ updating' = k => job'[k].status = "absent"
                    /\ \A r, q \in Restoring(k)' : r = q
  BY DEF NameIsHeld
<1>1. k # None
  BY NoneApart
<1>2. Restoring(k)' \subseteq Restoring(k)
  BY DEF Restoring, NamesQuiet
<1> QED BY <1>1, <1>2 DEF NameIsHeld, NamesQuiet

\* A step that does not write Jobs is of that kind.
LEMMA WhoHoldsNames == TypeOK /\ [Next]_vars => JobWrites \/ (NamesQuiet /\ UNCHANGED job)
<1> SUFFICES ASSUME TypeOK, [Next]_vars
             PROVE  JobWrites \/ (NamesQuiet /\ UNCHANGED job)
  OBVIOUS
<1>1. CASE UNCHANGED <<job, updating, restorer>>
  BY <1>1 DEF NamesQuiet
<1>2. ASSUME NEW i \in Instances, HandleLost(i)
      PROVE  NamesQuiet /\ UNCHANGED job
  <2>1. \A q \in Restorers : restorer'[q].step = "create" => restorer'[q] = restorer[q]
    BY <1>2, StartedGoroutines
  <2> QED BY <1>2, <2>1 DEF HandleLost, NamesQuiet
<1>3. ASSUME NEW r \in Restorers, RestorerGet(r)
      PROVE  NamesQuiet /\ UNCHANGED job
  <2>1. \A q \in Restorers : restorer'[q].step = "create" => restorer'[q] = restorer[q]
    BY <1>3 DEF RestorerGet, Restorer, Idle, TypeOK
  <2> QED BY <1>3, <2>1 DEF RestorerGet, NamesQuiet, locals
<1>4. CASE JobsCreated \/ Abort \/ Crash
  BY <1>4 DEF JobsCreated, Abort, Crash, Finish, NamesQuiet, Idle
<1>5. CASE ReconcileInstances \/ ReconcileJobs
  <2>1. UNCHANGED <<job, restorer>>
    BY <1>5 DEF ReconcileInstances, ReconcileJobs
  <2>2. Finish \/ UNCHANGED updating
    BY <1>5, MissingSteps DEF ReconcileInstances, ReconcileJobs, locals
  <2> QED BY <2>1, <2>2 DEF Finish, NamesQuiet
<1>6. CASE \/ Begin \/ CheckpointsProcessed \/ DecideCheckpoint \/ PreemptionHandled
           \/ CreateInstance \/ InstancesCreated \/ CreateJob
  BY <1>1, <1>6 DEF Begin, CheckpointsProcessed, DecideCheckpoint, PreemptionHandled,
     CreateInstance, InstancesCreated, CreateJob
<1>7. CASE (\E i \in Instances : VMSteps(i)) \/ (\E j \in Jobs : AgentSteps(j)) \/ Appear
  <2>1. UNCHANGED <<locals, restorer>>
    BY <1>7, OthersSteps
  <2>2. ASSUME NEW i \in Instances, VMSteps(i)
        PROVE  UNCHANGED job
    BY <2>2, InstanceControllerEffect
  <2>3. ASSUME NEW j \in Jobs, AgentSteps(j)
        PROVE  UNCHANGED job
    BY <2>3, AgentEffect DEF CheckpointBecomes
  <2> QED BY <1>1, <1>7, <2>1, <2>2, <2>3 DEF Appear, locals
<1>8. CASE UNCHANGED vars
  BY <1>1, <1>8 DEF vars, locals
<1> QED
  BY <1>2, <1>3, <1>4, <1>5, <1>6, <1>7, <1>8
  DEF Next, Reconcile, Restore, JobWrites, VMSteps, JobSteps, AgentSteps

\* The two deletions take a name that nobody holds; the two creations that follow
\* give it back.
LEMMA NamesStep ==
  TypeOK /\ StepsOK /\ GoroutinesOK /\ NameIsHeld /\ [Next]_vars => NameIsHeld'
<1> SUFFICES ASSUME TypeOK, StepsOK, GoroutinesOK, NameIsHeld, [Next]_vars
             PROVE  NameIsHeld'
  OBVIOUS
<1> USE DEF Goto
<1>1. ASSUME NEW j \in Jobs, DeleteForUpdate(j)
      PROVE  NameIsHeld'
  <2>1. Deletes(j)
    BY <1>1 DEF DeleteForUpdate, Deletes, ListedJobs
  <2>2. /\ job[j].status # "absent" /\ job'[j].status = "absent"
        /\ \A k \in Jobs \ {j} : job'[k] = job[k]
    BY <2>1, GoneTyped, RecordsTyped DEF Deletes
  <2>3. updating' = j /\ UNCHANGED restorer
    BY <1>1 DEF DeleteForUpdate
  <2>4. Restoring(j) = {} /\ \A k \in Jobs : Restoring(k)' = Restoring(k)
    BY <2>2, <2>3 DEF Restoring, NameIsHeld
  <2> QED BY <2>2, <2>3, <2>4 DEF NameIsHeld
<1>2. CASE RecreateUpdated
  <2> DEFINE j == updating
  <2>1. j \in Jobs /\ j # None
    BY <1>2, NoneApart DEF RecreateUpdated, StepsOK, TypeOK
  <2>2. updating' = None /\ UNCHANGED restorer
    BY <1>2 DEF RecreateUpdated
  <2>3. UNCHANGED job \/ \E new \in JobRecord : Returns(j, new)
    BY <1>2, <2>1, RestoredEffect DEF RecreateUpdated
  <2>4. \A k \in Jobs \ {j} : job'[k] = job[k]
    BY <2>1, <2>3, OtherJobs
  <2>5. Restoring(j) = {} /\ \A k \in Jobs : Restoring(k)' = Restoring(k)
    BY <2>1, <2>2 DEF NameIsHeld, Restoring
  <2> HIDE DEF j
  <2> QED BY <2>2, <2>4, <2>5, NoneApart DEF NameIsHeld
<1>3. CASE PlaceJob
  <2>1. UNCHANGED <<updating, restorer>>
    BY <1>3, PlaceJobEffect
  <2>2. \A k \in Jobs \ NewJob : job'[k] = job[k]
    BY <1>3, PlaceJobEffect, OtherJobs DEF NewJob
  <2>3. \A k \in NewJob : k # updating /\ Restoring(k) = {}
    BY DEF NewJob, Restoring
  <2>4. \A k \in Jobs : Restoring(k)' = Restoring(k)
    BY <2>1 DEF Restoring
  <2> QED BY <2>1, <2>2, <2>3, <2>4 DEF NameIsHeld
<1>4. ASSUME NEW r \in Restorers, RestorerDelete(r)
      PROVE  NameIsHeld'
  <2>1. UNCHANGED updating
    BY <1>4 DEF RestorerDelete, locals
  <2>2. PICK j \in Jobs : /\ j = restorer[r].job
                          /\ \/ UNCHANGED job /\ Restorer(r, "idle")
                             \/ Deletes(j) /\ Restorer(r, "create")
    BY <1>4, RestorerDeleteEffect
  <2>3. CASE UNCHANGED job /\ Restorer(r, "idle")
    <3>1. \A q \in Restorers : restorer'[q].step = "create" => restorer'[q] = restorer[q]
      BY <2>3 DEF Restorer, Idle, TypeOK
    <3> QED BY <2>1, <2>3, <3>1, QuietNames DEF NamesQuiet
  <2>4. CASE Deletes(j) /\ Restorer(r, "create")
    <3>1. restorer'[r].job = j /\ \A q \in Restorers \ {r} : restorer'[q] = restorer[q]
      BY <2>2, <2>4 DEF Restorer, TypeOK
    <3>2. Restoring(j) = {} /\ updating # j
      BY <2>4 DEF Deletes, NameIsHeld
    <3>3. job'[j].status = "absent" /\ \A k \in Jobs \ {j} : job'[k] = job[k]
      BY <2>4, GoneTyped, RecordsTyped DEF Deletes
    <3>4. Restoring(j)' \subseteq {r}
      BY <3>1, <3>2 DEF Restoring
    <3>5. \A k \in Jobs \ {j} : Restoring(k)' \subseteq Restoring(k)
      BY <3>1 DEF Restoring
    <3> QED BY <2>1, <3>2, <3>3, <3>4, <3>5 DEF NameIsHeld
  <2> QED BY <2>2, <2>3, <2>4
<1>5. ASSUME NEW r \in Restorers, RestorerCreate(r)
      PROVE  NameIsHeld'
  <2>1. PICK j \in Jobs : j = restorer[r].job /\ r \in Restoring(j)
    BY <1>5, GoroutineHasJob DEF RestorerCreate, Restoring
  <2>2. restorer'[r].step = "idle" /\ \A q \in Restorers \ {r} : restorer'[q] = restorer[q]
    BY <1>5 DEF RestorerCreate, Restorer, Idle, TypeOK
  <2>3. UNCHANGED job \/ \E new \in JobRecord : Returns(j, new)
    BY <1>5, <2>1, RestoredEffect DEF RestorerCreate
  <2>4. \A k \in Jobs \ {j} : job'[k] = job[k]
    BY <2>1, <2>3, OtherJobs
  <2>5. Restoring(j)' = {}
    BY <2>1, <2>2 DEF NameIsHeld, Restoring
  <2>6. \A k \in Jobs \ {j} : Restoring(k)' \subseteq Restoring(k)
    BY <2>2 DEF Restoring
  <2>7. updating # j /\ updating' = updating
    BY <1>5, <2>1 DEF NameIsHeld, RestorerCreate, locals
  <2> QED BY <2>1, <2>4, <2>5, <2>6, <2>7 DEF NameIsHeld
<1>6. ASSUME NEW j \in Jobs, JobSteps(j)
      PROVE  NameIsHeld'
  <2>1. PICK new \in JobRecord : GoesOn(j, new)
    BY <1>6, JobControllerEffect
  <2>2. UNCHANGED <<restorer, updating>>
    BY <1>6, JobControllerEffect DEF locals
  <2> QED BY <2>1, <2>2, QuietNames DEF GoesOn, NamesQuiet, TypeOK
<1> HIDE DEF Goto
<1> QED
  BY <1>1, <1>2, <1>3, <1>4, <1>5, <1>6, WhoHoldsNames, QuietNames DEF JobWrites

-----------------------------------------------------------------------------
(***************************************************************************)
(* The invariant, and what follows from it.                                *)
(***************************************************************************)
\* At the start nothing runs and there is nothing.
LEMMA InvInit == Init => IInv
<1> SUFFICES ASSUME Init
             PROVE  IInv
  OBVIOUS
<1>1. TypeOK
  BY TypeInit
<1>2. StepsOK /\ GoroutinesOK
  BY DEF Init, StepsOK, GoroutinesOK, Idle
<1>3. HostsOK /\ LossesOK
  BY DEF Init, HostsOK, LossesOK, NoJob, Idle
<1>4. NameIsHeld
  BY NoneApart DEF Init, NameIsHeld, Restoring, NoJob, Idle
<1> QED BY <1>1, <1>2, <1>3, <1>4 DEF IInv

\* Every step of the controller, and around it, keeps it.
LEMMA InvStep == IInv /\ [Next]_vars => IInv'
BY TypeStep, StepsStep, GoroutinesStep, HostsStep, LossesStep, NamesStep DEF IInv

\* The invariant holds whatever faults, crashes and preemptions there are, whether
\* or not the cache lags, a poll sees STAGING, or lists fail and Jobs are left to
\* the scheduler.
THEOREM Invariance == Spec => []IInv
BY InvInit, InvStep, PTL DEF Spec

\* The variables keep their types: a replica index is always found within the
\* bounds (the loops of lines 109-152 of the instances' file) and needed never
\* goes below zero.
THEOREM TypeCorrect == Spec => []TypeOK
<1>1. IInv => TypeOK
  BY DEF IInv
<1> QED BY <1>1, Invariance, PTL

\* A Job that is given a node is on an instance of its own replica
\* (createJobReplica and updateJobWithCheckpoint); the others are left to the
\* scheduler.
THEOREM JobOnItsReplicaAlways == Spec => []JobOnItsReplica
<1>1. IInv => JobOnItsReplica
  BY DEF IInv, HostsOK, JobOnItsReplica
<1> QED BY <1>1, Invariance, PTL

\* Goroutines that nothing keeps apart, and the reconcile, never meet between the
\* deletion of a Job and its creation (updateJobWithCheckpoint, lines 412-541 of
\* the job file).
THEOREM NameIsHeldAlways == Spec => []NameIsHeld
<1>1. IInv => NameIsHeld
  BY DEF IInv
<1> QED BY <1>1, Invariance, PTL

\* Two steps delete a Job: updateJobWithCheckpoint within handlePreemption, and a
\* goroutine.
LEMMA WhoDeletes ==
  ASSUME IInv, Next, NEW j \in Jobs, Deleted(j)
  PROVE  \/ DeleteForUpdate(j)
         \/ \E r \in Restorers : restorer[r].step = "delete" /\ restorer[r].job = j
<1> USE DEF IInv, Deleted
<1>1. ASSUME NEW k \in Jobs, DeleteForUpdate(k)
      PROVE  DeleteForUpdate(j)
  BY <1>1 DEF DeleteForUpdate, TypeOK
<1>2. ASSUME NEW k \in Jobs, NEW new \in JobRecord,
             Returns(k, new) \/ Creates(k, new) \/ GoesOn(k, new)
      PROVE  FALSE
  BY <1>2, RecordsTyped DEF Returns, Creates, GoesOn
<1>3. ASSUME NEW k \in Jobs, JobSteps(k)
      PROVE  FALSE
  BY <1>2, <1>3, JobControllerEffect
<1>4. CASE RecreateUpdated
  BY <1>2, <1>4, RestoredEffect DEF RecreateUpdated, StepsOK, TypeOK
<1>5. CASE PlaceJob
  BY <1>2, <1>5, PlaceJobEffect DEF NewJob
<1>6. ASSUME NEW r \in Restorers, RestorerDelete(r)
      PROVE  restorer[r].step = "delete" /\ restorer[r].job = j
  BY <1>6, RestorerDeleteEffect, OtherJobs
<1>7. ASSUME NEW r \in Restorers, RestorerCreate(r)
      PROVE  FALSE
  BY <1>2, <1>7, GoroutineHasJob, RestoredEffect DEF RestorerCreate
<1> QED BY <1>1, <1>3, <1>4, <1>5, <1>6, <1>7, WhoWrites DEF JobWrites

\* No Job is deleted before there is a checkpoint to restart it from: a goroutine
\* deletes what it has seen a checkpoint for some steps before, and completed
\* checkpoints stay (lines 159-297 and 667-772 of the checkpoint file).
THEOREM DeletedOnlyWithCheckpointEver == Spec => DeletedOnlyWithCheckpoint
<1>1. ASSUME IInv, [Next]_vars
      PROVE  [\A j \in Jobs : Deleted(j) => CompletedCheckpoints # {}]_vars
  <2> SUFFICES ASSUME Next, NEW j \in Jobs, Deleted(j)
               PROVE  CompletedCheckpoints # {}
    BY <1>1
  <2>1. CASE DeleteForUpdate(j)
    BY <2>1 DEF DeleteForUpdate, Restorable
  <2>2. CASE \E r \in Restorers : restorer[r].step = "delete" /\ restorer[r].job = j
    BY <1>1, <2>2 DEF IInv, GoroutinesOK
  <2> QED BY <1>1, <2>1, <2>2, WhoDeletes
<1> QED BY <1>1, Invariance, PTL DEF Spec, DeletedOnlyWithCheckpoint

\* The controller deletes no Job of a replica that has not lost an instance, even
\* where the Job was listed, or its goroutine started, many steps before
\* (handlePreemption, lines 50-96), unless the scheduler has placed it.
THEOREM HealthyReplicaKeptEver == Spec => HealthyReplicaKept
<1>1. ASSUME IInv, [Next]_vars
      PROVE  [\A j \in Jobs :
                Deleted(j) /\ job[j].pinned /\ ~job[j].restored =>
                  \E i \in Instances : instance[i].index = job[j].index /\ IsLost(i)]_vars
  <2> SUFFICES ASSUME Next, NEW j \in Jobs, Deleted(j), job[j].pinned, ~job[j].restored
               PROVE  LostReplica(j)
    BY <1>1 DEF LostReplica
  <2>1. CASE DeleteForUpdate(j)
    BY <1>1, <2>1 DEF DeleteForUpdate, IInv, StepsOK, LossesOK
  <2>2. CASE \E r \in Restorers : restorer[r].step = "delete" /\ restorer[r].job = j
    BY <1>1, <2>2 DEF IInv, LossesOK, MayGo
  <2> QED BY <1>1, <2>1, <2>2, WhoDeletes
<1> QED BY <1>1, Invariance, PTL DEF Spec, HealthyReplicaKept

\* No instance is created while a checkpoint is in progress: none begins between
\* the question and the last Create of the same reconcile (lines 113-129 of the
\* controller).
THEOREM NoInstanceDuringCheckpointEver == Spec => NoInstanceDuringCheckpoint
<1>1. ASSUME IInv, [Next]_vars
      PROVE  [\A i \in Instances :
                instance[i].phase = "absent" /\ instance'[i].phase # "absent" => ~Pending]_vars
  <2> SUFFICES ASSUME Next, NEW i \in Instances,
                      instance[i].phase = "absent", instance'[i].phase # "absent"
               PROVE  ~Pending
    BY <1>1
  <2>1. CASE CreateInstance
    BY <1>1, <2>1 DEF CreateInstance, IInv, StepsOK
  <2>2. ASSUME NEW k \in Instances, VMSteps(k)
        PROVE  FALSE
    BY <1>1, <2>2, InstanceControllerEffect, RecordsTyped DEF InstanceGoesOn, IInv
  <2> QED BY <2>1, <2>2, WhoWrites
<1> QED BY <1>1, Invariance, PTL DEF Spec, NoInstanceDuringCheckpoint

-----------------------------------------------------------------------------
(***************************************************************************)
(* One instance for each replica, but for those that a list left out.      *)
(***************************************************************************)
\* What was overlooked is remembered.
LEMMA OversightsStay ==
  ASSUME TypeOK, [Next]_vars
  PROVE  /\ overlooked.unlisted \subseteq overlooked'.unlisted
         /\ overlooked.uncounted \subseteq overlooked'.uncounted
BY WhoWrites, OverlookEffect DEF vars

\* An instance that is live after a step was live before, at the same index,
\* unless it has just been created.
LEMMA LiveBefore ==
  ASSUME TypeOK, [Next]_vars, ~CreateInstance, NEW i \in Instances, Live(i)'
  PROVE  Live(i) /\ instance'[i].index = instance[i].index
<1>1. CASE UNCHANGED instance
  BY <1>1 DEF Live
<1>2. ASSUME NEW k \in Instances, VMSteps(k)
      PROVE  Live(i) /\ instance'[i].index = instance[i].index
  <2>1. PICK new \in InstanceRecord : InstanceGoesOn(k, new)
    BY <1>2, InstanceControllerEffect
  <2> QED BY <2>1 DEF InstanceGoesOn, TypeOK, Live, IsLost
<1> QED BY <1>1, <1>2, WhoWrites DEF vars

\* The loop that creates instances begins with the indices of those it has listed
\* and with what they lack, and only itself changes that until it ends.
LEMMA WhoTakes ==
  ASSUME TypeOK, Next, pc' = "createInstance"
  PROVE  \/ CreateInstance
         \/ pc = "createInstance" /\ UNCHANGED <<taken, needed>>
         \/ /\ taken' = {instance[i].index : i \in Holding}
            /\ Cardinality(Counted) < Replicas
            /\ needed' = Replicas - Cardinality(Counted)
            /\ Overlook
            /\ UNCHANGED instance
<1> USE DEF Goto
<1>1. CASE UNCHANGED <<pc, locals>>
  BY <1>1 DEF locals
<1>2. CASE \/ \E i \in Instances : VMSteps(i)
           \/ \E j \in Jobs : JobSteps(j) \/ AgentSteps(j)
           \/ Appear
  BY <1>1, <1>2, OthersSteps
<1>3. CASE Abort \/ Crash \/ \E r \in Restorers : Restore(r)
  BY <1>1, <1>3 DEF Abort, Crash, Finish, Restore, RestorerGet, RestorerDelete, RestorerCreate
<1>4. CASE ReconcileInstances
  <2>1. CASE pc' = "jobs"
    BY <2>1
  <2>2. CASE /\ Missing({instance[i].index : i \in Holding}, Cardinality(Counted), "createInstance")
             /\ IF Cardinality(Counted) < Replicas THEN Overlook ELSE UNCHANGED overlooked
    BY <1>4, <2>2 DEF ReconcileInstances, Missing
  <2> QED BY <1>4, <2>1, <2>2 DEF ReconcileInstances
<1>5. CASE ReconcileJobs
  BY <1>5 DEF ReconcileJobs, Missing, Finish
<1>6. CASE Begin \/ PreemptionHandled \/ RecreateUpdated \/ CheckpointsProcessed
           \/ DecideCheckpoint \/ InstancesCreated \/ JobsCreated
  BY <1>6 DEF Begin, PreemptionHandled, RecreateUpdated, CheckpointsProcessed, DecideCheckpoint,
     InstancesCreated, JobsCreated, Finish
<1>7. CASE \/ \E i \in Instances : HandleLost(i)
           \/ \E j \in Jobs : DeleteForUpdate(j)
           \/ CreateJob \/ PlaceJob
  BY <1>7 DEF HandleLost, DeleteForUpdate, CreateJob, PlaceJob
<1> HIDE DEF Goto
<1> QED
  BY <1>2, <1>3, <1>4, <1>5, <1>6, <1>7 DEF Next, Reconcile, VMSteps, JobSteps, AgentSteps

\* Every step keeps the replica indices apart.
LEMMA IndicesStep == IInv /\ IndicesOK /\ [Next]_vars => IndicesOK'
<1> SUFFICES ASSUME IInv, IndicesOK, [Next]_vars
             PROVE  IndicesOK'
  OBVIOUS
<1>1. TypeOK /\ overlooked.unlisted \subseteq overlooked'.unlisted
  BY OversightsStay DEF IInv
<1>2. CASE CreateInstance
  <2>1. /\ pc = "createInstance" /\ UNCHANGED overlooked
        /\ \A i \in Instances :
             Live(i) => instance[i].index \in taken \/ i \in overlooked.unlisted
    BY <1>1, <1>2, CreateInstanceEffect DEF IndicesOK
  <2>2. CASE UNCHANGED <<instance, taken>>
    BY <2>1, <2>2 DEF IndicesOK, OneInstancePerReplica, Live
  <2>3. ASSUME NEW k \in NewInstance, CreatedInstance(k)
        PROVE  IndicesOK'
    <3>1. /\ instance'[k].index = NextIndex /\ k \in Instances
          /\ \A i \in Instances \ {k} : instance'[i] = instance[i]
          /\ taken' = taken \cup {NextIndex}
      BY <1>1, <2>3 DEF CreatedInstance, NewInstance, TypeOK
    <3>2. \A i \in Instances :
            Live(i)' => instance'[i].index \in taken' \/ i \in overlooked'.unlisted
      BY <2>1, <3>1 DEF Live
    <3>3. NextIndex \in Nat /\ (NextIndex < Limit => NextIndex \notin taken)
      BY <1>1, NextIndexFound, Bounds DEF Limit
    <3>4. \A i \in Instances \ {k} :
            Live(i)' /\ instance'[i].index < Limit =>
              instance'[i].index # NextIndex \/ i \in overlooked'.unlisted
      BY <2>1, <3>1, <3>3 DEF Live
    <3>5. OneInstancePerReplica'
      BY <2>1, <3>1, <3>4 DEF OneInstancePerReplica, IndicesOK, Live
    <3> QED BY <3>2, <3>5 DEF IndicesOK
  <2> QED BY <1>1, <1>2, <2>2, <2>3, CreateInstanceEffect
<1>3. CASE ~CreateInstance
  <2>1. \A i \in Instances : Live(i)' => Live(i) /\ instance'[i].index = instance[i].index
    BY <1>1, <1>3, LiveBefore
  <2>2. OneInstancePerReplica'
    BY <1>1, <2>1 DEF OneInstancePerReplica, IndicesOK
  <2>3. ASSUME pc' = "createInstance", NEW i \in Instances, Live(i)'
        PROVE  instance'[i].index \in taken' \/ i \in overlooked'.unlisted
    <3>1. CASE pc = "createInstance" /\ taken' = taken
      BY <1>1, <2>1, <2>3, <3>1 DEF IndicesOK
    <3>2. CASE /\ taken' = {instance[k].index : k \in Holding}
               /\ Overlook /\ UNCHANGED instance
      <4>1. i \in Holding \/ i \in overlooked'.unlisted
        BY <1>1, <2>1, <2>3, <3>2, OverlookEffect DEF Holding, Live, IsLost
      <4> QED BY <3>2, <4>1
    <3>3. CASE UNCHANGED vars
      BY <2>3, <3>1, <3>3 DEF vars, locals
    <3> QED BY <1>1, <1>3, <2>3, <3>1, <3>2, <3>3, WhoTakes
  <2> QED BY <2>2, <2>3 DEF IndicesOK
<1> QED BY <1>2, <1>3

\* A replica index that can get a Job has at most one instance that is not lost
\* (lines 89-159 of the instances' file), but for those that were created while
\* the cache lacked the other (line 57).
THEOREM OneInstancePerReplicaAlways == Spec => []OneInstancePerReplica
<1>1. Init => IndicesOK
  BY DEF Init, IndicesOK, OneInstancePerReplica, Live, NoInstance
<1>2. IInv /\ IndicesOK /\ [Next]_vars => IndicesOK'
  BY IndicesStep
<1>3. IndicesOK => OneInstancePerReplica
  BY DEF IndicesOK
<1> QED BY <1>1, <1>2, <1>3, Invariance, PTL DEF Spec

-----------------------------------------------------------------------------
(***************************************************************************)
(* No more instances than replicas, but for those that were not counted.   *)
(***************************************************************************)
KnownInstances == {i \in Instances : Live(i)} \ overlooked.uncounted

\* While instances are created, those that were counted and live, and those still
\* to create, are no more than there are replicas.
SurplusOK ==
  /\ NoSurplusInstance
  /\ pc = "createInstance" => Cardinality(KnownInstances) + needed <= Replicas

\* A set of instances has no more elements than a set around it, and at most one
\* more when it gets a new one.
LEMMA InstancesCounted ==
  ASSUME NEW S \in SUBSET Instances, NEW T \in SUBSET Instances
  PROVE  /\ Cardinality(S) \in Nat
         /\ S \subseteq T => Cardinality(S) <= Cardinality(T)
         /\ \A i \in Instances : S \subseteq T \cup {i} => Cardinality(S) <= Cardinality(T) + 1
<1>1. IsFiniteSet(S) /\ IsFiniteSet(T) /\ Cardinality(S) \in Nat /\ Cardinality(T) \in Nat
  <2>1. IsFiniteSet(Instances)
    BY Bounds, FS_Interval DEF Instances
  <2> QED BY <2>1, FS_Subset, FS_CardinalityType
<1>2. S \subseteq T => Cardinality(S) <= Cardinality(T)
  BY <1>1, FS_Subset
<1>3. ASSUME NEW i \in Instances, S \subseteq T \cup {i}
      PROVE  Cardinality(S) <= Cardinality(T) + 1
  <2>1. /\ IsFiniteSet(T \cup {i})
        /\ Cardinality(T \cup {i}) \in {Cardinality(T), Cardinality(T) + 1}
    BY <1>1, FS_AddElement, Zenon
  <2>2. Cardinality(S) <= Cardinality(T \cup {i}) /\ Cardinality(T \cup {i}) \in Nat
    BY <1>3, <2>1, FS_Subset, FS_CardinalityType
  <2>3. Cardinality(T \cup {i}) <= Cardinality(T) + 1
    BY <1>1, <2>1
  <2> QED BY <1>1, <2>2, <2>3
<1> QED BY <1>1, <1>2, <1>3

\* Every step keeps to the number of replicas: what the loop counts is all that
\* is live and was not overlooked.
LEMMA SurplusStep == IInv /\ SurplusOK /\ [Next]_vars => SurplusOK'
<1> SUFFICES ASSUME IInv, SurplusOK, [Next]_vars
             PROVE  SurplusOK'
  OBVIOUS
<1>1. /\ TypeOK /\ overlooked.uncounted \subseteq overlooked'.uncounted
      /\ KnownInstances \in SUBSET Instances /\ KnownInstances' \in SUBSET Instances
  BY OversightsStay DEF IInv, KnownInstances
<1>2. Cardinality(KnownInstances) \in Nat /\ Cardinality(KnownInstances') \in Nat
  BY <1>1, InstancesCounted
<1>3. Replicas \in Nat /\ needed \in Nat /\ Cardinality(KnownInstances) <= Replicas
  BY <1>1, Bounds DEF SurplusOK, NoSurplusInstance, KnownInstances, TypeOK
<1>4. CASE CreateInstance
  <2>1. /\ pc = "createInstance" /\ needed > 0 /\ UNCHANGED overlooked
        /\ Cardinality(KnownInstances) + needed <= Replicas
    BY <1>1, <1>4, CreateInstanceEffect DEF SurplusOK
  <2>2. CASE UNCHANGED <<instance, needed>>
    BY <1>3, <2>1, <2>2 DEF SurplusOK, NoSurplusInstance, KnownInstances, Live
  <2>3. ASSUME NEW k \in NewInstance, CreatedInstance(k)
        PROVE  SurplusOK'
    <3>1. /\ k \in Instances /\ needed' = needed - 1
          /\ KnownInstances' \subseteq KnownInstances \cup {k}
      BY <1>1, <2>1, <2>3 DEF CreatedInstance, NewInstance, KnownInstances, Live, TypeOK
    <3>2. Cardinality(KnownInstances') <= Cardinality(KnownInstances) + 1
      BY <1>1, <3>1, InstancesCounted
    <3>3. /\ Cardinality(KnownInstances') + needed' <= Replicas
          /\ Cardinality(KnownInstances') <= Replicas
      BY <1>2, <1>3, <2>1, <3>1, <3>2
    <3> QED BY <3>3 DEF SurplusOK, NoSurplusInstance, KnownInstances
  <2> QED BY <1>1, <1>4, <2>2, <2>3, CreateInstanceEffect
<1>5. CASE ~CreateInstance
  <2>1. KnownInstances' \subseteq KnownInstances
    BY <1>1, <1>5, LiveBefore DEF KnownInstances
  <2>2. Cardinality(KnownInstances') <= Cardinality(KnownInstances)
    BY <1>1, <2>1, InstancesCounted
  <2>3. ASSUME pc' = "createInstance"
        PROVE  Cardinality(KnownInstances') + needed' <= Replicas
    <3>1. CASE pc = "createInstance" /\ needed' = needed
      BY <1>2, <1>3, <2>2, <3>1 DEF SurplusOK
    <3>2. CASE /\ Cardinality(Counted) < Replicas
               /\ needed' = Replicas - Cardinality(Counted)
               /\ Overlook /\ UNCHANGED instance
      <4>1. KnownInstances' \subseteq Counted /\ Counted \in SUBSET Instances
        BY <1>1, <3>2, OverlookEffect DEF KnownInstances, Live, Counted, Listed
      <4>2. Cardinality(KnownInstances') <= Cardinality(Counted) /\ Cardinality(Counted) \in Nat
        BY <1>1, <4>1, InstancesCounted
      <4> QED BY <1>2, <1>3, <3>2, <4>2
    <3>3. CASE UNCHANGED vars
      BY <2>3, <3>1, <3>3 DEF vars, locals
    <3> QED BY <1>1, <1>5, <2>3, <3>1, <3>2, <3>3, WhoTakes
  <2>4. NoSurplusInstance'
    BY <1>2, <1>3, <2>2 DEF NoSurplusInstance, KnownInstances
  <2> QED BY <2>3, <2>4 DEF SurplusOK
<1> QED BY <1>4, <1>5

\* No more instances are live than Replicas asks for (lines 66-159 of the
\* instances' file), but for those that were not counted when others were
\* created: the cache lacked them, or they were STAGING.
THEOREM NoSurplusInstanceAlways == Spec => []NoSurplusInstance
<1>1. Init => SurplusOK
  <2> SUFFICES ASSUME Init
               PROVE  SurplusOK
    OBVIOUS
  <2>1. KnownInstances = {} /\ pc = "idle"
    BY DEF Init, NoInstance, Live, KnownInstances
  <2>2. Cardinality(KnownInstances) <= Replicas
    BY <2>1, FS_EmptySet, Bounds
  <2> QED BY <2>1, <2>2 DEF SurplusOK, NoSurplusInstance, KnownInstances
<1>2. IInv /\ SurplusOK /\ [Next]_vars => SurplusOK'
  BY SurplusStep
<1>3. SurplusOK => NoSurplusInstance
  BY DEF SurplusOK
<1> QED BY <1>1, <1>2, <1>3, Invariance, PTL DEF Spec
=============================================================================
