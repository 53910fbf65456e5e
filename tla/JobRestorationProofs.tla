------------------------ MODULE JobRestorationProofs ------------------------
(***************************************************************************)
(* SpotInstanceJob implements JobRestoration: the initial states map to    *)
(* initial states, and every step to a step.                               *)
(***************************************************************************)
EXTENDS SpotInstanceJobProofs

-----------------------------------------------------------------------------
(***************************************************************************)
(* Who holds a name.                                                       *)
(***************************************************************************)
\* The reconcile is none of the goroutines, and None is no Job.
LEMMA PartiesApart == None \notin Restorers /\ None \notin Jobs
BY Bounds DEF None, Restorers, Jobs

\* The holders of a name, from what the reconcile and the goroutines have in hand.
LEMMA HoldersAre ==
  ASSUME NameIsHeld, NEW j \in Jobs
  PROVE  /\ job[j].status # "absent" => Holders(j) = {}
         /\ updating = j => Holders(j) = {None}
         /\ \A r \in Restoring(j) : Holders(j) = {r}
<1>1. Restoring(j) \subseteq Restorers
  BY DEF Restoring
<1> QED BY <1>1, PartiesApart DEF NameIsHeld, Holders

\* A step that leaves alone what somebody has in hand leaves alone who holds it.
LEMMA SameHolders ==
  ASSUME NEW j \in Jobs, Restoring(j)' = Restoring(j), updating' = j <=> updating = j
  PROVE  Holders(j)' = Holders(j)
BY DEF Holders

\* No Job comes, goes, or changes its replica.
SameJobs ==
  \A j \in Jobs : /\ job'[j].status = "absent" <=> job[j].status = "absent"
                  /\ job'[j].index = job[j].index

\* A step in which nobody takes a name or returns its Job, is one in which some
\* give up.
LEMMA QuietGivesUp ==
  ASSUME TypeOK, SameJobs, NamesQuiet
  PROVE  Restoration!Next
<1> DEFINE some == {p \in Restorers \cup {None} : \A j \in Jobs : p \notin Holders(j)'}
<1>1. ASSUME NEW j \in Jobs
      PROVE  Holders(j)' = Holders(j) \ some
  <2>1. Restoring(j)' \subseteq Restoring(j)
    BY DEF Restoring, NamesQuiet
  <2>2. Holders(j)' \subseteq Holders(j)
    BY <2>1, PartiesApart DEF Holders, NamesQuiet
  <2>3. ASSUME NEW p \in Holders(j), p \notin Holders(j)', NEW k \in Jobs, p \in Holders(k)'
        PROVE  FALSE
    <3>1. CASE p = None
      <4>1. updating = j /\ updating' = k
        BY <2>3, <3>1, PartiesApart DEF Holders, Restoring
      <4>2. updating' = j
        BY <4>1, PartiesApart DEF NamesQuiet
      <4> QED BY <2>3, <3>1, <4>2 DEF Holders
    <3>2. CASE p # None
      <4>1. p \in Restoring(j) /\ p \in Restoring(k)'
        BY <2>3, <3>2 DEF Holders
      <4>2. p \in Restoring(j)'
        BY <4>1 DEF Restoring, NamesQuiet
      <4> QED BY <2>3, <4>2 DEF Holders, Restoring
    <3> QED BY <3>1, <3>2
  <2>4. Holders(j)' \subseteq Restorers \cup {None} /\ Holders(j) \subseteq Restorers \cup {None}
    BY DEF Holders
  <2> QED BY <2>2, <2>3, <2>4
<1>2. some \in SUBSET (Restorers \cup {None})
  OBVIOUS
<1> HIDE DEF some
<1>3. Restoration!GiveUp(some)
  BY <1>1 DEF Restoration!GiveUp, SameJobs
<1> QED BY <1>2, <1>3 DEF Restoration!Next

\* A Job goes by the hand of one party, that had none.
LEMMA OneTakes ==
  ASSUME NEW j \in Jobs, NEW p \in Restorers \cup {None},
         job[j].status # "absent", job'[j].status = "absent", job'[j].index = job[j].index,
         \A k \in Jobs \ {j} : job'[k] = job[k] /\ Holders(k)' = Holders(k),
         \A k \in Jobs : p \notin Holders(k),
         Holders(j)' = {p}
  PROVE  Restoration!Next
<1>1. Restoration!Take(p, j)
  BY DEF Restoration!Take
<1> QED BY <1>1 DEF Restoration!Next

\* It comes back by the same hand.
LEMMA OneRestores ==
  ASSUME NEW j \in Jobs, NEW p \in Restorers \cup {None},
         job'[j].status # "absent", job'[j].index = job[j].index,
         \A k \in Jobs \ {j} : job'[k] = job[k] /\ Holders(k)' = Holders(k),
         Holders(j) = {p}, Holders(j)' = {}
  PROVE  Restoration!Next
<1>1. Restoration!Restore(p, j)
  BY DEF Restoration!Restore
<1> QED BY <1>1 DEF Restoration!Next

\* A new Job has a name that is free.
LEMMA OneCreates ==
  ASSUME NEW j \in Jobs, NEW n \in Indices,
         job[j].status = "absent", Holders(j) = {},
         job'[j].status # "absent", job'[j].index = n,
         \A k \in Jobs \ {j} : job'[k] = job[k],
         \A k \in Jobs : Holders(k)' = Holders(k)
  PROVE  Restoration!Next
<1>1. Restoration!Create(j)
  BY DEF Restoration!Create
<1> QED BY <1>1 DEF Restoration!Next


-----------------------------------------------------------------------------
(***************************************************************************)
(* The steps.                                                              *)
(***************************************************************************)
\* The Jobs are those of the replicas.
LEMMA JobsTyped == TypeOK => \A j \in Jobs : job[j].index \in Indices
BY DEF TypeOK

\* A step of SpotInstanceJob is a step of JobRestoration.
LEMMA RestorationStep ==
  ASSUME IInv, [Next]_vars
  PROVE  Restoration!Next
<1>1. TypeOK /\ StepsOK /\ GoroutinesOK /\ NameIsHeld
  BY DEF IInv
<1>2. ASSUME NEW j \in Jobs, DeleteForUpdate(j)
      PROVE  Restoration!Next
  <2>0. Deletes(j)
    BY <1>2 DEF DeleteForUpdate, Deletes, ListedJobs
  <2>1. /\ job[j].status # "absent" /\ job'[j].status = "absent"
        /\ job'[j].index = job[j].index
        /\ \A k \in Jobs \ {j} : job'[k] = job[k]
        /\ updating' = j /\ UNCHANGED restorer
    BY <1>1, <1>2, <2>0, GoneTyped, RecordsTyped DEF DeleteForUpdate, Deletes
  <2>2. updating = None
    BY <1>1, <1>2 DEF DeleteForUpdate, StepsOK
  <2>3. \A k \in Jobs : Restoring(k)' = Restoring(k)
    BY <2>1 DEF Restoring
  <2>4. \A k \in Jobs \ {j} : Holders(k)' = Holders(k)
    BY <2>1, <2>2, <2>3, PartiesApart, SameHolders
  <2>5. \A k \in Jobs : None \notin Holders(k)
    BY <2>2, PartiesApart DEF Holders, Restoring
  <2>6. Restoring(j) = {}
    BY <1>1, <2>1 DEF NameIsHeld
  <2>7. Holders(j)' = {None}
    BY <2>1, <2>3, <2>6 DEF Holders
  <2> QED BY <2>1, <2>4, <2>5, <2>7, OneTakes
<1>3. CASE RecreateUpdated
  <2>1. PICK j \in Jobs : j = updating
    BY <1>1, <1>3 DEF RecreateUpdated, StepsOK, TypeOK
  <2>2. updating' = None /\ UNCHANGED restorer /\ CreateRestored(j)
    BY <1>3, <2>1 DEF RecreateUpdated
  <2>3. CASE UNCHANGED job
    BY <1>1, <2>2, <2>3, QuietGivesUp DEF NamesQuiet, SameJobs
  <2>4. ASSUME NEW new \in JobRecord, Returns(j, new)
        PROVE  Restoration!Next
    <3>0. /\ job'[j].status # "absent" /\ job'[j].index = job[j].index
          /\ \A k \in Jobs \ {j} : job'[k] = job[k]
      BY <1>1, <2>4, RecordsTyped DEF Returns
    <3>1. \A k \in Jobs : Restoring(k)' = Restoring(k)
      BY <2>2 DEF Restoring
    <3>2. \A k \in Jobs \ {j} : Holders(k)' = Holders(k)
      BY <2>1, <2>2, <3>1, PartiesApart, SameHolders
    <3>3. Holders(j) = {None} /\ Restoring(j) = {}
      BY <1>1, <2>1, HoldersAre DEF NameIsHeld
    <3>4. Holders(j)' = {}
      BY <2>2, <3>1, <3>3, PartiesApart DEF Holders
    <3> QED BY <3>0, <3>2, <3>3, <3>4, OneRestores
  <2> QED BY <1>1, <2>2, <2>3, <2>4, RestoredEffect
<1>4. CASE PlaceJob
  <2>1. UNCHANGED <<updating, restorer>>
    BY <1>1, <1>4, PlaceJobEffect
  <2>2. \A k \in Jobs : Holders(k)' = Holders(k)
    BY <2>1 DEF Holders, Restoring
  <2>3. CASE UNCHANGED job
    BY <1>1, <2>1, <2>3, QuietGivesUp DEF NamesQuiet, SameJobs
  <2>4. ASSUME NEW j \in NewJob, NEW new \in JobRecord, Creates(j, new)
        PROVE  Restoration!Next
    <3>1. j \in Jobs /\ job[j].status = "absent" /\ Holders(j) = {}
      BY PartiesApart DEF NewJob, Holders, Restoring
    <3>2. /\ job'[j].status # "absent" /\ job'[j].index = new.index /\ new.index \in Indices
          /\ \A k \in Jobs \ {j} : job'[k] = job[k]
      BY <1>1, <2>4, <3>1, RecordsTyped DEF Creates, JobRecord
    <3> QED BY <2>2, <3>1, <3>2, OneCreates
  <2> QED BY <1>1, <1>4, <2>3, <2>4, PlaceJobEffect
<1>5. ASSUME NEW r \in Restorers, RestorerDelete(r)
      PROVE  Restoration!Next
  <2>1. UNCHANGED updating
    BY <1>5 DEF RestorerDelete, locals
  <2>2. PICK j \in Jobs : /\ j = restorer[r].job /\ restorer[r].step = "delete"
                          /\ \/ UNCHANGED job /\ Restorer(r, "idle")
                             \/ Deletes(j) /\ Restorer(r, "create")
    BY <1>1, <1>5, RestorerDeleteEffect
  <2>3. CASE UNCHANGED job /\ Restorer(r, "idle")
    <3>1. \A q \in Restorers : restorer'[q].step = "create" => restorer'[q] = restorer[q]
      BY <1>1, <2>3 DEF Restorer, Idle, TypeOK
    <3> QED BY <1>1, <2>1, <2>3, <3>1, QuietGivesUp DEF NamesQuiet, SameJobs
  <2>4. CASE Deletes(j) /\ Restorer(r, "create")
    <3>1. /\ job[j].status # "absent"
          /\ job'[j].status = "absent" /\ job'[j].index = job[j].index
          /\ \A k \in Jobs \ {j} : job'[k] = job[k]
      BY <1>1, <2>4, GoneTyped, RecordsTyped DEF Deletes
    <3>2. /\ restorer'[r].job = j /\ restorer'[r].step = "create"
          /\ \A q \in Restorers \ {r} : restorer'[q] = restorer[q]
      BY <1>1, <2>2, <2>4 DEF Restorer, TypeOK
    <3>3. Restoring(j) = {} /\ updating # j
      BY <1>1, <3>1 DEF NameIsHeld
    <3>4. Restoring(j)' = {r}
      BY <3>2, <3>3 DEF Restoring
    <3>5. \A k \in Jobs \ {j} : Restoring(k)' = Restoring(k)
      BY <2>2, <3>2 DEF Restoring
    <3>6. \A k \in Jobs \ {j} : Holders(k)' = Holders(k)
      BY <2>1, <3>5, SameHolders
    <3>7. Holders(j)' = {r}
      BY <2>1, <3>3, <3>4 DEF Holders
    <3>8. \A k \in Jobs : r \notin Holders(k)
      BY <2>2, PartiesApart DEF Holders, Restoring
    <3> QED BY <3>1, <3>6, <3>7, <3>8, OneTakes
  <2> QED BY <2>2, <2>3, <2>4
<1>6. ASSUME NEW r \in Restorers, RestorerCreate(r)
      PROVE  Restoration!Next
  <2>1. PICK j \in Jobs : j = restorer[r].job /\ r \in Restoring(j)
    BY <1>1, <1>6, GoroutineHasJob DEF RestorerCreate, Restoring
  <2>2. /\ restorer'[r].step = "idle" /\ \A q \in Restorers \ {r} : restorer'[q] = restorer[q]
        /\ updating' = updating /\ CreateRestored(j)
    BY <1>1, <1>6, <2>1 DEF RestorerCreate, Restorer, Idle, TypeOK, locals
  <2>3. CASE UNCHANGED job
    BY <1>1, <2>2, <2>3, QuietGivesUp DEF NamesQuiet, SameJobs
  <2>4. ASSUME NEW new \in JobRecord, Returns(j, new)
        PROVE  Restoration!Next
    <3>0. /\ job'[j].status # "absent" /\ job'[j].index = job[j].index
          /\ \A k \in Jobs \ {j} : job'[k] = job[k]
      BY <1>1, <2>4, RecordsTyped DEF Returns
    <3>1. Holders(j) = {r} /\ updating # j /\ Restoring(j) = {r}
      BY <1>1, <2>1, HoldersAre DEF NameIsHeld
    <3>2. Restoring(j)' = {}
      BY <2>2, <3>1 DEF Restoring
    <3>3. \A k \in Jobs \ {j} : Restoring(k)' = Restoring(k)
      BY <2>1, <2>2 DEF Restoring
    <3>4. \A k \in Jobs \ {j} : Holders(k)' = Holders(k)
      BY <2>2, <3>3, SameHolders
    <3>5. Holders(j)' = {}
      BY <2>2, <3>1, <3>2 DEF Holders
    <3> QED BY <3>0, <3>1, <3>4, <3>5, OneRestores
  <2> QED BY <1>1, <2>2, <2>3, <2>4, RestoredEffect
<1>7. ASSUME NEW j \in Jobs, JobSteps(j)
      PROVE  Restoration!Next
  <2>1. PICK new \in JobRecord : GoesOn(j, new)
    BY <1>1, <1>7, JobControllerEffect
  <2>2. UNCHANGED <<restorer, updating>>
    BY <1>1, <1>7, JobControllerEffect DEF locals
  <2>3. SameJobs /\ NamesQuiet
    BY <1>1, <2>1, <2>2 DEF GoesOn, SameJobs, NamesQuiet, TypeOK
  <2> QED BY <1>1, <2>3, QuietGivesUp
<1>8. CASE NamesQuiet /\ UNCHANGED job
  BY <1>1, <1>8, QuietGivesUp DEF SameJobs
<1> QED
  BY <1>1, <1>2, <1>3, <1>4, <1>5, <1>6, <1>7, <1>8, WhoHoldsNames DEF JobWrites

\* Whoever restores a Job has taken it away alone and brings it back for the same
\* replica, or gives up; nothing else removes a Job, and no new one gets a name
\* that is held (updateJobWithCheckpoint, lines 335-542 of the job file), for any
\* number of goroutines, crashes and aborted reconciles.
THEOREM RestorationImplements == Spec => RestorationSpec
<1>1. Init => Restoration!Init
  <2> SUFFICES ASSUME Init
               PROVE  Restoration!Init
    OBVIOUS
  <2>1. \A j \in Jobs : job[j].status = "absent" /\ job[j].index \in Indices /\ Holders(j) = {}
    BY PartiesApart, TypeInit, JobsTyped DEF Init, NoJob, Idle, Holders, Restoring
  <2> QED BY <2>1 DEF Restoration!Init
<1>2. IInv /\ [Next]_vars => [Restoration!Next]_(Restoration!vars)
  BY RestorationStep
<1> QED
  BY <1>1, <1>2, Invariance, PTL DEF Spec, RestorationSpec, Restoration!Spec
=============================================================================
