-------------------------- MODULE ProvisioningProofs -------------------------
(***************************************************************************)
(* Proofs about Provisioning, for every set of objects and other VMs, with *)
(* names of any kind, and for every size of a page.                        *)
(***************************************************************************)
EXTENDS Provisioning, Minimum, FiniteSetTheorems, TLAPS

-----------------------------------------------------------------------------
(***************************************************************************)
(* The inductive invariant.                                                *)
(***************************************************************************)
\* An object has the name of a VM from the time it is recorded, and the worker
\* has what its step needs.
NamesOK ==
  /\ \A o \in Objects : object[o].phase \in {"recorded", "lost"} => object[o].name # None
  /\ ~At("idle") => me # None
  /\ At("update") => worker.name # None
  /\ worker.step \in {"check", "deleteVM", "deleteWait"} => object[me].name # None

\* The worker takes another VM for the object's only if it has none; nobody
\* else inserts one meanwhile.
AdoptionOK ==
  At("update") /\ worker.name \notin {object[me].name, me} => zone[me] = "none"

IInv == TypeOK /\ NamesOK /\ AdoptionOK

-----------------------------------------------------------------------------
(***************************************************************************)
(* Type correctness.                                                       *)
(***************************************************************************)
\* What is assumed of the names.
LEMMA Bounds ==
  /\ Objects \subseteq Names /\ Names \subseteq Nat /\ 0 \notin Names
  /\ Objects \cap Others = {}
  /\ Longer \subseteq Names /\ \A n \in Longer : n > Stem
  /\ PageSize \in Nat /\ MaxFaults \in Nat
BY NamesAssumption DEF NamesAssumption, Names

\* The records that stand for objects, and for the worker.
ObjectRecord == [phase : Phase, name : Names \cup {None}, deleting : BOOLEAN]
WorkerRecord == [object : Objects \cup {None}, step : Step,
                 name : Names \cup {None}, status : Status]

\* TypeOK in those words.
LEMMA RecordsTyped ==
  TypeOK => object \in [Objects -> ObjectRecord] /\ worker \in WorkerRecord
BY DEF TypeOK, ObjectRecord, WorkerRecord

\* Whatever a step makes of an object is one.
LEMMA ObjectTyped ==
  ASSUME NEW o \in ObjectRecord
  PROVE  /\ \A phase \in Phase : [o EXCEPT !.phase = phase] \in ObjectRecord
         /\ \A phase \in Phase, name \in Names \cup {None} :
              [o EXCEPT !.phase = phase, !.name = name] \in ObjectRecord
         /\ [o EXCEPT !.deleting = TRUE] \in ObjectRecord
BY DEF ObjectRecord

\* Whatever a step makes of the worker is one.
LEMMA WorkerTyped ==
  /\ Idle \in WorkerRecord
  /\ \A w \in WorkerRecord :
       /\ \A step \in Step : [w EXCEPT !.step = step] \in WorkerRecord
       /\ \A name \in Names \cup {None}, status \in Status :
            [w EXCEPT !.step = "update", !.name = name, !.status = status] \in WorkerRecord
BY DEF WorkerRecord, Idle, Step, Status

\* An object that begins with the name of another comes after it; so of the VMs
\* that match an object, its own is the first one on the page.
LEMMA AdoptedName ==
  ASSUME NEW o \in Objects, Matching(o) # {}
  PROVE  /\ Adopted(o) \in Names
         /\ Adopted(o) # o => zone[o] = "none"
<1>1. Matching(o) \in SUBSET Nat
  BY Bounds DEF Matching, Page, Running
<1>2. Adopted(o) \in Matching(o) /\ \A n \in Matching(o) : Adopted(o) <= n
  BY <1>1, MinIsLeast DEF Adopted
<1>3. Adopted(o) \in Page
  BY <1>2 DEF Matching
<1>4. Adopted(o) \in Names
  BY <1>3 DEF Page, Running
<1>5. ASSUME Adopted(o) # o, zone[o] # "none"
      PROVE  FALSE
  <2> DEFINE a == Adopted(o)
             Below(n) == {m \in Running : m < n}
  <2>1. o = Stem /\ a \in Longer
    BY <1>2, <1>5 DEF Matching
  <2>2. a \in Nat /\ o \in Nat /\ o < a
    BY <1>4, <2>1, Bounds
  <2>3. Below(o) \subseteq Below(a) /\ Below(a) \subseteq 0..a
    <3>1. Running \subseteq Nat
      BY Bounds DEF Running
    <3>2. \A m \in Running : m < o => m < a
      BY <2>2, <3>1
    <3>3. \A m \in Running : m < a => m \in 0..a
      BY <2>2, <3>1
    <3> QED BY <3>2, <3>3
  <2>4. IsFiniteSet(0..a)
    BY <2>2, FS_Interval
  <2>5. IsFiniteSet(Below(a))
    BY <2>3, <2>4, FS_Subset
  <2>6. /\ Cardinality(Below(o)) <= Cardinality(Below(a))
        /\ Cardinality(Below(o)) \in Nat /\ Cardinality(Below(a)) \in Nat
    BY <2>3, <2>5, FS_Subset, FS_CardinalityType
  <2>7. Cardinality(Below(a)) < PageSize
    BY <1>3 DEF Page
  <2>8. o \in Running
    BY <1>5, Bounds DEF Running
  <2>9. Cardinality(Below(o)) < PageSize
    BY <2>6, <2>7, Bounds
  <2>10. o \in Page
    BY <2>8, <2>9 DEF Page
  <2>11. o \in Matching(o)
    BY <2>10 DEF Matching
  <2>12. a <= o
    BY <1>2, <2>11
  <2> HIDE DEF a
  <2> QED BY <2>2, <2>12
<1> QED BY <1>4, <1>5

\* Fault counts up to its bound.
LEMMA FaultTyped ==
  ASSUME TypeOK
  PROVE  Fault => faults' \in 0..MaxFaults
BY Bounds DEF TypeOK, Fault

\* The worker gives back the object that it has.
LEMMA ReturnTyped ==
  ASSUME TypeOK, NamesOK, ~At("idle"), NEW again \in BOOLEAN, Return(again)
  PROVE  worker' \in WorkerRecord /\ queue' \subseteq Objects
BY WorkerTyped DEF Return, NamesOK, TypeOK, me

\* An object that is updated is one.
LEMMA CommitTyped ==
  ASSUME TypeOK, NamesOK, ~At("idle"), NEW phase \in Phase, NEW name \in Names \cup {None},
         Commit(phase, name)
  PROVE  object' \in [Objects -> ObjectRecord]
<1>1. me \in Objects
  BY DEF NamesOK, TypeOK, me
<1>2. object' = [object EXCEPT ![me] = [@ EXCEPT !.phase = phase, !.name = name]]
  BY DEF Commit
<1> QED BY <1>1, <1>2, RecordsTyped, ObjectTyped

\* The model starts with every variable in its type.
LEMMA TypeInit == Init => TypeOK
<1> SUFFICES ASSUME Init
             PROVE  TypeOK
  OBVIOUS
<1>1. worker \in WorkerRecord
  BY WorkerTyped DEF Init
<1>2. faults \in 0..MaxFaults
  BY Bounds DEF Init
<1> QED BY <1>1, <1>2 DEF Init, TypeOK, WorkerRecord, Phase, Status

\* Every step keeps the types: the worker has an object, and the object a name,
\* where the step asks for them.
LEMMA TypeStep == TypeOK /\ NamesOK /\ [Next]_vars => TypeOK'
<1> SUFFICES ASSUME TypeOK, NamesOK, [Next]_vars
             PROVE  TypeOK'
  OBVIOUS
<1> USE DEF At, Goto
<1>0. /\ object \in [Objects -> ObjectRecord] /\ worker \in WorkerRecord
      /\ zone \in [Names -> Status] /\ queue \subseteq Objects /\ faults \in 0..MaxFaults
  BY RecordsTyped DEF TypeOK
<1>2. ~At("idle") => me \in Objects /\ me \in Names
  BY Bounds DEF NamesOK, TypeOK, me
<1>3. ASSUME NEW o \in Objects, Take(o)
      PROVE  TypeOK'
  <2>1. FirstStep(o) \in Step
    BY DEF FirstStep, Step
  <2>2. [Idle EXCEPT !.object = o, !.step = FirstStep(o)] \in WorkerRecord
    BY <2>1 DEF Idle, WorkerRecord, Step, Status
  <2> QED BY <1>0, <1>3, <2>2, WorkerTyped DEF Take, TypeOK, ObjectRecord, WorkerRecord
<1>4. ASSUME NEW o \in Objects, Create(o) \/ Delete(o)
      PROVE  TypeOK'
  <2>1. \/ object' = [object EXCEPT ![o] = [@ EXCEPT !.phase = "new"]]
        \/ object' = [object EXCEPT ![o] = [@ EXCEPT !.deleting = TRUE]]
    BY <1>4 DEF Create, Delete
  <2>2. object' \in [Objects -> ObjectRecord]
    <3>1. object[o] \in ObjectRecord /\ "new" \in Phase
      BY <1>0 DEF Phase
    <3>2. /\ [object[o] EXCEPT !.phase = "new"] \in ObjectRecord
          /\ [object[o] EXCEPT !.deleting = TRUE] \in ObjectRecord
      BY <3>1, ObjectTyped
    <3> QED BY <1>0, <2>1, <3>2
  <2> QED BY <1>0, <1>4, <2>2 DEF Create, Delete, TypeOK, ObjectRecord, WorkerRecord
<1>5. CASE ListInstances
  <2>1. worker' \in WorkerRecord
    <3>1. CASE Matching(me) = {}
      BY <1>0, <1>5, <3>1, WorkerTyped DEF ListInstances, Step
    <3>2. CASE Matching(me) # {}
      <4>1. Adopted(me) \in Names /\ zone[Adopted(me)] \in Status
        BY <1>0, <1>2, <1>5, <3>2, AdoptedName DEF ListInstances
      <4> QED BY <1>0, <1>5, <3>2, <4>1, WorkerTyped DEF ListInstances
    <3> QED BY <3>1, <3>2
  <2> QED BY <1>0, <1>5, <2>1 DEF ListInstances, TypeOK, ObjectRecord, WorkerRecord
<1>6. CASE Insert
  <2>1. zone' \in [Names -> Status]
    BY <1>0, <1>2, <1>6 DEF Insert, Status
  <2>2. worker' \in WorkerRecord /\ queue' \subseteq Objects
    BY <1>0, <1>6, ReturnTyped, WorkerTyped DEF Insert, Step
  <2>3. faults' \in 0..MaxFaults
    BY <1>0, <1>6, FaultTyped DEF Insert
  <2> QED BY <1>0, <1>6, <2>1, <2>2, <2>3 DEF Insert, TypeOK, ObjectRecord, WorkerRecord
<1>7. CASE InsertDone
  <2>1. worker' \in WorkerRecord /\ queue' \subseteq Objects
    BY <1>0, <1>7, ReturnTyped, WorkerTyped DEF InsertDone, Step
  <2> QED BY <1>0, <1>7, <2>1 DEF InsertDone, TypeOK, ObjectRecord, WorkerRecord
<1>8. CASE Record
  <2>1. object' \in [Objects -> ObjectRecord]
    BY <1>2, <1>8, CommitTyped DEF Record, Phase
  <2>2. worker' \in WorkerRecord /\ queue' \subseteq Objects
    BY <1>8, ReturnTyped DEF Record
  <2> QED BY <1>0, <1>8, <2>1, <2>2 DEF Record, TypeOK, ObjectRecord, WorkerRecord
<1>9. CASE GetInstance
  <2>1. object[me].name \in Names
    BY <1>0, <1>2, <1>9 DEF GetInstance, NamesOK, ObjectRecord, None
  <2>2. worker' \in WorkerRecord
    <3>1. zone[object[me].name] \in Status /\ "none" \in Status
      BY <1>0, <2>1 DEF Status
    <3>2. PICK status \in Status :
            worker' = [worker EXCEPT !.step = "update", !.name = object[me].name,
                                     !.status = status]
      BY <1>9, <3>1 DEF GetInstance
    <3> QED BY <1>0, <2>1, <3>2, WorkerTyped
  <2>3. faults' \in 0..MaxFaults
    BY <1>0, <1>9, FaultTyped DEF GetInstance
  <2> QED BY <1>0, <1>9, <2>2, <2>3 DEF GetInstance, TypeOK, ObjectRecord, WorkerRecord
<1>10. CASE UpdateStatus
  <2>1. PICK again \in BOOLEAN : Return(again)
    BY <1>10 DEF UpdateStatus, Requeues
  <2>2. worker' \in WorkerRecord /\ queue' \subseteq Objects
    BY <1>10, <2>1, ReturnTyped DEF UpdateStatus
  <2>3. worker.name \in Names \cup {None} /\ PhaseFor(worker.status) \in Phase
    BY <1>0 DEF WorkerRecord, PhaseFor, Phase
  <2>4. object' \in [Objects -> ObjectRecord]
    BY <1>10, <2>3, CommitTyped DEF UpdateStatus, Phase
  <2> QED BY <1>0, <1>10, <2>2, <2>4 DEF UpdateStatus, TypeOK, ObjectRecord, WorkerRecord
<1>11. CASE DeleteInstance
  <2>1. object[me].name \in Names
    BY <1>0, <1>2, <1>11 DEF DeleteInstance, NamesOK, ObjectRecord, None
  <2>2. zone' \in [Names -> Status]
    BY <1>0, <1>11, <2>1 DEF DeleteInstance, Status
  <2>3. worker' \in WorkerRecord
    BY <1>0, <1>11, WorkerTyped DEF DeleteInstance, Step
  <2>4. faults' \in 0..MaxFaults
    BY <1>0, <1>11, FaultTyped DEF DeleteInstance, TakenForMissing
  <2> QED BY <1>0, <1>11, <2>2, <2>3, <2>4 DEF DeleteInstance, TypeOK, ObjectRecord, WorkerRecord
<1>12. CASE DeleteDone
  <2>1. worker' \in WorkerRecord
    BY <1>0, <1>12, WorkerTyped DEF DeleteDone, Step
  <2>2. faults' \in 0..MaxFaults
    BY <1>0, <1>12, FaultTyped DEF DeleteDone, TakenForMissing
  <2> QED BY <1>0, <1>12, <2>1, <2>2 DEF DeleteDone, TypeOK, ObjectRecord, WorkerRecord
<1>13. CASE Finalize
  <2>1. object' = [object EXCEPT ![me] = [@ EXCEPT !.phase = "gone"]]
    BY <1>13 DEF Finalize
  <2>2. object' \in [Objects -> ObjectRecord]
    BY <1>0, <2>1, ObjectTyped DEF Phase
  <2>3. worker' \in WorkerRecord /\ queue' \subseteq Objects
    BY <1>13, ReturnTyped DEF Finalize
  <2> QED BY <1>0, <1>13, <2>2, <2>3 DEF Finalize, TypeOK, ObjectRecord, WorkerRecord
<1>14. CASE Fail
  <2>1. worker' \in WorkerRecord /\ queue' \subseteq Objects
    BY <1>14, ReturnTyped DEF Fail
  <2>2. faults' \in 0..MaxFaults
    BY <1>0, <1>14, FaultTyped DEF Fail
  <2> QED BY <1>0, <1>14, <2>1, <2>2 DEF Fail, TypeOK, ObjectRecord, WorkerRecord
<1>15. CASE Crash
  <2>1. faults' \in 0..MaxFaults
    BY <1>15, FaultTyped DEF Crash
  <2> QED BY <1>0, <1>15, <2>1, WorkerTyped DEF Crash, TypeOK, ObjectRecord, WorkerRecord
<1>16. ASSUME NEW n \in Names, NEW from, NEW to \in Status, Becomes(n, from, to),
              faults' \in 0..MaxFaults
       PROVE  TypeOK'
  BY <1>0, <1>16 DEF Becomes, TypeOK, ObjectRecord, WorkerRecord
<1>17. ASSUME NEW n \in Names, Operate(n) \/ InsertFails(n) \/ Preempt(n) \/ Unrelated(n)
       PROVE  TypeOK'
  <2>1. faults' \in 0..MaxFaults
    BY <1>0, <1>17, FaultTyped DEF Operate, InsertFails, Preempt, Unrelated
  <2> QED BY <1>16, <1>17, <2>1 DEF Operate, InsertFails, Preempt, Unrelated, Status
<1>18. CASE UNCHANGED vars
  BY <1>18 DEF vars, TypeOK
<1> HIDE DEF At, Goto
<1> QED
  BY <1>3, <1>4, <1>5, <1>6, <1>7, <1>8, <1>9, <1>10, <1>11, <1>12, <1>13, <1>14, <1>15, <1>17,
     <1>18 DEF Next, Work

-----------------------------------------------------------------------------
(***************************************************************************)
(* The steps of the invariant.                                             *)
(***************************************************************************)
\* The worker writes the names; the users create and delete.
ObjectAdvance ==
  \/ UNCHANGED object
  \/ \E o \in Objects :
       /\ object[o].phase = "absent"
       /\ object' = [object EXCEPT ![o].phase = "new"]
  \/ \E o \in Objects : object' = [object EXCEPT ![o].deleting = TRUE]
  \/ At("record") /\ object' = [object EXCEPT ![me].phase = "recorded", ![me].name = me]
  \/ /\ At("update")
     /\ \E phase \in {"recorded", "lost"} :
          object' = [object EXCEPT ![me].phase = phase, ![me].name = worker.name]
  \/ At("finalize") /\ object' = [object EXCEPT ![me].phase = "gone"]

\* No step does more than that to the objects.
LEMMA ObjectStep == [Next]_vars => ObjectAdvance
<1> SUFFICES ASSUME [Next]_vars
             PROVE  ObjectAdvance
  OBVIOUS
<1>1. CASE UNCHANGED object
  BY <1>1 DEF ObjectAdvance
<1>2. CASE \E o \in Objects : Create(o) \/ Delete(o)
  BY <1>2 DEF Create, Delete, ObjectAdvance
<1>3. CASE Record
  BY <1>3 DEF Record, Commit, ObjectAdvance
<1>4. CASE UpdateStatus
  <2>1. PhaseFor(worker.status) \in {"recorded", "lost"}
    BY DEF PhaseFor
  <2> QED BY <1>4, <2>1 DEF UpdateStatus, Commit, ObjectAdvance
<1>5. CASE Finalize
  BY <1>5 DEF Finalize, ObjectAdvance
<1> QED
  BY <1>1, <1>2, <1>3, <1>4, <1>5 DEF Next, Work, Take, ListInstances, Insert, InsertDone,
     GetInstance, DeleteInstance, DeleteDone, Fail, Crash, Operate, InsertFails, Preempt,
     Unrelated, Becomes, vars

\* The worker's step changes with its own actions only; those of the others leave
\* it, or end it.
LEMMA WhoWorks ==
  ASSUME [Next]_vars
  PROVE  \/ UNCHANGED worker
         \/ worker' = Idle
         \/ \E o \in Objects : Take(o)
         \/ ListInstances \/ Insert \/ InsertDone \/ GetInstance \/ DeleteInstance \/ DeleteDone
BY DEF Next, Work, Create, Delete, Record, UpdateStatus, Finalize, Fail, Return, Crash, Operate,
   InsertFails, Preempt, Unrelated, Becomes, vars

\* While the worker is on its way to a write, its object keeps its name.
LEMMA NameStays ==
  ASSUME TypeOK, NamesOK, [Next]_vars, ~At("record"), ~At("update"), NEW o \in Objects
  PROVE  object'[o].name = object[o].name
<1>1. ObjectAdvance
  BY ObjectStep
<1> QED BY <1>1 DEF ObjectAdvance, TypeOK

\* After the two writes of a name the worker is idle.
LEMMA WriteEnds ==
  ASSUME TypeOK, [Next]_vars, At("record") \/ At("update")
  PROVE  \/ UNCHANGED worker /\ \A o \in Objects : object'[o].name = object[o].name
         \/ worker' = Idle
<1>1. CASE worker' = worker /\ ~Record /\ ~UpdateStatus
  <2>1. \/ UNCHANGED object
        \/ \E o \in Objects : Create(o) \/ Delete(o)
    BY <1>1 DEF Next, Work, Finalize, At, Take, ListInstances, Insert, InsertDone, GetInstance,
       DeleteInstance, DeleteDone, Fail, Crash, Operate, InsertFails, Preempt, Unrelated, Becomes,
       vars
  <2> QED BY <1>1, <2>1 DEF Create, Delete, TypeOK
<1>2. CASE Record \/ UpdateStatus
  BY <1>2 DEF Record, UpdateStatus, Return
<1> QED
  BY <1>1, <1>2, WhoWorks DEF Take, ListInstances, Insert, InsertDone, GetInstance,
     DeleteInstance, DeleteDone, At

\* Every step leaves the recorded objects, and the worker, with a name.
LEMMA NamesStep == TypeOK /\ NamesOK /\ [Next]_vars => NamesOK'
<1> SUFFICES ASSUME TypeOK, NamesOK, [Next]_vars
             PROVE  NamesOK'
  OBVIOUS
<1>1. ObjectAdvance
  BY ObjectStep
<1>2. None \notin Objects /\ None \notin Names
  BY Bounds DEF None
<1>3. ~At("idle") => me \in Objects
  BY DEF NamesOK, TypeOK, me
<1>4. ASSUME NEW o \in Objects, object'[o].phase \in {"recorded", "lost"}
      PROVE  object'[o].name # None
  BY <1>1, <1>2, <1>3, <1>4 DEF ObjectAdvance, NamesOK, TypeOK, At
<1>5. CASE worker' = Idle
  BY <1>4, <1>5 DEF NamesOK, At, Idle
<1>6. CASE UNCHANGED worker
  <2>1. CASE At("record") \/ At("update")
    BY <1>4, <1>6, <2>1 DEF NamesOK, At, me
  <2>2. CASE ~At("record") /\ ~At("update")
    <3>1. ~At("idle") => object'[me].name = object[me].name
      BY <1>3, <2>2, NameStays
    <3> QED BY <1>4, <1>6, <2>2, <3>1 DEF NamesOK, At, me
  <2> QED BY <2>1, <2>2
<1>7. ASSUME NEW o \in Objects, Take(o)
      PROVE  NamesOK'
  <2>1. CASE ~Exists(o)
    BY <1>5, <1>7, <2>1 DEF Take
  <2>2. CASE Exists(o)
    <3>1. worker' = [Idle EXCEPT !.object = o, !.step = FirstStep(o)] /\ UNCHANGED object
      BY <1>7, <2>2 DEF Take
    <3>2. worker'.object = o /\ worker'.step = FirstStep(o)
      BY <3>1 DEF Idle
    <3>3. FirstStep(o) # "update"
      BY DEF FirstStep
    <3>4. FirstStep(o) \in {"deleteVM", "deleteWait"} => object[o].name # None
      BY DEF FirstStep
    <3>5. FirstStep(o) = "check" => object[o].name # None
      BY <2>2 DEF FirstStep, Exists, NamesOK, TypeOK, Phase
    <3> QED BY <1>2, <1>4, <3>1, <3>2, <3>3, <3>4, <3>5 DEF NamesOK, At, me
  <2> QED BY <2>1, <2>2
<1>8. CASE ListInstances
  <2>1. Matching(me) # {} => Adopted(me) # None
    BY <1>2, <1>3, <1>8, AdoptedName DEF ListInstances, At
  <2> QED BY <1>4, <1>8, <2>1 DEF ListInstances, NamesOK, TypeOK, At, me
<1>9. CASE Insert \/ InsertDone
  BY <1>4, <1>5, <1>9 DEF Insert, InsertDone, Return, Goto, NamesOK, TypeOK, At, me
<1>10. CASE GetInstance
  BY <1>4, <1>10 DEF GetInstance, NamesOK, TypeOK, At, me
<1>11. CASE DeleteInstance \/ DeleteDone
  BY <1>4, <1>11 DEF DeleteInstance, DeleteDone, Goto, NamesOK, TypeOK, At, me
<1> QED BY <1>5, <1>6, <1>7, <1>8, <1>9, <1>10, <1>11, WhoWorks

\* Only the worker, at its insert, brings up a VM of an object's name.
LEMMA OwnVM ==
  ASSUME TypeOK, [Next]_vars, ~At("insert"), NEW o \in Objects, zone[o] = "none"
  PROVE  zone'[o] = "none"
<1>1. o \in Names /\ o \notin Others
  BY Bounds
<1>2. CASE UNCHANGED zone
  BY <1>2
<1>3. CASE DeleteInstance
  BY <1>1, <1>3 DEF DeleteInstance, TypeOK
<1>4. ASSUME NEW n \in Names, Operate(n) \/ InsertFails(n) \/ Preempt(n) \/ Unrelated(n)
      PROVE  zone'[o] = "none"
  BY <1>1, <1>4 DEF Operate, InsertFails, Preempt, Unrelated, Becomes, TypeOK
<1> QED
  BY <1>2, <1>3, <1>4 DEF Next, Work, Take, Create, Delete, ListInstances, Insert, InsertDone,
     Record, GetInstance, UpdateStatus, DeleteDone, Finalize, Fail, Crash, vars

\* From the list of the VMs to the write of the name, the VM of another name is
\* the only one to take.
LEMMA AdoptionStep == TypeOK /\ NamesOK /\ AdoptionOK /\ [Next]_vars => AdoptionOK'
<1> SUFFICES ASSUME TypeOK, NamesOK, AdoptionOK, [Next]_vars, worker'.step = "update",
                    worker'.name \notin {object'[worker'.object].name, worker'.object}
             PROVE  zone'[worker'.object] = "none"
  BY DEF AdoptionOK, At, me
<1>1. ~At("idle") => me \in Objects
  BY DEF NamesOK, TypeOK, me
<1>2. CASE worker' = Idle
  BY <1>2 DEF At, Idle
<1>3. CASE UNCHANGED worker
  <2>1. At("update") /\ ~At("insert") /\ me \in Objects /\ me = worker'.object
    BY <1>1, <1>3 DEF At, me
  <2>2. object'[me].name = object[me].name
    BY <1>3, <2>1, WriteEnds DEF At, Idle
  <2>3. zone[me] = "none"
    BY <1>3, <2>1, <2>2 DEF AdoptionOK
  <2> QED BY <2>1, <2>3, OwnVM
<1>4. ASSUME NEW o \in Objects, Take(o)
      PROVE  FALSE
  <2>1. worker' = [Idle EXCEPT !.object = o, !.step = FirstStep(o)]
    BY <1>4 DEF Take, At, Idle
  <2>2. FirstStep(o) # "update"
    BY DEF FirstStep
  <2> QED BY <2>1, <2>2 DEF At, Idle
<1>5. CASE ListInstances
  <2>1. me \in Objects /\ UNCHANGED zone
    BY <1>1, <1>5 DEF ListInstances, At
  <2>2. /\ Matching(me) # {}
        /\ worker'.object = me /\ worker'.name = Adopted(me)
    BY <1>5 DEF ListInstances, TypeOK, At, me
  <2> QED BY <2>1, <2>2, AdoptedName
<1>6. CASE GetInstance
  BY <1>6 DEF GetInstance, TypeOK, At, me
<1>7. CASE Insert \/ InsertDone \/ DeleteInstance \/ DeleteDone
  BY <1>2, <1>7 DEF Insert, InsertDone, DeleteInstance, DeleteDone, Return, Goto, TypeOK, At
<1> QED BY <1>2, <1>3, <1>4, <1>5, <1>6, <1>7, WhoWorks

-----------------------------------------------------------------------------
(***************************************************************************)
(* The invariant, and what follows from it.                                *)
(***************************************************************************)
\* At the start there is nothing and nothing runs.
LEMMA InvInit == Init => IInv
BY TypeInit DEF Init, IInv, NamesOK, AdoptionOK, At, Idle

\* Every step keeps it.
LEMMA InvStep == IInv /\ [Next]_vars => IInv'
BY TypeStep, NamesStep, AdoptionStep DEF IInv

\* The invariant holds whatever calls fail and wherever the manager crashes.
THEOREM Invariance == Spec => []IInv
BY InvInit, InvStep, PTL DEF Spec

\* The variables keep their types: GCP is asked for a VM only where the object
\* has a name (the checks of InstanceName in the controller).
THEOREM TypeCorrect == Spec => []TypeOK
<1>1. IInv => TypeOK
  BY DEF IInv
<1> QED BY <1>1, Invariance, PTL

\* An object takes the VM of another name for its own only if it has none
\* (ListInstancesByPrefix, lines 176-193 of the provisioner, with lines 170-173
\* of the controller), whatever the size of a page is and whatever names begin
\* with its own.
THEOREM AdoptsOwnEver == Spec => AdoptsOwn
<1>1. ASSUME IInv, [Next]_vars
      PROVE  [\A o \in Objects :
                object'[o].name \notin {object[o].name, o} => zone[o] = "none"]_vars
  <2> SUFFICES ASSUME NEW o \in Objects, object'[o].name \notin {object[o].name, o}
               PROVE  zone[o] = "none"
    OBVIOUS
  <2>1. TypeOK /\ NamesOK /\ AdoptionOK /\ ObjectAdvance
    BY <1>1, ObjectStep DEF IInv
  <2>2. At("update") /\ o = me /\ object'[o].name = worker.name
    BY <2>1 DEF ObjectAdvance, TypeOK
  <2> QED BY <2>1, <2>2 DEF AdoptionOK
<1> QED BY <1>1, Invariance, PTL DEF Spec, AdoptsOwn
=============================================================================
