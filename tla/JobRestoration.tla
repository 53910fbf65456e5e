--------------------------- MODULE JobRestoration ---------------------------
(***************************************************************************)
(* How Jobs are restored, whoever does it: a Job is taken away by one      *)
(* party, which has its name for itself until it has created the Job       *)
(* again, for the same replica, or gives up.  Nothing else removes a Job,  *)
(* and nobody creates one under a name that is held.  SpotInstanceJob      *)
(* implements this specification.                                          *)
(***************************************************************************)
CONSTANTS
  Jobs,       \* names of Jobs
  Indices,    \* replica indices
  Parties     \* who restores Jobs: the reconcile and its goroutines

VARIABLES
  present,    \* the Jobs that are there
  replica,    \* the replica that a Job belongs to, or did when it was there
  holders     \* the parties that have taken a Job away and not returned it

vars == <<present, replica, holders>>

Init ==
  /\ present = {}
  /\ replica \in [Jobs -> Indices]
  /\ holders = [j \in Jobs |-> {}]

\* A new Job, of any replica.
Create(j) ==
  /\ j \notin present
  /\ holders[j] = {}
  /\ present' = present \cup {j}
  /\ \E n \in Indices : replica' = [replica EXCEPT ![j] = n]
  /\ UNCHANGED holders

\* A party has one Job in hand at a time.
Take(p, j) ==
  /\ j \in present
  /\ \A k \in Jobs : p \notin holders[k]
  /\ present' = present \ {j}
  /\ holders' = [holders EXCEPT ![j] = {p}]
  /\ UNCHANGED replica

Restore(p, j) ==
  /\ holders[j] = {p}
  /\ present' = present \cup {j}
  /\ holders' = [holders EXCEPT ![j] = {}]
  /\ UNCHANGED replica

\* No instance is ready for the Job, an error, a crash: the Job stays deleted.
GiveUp(some) ==
  /\ holders' = [j \in Jobs |-> holders[j] \ some]
  /\ UNCHANGED <<present, replica>>

Next ==
  \/ \E some \in SUBSET Parties : GiveUp(some)
  \/ \E j \in Jobs : Create(j)
  \/ \E p \in Parties, j \in Jobs : Take(p, j) \/ Restore(p, j)

Spec == Init /\ [][Next]_vars
=============================================================================
