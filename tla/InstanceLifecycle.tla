------------------------- MODULE InstanceLifecycle -------------------------
(***************************************************************************)
(* What a ProvisionedInstance promises to the controller that owns it,     *)
(* through the phase that its status shows: a lost instance                *)
(* (PreemptionNotice) is never live again, a node that has joined is not   *)
(* taken back while the VM runs, and nothing comes back once the object is *)
(* gone.  ProvisionedInstance implements this specification.               *)
(***************************************************************************)
EXTENDS Naturals, Sequences

CONSTANT Instances

VARIABLE phase          \* the phase that each instance shows

(***************************************************************************)
(* starting : Status.State is "", PENDING or PROVISIONING                  *)
(* staging  : STAGING, a state that GCP reports between the two            *)
(* running  : RUNNING, before the node is known to have joined             *)
(* ready    : RUNNING, JoinedCluster and NodeName set                      *)
(* lost     : PreemptionNotice                                             *)
(***************************************************************************)
Order == <<"absent", "starting", "staging", "running", "ready", "lost", "gone">>
Phase == {Order[i] : i \in 1..7}

Before(a, b) == \E i, j \in 1..7 : i < j /\ Order[i] = a /\ Order[j] = b

TypeOK == phase \in [Instances -> Phase]

Init == phase = [p \in Instances |-> "absent"]

Create(p) ==
  /\ phase[p] = "absent"
  /\ phase' = [phase EXCEPT ![p] = "starting"]

Advance(p) ==
  /\ phase[p] # "absent"
  /\ \E to \in Phase :
       /\ Before(phase[p], to)
       /\ phase' = [phase EXCEPT ![p] = to]

\* A VM that disappears before its loss was noticed may be created again.
Replace(p) ==
  \E to \in {"starting", "staging"} :
    /\ phase[p] \in {"staging", "running", "ready"}
    /\ phase' = [phase EXCEPT ![p] = to]

Next == \E p \in Instances : Create(p) \/ Advance(p) \/ Replace(p)

Spec == Init /\ [][Next]_phase
=============================================================================
