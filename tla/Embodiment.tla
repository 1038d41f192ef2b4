----------------------------- MODULE Embodiment -----------------------------
(***************************************************************************)
(* What the durable worlds promise (docs/RUNTIME_AUTHORITY.md:13 and the   *)
(* section "Durable-state single writer"): each has at most one owner,     *)
(* only its owner writes it, and a write never loses what is already in    *)
(* it.  A world is the set of the observations it has absorbed.            *)
(***************************************************************************)
CONSTANTS Proc, World, Fact, NoOwner   \* NoOwner is not in Proc

VARIABLES owner, world

Init ==
  /\ owner = [e \in World |-> NoOwner]
  /\ world = [e \in World |-> {}]

Acquire(p, e) ==
  /\ owner[e] = NoOwner
  /\ owner' = [owner EXCEPT ![e] = p]
  /\ UNCHANGED world

Commit(p, e) ==
  /\ owner[e] = p
  /\ \E facts \in SUBSET Fact :
        /\ world[e] \subseteq facts
        /\ world' = [world EXCEPT ![e] = facts]
  /\ UNCHANGED owner

\* By releasing the lease, or by dying.
Vacate(p, e) ==
  /\ owner[e] = p
  /\ owner' = [owner EXCEPT ![e] = NoOwner]
  /\ UNCHANGED world

Next ==
  \E p \in Proc, e \in World : Acquire(p, e) \/ Commit(p, e) \/ Vacate(p, e)

Spec == Init /\ [][Next]_<<owner, world>>
=============================================================================
