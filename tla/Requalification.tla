--------------------------- MODULE Requalification ---------------------------
(***************************************************************************)
(* What has to be thought over again when some premises have changed       *)
(* (reality/evidence.py, EvidenceDependencyIndex).  A relation says that   *)
(* evidence bears on a proposition, which may be evidence for others; the  *)
(* plan is found by a breadth-first search from the changed references.    *)
(* A relation is its own id; the order among the dependents of one         *)
(* reference is left open.                                                 *)
(***************************************************************************)
EXTENDS Observation, Integers, Sequences, FiniteSets, SequencesExt

CONSTANTS
  Ref,        \* what relations relate
  Questions   \* the questions that may be asked of an index

\* An index has finitely many references, each relation relates two of them, and
\* what has changed is given as a list of them.
ASSUME QuestionsAssumption ==
  /\ IsFiniteSet(Ref)
  /\ None \notin Questions
  /\ \A q \in Questions :
       /\ q.changed \in Seq(Ref)
       /\ \A r \in q.relations : r.proposition \in Ref /\ r.evidence \in Ref

VARIABLES
  question,   \* the index and the arguments of the call, None before it
  queue,      \* references to expand, with their depths
  expanded,   \* references that were in the queue
  depth,      \* the depth of each dependent, 0 while there is none
  triggers,   \* the references that led to each dependent
  plan        \* the impacts returned, or Fails if the call raised

planVars == <<question, queue, expanded, depth, triggers, plan>>

\* A question: relations of the given kinds, the order of changed references.
Question(relations, kinds, changed, unavailable) ==
  [relations |-> relations, kinds |-> kinds, changed |-> changed,
   unavailable |-> unavailable]

Changed(q) == ToSet(q.changed)

\* relations_for and direct_dependents, for the kinds that are asked for.
Asked(q) == {r \in q.relations : q.kinds = None \/ r.kind \in q.kinds}
RelationsFor(q, ref) == {r \in Asked(q) : r.proposition = ref}
DirectDependents(q, ref) == {r.proposition : r \in {s \in Asked(q) : s.evidence = ref}}

PlanInit ==
  /\ question = None /\ queue = <<>> /\ expanded = {} /\ plan = None
  /\ depth = [r \in Ref |-> 0] /\ triggers = [r \in Ref |-> {}]

\* plan_requalification, up to its loop.
AskForPlan(q) ==
  /\ question = None
  /\ question' = q
  /\ \/ /\ q.changed = <<>>
        /\ plan' = {}
        /\ UNCHANGED <<queue, expanded>>
     \/ /\ q.changed # <<>> /\ ~(q.unavailable \subseteq Changed(q))
        /\ plan' = Fails
        /\ UNCHANGED <<queue, expanded>>
     \/ /\ q.changed # <<>> /\ q.unavailable \subseteq Changed(q)
        /\ queue' = [i \in DOMAIN q.changed |-> <<q.changed[i], 0>>]
        /\ expanded' = Changed(q)
        /\ UNCHANGED plan
  /\ UNCHANGED <<depth, triggers>>

\* A changed reference stays a root, whatever depends on what.
Dependents(ref) == DirectDependents(question, ref) \ Changed(question)

Entries(refs, at) ==
  LET s == SetToSeq(refs) IN [i \in DOMAIN s |-> <<s[i], at>>]

\* Slip: what is on the plan already is not looked at again.
ExpandNew ==
  LET ref  == Head(queue)[1]
      next == Head(queue)[2] + 1
      new  == Dependents(ref) \ expanded
  IN /\ queue # <<>>
     /\ depth' = [r \in Ref |-> IF r \in new THEN next ELSE depth[r]]
     /\ triggers' = [r \in Ref |-> IF r \in new THEN triggers[r] \union {ref}
                                   ELSE triggers[r]]
     /\ expanded' = expanded \union new
     /\ queue' = Tail(queue) \o Entries(new, next)
     /\ UNCHANGED <<question, plan>>

\* One turn of the loop: all direct dependents of one reference.
Expand ==
  LET ref  == Head(queue)[1]
      next == Head(queue)[2] + 1
      all  == Dependents(ref)
  IN /\ queue # <<>>
     /\ depth' = [r \in Ref |->
          IF r \in all /\ (depth[r] = 0 \/ next < depth[r]) THEN next ELSE depth[r]]
     /\ triggers' = [r \in Ref |-> IF r \in all THEN triggers[r] \union {ref}
                                   ELSE triggers[r]]
     /\ expanded' = expanded \union all
     /\ queue' = Tail(queue) \o Entries(all \ expanded, next)
     /\ UNCHANGED <<question, plan>>

Impacted == {r \in Ref : depth[r] > 0}
Pending  == (Impacted \union Changed(question)) \ question.unavailable

\* What a proposition rests on, by what has become of it.
Impact(ref) ==
  LET On(refs) == {r \in RelationsFor(question, ref) : r.evidence \in refs}
  IN [ proposition |-> ref, depth |-> depth[ref], triggers |-> triggers[ref],
       lost    |-> On(question.unavailable),
       pending |-> On(Pending),
       stable  |-> On(Ref \ (Pending \union question.unavailable)) ]

\* The loop is over: the impacts are returned.
Return ==
  /\ question # None /\ plan = None /\ queue = <<>>
  /\ plan' = {Impact(r) : r \in Impacted}
  /\ UNCHANGED <<question, queue, expanded, depth, triggers>>

PlanNext ==
  \/ question = None /\ \E q \in Questions : AskForPlan(q)
  \/ Expand
  \/ Return

PlanSpec == PlanInit /\ [][PlanNext]_planVars

-----------------------------------------------------------------------------
\* The references within n steps of the changed ones.
Within(q) ==
  LET near[n \in 0..Cardinality(Ref)] ==
        IF n = 0 THEN Changed(q)
        ELSE near[n - 1] \union UNION {DirectDependents(q, r) : r \in near[n - 1]}
  IN near

\* A plan has every proposition that can be reached from what has changed and
\* is not itself changed, at its shortest distance, with everything on the
\* plan or changed that bears on it as a trigger; what it calls stable rests
\* on nothing on the plan, and every impact has something that is not stable.
\* A plan is refused exactly where something unavailable is not changed.
PlanIsComplete ==
  plan # None =>
    LET near == Within(question)
        all  == near[Cardinality(Ref)]
        refused == question.changed # <<>>
                     /\ ~(question.unavailable \subseteq Changed(question))
        AtItsPlace(i) ==
          /\ i.proposition \in near[i.depth] /\ i.proposition \notin near[i.depth - 1]
          /\ i.triggers = {r \in all : i.proposition \in DirectDependents(question, r)}
          /\ \A r \in i.stable : r.evidence \notin all
          /\ i.lost \union i.pending # {}
          /\ i.lost \union i.pending \union i.stable
               = RelationsFor(question, i.proposition)
    IN /\ (plan = Fails) <=> refused
       /\ ~refused =>
            /\ {i.proposition : i \in plan} = all \ Changed(question)
            /\ \A i \in plan : AtItsPlace(i)
=============================================================================
