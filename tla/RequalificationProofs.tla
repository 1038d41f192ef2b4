------------------------ MODULE RequalificationProofs ------------------------
(***************************************************************************)
(* Theorems about Requalification, for every index and every question.     *)
(*                                                                         *)
(* The search leaves nothing out because of what its queue holds: whatever *)
(* has been expanded is still in the queue, or all its dependents are on   *)
(* the plan with it among their triggers.  First: a plan is exact.  Then:  *)
(* it has everything that can be reached, at its shortest distance; for    *)
(* this, what is near is compared with what the search has expanded when   *)
(* its queue comes to the next distance.                                   *)
(***************************************************************************)
EXTENDS Requalification, FiniteSetTheorems, WellFoundedInduction, TLAPS

\* An accepted question: plan_requalification gets to its loop.
Accepted(q) == q.changed # <<>> /\ q.unavailable \subseteq Changed(q)

\* Whatever is changed or on the plan.
Planned  == {i.proposition : i \in plan}
Affected == Changed(question) \union Planned

\* A plan that is returned is exact: it has all dependents of what is changed
\* and of what it has itself, and nothing else, and each of them has as its
\* triggers exactly the affected references that it depends on
\* (plan_requalification of reality/evidence.py).
PlanIsExact ==
  question # None /\ Accepted(question) /\ plan # None =>
    /\ Planned = UNION {Dependents(r) : r \in Affected}
    /\ \A i \in plan : i.triggers = {r \in Affected : i.proposition \in Dependents(r)}

-----------------------------------------------------------------------------
(* The entries of the queue                                                *)

LEMMA SeqIsOnto ==
  ASSUME NEW S, IsFiniteSet(S)
  PROVE  SetToSeq(S) \in Surjection(1..Cardinality(S), S)
<1> DEFINE n == Cardinality(S)
<1>1. n \in Nat /\ ExistsBijection(1..n, S)
  BY FS_CardinalityType
<1>2. \E f \in [1..n -> S] : IsInjective(f)
  BY <1>1 DEF ExistsBijection, Bijection, Injection
<1>3. SetToSeq(S) \in Injection(1..n, S)
  BY <1>2 DEF SetToSeq, Injection
<1>4. IsFiniteSet(1..n) /\ Cardinality(1..n) = n
  BY <1>1, FS_Interval
<1> QED BY <1>3, <1>4, FS_Injection

LEMMA EntriesAre ==
  ASSUME NEW refs \in SUBSET Ref, IsFiniteSet(refs), NEW at \in Nat
  PROVE  /\ Entries(refs, at) \in Seq(Ref \X Nat)
         /\ \A r \in refs : \E i \in DOMAIN Entries(refs, at) : Entries(refs, at)[i][1] = r
         /\ \A i \in DOMAIN Entries(refs, at) :
              Entries(refs, at)[i][1] \in refs /\ Entries(refs, at)[i][2] = at
<1> DEFINE s == SetToSeq(refs)
           n == Cardinality(refs)
<1>1. n \in Nat /\ s \in [1..n -> refs] /\ \A r \in refs : \E i \in 1..n : s[i] = r
  BY SeqIsOnto, FS_CardinalityType DEF Surjection
<1>2. Entries(refs, at) = [i \in 1..n |-> <<s[i], at>>]
  BY <1>1 DEF Entries
<1> HIDE DEF s, n
<1>3. Entries(refs, at) \in [1..n -> Ref \X Nat]
  BY <1>1, <1>2
<1>4. Entries(refs, at) \in Seq(Ref \X Nat)
  BY <1>1, <1>3
<1>5. DOMAIN Entries(refs, at) = 1..n
        /\ \A i \in 1..n : Entries(refs, at)[i][1] = s[i] /\ Entries(refs, at)[i][2] = at
  BY <1>2
<1> QED BY <1>1, <1>4, <1>5

-----------------------------------------------------------------------------
(* The inductive invariant                                                 *)

PlanTypeOK ==
  /\ question = None \/ question \in Questions
  /\ queue \in Seq(Ref \X Nat)
  /\ expanded \subseteq Ref
  /\ depth \in [Ref -> Nat]
  /\ triggers \in [Ref -> SUBSET Ref]

InQueue(r) == \E i \in DOMAIN queue : queue[i][1] = r

\* A reference whose turn is over has put all its dependents on the plan.
Over(r) == \A d \in Dependents(r) : depth[d] > 0 /\ r \in triggers[d]

\* What is on the plan has triggers, and they are what it depends on.
Founded(d) ==
  /\ depth[d] > 0 => d \in expanded /\ triggers[d] # {}
  /\ \A r \in triggers[d] : r \in expanded /\ d \in Dependents(r)

SearchInv ==
  /\ \A r \in expanded : InQueue(r) \/ Over(r)
  /\ \A i \in DOMAIN queue : queue[i][1] \in expanded
  /\ \A d \in Ref : Founded(d)
  /\ Changed(question) \subseteq expanded
  /\ expanded \subseteq Changed(question) \union Impacted
  /\ plan # None => queue = <<>> /\ plan = {Impact(r) : r \in Impacted}

PlanInv ==
  /\ PlanTypeOK
  /\ question = None => /\ queue = <<>> /\ plan = None
                        /\ depth = [r \in Ref |-> 0] /\ triggers = [r \in Ref |-> {}]
  /\ question # None /\ Accepted(question) => SearchInv

LEMMA DependentsAre ==
  ASSUME NEW r, question \in Questions
  PROVE  /\ Dependents(r) \subseteq Ref /\ IsFiniteSet(Dependents(r))
         /\ Changed(question) \subseteq Ref
         /\ Dependents(r) \intersect Changed(question) = {}
<1>1. Dependents(r) \subseteq Ref
  BY QuestionsAssumption DEF Dependents, DirectDependents, Asked
<1>2. IsFiniteSet(Dependents(r))
  BY <1>1, FS_Subset, QuestionsAssumption
<1>3. Changed(question) \subseteq Ref
  BY QuestionsAssumption DEF Changed, ToSet
<1> QED BY <1>1, <1>2, <1>3 DEF Dependents

LEMMA InitPlan == PlanInit => PlanInv
BY DEF PlanInit, PlanInv, PlanTypeOK

LEMMA AskPlan ==
  ASSUME PlanInv, NEW q \in Questions, AskForPlan(q)
  PROVE  PlanInv'
<1>1. /\ question = None /\ question' = q /\ q # None
      /\ queue = <<>> /\ plan = None
      /\ depth' = [r \in Ref |-> 0] /\ triggers' = [r \in Ref |-> {}]
  BY QuestionsAssumption DEF AskForPlan, PlanInv
<1>2. /\ q.changed \in Seq(Ref)
      /\ Changed(q) \subseteq Ref /\ \A i \in DOMAIN q.changed : q.changed[i] \in Changed(q)
      /\ \A r \in Changed(q) : \E i \in DOMAIN q.changed : q.changed[i] = r
  BY QuestionsAssumption DEF Changed, ToSet
<1>3. CASE ~Accepted(q)
  <2>1. queue' = queue /\ expanded' = expanded
    BY <1>3 DEF AskForPlan, Accepted
  <2> QED BY <1>1, <1>3, <2>1 DEF PlanInv, PlanTypeOK
<1>4. CASE Accepted(q)
  <2>1. /\ queue' = [i \in DOMAIN q.changed |-> <<q.changed[i], 0>>]
        /\ expanded' = Changed(q) /\ plan' = None
    BY <1>1, <1>4 DEF AskForPlan, Accepted
  <2>2. queue' \in Seq(Ref \X Nat) /\ DOMAIN queue' = DOMAIN q.changed
    BY <1>2, <2>1
  <2>3. \A i \in DOMAIN queue' : queue'[i][1] = q.changed[i]
    BY <2>1
  <2>4. PlanTypeOK'
    BY <1>1, <1>2, <2>1, <2>2 DEF PlanTypeOK
  <2>5. \A r \in expanded' : InQueue(r)'
    BY <1>2, <2>1, <2>2, <2>3 DEF InQueue
  <2>6. \A d \in Ref : Founded(d)'
    BY <1>1 DEF Founded
  <2>7. SearchInv'
    BY <1>1, <1>2, <2>1, <2>2, <2>3, <2>5, <2>6 DEF SearchInv
  <2> QED BY <1>1, <2>4, <2>7 DEF PlanInv
<1> QED BY <1>3, <1>4

LEMMA ExpandPlan ==
  ASSUME PlanInv, Expand
  PROVE  PlanInv'
<1>1. PICK ref, next, all : /\ ref = Head(queue)[1] /\ next = Head(queue)[2] + 1
                            /\ all = Dependents(ref)
  OBVIOUS
<1>2. /\ queue # <<>>
      /\ depth' = [r \in Ref |->
           IF r \in all /\ (depth[r] = 0 \/ next < depth[r]) THEN next ELSE depth[r]]
      /\ triggers' = [r \in Ref |-> IF r \in all THEN triggers[r] \union {ref}
                                    ELSE triggers[r]]
      /\ expanded' = expanded \union all
      /\ queue' = Tail(queue) \o Entries(all \ expanded, next)
      /\ UNCHANGED <<question, plan>>
  BY <1>1 DEF Expand
<1>3. /\ question # None /\ question \in Questions
      /\ queue \in Seq(Ref \X Nat) /\ expanded \subseteq Ref
      /\ depth \in [Ref -> Nat] /\ triggers \in [Ref -> SUBSET Ref]
  BY <1>2 DEF PlanInv, PlanTypeOK
<1>4. Len(queue) \in Nat \ {0} /\ DOMAIN queue = 1..Len(queue) /\ Head(queue) = queue[1]
  BY <1>2, <1>3
<1>5. Head(queue) \in Ref \X Nat
  BY <1>3, <1>4
<1>6. ref \in Ref /\ next \in Nat /\ next > 0
  BY <1>1, <1>5
<1>7. all \subseteq Ref /\ IsFiniteSet(all \ expanded)
  BY <1>1, <1>3, DependentsAre, FS_Difference
<1> DEFINE entries == Entries(all \ expanded, next)
<1>8. /\ entries \in Seq(Ref \X Nat)
      /\ \A r \in all \ expanded : \E i \in DOMAIN entries : entries[i][1] = r
      /\ \A i \in DOMAIN entries : entries[i][1] \in all \ expanded /\ entries[i][2] = next
  <2>1. all \ expanded \in SUBSET Ref
    BY <1>7
  <2> QED BY <1>6, <1>7, <2>1, EntriesAre
<1> HIDE DEF entries
<1>9. /\ Tail(queue) \in Seq(Ref \X Nat) /\ Len(Tail(queue)) = Len(queue) - 1
      /\ \A i \in 1..(Len(queue) - 1) : Tail(queue)[i] = queue[i + 1]
  BY <1>3, <1>4
<1>10. /\ queue' \in Seq(Ref \X Nat)
       /\ DOMAIN queue' = 1..(Len(queue) - 1 + Len(entries))
       /\ \A i \in 1..(Len(queue) - 1) : queue'[i] = queue[i + 1]
       /\ \A i \in 1..Len(entries) : queue'[Len(queue) - 1 + i] = entries[i]
  BY <1>2, <1>4, <1>8, <1>9 DEF entries
<1>11. /\ depth' \in [Ref -> Nat] /\ triggers' \in [Ref -> SUBSET Ref]
       /\ expanded' \subseteq Ref
  BY <1>2, <1>3, <1>6, <1>7
<1>12. PlanTypeOK'
  BY <1>2, <1>3, <1>10, <1>11 DEF PlanTypeOK
<1>13. ASSUME SearchInv PROVE SearchInv'
  <2>1. \A r : Dependents(r)' = Dependents(r)
    BY <1>2 DEF Dependents
  <2>2. \A d \in Ref : /\ depth[d] > 0 => depth'[d] > 0
                       /\ d \in all => depth'[d] > 0 /\ ref \in triggers'[d]
                       /\ triggers[d] \subseteq triggers'[d]
    BY <1>2, <1>3, <1>6
  <2>3. \A r : Over(r) => Over(r)'
    BY <1>3, <2>1, <2>2, DependentsAre DEF Over
  <2>4. Over(ref)'
    BY <1>1, <1>7, <2>1, <2>2 DEF Over
  <2>5. \A r \in expanded : InQueue(r) => r = ref \/ InQueue(r)'
    <3> SUFFICES ASSUME NEW r \in expanded, NEW i \in DOMAIN queue,
                        queue[i][1] = r, r # ref
                 PROVE  InQueue(r)'
      BY DEF InQueue
    <3>1. i # 1 /\ i \in 1..Len(queue)
      BY <1>1, <1>4
    <3>2. i - 1 \in 1..(Len(queue) - 1) /\ i - 1 \in DOMAIN queue'
      BY <1>4, <1>8, <1>10, <3>1
    <3>3. queue'[i - 1] = queue[i]
      BY <1>4, <1>10, <3>1, <3>2
    <3> QED BY <3>2, <3>3 DEF InQueue
  <2>6. \A r \in all \ expanded : InQueue(r)'
    <3> SUFFICES ASSUME NEW r \in all \ expanded PROVE InQueue(r)'
      OBVIOUS
    <3>1. PICK i \in 1..Len(entries) : entries[i][1] = r
      BY <1>8
    <3>2. Len(queue) - 1 + i \in DOMAIN queue'
      BY <1>4, <1>8, <1>10
    <3> QED BY <1>10, <3>1, <3>2 DEF InQueue
  <2>7. \A r \in expanded' : InQueue(r)' \/ Over(r)'
    BY <1>2, <2>3, <2>4, <2>5, <2>6, <1>13 DEF SearchInv
  <2>8. \A i \in DOMAIN queue' : queue'[i][1] \in expanded'
    <3> SUFFICES ASSUME NEW i \in DOMAIN queue' PROVE queue'[i][1] \in expanded'
      OBVIOUS
    <3>1. CASE i \in 1..(Len(queue) - 1)
      BY <1>2, <1>4, <1>10, <1>13, <3>1 DEF SearchInv
    <3>2. CASE i \notin 1..(Len(queue) - 1)
      <4>1. i - (Len(queue) - 1) \in 1..Len(entries)
        BY <1>4, <1>8, <1>10, <3>2
      <4>2. queue'[i] = entries[i - (Len(queue) - 1)]
        BY <1>4, <1>8, <1>10, <4>1
      <4> QED BY <1>2, <1>8, <4>1, <4>2
    <3> QED BY <3>1, <3>2
  <2>9. ref \in expanded
    BY <1>1, <1>4, <1>13 DEF SearchInv
  <2>10. \A d \in Ref : Founded(d)'
    <3> SUFFICES ASSUME NEW d \in Ref PROVE Founded(d)'
      OBVIOUS
    <3>1. Founded(d)
      BY <1>13 DEF SearchInv
    <3>2. CASE d \in all
      <4>1. triggers'[d] = triggers[d] \union {ref} /\ d \in expanded'
        BY <1>2, <3>2
      <4> QED BY <1>1, <1>2, <2>1, <2>9, <3>1, <3>2, <4>1 DEF Founded
    <3>3. CASE d \notin all
      <4>1. triggers'[d] = triggers[d] /\ depth'[d] = depth[d]
        BY <1>2, <3>3
      <4> QED BY <1>2, <2>1, <3>1, <4>1 DEF Founded
    <3> QED BY <3>2, <3>3
  <2>11. expanded' \subseteq Changed(question') \union Impacted'
    <3>1. Impacted \subseteq Impacted' /\ all \subseteq Impacted'
      BY <1>7, <2>2 DEF Impacted
    <3> QED BY <1>2, <1>13, <3>1 DEF SearchInv
  <2>12. plan = None
    BY <1>2, <1>13 DEF SearchInv
  <2> QED
    BY <1>2, <1>13, <2>7, <2>8, <2>10, <2>11, <2>12 DEF SearchInv
<1> QED BY <1>2, <1>3, <1>12, <1>13 DEF PlanInv, Accepted

LEMMA ReturnPlan ==
  ASSUME PlanInv, Return
  PROVE  PlanInv'
<1>1. /\ question # None /\ queue = <<>>
      /\ plan' = {Impact(r) : r \in Impacted}
      /\ UNCHANGED <<question, queue, expanded, depth, triggers>>
  BY DEF Return
<1>2. PlanTypeOK'
  BY <1>1 DEF PlanInv, PlanTypeOK
<1>3. \A r : Impact(r)' = Impact(r)
  BY <1>1 DEF Impact, Pending, Impacted, RelationsFor, Changed
<1>4. Impacted' = Impacted
  BY <1>1 DEF Impacted
<1>5. \A r : /\ InQueue(r)' = InQueue(r) /\ Over(r)' = Over(r) /\ Founded(r)' = Founded(r)
  BY <1>1 DEF InQueue, Over, Founded, Dependents
<1>6. SearchInv => SearchInv'
  BY <1>1, <1>3, <1>4, <1>5 DEF SearchInv
<1> QED BY <1>1, <1>2, <1>6 DEF PlanInv, Accepted

LEMMA StepPlan == PlanInv /\ [PlanNext]_planVars => PlanInv'
<1>1. PlanInv /\ UNCHANGED planVars => PlanInv'
  BY DEF planVars, PlanInv, PlanTypeOK, SearchInv, InQueue, Over, Founded, Dependents,
         Impacted, Impact, Pending
<1> QED BY <1>1, AskPlan, ExpandPlan, ReturnPlan DEF PlanNext

LEMMA InvIsExact == PlanInv => PlanIsExact
<1> SUFFICES ASSUME PlanInv, question # None, Accepted(question), plan # None
             PROVE  /\ Planned = UNION {Dependents(r) : r \in Affected}
                    /\ \A i \in plan :
                         i.triggers = {r \in Affected : i.proposition \in Dependents(r)}
  BY DEF PlanIsExact
<1>1. SearchInv /\ question \in Questions /\ queue = <<>> /\ DOMAIN queue = {}
  BY DEF PlanInv, PlanTypeOK, SearchInv
<1>2. plan = {Impact(r) : r \in Impacted}
  BY <1>1 DEF SearchInv
<1>3. \A r : Impact(r).proposition = r /\ Impact(r).triggers = triggers[r]
  BY DEF Impact
<1>4. Planned = Impacted
  BY <1>2, <1>3 DEF Planned
<1>5. \A d \in Impacted : d \in Ref /\ d \in expanded /\ triggers[d] # {}
  BY <1>1 DEF SearchInv, Founded, Impacted
<1>6. Affected = expanded
  BY <1>1, <1>4, <1>5 DEF Affected, SearchInv
<1>7. \A r \in expanded : Over(r)
  BY <1>1 DEF SearchInv, InQueue
<1>8. \A r \in expanded : Dependents(r) \subseteq Impacted
  BY <1>1, <1>7, DependentsAre DEF Over, Impacted
<1>9. \A d \in Impacted : triggers[d] = {r \in expanded : d \in Dependents(r)}
  BY <1>1, <1>5, <1>7 DEF Over, SearchInv, Founded
<1>10. Impacted = UNION {Dependents(r) : r \in expanded}
  BY <1>5, <1>8, <1>9
<1> QED BY <1>2, <1>3, <1>4, <1>6, <1>9, <1>10

\* Of every index, question and order of the search: a plan that is returned
\* names all that has to be thought over again, and for each the references
\* that led to it (EvidenceDependencyIndex.plan_requalification).
THEOREM RequalificationIsExact == PlanSpec => []PlanIsExact
<1>1. PlanInit => PlanInv
  BY InitPlan
<1>2. PlanInv /\ [PlanNext]_planVars => PlanInv'
  BY StepPlan
<1>3. PlanInv => PlanIsExact
  BY InvIsExact
<1> QED BY <1>1, <1>2, <1>3, PTL DEF PlanSpec

-----------------------------------------------------------------------------
(* What is near                                                            *)

Size == Cardinality(Ref)

LEMMA SizeIs == Size \in Nat
BY QuestionsAssumption, FS_CardinalityType DEF Size

LEMMA SmallestIs ==
  ASSUME NEW T, T \subseteq Nat, T # {}
  PROVE  \E x \in T : \A y \in T : x <= y
<1>1. PICK x \in T : \A y \in T : ~ (<<y, x>> \in OpToRel(<, Nat))
  BY WFMin, NatLessThanWellFounded, Zenon
<1>2. \A y \in T : ~ (y < x)
  BY <1>1, Zenon DEF OpToRel
<1> QED BY <1>2

\* What depends on one of refs.
DependOn(q, refs) == UNION {DirectDependents(q, r) : r \in refs}

LEMMA DependOnIs ==
  ASSUME NEW q \in Questions, NEW refs
  PROVE  DependOn(q, refs) \subseteq Ref
BY QuestionsAssumption DEF DependOn, DirectDependents, Asked

\* The recursion of Within is one.
LEMMA NearIs ==
  ASSUME NEW q \in Questions
  PROVE  /\ Within(q)[0] = Changed(q)
         /\ \A n \in 1..Size :
              Within(q)[n] = Within(q)[n - 1] \union DependOn(q, Within(q)[n - 1])
<1> DEFINE Of(f, n) == IF n = 0 THEN Changed(q) ELSE f[n - 1] \union DependOn(q, f[n - 1])
           Upto(f, m) == f = [n \in 0..m |-> Of(f, n)]
           Bad == {m \in Nat : ~\E f : Upto(f, m)}
<1>1. Bad = {}
  <2> SUFFICES ASSUME Bad # {} PROVE FALSE
    OBVIOUS
  <2>1. PICK m \in Bad : \A k \in Bad : m <= k
    <3> HIDE DEF Bad
    <3>1. Bad \subseteq Nat
      BY DEF Bad
    <3> QED BY <3>1, SmallestIs
  <2>2. CASE m = 0
    <3> DEFINE g == [n \in 0..0 |-> Changed(q)]
    <3>1. g = [n \in 0..0 |-> Of(g, n)]
      OBVIOUS
    <3> QED BY <2>1, <2>2, <3>1
  <2>3. CASE m # 0
    <3>1. m \in Nat /\ m - 1 \in Nat /\ m - 1 \notin Bad
      <4>1. m \in Nat /\ m - 1 \in Nat
        BY <2>1, <2>3
      <4>2. ~(m <= m - 1)
        BY <4>1
      <4> QED BY <2>1, <4>1, <4>2
    <3>2. PICK f : f = [n \in 0..(m - 1) |-> Of(f, n)]
      BY <3>1
    <3> DEFINE g == [n \in 0..m |-> IF n = m THEN f[m - 1] \union DependOn(q, f[m - 1])
                                    ELSE f[n]]
    <3>3. \A n \in 0..m : g[n] = Of(g, n)
      <4> SUFFICES ASSUME NEW n \in 0..m PROVE g[n] = Of(g, n)
        OBVIOUS
      <4>1. CASE n = m
        <5>1. g[m - 1] = f[m - 1]
          BY <3>1
        <5> QED BY <2>3, <4>1, <5>1
      <4>2. CASE n # m /\ n = 0
        <5>1. g[n] = f[0] /\ f[0] = Changed(q)
          BY <3>1, <3>2, <4>2
        <5> QED BY <4>2, <5>1
      <4>3. CASE n # m /\ n # 0
        <5>1. n \in 0..(m - 1) /\ n - 1 \in 0..(m - 1) /\ n - 1 \in 0..m /\ n - 1 # m
          BY <3>1, <4>3
        <5>2. g[n] = f[n] /\ g[n - 1] = f[n - 1]
          BY <4>3, <5>1
        <5>3. f[n] = f[n - 1] \union DependOn(q, f[n - 1])
          BY <3>2, <4>3, <5>1
        <5> QED BY <4>3, <5>2, <5>3
      <4> QED BY <4>1, <4>2, <4>3
    <3>4. g = [n \in 0..m |-> Of(g, n)]
      BY <3>3
    <3>5. \E f1 : f1 = [n \in 0..m |-> Of(f1, n)]
      <4> HIDE DEF g
      <4> QED BY <3>4
    <3> QED BY <2>1, <3>5
  <2> QED BY <2>2, <2>3
<1>2. PICK near : near = CHOOSE f : Upto(f, Size)
  OBVIOUS
<1>3. Upto(near, Size)
  <2>1. \E f : Upto(f, Size)
    BY <1>1, SizeIs
  <2> HIDE DEF Upto
  <2> QED BY <1>2, <2>1
<1>4. Within(q) = near
  BY <1>2 DEF Within, DependOn, Size
<1>5. near[0] = Changed(q)
  BY <1>3, SizeIs
<1>6. \A n \in 1..Size : near[n] = near[n - 1] \union DependOn(q, near[n - 1])
  <2> SUFFICES ASSUME NEW n \in 1..Size
               PROVE  near[n] = near[n - 1] \union DependOn(q, near[n - 1])
    OBVIOUS
  <2>1. n \in 0..Size /\ n # 0
    BY SizeIs
  <2> QED BY <1>3, <2>1
<1> QED BY <1>4, <1>5, <1>6

\* A property that holds of what has changed, and of n if it does of n - 1.
LEMMA StepByStep ==
  ASSUME NEW S \in SUBSET (0..Size), 0 \in S,
         \A n \in 1..Size : n - 1 \in S => n \in S
  PROVE  \A n \in 0..Size : n \in S
<1> DEFINE T == (0..Size) \ S
<1> SUFFICES ASSUME T # {} PROVE FALSE
  OBVIOUS
<1>1. T \subseteq Nat
  BY SizeIs
<1> HIDE DEF T
<1>2. PICK n \in T : \A k \in T : n <= k
  BY <1>1, SmallestIs
<1>3. n \in 1..Size /\ n - 1 \in 0..Size
  BY <1>2, SizeIs DEF T
<1>4. n - 1 \notin T
  BY <1>1, <1>2
<1> QED BY <1>2, <1>3, <1>4 DEF T

LEMMA NearGrows ==
  ASSUME NEW q \in Questions
  PROVE  /\ \A n \in 0..Size : Within(q)[n] \subseteq Ref
         /\ \A n \in 0..Size : \A m \in 0..n : Within(q)[m] \subseteq Within(q)[n]
<1> DEFINE near == Within(q)
<1>1. near[0] \subseteq Ref
  BY NearIs, QuestionsAssumption DEF Changed, ToSet
<1>2. \A n \in 1..Size : near[n] = near[n - 1] \union DependOn(q, near[n - 1])
  BY NearIs
<1> HIDE DEF near
<1>3. \A n \in 0..Size : near[n] \subseteq Ref
  <2> DEFINE S == {n \in 0..Size : near[n] \subseteq Ref}
  <2>1. 0 \in S
    BY <1>1, SizeIs
  <2>2. ASSUME NEW n \in 1..Size, n - 1 \in S PROVE n \in S
    BY <1>2, <2>2, DependOnIs, SizeIs
  <2>3. \A n \in 0..Size : n \in S
    <3>1. S \in SUBSET (0..Size)
      OBVIOUS
    <3> HIDE DEF S
    <3> QED BY <2>1, <2>2, <3>1, StepByStep
  <2> QED BY <2>3
<1>4. \A n \in 0..Size : \A m \in 0..n : near[m] \subseteq near[n]
  <2> DEFINE S == {n \in 0..Size : \A m \in 0..n : near[m] \subseteq near[n]}
  <2>1. 0 \in S
    BY SizeIs
  <2>2. ASSUME NEW n \in 1..Size, n - 1 \in S PROVE n \in S
    <3>1. near[n - 1] \subseteq near[n]
      BY <1>2
    <3>2. \A m \in 0..n : m = n \/ m \in 0..(n - 1)
      BY SizeIs
    <3> QED BY <2>2, <3>1, <3>2, SizeIs
  <2>3. \A n \in 0..Size : n \in S
    <3>1. S \in SUBSET (0..Size)
      OBVIOUS
    <3> HIDE DEF S
    <3> QED BY <2>1, <2>2, <3>1, StepByStep
  <2> QED BY <2>3
<1> QED BY <1>3, <1>4 DEF near

\* Nothing depends on what is near but what is near: there are not more
\* distances than references.
LEMMA NearIsClosed ==
  ASSUME NEW q \in Questions, NEW r \in Within(q)[Size]
  PROVE  DirectDependents(q, r) \subseteq Within(q)[Size]
<1> DEFINE near == Within(q)
           Closed(n) == DependOn(q, near[n]) \subseteq near[n]
           S == {n \in 0..Size : Closed(n) \/ Cardinality(near[n]) >= n}
<1>1. /\ \A n \in 1..Size : near[n] = near[n - 1] \union DependOn(q, near[n - 1])
      /\ \A n \in 0..Size : near[n] \subseteq Ref /\ IsFiniteSet(near[n])
                              /\ Cardinality(near[n]) \in Nat
  BY NearIs, NearGrows, QuestionsAssumption, FS_Subset, FS_CardinalityType
<1> HIDE DEF near
<1>2. 0 \in S
  BY <1>1, SizeIs
<1>3. ASSUME NEW n \in 1..Size, n - 1 \in S PROVE n \in S
  <2>1. n \in 0..Size /\ n - 1 \in 0..Size /\ n \in Nat
    BY SizeIs
  <2>2. CASE Closed(n - 1)
    <3>1. near[n] = near[n - 1]
      BY <1>1, <2>2
    <3> QED BY <2>1, <2>2, <3>1
  <2>3. CASE ~Closed(n - 1)
    <3>1. PICK y : y \in near[n] /\ y \notin near[n - 1]
      BY <1>1, <2>3
    <3>2. Cardinality(near[n - 1] \union {y}) = Cardinality(near[n - 1]) + 1
      BY <1>1, <2>1, <3>1, FS_AddElement
    <3>3. near[n - 1] \union {y} \in SUBSET near[n]
      BY <1>1, <3>1
    <3>4. Cardinality(near[n - 1] \union {y}) <= Cardinality(near[n])
      BY <1>1, <2>1, <3>3, FS_Subset
    <3>5. Cardinality(near[n - 1]) >= n - 1
      BY <1>3, <2>3
    <3>6. Cardinality(near[n]) >= n
      BY <1>1, <2>1, <3>2, <3>4, <3>5
    <3> QED BY <2>1, <3>6
  <2> QED BY <2>2, <2>3
<1>4. Size \in S
  <2>1. S \in SUBSET (0..Size) /\ Size \in 0..Size
    BY SizeIs
  <2> HIDE DEF S
  <2> QED BY <1>2, <1>3, <2>1, StepByStep
<1>5. Closed(Size)
  <2>1. Size \in 0..Size
    BY SizeIs
  <2>2. CASE Cardinality(near[Size]) >= Size
    <3>1. near[Size] \in SUBSET Ref
      BY <1>1, <2>1
    <3>2. Cardinality(near[Size]) = Size
      BY <1>1, <2>1, <2>2, <3>1, SizeIs, QuestionsAssumption, FS_Subset DEF Size
    <3>3. near[Size] = Ref
      BY <3>1, <3>2, QuestionsAssumption, FS_Subset DEF Size
    <3> QED BY <3>3, DependOnIs
  <2> QED BY <1>4, <2>2
<1> QED BY <1>5 DEF near, DependOn

-----------------------------------------------------------------------------
(* The search goes from one distance to the next                           *)

\* The distances in the queue: in their order, and there are two at most.
QueueIsOrdered ==
  /\ \A i \in DOMAIN queue : queue[i][2] = depth[queue[i][1]]
  /\ \A i, j \in DOMAIN queue : i <= j => queue[i][2] <= queue[j][2]
  /\ \A i \in DOMAIN queue : queue[i][2] <= queue[1][2] + 1

\* What has been met is where it belongs.
AtItsDistance(r) ==
  /\ depth[r] \in 0..Size
  /\ r \in Within(question)[depth[r]]
  /\ depth[r] > 0 => r \notin Within(question)[depth[r] - 1]

\* Nothing nearer than the head of the queue, nor as near, is missing.
HeadIsNext == queue # <<>> => Within(question)[queue[1][2]] \subseteq expanded

DistanceInv ==
  /\ QueueIsOrdered
  /\ \A r \in expanded : AtItsDistance(r)
  /\ HeadIsNext

\* A question that does not get to the loop has its answer at once.
Settled ==
  /\ queue = <<>> /\ Impacted = {}
  /\ plan = IF question.changed = <<>> THEN {} ELSE Fails

CompleteInv ==
  /\ PlanInv
  /\ question # None /\ Accepted(question) => DistanceInv
  /\ question # None /\ ~Accepted(question) => Settled

LEMMA InitComplete == PlanInit => CompleteInv
BY InitPlan DEF PlanInit, CompleteInv

LEMMA AskComplete ==
  ASSUME CompleteInv, NEW q \in Questions, AskForPlan(q)
  PROVE  CompleteInv'
<1>1. PlanInv' /\ PlanInv
  BY AskPlan DEF CompleteInv
<1>2. /\ question = None /\ question' = q /\ q # None
      /\ queue = <<>> /\ plan = None
      /\ depth' = [r \in Ref |-> 0]
  BY <1>1, QuestionsAssumption DEF AskForPlan, PlanInv
<1>3. /\ q.changed \in Seq(Ref) /\ Changed(q) \subseteq Ref
      /\ \A i \in DOMAIN q.changed : q.changed[i] \in Changed(q)
  BY QuestionsAssumption DEF Changed, ToSet
<1>4. ASSUME ~Accepted(q) PROVE Settled'
  <2>1. queue' = <<>> /\ plan' = IF q.changed = <<>> THEN {} ELSE Fails
    BY <1>2, <1>4 DEF AskForPlan, Accepted
  <2>2. Impacted' = {}
    BY <1>2 DEF Impacted
  <2> QED BY <1>2, <2>1, <2>2 DEF Settled
<1>5. ASSUME Accepted(q) PROVE DistanceInv'
  <2>1. /\ queue' = [i \in DOMAIN q.changed |-> <<q.changed[i], 0>>]
        /\ expanded' = Changed(q)
    BY <1>2, <1>5 DEF AskForPlan, Accepted
  <2>2. /\ DOMAIN queue' = DOMAIN q.changed /\ queue' # <<>>
        /\ \A i \in DOMAIN queue' : queue'[i][1] \in Ref /\ queue'[i][2] = 0
        /\ 1 \in DOMAIN queue'
    <3>1. q.changed # <<>> /\ DOMAIN q.changed = 1..Len(q.changed) /\ Len(q.changed) \in Nat
      BY <1>3, <1>5 DEF Accepted
    <3>2. 1 \in DOMAIN q.changed
      BY <1>3, <3>1
    <3> QED BY <1>3, <2>1, <3>2
  <2>3. Within(q)[0] = Changed(q)
    BY NearIs
  <2>4. QueueIsOrdered'
    BY <1>2, <2>2 DEF QueueIsOrdered
  <2>5. ASSUME NEW r \in expanded' PROVE AtItsDistance(r)'
    <3>1. depth'[r] = 0 /\ r \in Within(q)[0]
      BY <1>2, <1>3, <2>1, <2>3
    <3> QED BY <1>2, <3>1, SizeIs DEF AtItsDistance
  <2>6. HeadIsNext'
    BY <1>2, <2>1, <2>2, <2>3 DEF HeadIsNext
  <2> QED BY <2>4, <2>5, <2>6 DEF DistanceInv
<1> QED BY <1>1, <1>2, <1>4, <1>5 DEF CompleteInv

\* What is as near as the head of the queue is at its distance or nearer.
LEMMA NearerIs ==
  ASSUME question \in Questions, NEW h \in 0..Size, NEW r \in Within(question)[h],
         AtItsDistance(r)
  PROVE  depth[r] <= h
<1> SUFFICES ASSUME depth[r] > h PROVE FALSE
  BY SizeIs DEF AtItsDistance
<1>1. depth[r] \in 0..Size /\ depth[r] - 1 \in 0..Size /\ h \in 0..(depth[r] - 1)
      /\ r \notin Within(question)[depth[r] - 1]
  BY SizeIs DEF AtItsDistance
<1> QED BY <1>1, NearGrows

LEMMA ExpandComplete ==
  ASSUME CompleteInv, Expand
  PROVE  CompleteInv'
<1>1. PICK ref, h, next, all :
        /\ ref = Head(queue)[1] /\ h = Head(queue)[2] /\ next = h + 1
        /\ all = Dependents(ref)
  OBVIOUS
<1>2. /\ queue # <<>>
      /\ depth' = [r \in Ref |->
           IF r \in all /\ (depth[r] = 0 \/ next < depth[r]) THEN next ELSE depth[r]]
      /\ expanded' = expanded \union all
      /\ queue' = Tail(queue) \o Entries(all \ expanded, next)
      /\ UNCHANGED <<question, plan>>
  BY <1>1 DEF Expand
<1>3. /\ question # None /\ question \in Questions
      /\ queue \in Seq(Ref \X Nat) /\ expanded \subseteq Ref
      /\ depth \in [Ref -> Nat] /\ Accepted(question)
      /\ PlanInv /\ SearchInv /\ DistanceInv
  BY <1>2 DEF CompleteInv, PlanInv, PlanTypeOK, Settled
<1>4. PlanInv' /\ SearchInv'
  BY <1>2, <1>3, ExpandPlan DEF PlanInv
<1>5. /\ Len(queue) \in Nat \ {0} /\ DOMAIN queue = 1..Len(queue)
      /\ Head(queue) = queue[1] /\ 1 \in DOMAIN queue
  BY <1>2, <1>3
<1>6. queue[1] \in Ref \X Nat
  BY <1>3, <1>5
<1>7. ref \in Ref /\ h \in Nat /\ ref \in expanded /\ h = depth[ref]
  BY <1>1, <1>3, <1>5, <1>6 DEF SearchInv, DistanceInv, QueueIsOrdered
<1>8. /\ all \subseteq Ref /\ IsFiniteSet(all \ expanded)
      /\ all \intersect Changed(question) = {}
      /\ all \subseteq DirectDependents(question, ref)
  BY <1>1, <1>3, DependentsAre, FS_Difference DEF Dependents
<1> DEFINE near == Within(question)
<1>9. /\ h \in 0..Size /\ ref \in near[h] /\ near[h] \subseteq expanded
  BY <1>1, <1>2, <1>3, <1>5, <1>7 DEF DistanceInv, AtItsDistance, HeadIsNext
<1>10. /\ near[h] \subseteq near[Size]
       /\ h < Size => /\ near[next] = near[h] \union DependOn(question, near[h])
                      /\ near[h] \subseteq near[next]
  <2>1. Size \in 0..Size /\ h \in 0..Size
    BY <1>9, SizeIs
  <2>2. h < Size => next \in 1..Size /\ next - 1 = h
    BY <1>1, <1>9, SizeIs
  <2> QED BY <1>3, <2>1, <2>2, NearIs, NearGrows
\* A dependent that is new is at the next distance ...
<1>11. ASSUME NEW d \in all \ expanded
       PROVE  /\ depth[d] = 0 /\ depth'[d] = next
              /\ next \in 1..Size /\ d \in near[next] /\ d \notin near[next - 1]
  <2>1. d \in Ref /\ d \notin near[h]
    BY <1>8, <1>9
  <2>2. d \in near[Size]
    BY <1>3, <1>8, <1>9, <1>10, NearIsClosed
  <2>3. h < Size
    BY <1>9, <2>1, <2>2, SizeIs
  <2>4. d \in near[next]
    BY <1>8, <1>9, <1>10, <2>3 DEF DependOn
  <2>5. depth[d] = 0
    BY <1>3, <2>1 DEF SearchInv, Founded
  <2>6. depth'[d] = next
    BY <1>2, <2>1, <2>5
  <2>7. next \in 1..Size /\ next - 1 = h
    BY <1>1, <1>9, <2>3, SizeIs
  <2> QED BY <2>1, <2>4, <2>5, <2>6, <2>7
\* ... and one that was met before is not further away.
<1>12. ASSUME NEW d \in expanded PROVE depth'[d] = depth[d]
  <2>1. CASE d \notin all
    BY <1>2, <1>3, <2>1
  <2>2. CASE d \in all
    <3>1. d \in Ref /\ depth[d] > 0 /\ AtItsDistance(d)
      BY <1>3, <1>8, <2>2 DEF SearchInv, Impacted, DistanceInv
    <3>2. CASE h < Size
      <4>1. d \in near[next] /\ next \in 0..Size
        BY <1>1, <1>8, <1>9, <1>10, <2>2, <3>2, SizeIs DEF DependOn
      <4>2. depth[d] <= next
        BY <1>3, <3>1, <4>1, NearerIs
      <4> QED BY <1>2, <1>3, <3>1, <4>1, <4>2, SizeIs
    <3>3. CASE ~(h < Size)
      <4>1. depth[d] \in Nat /\ depth[d] <= h /\ next = h + 1
        BY <1>1, <1>9, <3>1, <3>3, SizeIs DEF AtItsDistance
      <4> QED BY <1>2, <1>7, <3>1, <4>1
    <3> QED BY <3>2, <3>3
  <2> QED BY <2>1, <2>2
<1>13. ASSUME NEW r \in expanded' PROVE AtItsDistance(r)'
  <2>1. CASE r \in expanded
    BY <1>2, <1>3, <1>12, <2>1 DEF DistanceInv, AtItsDistance
  <2>2. CASE r \notin expanded
    <3>1. r \in all \ expanded
      BY <1>2, <2>2
    <3>2. next \in 0..Size
      BY <1>11, <3>1
    <3> QED BY <1>2, <1>11, <3>1, <3>2 DEF AtItsDistance
  <2> QED BY <2>1, <2>2
\* The queue.
<1> DEFINE entries == Entries(all \ expanded, next)
<1>14. /\ entries \in Seq(Ref \X Nat)
       /\ \A i \in DOMAIN entries : entries[i][1] \in all \ expanded /\ entries[i][2] = next
  <2>1. all \ expanded \in SUBSET Ref /\ next \in Nat
    BY <1>1, <1>7, <1>8
  <2> QED BY <1>8, <2>1, EntriesAre
<1> HIDE DEF entries
<1>15. /\ Tail(queue) \in Seq(Ref \X Nat) /\ Len(Tail(queue)) = Len(queue) - 1
       /\ \A i \in 1..(Len(queue) - 1) : Tail(queue)[i] = queue[i + 1]
  BY <1>3, <1>5
<1>16. /\ queue' \in Seq(Ref \X Nat)
       /\ DOMAIN queue' = 1..(Len(queue) - 1 + Len(entries))
       /\ \A i \in 1..(Len(queue) - 1) : queue'[i] = queue[i + 1]
       /\ \A i \in 1..Len(entries) : queue'[Len(queue) - 1 + i] = entries[i]
  BY <1>2, <1>5, <1>14, <1>15 DEF entries
\* An entry is an older one, between h and next, or a new one at next.
<1>17. ASSUME NEW i \in DOMAIN queue'
       PROVE  \/ /\ i \in 1..(Len(queue) - 1) /\ i + 1 \in DOMAIN queue
                 /\ queue'[i] = queue[i + 1] /\ queue'[i][1] \in expanded
                 /\ queue'[i][2] \in {h, next}
              \/ /\ i \notin 1..(Len(queue) - 1)
                 /\ queue'[i][1] \in all \ expanded /\ queue'[i][2] = next
  <2>1. CASE i \in 1..(Len(queue) - 1)
    <3>1. i + 1 \in DOMAIN queue /\ 1 <= i + 1 /\ queue'[i] = queue[i + 1]
      BY <1>5, <1>16, <2>1
    <3>2. queue[i + 1] \in Ref \X Nat
      BY <1>3, <3>1
    <3>3. h <= queue[i + 1][2] /\ queue[i + 1][2] <= h + 1 /\ queue[i + 1][1] \in expanded
      BY <1>1, <1>3, <1>5, <3>1 DEF DistanceInv, QueueIsOrdered, SearchInv
    <3>4. queue[i + 1][2] \in {h, next}
      BY <1>1, <1>7, <3>2, <3>3
    <3> QED BY <2>1, <3>1, <3>3, <3>4
  <2>2. CASE i \notin 1..(Len(queue) - 1)
    <3>1. i - (Len(queue) - 1) \in 1..Len(entries)
      BY <1>5, <1>14, <1>16, <2>2
    <3>2. queue'[i] = entries[i - (Len(queue) - 1)]
      BY <1>5, <1>14, <1>16, <3>1
    <3> QED BY <1>14, <2>2, <3>1, <3>2
  <2> QED BY <2>1, <2>2
<1>18. QueueIsOrdered'
  <2>1. ASSUME NEW i \in DOMAIN queue' PROVE queue'[i][2] = depth'[queue'[i][1]]
    <3>1. CASE i \in 1..(Len(queue) - 1)
      <4>1. queue[i + 1][2] = depth[queue[i + 1][1]]
        BY <1>3, <1>17, <3>1 DEF DistanceInv, QueueIsOrdered
      <4> QED BY <1>12, <1>17, <3>1, <4>1
    <3>2. CASE i \notin 1..(Len(queue) - 1)
      BY <1>11, <1>17, <3>2
    <3> QED BY <3>1, <3>2
  <2>2. ASSUME NEW i \in DOMAIN queue', NEW j \in DOMAIN queue', i <= j
        PROVE  queue'[i][2] <= queue'[j][2]
    <3>1. CASE j \in 1..(Len(queue) - 1)
      <4>1. i \in 1..(Len(queue) - 1) /\ i + 1 <= j + 1
        BY <1>5, <1>16, <2>2, <3>1
      <4>2. queue[i + 1][2] <= queue[j + 1][2]
        BY <1>3, <1>17, <3>1, <4>1 DEF DistanceInv, QueueIsOrdered
      <4> QED BY <1>17, <3>1, <4>1, <4>2
    <3>2. CASE j \notin 1..(Len(queue) - 1)
      <4>1. queue'[j][2] = next /\ queue'[i][2] \in {h, next}
        BY <1>17, <3>2
      <4> QED BY <1>1, <1>7, <4>1
    <3> QED BY <3>1, <3>2
  <2>3. ASSUME NEW i \in DOMAIN queue' PROVE queue'[i][2] <= queue'[1][2] + 1
    <3>1. 1 \in DOMAIN queue'
      BY <1>5, <1>14, <1>16
    <3>2. queue'[i][2] \in {h, next} /\ queue'[1][2] \in {h, next}
      BY <1>17, <3>1
    <3> QED BY <1>1, <1>7, <3>2
  <2> QED BY <2>1, <2>2, <2>3 DEF QueueIsOrdered
<1>19. HeadIsNext'
  <2> SUFFICES ASSUME queue' # <<>> PROVE near[queue'[1][2]] \subseteq expanded'
    BY <1>2 DEF HeadIsNext
  <2>1. 1 \in DOMAIN queue'
    BY <1>16
  <2>2. CASE queue'[1][2] = h
    BY <1>2, <1>9, <2>2
  <2>3. CASE queue'[1][2] = next /\ next # h
    <3>1. queue'[1][1] \in expanded' /\ queue'[1][2] = depth'[queue'[1][1]]
      BY <1>2, <1>17, <1>18, <2>1 DEF QueueIsOrdered
    <3>2. next \in 0..Size
      BY <1>13, <2>3, <3>1 DEF AtItsDistance
    <3>3. h < Size
      BY <1>1, <1>7, <3>2, SizeIs
    <3>4. ASSUME NEW r \in near[h], NEW d \in DirectDependents(question, r)
          PROVE  d \in expanded'
      <4>1. r \in expanded /\ r \in expanded' /\ AtItsDistance(r)
        BY <1>2, <1>3, <1>9 DEF DistanceInv
      <4>2. depth[r] <= h /\ depth'[r] = depth[r] /\ depth[r] \in Nat
        BY <1>3, <1>9, <1>12, <4>1, NearerIs
      <4>3. ~InQueue(r)'
        <5> SUFFICES ASSUME NEW i \in DOMAIN queue', queue'[i][1] = r PROVE FALSE
          BY DEF InQueue
        <5>1. 1 <= i
          BY <1>16
        <5>2. queue'[1][2] <= queue'[i][2] /\ queue'[i][2] = depth'[r]
          BY <1>18, <2>1, <5>1 DEF QueueIsOrdered
        <5> QED BY <1>1, <1>7, <2>3, <4>2, <5>2
      <4>4. Over(r)'
        BY <1>4, <4>1, <4>3 DEF SearchInv
      <4>5. CASE d \in Changed(question)
        BY <1>2, <1>4, <4>5 DEF SearchInv
      <4>6. CASE d \notin Changed(question)
        <5>1. d \in Dependents(r)' /\ d \in Ref
          BY <1>2, <1>3, <4>6, DependOnIs, DependentsAre DEF Dependents
        <5>2. depth'[d] > 0
          BY <4>4, <5>1 DEF Over
        <5> QED BY <1>4, <5>1, <5>2 DEF SearchInv, Founded
      <4> QED BY <4>5, <4>6
    <3>5. near[next] = near[h] \union DependOn(question, near[h])
      BY <1>10, <3>3
    <3> QED BY <1>2, <1>9, <2>3, <3>4, <3>5 DEF DependOn
  <2> QED BY <1>17, <2>1, <2>2, <2>3
<1> QED BY <1>2, <1>3, <1>4, <1>13, <1>18, <1>19 DEF CompleteInv, DistanceInv, Accepted

LEMMA ReturnComplete ==
  ASSUME CompleteInv, Return, Fails # None
  PROVE  CompleteInv'
<1>1. /\ question # None /\ plan = None
      /\ plan' = {Impact(r) : r \in Impacted}
      /\ UNCHANGED <<question, queue, expanded, depth, triggers>>
  BY DEF Return
<1>2. PlanInv'
  BY ReturnPlan DEF CompleteInv
<1>3. Accepted(question) /\ DistanceInv => DistanceInv'
  BY <1>1 DEF DistanceInv, QueueIsOrdered, AtItsDistance, HeadIsNext
<1>4. ~Accepted(question) /\ Settled => Settled'
  BY <1>1 DEF Settled, Impacted
<1> QED BY <1>1, <1>2, <1>3, <1>4 DEF CompleteInv, Accepted

LEMMA StepComplete ==
  ASSUME CompleteInv, [PlanNext]_planVars, Fails # None
  PROVE  CompleteInv'
<1>1. CASE UNCHANGED planVars
  <2>1. PlanInv'
    BY <1>1, StepPlan DEF CompleteInv
  <2>2. DistanceInv => DistanceInv'
    BY <1>1 DEF planVars, DistanceInv, QueueIsOrdered, AtItsDistance, HeadIsNext
  <2>3. Settled => Settled'
    BY <1>1 DEF planVars, Settled, Impacted
  <2> QED BY <1>1, <2>1, <2>2, <2>3 DEF CompleteInv, planVars, Accepted
<1> QED BY <1>1, AskComplete, ExpandComplete, ReturnComplete DEF PlanNext

-----------------------------------------------------------------------------
(* A plan that is returned                                                 *)

\* The values that impacts have.
Impacts ==
  LET relations == UNION {q.relations : q \in Questions}
  IN [ proposition : Ref, depth : Nat, triggers : SUBSET Ref, lost : SUBSET relations,
       pending : SUBSET relations, stable : SUBSET relations ]

\* An exception is not a plan.
FailsIsNoPlan == Fails # None /\ Fails \notin SUBSET Impacts

Planning == question # None /\ Accepted(question) /\ plan # None

LEMMA AllIsExpanded ==
  ASSUME CompleteInv, Planning
  PROVE  /\ question \in Questions /\ SearchInv /\ DistanceInv /\ PlanTypeOK
         /\ \A r \in expanded : Over(r)
         /\ expanded = Within(question)[Size]
<1> DEFINE near == Within(question)
<1>1. /\ question \in Questions /\ SearchInv /\ DistanceInv /\ PlanTypeOK
      /\ queue = <<>> /\ DOMAIN queue = {}
  BY DEF CompleteInv, PlanInv, PlanTypeOK, SearchInv, Planning
<1>2. \A r \in expanded : Over(r)
  BY <1>1 DEF SearchInv, InQueue
<1>3. expanded \subseteq near[Size]
  <2> SUFFICES ASSUME NEW r \in expanded PROVE r \in near[Size]
    OBVIOUS
  <2>1. depth[r] \in 0..Size /\ Size \in 0..Size /\ r \in near[depth[r]]
    BY <1>1, SizeIs DEF DistanceInv, AtItsDistance
  <2> QED BY <1>1, <2>1, NearGrows
<1>4. near[0] = Changed(question)
        /\ \A n \in 1..Size : near[n] = near[n - 1] \union DependOn(question, near[n - 1])
  BY <1>1, NearIs
<1> DEFINE S == {n \in 0..Size : near[n] \subseteq expanded}
<1> HIDE DEF near
<1>5. 0 \in S
  BY <1>1, <1>4, SizeIs DEF SearchInv
<1>6. ASSUME NEW n \in 1..Size, n - 1 \in S PROVE n \in S
  <2>1. ASSUME NEW r \in near[n - 1], NEW d \in DirectDependents(question, r)
        PROVE  d \in expanded
    <3>1. Over(r)
      BY <1>2, <1>6
    <3>2. CASE d \in Changed(question)
      BY <1>1, <3>2 DEF SearchInv
    <3>3. CASE d \notin Changed(question)
      <4>1. d \in Dependents(r) /\ d \in Ref
        BY <1>1, <3>3, DependentsAre DEF Dependents
      <4> QED BY <1>1, <3>1, <4>1 DEF Over, SearchInv, Founded
    <3> QED BY <3>2, <3>3
  <2>2. near[n] \subseteq expanded
    BY <1>4, <1>6, <2>1 DEF DependOn
  <2> QED BY <2>2, SizeIs
<1>7. Size \in S
  <2>1. S \in SUBSET (0..Size) /\ Size \in 0..Size
    BY SizeIs
  <2> HIDE DEF S
  <2> QED BY <1>5, <1>6, <2>1, StepByStep
<1>8. expanded = near[Size]
  BY <1>3, <1>7 DEF near
<1> QED BY <1>1, <1>2, <1>8 DEF near

\* What an impact says of a proposition.
LEMMA ImpactIs ==
  ASSUME CompleteInv, Planning, NEW p \in Impacted
  PROVE  LET near == Within(question)
             i    == Impact(p)
         IN /\ i \in Impacts
            /\ p \in near[depth[p]] /\ p \notin near[depth[p] - 1]
            /\ p \in near[Size] /\ p \notin Changed(question)
            /\ triggers[p] = {r \in near[Size] : p \in DirectDependents(question, r)}
            /\ \A r \in i.stable : r.evidence \notin near[Size]
            /\ i.lost \union i.pending # {}
            /\ i.lost \union i.pending \union i.stable = RelationsFor(question, p)
<1> DEFINE near == Within(question)
           all  == near[Size]
           i    == Impact(p)
           gone == question.unavailable
           On(refs) == {r \in RelationsFor(question, p) : r.evidence \in refs}
<1>1. /\ question \in Questions /\ SearchInv /\ DistanceInv /\ PlanTypeOK
      /\ \A r \in expanded : Over(r)
      /\ expanded = all
  BY AllIsExpanded
<1> HIDE DEF near
<1>2. /\ p \in Ref /\ depth[p] > 0 /\ p \in expanded /\ triggers[p] # {}
      /\ \A r \in triggers[p] : r \in expanded /\ p \in Dependents(r)
  BY <1>1 DEF Impacted, SearchInv, Founded
<1>3. p \in near[depth[p]] /\ p \notin near[depth[p] - 1]
  BY <1>1, <1>2 DEF DistanceInv, AtItsDistance, near
<1>4. p \notin Changed(question)
  BY <1>1, <1>2, DependentsAre
<1>5. triggers[p] = {r \in all : p \in DirectDependents(question, r)}
  BY <1>1, <1>2, <1>4 DEF Dependents, Over
<1>6. /\ i.lost = On(gone) /\ i.pending = On(Pending) /\ i.stable = On(Ref \ (Pending \union gone))
      /\ i = [ proposition |-> p, depth |-> depth[p], triggers |-> triggers[p],
               lost |-> i.lost, pending |-> i.pending, stable |-> i.stable ]
  BY DEF Impact
<1>7. \A r \in RelationsFor(question, p) : r.evidence \in Ref /\ r \in question.relations
  BY <1>1, QuestionsAssumption DEF RelationsFor, Asked
<1>8. all \subseteq Pending \union gone
  BY <1>1 DEF SearchInv, Pending
<1> HIDE DEF i, all
<1>9. i \in Impacts
  <2> DEFINE relations == UNION {q.relations : q \in Questions}
  <2>1. RelationsFor(question, p) \subseteq relations
    BY <1>1, <1>7
  <2>2. depth[p] \in Nat /\ triggers[p] \in SUBSET Ref
    BY <1>1, <1>2 DEF PlanTypeOK
  <2> HIDE DEF relations
  <2>3. /\ i.lost \in SUBSET relations /\ i.pending \in SUBSET relations
        /\ i.stable \in SUBSET relations
    BY <1>6, <2>1
  <2>4. i \in [ proposition : Ref, depth : Nat, triggers : SUBSET Ref, lost : SUBSET relations,
                pending : SUBSET relations, stable : SUBSET relations ]
    BY <1>2, <1>6, <2>2, <2>3
  <2> QED BY <2>4 DEF Impacts, relations
<1>10. \A r \in i.stable : r.evidence \notin all
  BY <1>6, <1>8
<1>11. i.lost \union i.pending # {}
  <2>1. PICK t \in triggers[p] : t \in expanded /\ p \in DirectDependents(question, t)
    BY <1>2 DEF Dependents
  <2>2. PICK s \in Asked(question) : s.evidence = t /\ s.proposition = p
    BY <2>1 DEF DirectDependents
  <2>3. s \in RelationsFor(question, p)
    BY <2>2 DEF RelationsFor
  <2>4. s.evidence \in Pending \union gone
    BY <1>1, <1>8, <2>1, <2>2
  <2> QED BY <1>6, <2>3, <2>4
<1>12. i.lost \union i.pending \union i.stable = RelationsFor(question, p)
  BY <1>6, <1>7
<1> QED BY <1>1, <1>2, <1>3, <1>4, <1>5, <1>9, <1>10, <1>11, <1>12 DEF i, all, near

LEMMA PlanIs ==
  ASSUME CompleteInv, FailsIsNoPlan
  PROVE  PlanIsComplete
<1> SUFFICES ASSUME plan # None PROVE PlanIsComplete
  BY DEF PlanIsComplete
<1> DEFINE near == Within(question)
           all  == near[Size]
           refused == question.changed # <<>>
                        /\ ~(question.unavailable \subseteq Changed(question))
           AtItsPlace(i) ==
             /\ i.proposition \in near[i.depth] /\ i.proposition \notin near[i.depth - 1]
             /\ i.triggers = {r \in all : i.proposition \in DirectDependents(question, r)}
             /\ \A r \in i.stable : r.evidence \notin all
             /\ i.lost \union i.pending # {}
             /\ i.lost \union i.pending \union i.stable
                  = RelationsFor(question, i.proposition)
<1>1. question # None /\ question \in Questions
  BY DEF CompleteInv, PlanInv, PlanTypeOK
<1>2. /\ (plan = Fails) <=> refused
      /\ ~refused => /\ {i.proposition : i \in plan} = all \ Changed(question)
                     /\ \A i \in plan : AtItsPlace(i)
  <2>1. CASE question.changed = <<>>
    <3>1. plan = {} /\ Changed(question) = {} /\ ~refused
      BY <1>1, <2>1 DEF CompleteInv, Settled, Accepted, Changed, ToSet
    <3>2. plan # Fails
      BY <3>1 DEF FailsIsNoPlan
    <3>3. near[0] = {} /\ \A n \in 1..Size : near[n] = near[n - 1] \union DependOn(question, near[n - 1])
      BY <1>1, <3>1, NearIs
    <3> DEFINE S == {n \in 0..Size : near[n] = {}}
    <3> HIDE DEF near
    <3>4. 0 \in S
      BY <3>3, SizeIs
    <3>5. ASSUME NEW n \in 1..Size, n - 1 \in S PROVE n \in S
      BY <3>3, <3>5, SizeIs DEF DependOn
    <3>6. Size \in S
      <4>1. S \in SUBSET (0..Size) /\ Size \in 0..Size
        BY SizeIs
      <4> HIDE DEF S
      <4> QED BY <3>4, <3>5, <4>1, StepByStep
    <3> QED BY <3>1, <3>2, <3>6
  <2>2. CASE refused
    <3>1. plan = Fails
      BY <1>1, <2>2 DEF CompleteInv, Settled, Accepted
    <3> QED BY <2>2, <3>1
  <2>3. CASE Accepted(question)
    <3>1. Planning /\ ~refused
      BY <1>1, <2>3 DEF Planning, Accepted
    <3>2. plan = {Impact(p) : p \in Impacted} /\ expanded = all /\ SearchInv
      BY <3>1, AllIsExpanded DEF SearchInv, Planning
    <3>3. \A p : /\ Impact(p).proposition = p /\ Impact(p).depth = depth[p]
                 /\ Impact(p).triggers = triggers[p]
      BY DEF Impact
    <3>4. ASSUME NEW p \in Impacted
          PROVE  /\ Impact(p) \in Impacts /\ AtItsPlace(Impact(p))
                 /\ p \in all /\ p \notin Changed(question)
      BY <3>1, <3>3, ImpactIs
    <3> HIDE DEF AtItsPlace, all
    <3>5. plan # Fails
      BY <3>2, <3>4 DEF FailsIsNoPlan
    <3>6. {i.proposition : i \in plan} = Impacted
      BY <3>2, <3>3
    <3>7. Impacted = all \ Changed(question)
      BY <3>2, <3>4 DEF SearchInv
    <3>8. \A i \in plan : AtItsPlace(i)
      BY <3>2, <3>4
    <3> QED BY <3>1, <3>5, <3>6, <3>7, <3>8
  <2> QED BY <2>1, <2>2, <2>3 DEF Accepted
<1> QED BY <1>2, Zenon DEF PlanIsComplete, Size

\* A plan has everything that can be reached from what has changed, each
\* proposition at its shortest distance and with all that led to it, and no
\* plan is refused but where something unavailable is not among what has changed
\* (EvidenceDependencyIndex.plan_requalification, a breadth-first search).
THEOREM PlansAreComplete ==
  ASSUME FailsIsNoPlan
  PROVE  PlanSpec => []PlanIsComplete
<1>1. PlanInit => CompleteInv
  BY InitComplete
<1>2. CompleteInv /\ [PlanNext]_planVars => CompleteInv'
  BY StepComplete DEF FailsIsNoPlan
<1>3. CompleteInv => PlanIsComplete
  BY PlanIs
<1> QED BY <1>1, <1>2, <1>3, PTL DEF PlanSpec
=============================================================================
