---------------------------- MODULE WeatherProofs ----------------------------
(***************************************************************************)
(* Theorems about Weather, for every set of configurations, whatever the   *)
(* intervals, timeouts and answers are, and any number of processes.       *)
(***************************************************************************)
EXTENDS Weather, WellFoundedInduction, TLAPS

-----------------------------------------------------------------------------
(* Least and greatest                                                      *)

LEMMA SmallestIs ==
  ASSUME NEW S \in SUBSET Nat, S # {}
  PROVE  \E n \in S : \A m \in S : n <= m
<1>1. IsWellFoundedOn(OpToRel(<, Nat), Nat)
  BY NatLessThanWellFounded
<1>2. PICK n \in S : \A m \in S : ~(<<m, n>> \in OpToRel(<, Nat))
  BY <1>1, WFMin
<1>3. \A m \in S : ~(m < n)
  BY <1>2 DEF OpToRel
<1> QED BY <1>3

\* A set of integers that is bounded on one side.
LEMMA LargestIs ==
  ASSUME NEW S \in SUBSET Int, S # {}, NEW n \in Int, \A x \in S : x <= n
  PROVE  \E x \in S : \A y \in S : x >= y
<1> DEFINE T == {n - x : x \in S}
<1>1. T \in SUBSET Nat /\ T # {}
  <2>1. \A x \in S : n - x \in Nat
    OBVIOUS
  <2>2. PICK x \in S : TRUE
    OBVIOUS
  <2>3. n - x \in T
    OBVIOUS
  <2> QED BY <2>1, <2>3
<1>2. PICK m \in T : \A k \in T : m <= k
  <2> HIDE DEF T
  <2> QED BY <1>1, SmallestIs
<1>3. PICK x \in S : m = n - x
  BY <1>2
<1>4. \A y \in S : m <= n - y
  BY <1>2
<1> QED BY <1>3, <1>4

LEMMA LowestIs ==
  ASSUME NEW S \in SUBSET Int, S # {}, NEW n \in Int, \A x \in S : n <= x
  PROVE  \E x \in S : \A y \in S : x <= y
<1> DEFINE T == {x - n : x \in S}
<1>1. T \in SUBSET Nat /\ T # {}
  <2>1. \A x \in S : x - n \in Nat
    OBVIOUS
  <2>2. PICK x \in S : TRUE
    OBVIOUS
  <2>3. x - n \in T
    OBVIOUS
  <2> QED BY <2>1, <2>3
<1>2. PICK m \in T : \A k \in T : m <= k
  <2> HIDE DEF T
  <2> QED BY <1>1, SmallestIs
<1>3. PICK x \in S : m = x - n
  BY <1>2
<1>4. \A y \in S : m <= y - n
  BY <1>2
<1> QED BY <1>3, <1>4

\* Of the places at which a sequence of integers is largest, the last one; of
\* those at which it is smallest, the first.
LEMMA LastLargestIs ==
  ASSUME NEW n \in Nat, NEW S \in SUBSET (1 .. n), S # {}, NEW f,
         \A i \in S : f[i] \in Int, NEW top \in Int, \A i \in S : f[i] <= top
  PROVE  \E i \in S : \A j \in S : i = j \/ f[i] > f[j] \/ (f[i] = f[j] /\ i > j)
<1> DEFINE V == {f[i] : i \in S}
<1>1. PICK x \in V : \A y \in V : x >= y
  <2>1. V \in SUBSET Int /\ V # {} /\ \A y \in V : y <= top
    OBVIOUS
  <2> HIDE DEF V
  <2> QED BY <2>1, LargestIs
<1> DEFINE T == {i \in S : f[i] = x}
<1>2. PICK i \in T : \A j \in T : i >= j
  <2>1. T \in SUBSET Int /\ T # {} /\ \A j \in T : j <= n
    <3>1. PICK i \in S : f[i] = x
      BY <1>1
    <3>2. i \in T
      BY <3>1
    <3>3. \A j \in T : j \in 1 .. n
      OBVIOUS
    <3>4. \A j \in T : j \in Int /\ j <= n
      BY <3>3
    <3> QED BY <3>2, <3>4
  <2>2. n \in Int
    OBVIOUS
  <2> HIDE DEF T, V
  <2> QED BY <2>1, <2>2, LargestIs
<1>3. \A j \in S : f[j] <= x /\ f[j] \in Int /\ j \in Int
  BY <1>1
<1>4. i \in S /\ f[i] = x /\ \A j \in S : f[j] = x => i >= j
  BY <1>2
<1> HIDE DEF V, T
<1> QED BY <1>3, <1>4

LEMMA FirstSmallestIs ==
  ASSUME NEW n \in Nat, NEW S \in SUBSET (1 .. n), S # {}, NEW f,
         \A i \in S : f[i] \in Int, NEW bottom \in Int, \A i \in S : bottom <= f[i]
  PROVE  \E i \in S : \A j \in S : i = j \/ f[i] < f[j] \/ (f[i] = f[j] /\ i < j)
<1> DEFINE V == {f[i] : i \in S}
<1>1. PICK x \in V : \A y \in V : x <= y
  <2>1. V \in SUBSET Int /\ V # {} /\ \A y \in V : bottom <= y
    OBVIOUS
  <2> HIDE DEF V
  <2> QED BY <2>1, LowestIs
<1> DEFINE T == {i \in S : f[i] = x}
<1>2. PICK i \in T : \A j \in T : i <= j
  <2>1. T \in SUBSET Nat /\ T # {}
    <3>1. PICK i \in S : f[i] = x
      BY <1>1
    <3>2. i \in T
      BY <3>1
    <3>3. \A j \in T : j \in 1 .. n
      OBVIOUS
    <3>4. \A j \in T : j \in Nat
      BY <3>3
    <3> QED BY <3>2, <3>4
  <2> HIDE DEF T
  <2> QED BY <2>1, SmallestIs
<1>3. \A j \in S : x <= f[j] /\ f[j] \in Int /\ j \in Int
  BY <1>1
<1>4. i \in S /\ f[i] = x /\ \A j \in S : f[j] = x => i <= j
  BY <1>2
<1> HIDE DEF V, T
<1> QED BY <1>3, <1>4

-----------------------------------------------------------------------------
(* What the adapters report                                                *)

\* The freshest report of a network that is current is in the window.
LEMMA FreshestIs ==
  ASSUME NEW rows \in Seq(Optional(Rows)), NEW t \in Nat, UsableRows(rows, t) # {}
  PROVE  InWindow(SurfaceState(rows, t).freshest, t)
<1> DEFINE U == UsableRows(rows, t)
           L == LatestRows(rows, t)
           A == {rows[i].at : i \in L}
           f == [i \in U |-> rows[i].at]
<1>1. Len(rows) \in Nat /\ DOMAIN rows = 1 .. Len(rows)
  OBVIOUS
<1>2. U \in SUBSET (1 .. Len(rows))
  BY <1>1 DEF UsableRows
<1>3. \A i \in U : rows[i].at \in Int /\ InWindow(rows[i].at, t)
  <2> SUFFICES ASSUME NEW i \in U PROVE rows[i].at \in Int /\ InWindow(rows[i].at, t)
    OBVIOUS
  <2>1. rows[i] \in Optional(Rows) /\ rows[i] # None /\ rows[i].at # None
          /\ InWindow(rows[i].at, t)
    BY <1>1 DEF UsableRows
  <2>2. rows[i] \in Rows
    BY <2>1 DEF Optional
  <2>3. rows[i].at \in Optional(Int)
    BY <2>2 DEF Rows
  <2> QED BY <2>1, <2>3 DEF Optional
<1>4. \A i \in U : rows[i].at <= t + Ahead
  BY <1>3, ClockAssumption DEF InWindow
<1>5. L # {}
  <2> DEFINE V == {rows[i].at : i \in U}
  <2>1. PICK x \in V : \A y \in V : x >= y
    <3>1. V \in SUBSET Int /\ V # {} /\ t + Ahead \in Int /\ \A y \in V : y <= t + Ahead
      BY <1>3, <1>4, ClockAssumption
    <3> HIDE DEF V
    <3> QED BY <3>1, LargestIs
  <2> DEFINE T == {i \in U : rows[i].at = x}
  <2>2. PICK i \in T : \A j \in T : i <= j
    <3>1. T \in SUBSET Nat /\ T # {}
      BY <1>2, <2>1
    <3> HIDE DEF T
    <3> QED BY <3>1, SmallestIs
  <2>3. i \in U /\ rows[i].at = x
          /\ \A j \in U : rows[j].at \in Int /\ rows[j].at <= x /\ (rows[j].at = x => i <= j)
    BY <1>3, <2>1, <2>2
  <2>4. i \in L
    <3> HIDE DEF V, T
    <3> QED BY <2>3 DEF LatestRows
  <2> QED BY <2>4
<1>6. L \subseteq U
  BY DEF LatestRows
<1>7. Max(A) \in A
  <2>1. A \in SUBSET Int /\ A # {} /\ t + Ahead \in Int /\ \A x \in A : x <= t + Ahead
    BY <1>3, <1>4, <1>5, <1>6, ClockAssumption
  <2> HIDE DEF A
  <2>2. \E x \in A : \A y \in A : x >= y
    BY <2>1, LargestIs
  <2> QED BY <2>2 DEF Max
<1>8. PICK i \in L : Max(A) = rows[i].at
  BY <1>7
<1>9. SurfaceState(rows, t).freshest = Max(A)
  BY DEF SurfaceState
<1> QED BY <1>3, <1>6, <1>8, <1>9

LEMMA DatedRows ==
  ASSUME NEW rows \in Seq(Optional(Rows)), NEW t \in Nat
  PROVE  Dated(rows, t) \in Seq(Optional(Rows)) \union {Fails}
<1>1. CASE rows = Fails
  BY <1>1 DEF Dated
<1>2. CASE rows # Fails
  <2> DEFINE D(i) == IF rows[i] = None \/ rows[i].at = None THEN rows[i]
                     ELSE [rows[i] EXCEPT !.at = t - @]
  <2>1. Len(rows) \in Nat /\ DOMAIN rows = 1 .. Len(rows)
    OBVIOUS
  <2>2. Dated(rows, t) = [i \in 1 .. Len(rows) |-> D(i)]
    BY <1>2, <2>1 DEF Dated
  <2>3. ASSUME NEW i \in 1 .. Len(rows) PROVE D(i) \in Optional(Rows)
    <3>1. rows[i] \in Optional(Rows)
      BY <2>1
    <3>2. CASE rows[i] = None \/ rows[i].at = None
      BY <3>1, <3>2
    <3>3. CASE ~(rows[i] = None \/ rows[i].at = None)
      <4>1. rows[i] \in Rows
        BY <3>1, <3>3 DEF Optional
      <4>2. rows[i].at \in Int
        BY <3>3, <4>1 DEF Rows, Optional
      <4> DEFINE row == rows[i]
      <4>4. row = [station |-> row.station, at |-> row.at, distance |-> row.distance,
                   temp |-> row.temp]
              /\ row.station \in Optional(Int) /\ row.distance \in Optional(Int)
              /\ row.temp \in Optional(Int)
        BY <4>1 DEF Rows
      <4>5. t - row.at \in Optional(Int)
        BY <4>2 DEF Optional
      <4> DEFINE dated == [row EXCEPT !.at = t - @]
      <4>6. dated = [station |-> row.station, at |-> t - row.at,
                     distance |-> row.distance, temp |-> row.temp]
        BY <4>4
      <4>7. dated \in Rows
        BY <4>4, <4>5, <4>6 DEF Rows
      <4>3. [rows[i] EXCEPT !.at = t - @] \in Rows
        BY <4>7
      <4> QED BY <3>3, <4>3 DEF Optional
    <3> QED BY <3>2, <3>3
  <2> HIDE DEF D
  <2> QED BY <2>1, <2>2, <2>3
<1> QED BY <1>1, <1>2

-----------------------------------------------------------------------------
(* The invariant, in three layers: the shape of the state; how late a      *)
(* source can be; and what the components and the estimate rest on.        *)

Entities == Source \union {"estimate"}
Availabilities == {None, "current", "degraded", "unavailable"}

\* v is a component of this kind.
IsOf(v, kind) ==
  /\ v.kind = kind
  /\ kind = "surface"  => v \in SurfaceStates
  /\ kind = "weather"  => v \in WeatherStates
  /\ kind = "hourly"   => v \in ForecastStates
  /\ kind = "estimate" => v \in Estimates

WorldOk(w) ==
  /\ w = [s \in Entities |-> w[s]]
  /\ \A s \in Entities :
       /\ w[s] = [values |-> w[s].values, availability |-> w[s].availability]
       /\ w[s].availability \in Availabilities
       /\ w[s].values = [k \in Kinds(s) |-> w[s].values[k]]
       /\ \A k \in Kinds(s) : w[s].values[k] = None \/ IsOf(w[s].values[k], k)

\* What is ingested for this entity.
BatchOk(entity, batch) ==
  /\ Len(batch) \in Nat /\ DOMAIN batch = 1 .. Len(batch)
  /\ \A i \in DOMAIN batch : \A k \in Kinds(entity) :
       batch[i].value # None /\ batch[i].value.kind = k => IsOf(batch[i].value, k)

Handling(entity) ==
  worker.at \in {"store", "qualify"} /\ worker.entity = entity

Doing ==
  \/ worker = Waiting
  \/ /\ enabled # None /\ worker.source \in enabled
     /\ worker = [at |-> worker.at, source |-> worker.source, entity |-> worker.entity,
                  batch |-> worker.batch, spent |-> worker.spent]
     /\ \/ worker.at = "ask" /\ worker.entity = None /\ worker.batch = <<>>
             /\ worker.spent \in 0 .. Patience[worker.source]
        \/ worker.at \in {"store", "qualify"} /\ BatchOk(worker.entity, worker.batch)
             /\ worker.entity \in {worker.source, "estimate"}
             /\ (worker.entity = "estimate" => worker.source \in Fusing)
        \/ worker.at = "fuse" /\ worker.entity = None /\ worker.source \in Fusing

Shape ==
  /\ now \in 0 .. Horizon
  /\ enabled \in Configs \union {None}
  /\ boots \in 0 .. Boots
  /\ WorldOk(world) /\ WorldOk(disk)
  /\ due \in [Source -> Nat] /\ \A s \in Source : due[s] <= now + Interval[s]
  /\ Doing
  /\ heard \in SUBSET Source
  /\ heard # {} => enabled # None /\ heard \subseteq enabled
  /\ points = None \/ (points \in Nat /\ points <= now)
  /\ fresh \in BOOLEAN /\ (fresh => "surface" \in heard)

\* What the first i sources of a pass may take.
Takes(i) ==
  CASE i = 0 -> 0
    [] i = 1 -> Turn("alerts")
    [] i = 2 -> Turn("alerts") + Turn("surface")
    [] i = 3 -> Turn("alerts") + Turn("surface") + Turn("weather")
    [] i = 4 -> Turn("alerts") + Turn("surface") + Turn("weather") + Turn("forecast")
    [] i = 5 -> Turn("alerts") + Turn("surface") + Turn("weather") + Turn("forecast")
                  + Turn("radar")
    [] OTHER -> Round

\* What the request of the present collection has taken, at most.
Taken == IF worker.at = "ask" THEN worker.spent ELSE Patience[worker.source]

\* A source that the pass has left behind is late by what came after it in
\* this pass; one that is still to come, by that and the end of the last pass.
LateBy(s) ==
  IF worker.at = "wait" THEN Round - Takes(Position(s))
  ELSE Takes(Position(worker.source) - 1) + Taken - Takes(Position(s))
         + (IF Position(s) < Position(worker.source) THEN 0 ELSE Round)

InTime == enabled # None => \A s \in enabled : now <= due[s] + LateBy(s)

\* e says nothing that this process was not told.
Rests(e) ==
  /\ e.primary \in enabled => e.primary \in heard
  /\ e.modelDelta # None /\ "weather" \in enabled => "weather" \in heard
  /\ e.forecastDelta # None /\ "forecast" \in enabled => "forecast" \in heard

InUse(batch) == Availability(batch) \in {"current", "degraded"}

\* What is in use was heard of in this process.
Heard ==
  \A s \in Fusing \intersect enabled :
    /\ Usable(s) => s \in heard
    /\ Handling(s) /\ InUse(worker.batch) => s \in heard

\* The estimate is ingested as it was derived, at the same moment.
EstimateIsCarried ==
  Handling("estimate") =>
    /\ worker.batch = EstimateBatch(EstimateNow(now))
    /\ worker.at = "qualify" /\ EstimateNow(now) # None =>
         Value("estimate", "estimate") = EstimateNow(now)

EstimateRests == Current("estimate") => Rests(Value("estimate", "estimate"))

Follows ==
  /\ Current("estimate") =>
       \E t \in 0 .. now : Value("estimate", "estimate") = EstimateNow(t)
  /\ heard \intersect Fusing # {} => (Current("estimate") <=> EstimateNow(now) # None)

\* Except while a source that is fused is ingested.
EstimateIsSettled ==
  worker.at \in {"wait", "ask"} \/ worker.source \notin Fusing => Follows

Report == Value("surface", "surface")
Young(report) == report # None /\ now - report.freshest <= MaxAge

\* A batch of the surface network that is in use brings a young report, or
\* finds one.
SurfaceIngests(at, batch) ==
  /\ DOMAIN batch = {1}
  /\ IF ~InUse(batch) THEN batch[1].value = None
     ELSE IF at = "store" /\ batch[1].value # None
     THEN Young(batch[1].value) /\ batch[1].value \in SurfaceStates
     ELSE Young(Report)

SurfaceIsDated ==
  "surface" \in enabled =>
    /\ Usable("surface") =>
         IF worker.source = "surface" /\ (worker.at = "fuse" \/ Handling("estimate"))
         THEN Young(Report)
         ELSE \/ /\ Report # None
                 /\ due["surface"] <= Report.freshest + MaxAge + Interval["surface"]
              \/ worker.at = "qualify" /\ worker.source = "surface" /\ Young(Report)
    /\ Handling("surface") => SurfaceIngests(worker.at, worker.batch)

Grounds ==
  enabled # None =>
    Heard /\ EstimateIsCarried /\ EstimateRests /\ EstimateIsSettled /\ SurfaceIsDated

WeatherInv == Shape /\ InTime /\ Grounds

-----------------------------------------------------------------------------
(* The order of a pass and what it takes                                   *)

LEMMA OrderIs ==
  /\ DOMAIN Order = {1, 2, 3, 4, 5, 6}
  /\ Order[1] = "alerts" /\ Order[2] = "surface" /\ Order[3] = "weather"
  /\ Order[4] = "forecast" /\ Order[5] = "radar" /\ Order[6] = "context"
<1>1. DOMAIN Order = 1 .. 6
  BY DEF Order
<1>2. 1 .. 6 = {1, 2, 3, 4, 5, 6}
  OBVIOUS
<1> QED BY <1>1, <1>2 DEF Order

LEMMA SourcesAre ==
  /\ Source = {"alerts", "surface", "weather", "forecast", "radar", "context"}
  /\ Fusing \subseteq Source /\ "estimate" \notin Source
<1>1. Source = {Order[i] : i \in {1, 2, 3, 4, 5, 6}}
  BY OrderIs DEF Source, ToSet
<1>2. Source = {"alerts", "surface", "weather", "forecast", "radar", "context"}
  BY <1>1, OrderIs
<1> QED BY <1>2 DEF Fusing

LEMMA PositionsAre ==
  /\ \A i \in DOMAIN Order : Order[i] \in Source /\ Position(Order[i]) = i
  /\ \A s \in Source : Position(s) \in DOMAIN Order /\ Order[Position(s)] = s
<1>1. \A i, j \in DOMAIN Order : Order[i] = Order[j] => i = j
  BY OrderIs
<1>2. \A s \in Source : \E i \in DOMAIN Order : Order[i] = s
  BY OrderIs, SourcesAre
<1>3. ASSUME NEW s \in Source PROVE Position(s) \in DOMAIN Order /\ Order[Position(s)] = s
  BY <1>2, <1>3 DEF Position
<1>4. \A i \in DOMAIN Order : Order[i] \in Source
  BY OrderIs, SourcesAre
<1> QED BY <1>1, <1>3, <1>4

LEMMA EnabledAre ==
  ASSUME enabled \in Configs \union {None}, enabled # None
  PROVE  enabled \subseteq Source
BY ConfigAssumption

LEMMA TurnsAre ==
  ASSUME NEW s \in Source
  PROVE  Turn(s) \in Nat /\ Patience[s] \in Nat
           /\ Interval[s] \in Nat /\ Interval[s] > 0
BY ClockAssumption DEF Turn

TakesAddUp ==
  /\ Takes(6) = Round /\ Takes(0) = 0 /\ Round \in Nat
  /\ \A i \in DOMAIN Order :
       /\ Takes(i) \in Nat /\ Takes(i - 1) \in Nat
       /\ Takes(i) = Takes(i - 1) + Turn(Order[i])
       /\ Takes(i) <= Round /\ Takes(i - 1) <= Round
  /\ \A i, j \in DOMAIN Order : i <= j => Takes(i) <= Takes(j)
  /\ \A i, j \in DOMAIN Order : i < j => Takes(i) <= Takes(j - 1)

LEMMA TakesAre == TakesAddUp
<1> DEFINE a == Turn("alerts")
           b == Turn("surface")
           c == Turn("weather")
           d == Turn("forecast")
           e == Turn("radar")
           f == Turn("context")
<1>1. a \in Nat /\ b \in Nat /\ c \in Nat /\ d \in Nat /\ e \in Nat /\ f \in Nat
  BY TurnsAre, SourcesAre
<1>2. Round = a + b + c + d + e + f
  BY DEF Round
<1>3. /\ Takes(0) = 0 /\ Takes(1) = a /\ Takes(2) = a + b /\ Takes(3) = a + b + c
      /\ Takes(4) = a + b + c + d /\ Takes(5) = a + b + c + d + e
      /\ Takes(6) = a + b + c + d + e + f
  BY <1>2 DEF Takes
<1> HIDE DEF a, b, c, d, e, f
<1>4. /\ Takes(0) \in Nat /\ Takes(1) \in Nat /\ Takes(2) \in Nat /\ Takes(3) \in Nat
      /\ Takes(4) \in Nat /\ Takes(5) \in Nat /\ Takes(6) \in Nat
      /\ Takes(0) <= Takes(1) /\ Takes(1) <= Takes(2) /\ Takes(2) <= Takes(3)
      /\ Takes(3) <= Takes(4) /\ Takes(4) <= Takes(5) /\ Takes(5) <= Takes(6)
      /\ Takes(6) = Round
  BY <1>1, <1>2, <1>3
<1>5. /\ Takes(1) = Takes(0) + a /\ Takes(2) = Takes(1) + b /\ Takes(3) = Takes(2) + c
      /\ Takes(4) = Takes(3) + d /\ Takes(5) = Takes(4) + e /\ Takes(6) = Takes(5) + f
  BY <1>1, <1>3
<1>6. ASSUME NEW i \in DOMAIN Order
      PROVE  /\ Takes(i) \in Nat /\ Takes(i - 1) \in Nat
             /\ Takes(i) = Takes(i - 1) + Turn(Order[i])
             /\ Takes(i) <= Round /\ Takes(i - 1) <= Round
  <2>1. i \in {1, 2, 3, 4, 5, 6}
    BY OrderIs
  <2>2. CASE i = 1
    <3>1. i - 1 = 0 /\ Turn(Order[i]) = a
      BY <2>2, OrderIs DEF a
    <3> QED BY <2>2, <3>1, <1>4, <1>5
  <2>3. CASE i = 2
    <3>1. i - 1 = 1 /\ Turn(Order[i]) = b
      BY <2>3, OrderIs DEF b
    <3> QED BY <2>3, <3>1, <1>4, <1>5
  <2>4. CASE i = 3
    <3>1. i - 1 = 2 /\ Turn(Order[i]) = c
      BY <2>4, OrderIs DEF c
    <3> QED BY <2>4, <3>1, <1>4, <1>5
  <2>5. CASE i = 4
    <3>1. i - 1 = 3 /\ Turn(Order[i]) = d
      BY <2>5, OrderIs DEF d
    <3> QED BY <2>5, <3>1, <1>4, <1>5
  <2>6. CASE i = 5
    <3>1. i - 1 = 4 /\ Turn(Order[i]) = e
      BY <2>6, OrderIs DEF e
    <3> QED BY <2>6, <3>1, <1>4, <1>5
  <2>7. CASE i = 6
    <3>1. i - 1 = 5 /\ Turn(Order[i]) = f
      BY <2>7, OrderIs DEF f
    <3> QED BY <2>7, <3>1, <1>4, <1>5
  <2> QED BY <2>1, <2>2, <2>3, <2>4, <2>5, <2>6, <2>7
<1>7. \A i, j \in {0, 1, 2, 3, 4, 5, 6} : i <= j => Takes(i) <= Takes(j)
  <2> DEFINE T(i) == Takes(i)
  <2>1. /\ T(0) \in Nat /\ T(1) \in Nat /\ T(2) \in Nat /\ T(3) \in Nat
        /\ T(4) \in Nat /\ T(5) \in Nat /\ T(6) \in Nat
        /\ T(0) <= T(1) /\ T(1) <= T(2) /\ T(2) <= T(3)
        /\ T(3) <= T(4) /\ T(4) <= T(5) /\ T(5) <= T(6)
    BY <1>4
  <2> HIDE DEF T
  <2>2. \A i, j \in {0, 1, 2, 3, 4, 5, 6} : i <= j => T(i) <= T(j)
    BY <2>1
  <2> QED BY <2>2 DEF T
<1>8. \A i, j \in DOMAIN Order :
        /\ i <= j => Takes(i) <= Takes(j)
        /\ i < j => Takes(i) <= Takes(j - 1)
  <2>1. \A i, j \in {1, 2, 3, 4, 5, 6} : i < j => j - 1 \in {0, 1, 2, 3, 4, 5, 6} /\ i <= j - 1
    OBVIOUS
  <2> QED BY <1>7, <2>1, OrderIs
<1> QED BY <1>3, <1>4, <1>6, <1>8 DEF TakesAddUp

LEMMA TakesNext == TakesAddUp'
BY TakesAre, PTL

\* The next source of a pass, and the end of a pass.
LEMMA OnwardIs ==
  ASSUME NEW i, NEW dues
  PROVE  \/ /\ Onward(i, dues) = Waiting
            /\ \A j \in DOMAIN Order : j > i /\ Order[j] \in enabled => ~(dues[Order[j]] <= now)
         \/ \E n \in DOMAIN Order :
              /\ n > i /\ Order[n] \in enabled /\ dues[Order[n]] <= now
              /\ Onward(i, dues) = Asking(Order[n])
              /\ \A j \in DOMAIN Order :
                   j > i /\ j < n /\ Order[j] \in enabled => ~(dues[Order[j]] <= now)
<1> DEFINE D == DueAfter(i, dues)
<1>1. CASE D = {}
  BY <1>1 DEF Onward, DueAfter
<1>2. CASE D # {}
  <2>1. D \in SUBSET Nat
    BY OrderIs DEF DueAfter
  <2>2. \E n \in D : \A m \in D : n <= m
    <3> HIDE DEF D
    <3> QED BY <1>2, <2>1, SmallestIs
  <2>3. Min(D) \in D /\ \A m \in D : Min(D) <= m
    <3> HIDE DEF D
    <3> QED BY <2>2 DEF Min
  <2> DEFINE n == Min(D)
  <2>4. Onward(i, dues) = Asking(Order[n])
    BY <1>2 DEF Onward
  <2>5. n \in DOMAIN Order /\ n > i /\ Order[n] \in enabled /\ dues[Order[n]] <= now
    BY <2>3 DEF DueAfter
  <2>6. \A j \in DOMAIN Order : j > i /\ j < n /\ Order[j] \in enabled => ~(dues[Order[j]] <= now)
    <3> SUFFICES ASSUME NEW j \in DOMAIN Order, j > i, j < n, Order[j] \in enabled,
                        dues[Order[j]] <= now
                 PROVE  FALSE
      OBVIOUS
    <3>1. j \in D
      BY DEF DueAfter
    <3>2. n <= j
      BY <2>3, <3>1
    <3>3. n \in Nat /\ j \in Nat
      BY <2>5, OrderIs
    <3> HIDE DEF n
    <3> QED BY <3>2, <3>3
  <2> HIDE DEF n
  <2> QED BY <2>4, <2>5, <2>6
<1> QED BY <1>1, <1>2

-----------------------------------------------------------------------------
(* What a batch says of its source                                         *)

LEMMA SingleBatch ==
  ASSUME NEW o
  PROVE  /\ DOMAIN <<o>> = {1} /\ <<o>>[1] = o /\ Len(<<o>>) = 1 /\ <<o>> # <<>>
         /\ DOMAIN <<o>> = 1 .. Len(<<o>>)
         /\ Successful(<<o>>) <=> o.status \in {"observed", "partial"}
         /\ o.status = "unavailable" => Availability(<<o>>) = "unavailable"
         /\ o.status = "retained" => Availability(<<o>>) = "degraded"
         /\ o.status = "observed" => Availability(<<o>>) = "current"
<1> DEFINE b == <<o>>
<1>1. DOMAIN b = {1} /\ b[1] = o /\ Len(b) = 1 /\ b # <<>>
  OBVIOUS
<1>2. DOMAIN b = 1 .. Len(b)
  OBVIOUS
<1> HIDE DEF b
<1>3. Successful(b) <=> o.status \in {"observed", "partial"}
  BY <1>1 DEF Successful
<1> DEFINE Of(statuses) == {i \in DOMAIN b : b[i].status \in statuses}
<1>4. Availability(b) =
        IF Of({"unavailable"}) = {1} THEN "unavailable"
        ELSE IF Of({"unavailable", "partial", "retained"}) # {} THEN "degraded"
        ELSE "current"
  BY <1>1 DEF Availability
<1>5. \A statuses : Of(statuses) = IF o.status \in statuses THEN {1} ELSE {}
  BY <1>1
<1> HIDE DEF Of
<1>6. /\ o.status = "unavailable" => Availability(b) = "unavailable"
      /\ o.status = "retained" => Availability(b) = "degraded"
      /\ o.status = "observed" => Availability(b) = "current"
  BY <1>4, <1>5
<1> QED BY <1>1, <1>2, <1>3, <1>6 DEF b

LEMMA PairBatch ==
  ASSUME NEW a, NEW b, a.status \in {"observed", "unavailable"},
         b.status \in {"observed", "unavailable"}
  PROVE  /\ DOMAIN <<a, b>> = {1, 2} /\ <<a, b>>[1] = a /\ <<a, b>>[2] = b
         /\ Len(<<a, b>>) = 2 /\ DOMAIN <<a, b>> = 1 .. Len(<<a, b>>)
         /\ Successful(<<a, b>>) <=> a.status = "observed" \/ b.status = "observed"
         /\ Availability(<<a, b>>) \in {"current", "degraded"} => Successful(<<a, b>>)
<1> DEFINE p == <<a, b>>
<1>1. DOMAIN p = {1, 2} /\ p[1] = a /\ p[2] = b /\ Len(p) = 2 /\ p # <<>>
  <2>1. DOMAIN p = 1 .. 2
    OBVIOUS
  <2>2. 1 .. 2 = {1, 2}
    OBVIOUS
  <2> QED BY <2>1, <2>2
<1>2. DOMAIN p = 1 .. Len(p)
  OBVIOUS
<1> HIDE DEF p
<1>3. Successful(p) <=> a.status = "observed" \/ b.status = "observed"
  BY <1>1 DEF Successful
<1>4. Availability(p) \in {"current", "degraded"} => Successful(p)
  <2> SUFFICES ASSUME ~Successful(p) PROVE Availability(p) = "unavailable"
    BY DEF Availability
  <2>1. a.status = "unavailable" /\ b.status = "unavailable"
    BY <1>3
  <2>2. {i \in DOMAIN p : p[i].status \in {"unavailable"}} = DOMAIN p
    BY <1>1, <2>1
  <2> QED BY <1>1, <2>2 DEF Availability
<1> QED BY <1>1, <1>2, <1>3, <1>4 DEF p

LEMMA AvailabilityIs ==
  ASSUME NEW batch
  PROVE  Availability(batch) \in Availabilities
BY DEF Availability, Availabilities

LEMMA FailedIs ==
  ASSUME NEW source
  PROVE  /\ Availability(Failed(source)) = "unavailable"
         /\ ~Successful(Failed(source))
         /\ Len(Failed(source)) = 1 /\ DOMAIN Failed(source) = 1 .. Len(Failed(source))
         /\ DOMAIN Failed(source) = {1} /\ Failed(source)[1].value = None
<1> DEFINE o == Unavailable(source, {<<"failed", source>>})
<1>1. o.status = "unavailable" /\ o.value = None
  BY DEF Unavailable
<1>2. Failed(source) = <<o>>
  BY DEF Failed
<1> HIDE DEF o
<1> QED BY <1>1, <1>2, SingleBatch

-----------------------------------------------------------------------------
(* What is ingested of an answer                                           *)

LEMMA PassesOk ==
  ASSUME NEW v, NEW kind, v.kind = kind,
         kind \notin {"surface", "weather", "hourly", "estimate"}
  PROVE  IsOf(v, kind)
BY DEF IsOf

LEMMA SingleOk ==
  ASSUME NEW entity, NEW o, NEW kind, Kinds(entity) = {kind},
         o.value = None \/ IsOf(o.value, kind)
  PROVE  BatchOk(entity, <<o>>)
<1> DEFINE b == <<o>>
<1>1. DOMAIN b = {1} /\ b[1] = o /\ Len(b) = 1 /\ DOMAIN b = 1 .. Len(b)
  BY SingleBatch
<1> HIDE DEF b
<1> QED BY <1>1 DEF BatchOk, b

LEMMA KindsAre ==
  /\ Kinds("alerts") = {"alerts"} /\ Kinds("surface") = {"surface"}
  /\ Kinds("weather") = {"weather", "day"} /\ Kinds("forecast") = {"hourly"}
  /\ Kinds("radar") = {"radar"} /\ Kinds("context") = {"context"}
  /\ Kinds("estimate") = {"estimate"}
BY DEF Kinds

LEMMA AlertsAnswer ==
  ASSUME NEW features
  PROVE  BatchOk("alerts", AlertsCollect(features))
<1>1. CASE features = Fails
  <2>1. BatchOk("alerts", <<Unavailable("nws.alerts", {<<"failed", "nws.alerts">>})>>)
    BY SingleOk, KindsAre DEF Unavailable
  <2> QED BY <1>1, <2>1 DEF AlertsCollect, Failed
<1>2. CASE features # Fails
  <2>1. AlertState(features).kind = "alerts"
    BY DEF AlertState
  <2>2. IsOf(AlertState(features), "alerts")
    BY <2>1, PassesOk
  <2>3. BatchOk("alerts", <<Observed("nws.alerts", AlertState(features))>>)
    BY <2>2, SingleOk, KindsAre DEF Observed
  <2> QED BY <1>2, <2>3 DEF AlertsCollect
<1> QED BY <1>1, <1>2

LEMMA WeatherAnswer ==
  ASSUME NEW answer \in Answers["weather"]
  PROVE  /\ BatchOk("weather", OpenMeteoCollect(answer))
         /\ InUse(OpenMeteoCollect(answer)) => Successful(OpenMeteoCollect(answer))
<1> DEFINE Part(source, part) ==
             IF answer = Fails \/ part = Fails
             THEN Unavailable(source, {<<"failed", source>>})
             ELSE Observed(source, part)
           x == IF answer = Fails THEN Fails ELSE answer.current
           y == IF answer = Fails THEN Fails ELSE answer.daily
           a == Part("openmeteo.current", x)
           b == Part("openmeteo.daily", y)
           p == <<a, b>>
<1>1. OpenMeteoCollect(answer) = p
  BY DEF OpenMeteoCollect
<1>2. /\ a.status \in {"observed", "unavailable"} /\ b.status \in {"observed", "unavailable"}
      /\ a.value = None \/ (answer # Fails /\ x # Fails /\ a.value = x)
      /\ b.value = None \/ (answer # Fails /\ y # Fails /\ b.value = y)
  BY DEF Observed, Unavailable
<1>3. a.value = None \/ a.value \in WeatherStates
  BY <1>2, AnswersAssumption
<1>4. b.value = None \/ b.value.kind = "day"
  BY <1>2, AnswersAssumption
<1> HIDE DEF a, b
<1>5. /\ DOMAIN p = {1, 2} /\ p[1] = a /\ p[2] = b /\ Len(p) = 2
      /\ DOMAIN p = 1 .. Len(p) /\ (InUse(p) => Successful(p))
  BY <1>2, PairBatch DEF InUse
<1> HIDE DEF p
<1>6. \A w \in WeatherStates : w.kind = "weather"
  BY DEF WeatherStates
<1>7. \A i \in DOMAIN p : \A k \in Kinds("weather") :
        p[i].value # None /\ p[i].value.kind = k => IsOf(p[i].value, k)
  BY <1>3, <1>4, <1>5, <1>6, KindsAre DEF IsOf
<1> QED BY <1>1, <1>5, <1>7 DEF BatchOk

LEMMA ForecastAnswer ==
  ASSUME NEW answer \in Answers["forecast"], NEW t \in 0 .. Horizon
  PROVE  LET batch == ForecastCollect(DatedHours(answer, t))
         IN BatchOk("forecast", batch) /\ (InUse(batch) => Successful(batch))
<1> DEFINE batch == ForecastCollect(DatedHours(answer, t))
           name == "nws.forecast.hourly"
           state == ForecastState(DatedHours(answer, t))
           o == Observed(name, state)
<1>1. Collect("forecast", answer, t) = batch
  BY DEF Collect
<1>2. CASE batch = Failed(name)
  <2>1. BatchOk("forecast", <<Unavailable(name, {<<"failed", name>>})>>)
    BY SingleOk, KindsAre DEF Unavailable
  <2>2. ~InUse(Failed(name))
    BY FailedIs DEF InUse
  <2> QED BY <1>2, <2>1, <2>2 DEF Failed
<1>3. CASE batch = <<o>>
  <2>1. o.status = "observed" /\ o.value = state
    BY DEF Observed
  <2> HIDE DEF o
  <2>2. Successful(batch) /\ batch[1].value = state
    BY <1>3, <2>1, SingleBatch
  <2>3. state \in ForecastStates
    BY <1>1, <2>2, AnswersAssumption
  <2>4. IsOf(state, "hourly")
    <3>1. state.kind = "hourly"
      BY <2>3 DEF ForecastStates
    <3> HIDE DEF state
    <3> QED BY <2>3, <3>1 DEF IsOf
  <2>5. BatchOk("forecast", <<o>>)
    BY <2>1, <2>4, SingleOk, KindsAre
  <2> QED BY <1>3, <2>2, <2>5
<1> QED BY <1>2, <1>3 DEF ForecastCollect

LEMMA SurfaceAnswer ==
  ASSUME NEW answer \in Answers["surface"], NEW t \in 0 .. Horizon
  PROVE  LET batch == SurfaceCollect(Dated(answer, t), t)
         IN \/ batch = Failed("aviationweather.metar")
            \/ \E v \in SurfaceStates :
                 v.kind = "surface" /\ InWindow(v.freshest, t)
                   /\ batch = <<Observed("aviationweather.metar", v)>>
<1> DEFINE rows == Dated(answer, t)
           batch == SurfaceCollect(rows, t)
           name == "aviationweather.metar"
           state == SurfaceState(rows, t)
<1>1. CASE batch = Failed(name)
  BY <1>1
<1>2. CASE ~(rows = Fails \/ UsableRows(rows, t) = {})
  <2>1. batch = <<Observed(name, state)>>
    BY <1>2 DEF SurfaceCollect
  <2>2. answer \in Seq(Optional(Rows))
    <3>1. answer \in Seq(Optional(Rows)) \union {Fails}
      BY AnswersAssumption
    <3>2. answer # Fails
      BY <1>2 DEF Dated
    <3> QED BY <3>1, <3>2
  <2>3. rows \in Seq(Optional(Rows))
    BY <1>2, <2>2, DatedRows
  <2>4. t \in Nat
    BY ClockAssumption
  <2>5. InWindow(state.freshest, t)
    <3> HIDE DEF rows
    <3> QED BY <1>2, <2>3, <2>4, FreshestIs
  <2>6. Successful(batch) /\ batch[1].value = state
    BY <2>1, SingleBatch DEF Observed
  <2>7. Collect("surface", answer, t) = batch
    BY DEF Collect
  <2>8. state \in SurfaceStates
    BY <2>6, <2>7, AnswersAssumption
  <2>9. state.kind = "surface"
    BY <2>8 DEF SurfaceStates
  <2> QED BY <2>1, <2>5, <2>8, <2>9
<1> QED BY <1>1, <1>2 DEF SurfaceCollect

\* A retained surface batch changes no component.
LEMMA RetainedIs ==
  LET batch == <<Retained("aviationweather.metar", {<<"retained", "metar">>})>>
  IN /\ BatchOk("surface", batch) /\ Len(batch) = 1 /\ DOMAIN batch = {1}
     /\ batch[1].value = None /\ InUse(batch)
<1> DEFINE o == Retained("aviationweather.metar", {<<"retained", "metar">>})
<1>1. o.status = "retained" /\ o.value = None
  BY DEF Retained
<1> HIDE DEF o
<1>2. BatchOk("surface", <<o>>)
  BY <1>1, SingleOk, KindsAre
<1> QED BY <1>1, <1>2, SingleBatch DEF InUse, o

\* The two batches that a collection of the surface network may end in.
LEMMA SurfaceIngested ==
  ASSUME NEW answer \in Answers["surface"], now \in 0 .. Horizon
  PROVE  LET batch == SurfaceBatch(SurfaceCollect(Dated(answer, now), now))
             got   == Successful(SurfaceCollect(Dated(answer, now), now))
         IN /\ BatchOk("surface", batch) /\ Len(batch) = 1 /\ DOMAIN batch = {1}
            /\ InUse(batch) =>
                 \/ /\ got /\ batch[1].value # None
                    /\ batch[1].value \in SurfaceStates
                    /\ InWindow(batch[1].value.freshest, now)
                 \/ batch[1].value = None /\ RetentionIsEarned
            /\ ~InUse(batch) => batch[1].value = None
<1> DEFINE name == "aviationweather.metar"
           raw == SurfaceCollect(Dated(answer, now), now)
           batch == SurfaceBatch(raw)
           kept == <<Retained(name, {<<"retained", "metar">>})>>
<1>1. CASE raw = Failed(name)
  <2>1. Availability(raw) = "unavailable"
    BY <1>1, FailedIs
  <2>2. CASE RetentionIsEarned
    <3>1. batch = kept
      BY <2>1, <2>2 DEF SurfaceBatch
    <3> HIDE DEF batch, kept
    <3>2. BatchOk("surface", kept) /\ Len(kept) = 1 /\ DOMAIN kept = {1} /\ kept[1].value = None
      BY RetainedIs DEF kept
    <3> QED BY <2>2, <3>1, <3>2 DEF batch
  <2>3. CASE ~RetentionIsEarned
    <3>1. batch = Failed(name)
      BY <1>1, <2>3 DEF SurfaceBatch
    <3>2. BatchOk("surface", <<Unavailable(name, {<<"failed", name>>})>>)
      BY SingleOk, KindsAre DEF Unavailable
    <3>3. BatchOk("surface", Failed(name))
      BY <3>2 DEF Failed
    <3>4. ~InUse(Failed(name)) /\ Len(Failed(name)) = 1 /\ DOMAIN Failed(name) = {1}
            /\ Failed(name)[1].value = None
      BY FailedIs DEF InUse
    <3> HIDE DEF raw, batch
    <3>5. BatchOk("surface", batch) /\ Len(batch) = 1 /\ DOMAIN batch = {1} /\ ~InUse(batch)
            /\ batch[1].value = None
      BY <3>1, <3>3, <3>4
    <3> QED BY <3>5 DEF raw, batch
  <2> QED BY <2>2, <2>3
<1>2. CASE \E v \in SurfaceStates :
             v.kind = "surface" /\ InWindow(v.freshest, now)
               /\ raw = <<Observed(name, v)>>
  <2>1. PICK v \in SurfaceStates : v.kind = "surface" /\ InWindow(v.freshest, now)
                                     /\ raw = <<Observed(name, v)>>
    BY <1>2
  <2> DEFINE o == Observed(name, v)
  <2>2. o.status = "observed" /\ o.value = v /\ v # None
    BY NoneAssumption DEF Observed
  <2>3. raw = <<o>>
    BY <2>1
  <2> HIDE DEF o, raw
  <2>4. Availability(raw) = "current" /\ Successful(raw) /\ raw[1] = o /\ Len(raw) = 1
          /\ DOMAIN raw = {1}
    BY <2>2, <2>3, SingleBatch
  <2>5. batch = raw
    BY <2>4 DEF SurfaceBatch
  <2>6. IsOf(v, "surface")
    BY <2>1 DEF IsOf
  <2>7. BatchOk("surface", <<o>>)
    BY <2>2, <2>6, SingleOk, KindsAre
  <2> HIDE DEF batch
  <2>8. BatchOk("surface", batch) /\ Len(batch) = 1 /\ DOMAIN batch = {1}
          /\ Successful(raw) /\ batch[1].value # None /\ InUse(batch)
          /\ batch[1].value \in SurfaceStates /\ InWindow(batch[1].value.freshest, now)
    BY <2>1, <2>2, <2>3, <2>4, <2>5, <2>7 DEF InUse
  <2> QED BY <2>8 DEF batch, raw
<1> QED BY <1>1, <1>2, SurfaceAnswer

-----------------------------------------------------------------------------
(* The estimate                                                            *)

\* The hour that the forecast is read at is one of its hours.
LEMMA ReferenceHourIs ==
  ASSUME NEW forecast \in ForecastStates, NEW t \in Int
  PROVE  \/ ReferenceHour(forecast, t) = None
         \/ ReferenceHour(forecast, t) \in [start : Optional(Int), temp : Optional(Int)]
<1> DEFINE hours == forecast.hours
           n == Len(hours)
           Hour == [start : Optional(Int), temp : Optional(Int)]
           Timed == {i \in DOMAIN hours : hours[i].start # None}
           Begun == {i \in Timed : hours[i].start <= t}
           Later(i, j)   == \/ hours[i].start > hours[j].start
                            \/ hours[i].start = hours[j].start /\ i > j
           Earlier(i, j) == \/ hours[i].start < hours[j].start
                            \/ hours[i].start = hours[j].start /\ i < j
           f == [i \in Timed |-> hours[i].start]
<1>1. hours \in Seq(Hour)
  BY DEF ForecastStates
<1>2. n \in Nat /\ DOMAIN hours = 1 .. n /\ \A i \in 1 .. n : hours[i] \in Hour
  <2> HIDE DEF Hour, hours
  <2> QED BY <1>1
<1>3. ReferenceHour(forecast, t) =
        IF hours = <<>>     THEN None
        ELSE IF Timed = {}  THEN hours[1]
        ELSE IF Begun # {}  THEN hours[Least(Begun, Later)]
        ELSE hours[Least(Timed, Earlier)]
  BY DEF ReferenceHour
<1>4. \A i \in Timed : hours[i].start \in Int /\ i \in 1 .. n
  BY <1>2 DEF Optional
<1>5. Begun # {} => Least(Begun, Later) \in 1 .. n
  <2> SUFFICES ASSUME Begun # {} PROVE Least(Begun, Later) \in 1 .. n
    OBVIOUS
  <2>1. Begun \in SUBSET (1 .. n) /\ Begun # {}
    BY <1>4
  <2>2. \A i \in Begun : f[i] \in Int /\ f[i] <= t
    BY <1>4
  <2>3. \E i \in Begun : \A j \in Begun : i = j \/ f[i] > f[j] \/ (f[i] = f[j] /\ i > j)
    <3> HIDE DEF Begun, f
    <3> QED BY <1>2, <2>1, <2>2, LastLargestIs
  <2>4. \A i \in Begun : f[i] = hours[i].start
    OBVIOUS
  <2>5. \E i \in Begun : \A j \in Begun : i = j \/ Later(i, j)
    <3> HIDE DEF Begun, f
    <3> QED BY <2>3, <2>4
  <2> HIDE DEF Begun, Later
  <2>6. Least(Begun, Later) \in Begun
    BY <2>5 DEF Least
  <2> QED BY <2>1, <2>6
<1>6. Timed # {} /\ Begun = {} => Least(Timed, Earlier) \in 1 .. n
  <2> SUFFICES ASSUME Timed # {}, Begun = {} PROVE Least(Timed, Earlier) \in 1 .. n
    OBVIOUS
  <2>1. Timed \in SUBSET (1 .. n) /\ Timed # {}
    BY <1>4
  <2>2. \A i \in Timed : f[i] \in Int /\ t <= f[i]
    BY <1>4
  <2>3. \E i \in Timed : \A j \in Timed : i = j \/ f[i] < f[j] \/ (f[i] = f[j] /\ i < j)
    <3> HIDE DEF Timed, f
    <3> QED BY <1>2, <2>1, <2>2, FirstSmallestIs
  <2>4. \A i \in Timed : f[i] = hours[i].start
    OBVIOUS
  <2>5. \E i \in Timed : \A j \in Timed : i = j \/ Earlier(i, j)
    <3> HIDE DEF Timed, f
    <3> QED BY <2>3, <2>4
  <2> HIDE DEF Timed, Earlier
  <2>6. Least(Timed, Earlier) \in Timed
    BY <2>5 DEF Least
  <2> QED BY <2>1, <2>6
<1>7. hours # <<>> => 1 \in 1 .. n
  <2> HIDE DEF Hour, hours
  <2> QED BY <1>1
<1> HIDE DEF Timed, Begun, Later, Earlier, hours
<1> QED BY <1>2, <1>3, <1>5, <1>6, <1>7

\* Whether there is an estimate.
CanEstimate(surface, surfaceUsable, weather, weatherCurrent) ==
  \/ surfaceUsable /\ surface # None /\ surface.median # None
  \/ weatherCurrent /\ weather # None /\ weather.temp # None

\* There is one if there is a temperature, at any time; and it is taken from,
\* and compared with, what was in use.
LEMMA EstimateIs ==
  ASSUME NEW surface \in Optional(SurfaceStates), NEW surfaceUsable \in BOOLEAN,
         NEW weather \in Optional(WeatherStates), NEW weatherCurrent \in BOOLEAN,
         NEW forecast \in Optional(ForecastStates), NEW forecastCurrent \in BOOLEAN,
         NEW t \in Int
  PROVE  LET e == Estimate(surface, surfaceUsable, weather, weatherCurrent,
                           forecast, forecastCurrent, t)
         IN /\ ~CanEstimate(surface, surfaceUsable, weather, weatherCurrent) => e = None
            /\ CanEstimate(surface, surfaceUsable, weather, weatherCurrent) =>
                 /\ e # None /\ e \in Estimates /\ e.kind = "estimate"
                 /\ e.primary \in {"surface", "weather"}
                 /\ e.primary = "surface" => surfaceUsable
                 /\ e.primary = "weather" => weatherCurrent
                 /\ e.modelDelta # None => weatherCurrent
                 /\ e.forecastDelta # None => forecastCurrent
<1> DEFINE bySurface == surfaceUsable /\ surface # None /\ surface.median # None
           byModel   == weatherCurrent /\ weather # None /\ weather.temp # None
           model == IF weatherCurrent /\ weather # None THEN weather.temp ELSE None
           hour  == IF forecastCurrent /\ forecast # None
                    THEN ReferenceHour(forecast, t) ELSE None
           temp  == IF bySurface THEN surface.median ELSE 2 * weather.temp
           Delta(other) == IF other = None THEN None ELSE 2 * other - temp
           primary == IF bySurface THEN "surface" ELSE "weather"
           station == IF bySurface THEN surface.selected ELSE None
           modelDelta == Delta(model)
           hourTemp == IF hour = None THEN None ELSE hour.temp
           forecastDelta == Delta(hourTemp)
           reference == IF hour = None THEN None ELSE hour.start
           r == [kind |-> "estimate", primary |-> primary, temp |-> temp,
                 station |-> station, modelDelta |-> modelDelta,
                 forecastDelta |-> forecastDelta, reference |-> reference]
           e == Estimate(surface, surfaceUsable, weather, weatherCurrent,
                         forecast, forecastCurrent, t)
           can == CanEstimate(surface, surfaceUsable, weather, weatherCurrent)
<1>1. e = IF ~bySurface /\ ~byModel THEN None ELSE r
  BY DEF Estimate
<1>2. can <=> bySurface \/ byModel
  BY DEF CanEstimate
<1>3. CASE ~can
  BY <1>1, <1>2, <1>3
<1>4. CASE can
  <2>1. bySurface \/ byModel
    BY <1>2, <1>4
  <2>2. e = r
    BY <1>1, <2>1
  <2>3. bySurface => surface.median \in Int /\ surface.selected \in Int
    BY DEF Optional, SurfaceStates
  <2>4. weather # None => weather.temp \in Optional(Int)
    BY DEF Optional, WeatherStates
  <2>5. temp \in Int
    <3>1. CASE bySurface
      BY <2>3, <3>1
    <3>2. CASE ~bySurface
      <4>1. weather.temp \in Int
        BY <2>1, <2>4, <3>2 DEF Optional
      <4> QED BY <3>2, <4>1
    <3> QED BY <3>1, <3>2
  <2>6. model \in Optional(Int) /\ (model # None => weatherCurrent)
    <3>1. CASE weatherCurrent /\ weather # None
      BY <2>4, <3>1
    <3>2. CASE ~(weatherCurrent /\ weather # None)
      BY <3>2 DEF Optional
    <3> QED BY <3>1, <3>2
  <2>7. hour = None \/ (hour \in [start : Optional(Int), temp : Optional(Int)] /\ forecastCurrent)
    <3>1. CASE forecastCurrent /\ forecast # None
      <4>1. forecast \in ForecastStates
        BY <3>1 DEF Optional
      <4> QED BY <3>1, <4>1, ReferenceHourIs
    <3>2. CASE ~(forecastCurrent /\ forecast # None)
      BY <3>2
    <3> QED BY <3>1, <3>2
  <2> HIDE DEF hour, model, temp
  <2>8. hourTemp \in Optional(Int) /\ reference \in Optional(Int)
          /\ (hourTemp # None => forecastCurrent)
    BY <2>7 DEF Optional
  <2> HIDE DEF hourTemp
  <2>9. \A other \in Optional(Int) :
          Delta(other) \in Optional(Int) /\ (Delta(other) # None => other # None)
    <3> SUFFICES ASSUME NEW other \in Optional(Int)
                 PROVE  Delta(other) \in Optional(Int) /\ (Delta(other) # None => other # None)
      OBVIOUS
    <3>1. CASE other = None
      BY <3>1 DEF Optional
    <3>2. CASE other # None
      <4>1. 2 * other - temp \in Int
        BY <2>5, <3>2 DEF Optional
      <4> QED BY <3>2, <4>1 DEF Optional
    <3> QED BY <3>1, <3>2
  <2> HIDE DEF Delta
  <2>10. /\ modelDelta \in Optional(Int) /\ (modelDelta # None => weatherCurrent)
         /\ forecastDelta \in Optional(Int) /\ (forecastDelta # None => forecastCurrent)
    BY <2>6, <2>8, <2>9
  <2>11. station \in Optional(Int)
    BY <2>3 DEF Optional
  <2>12. /\ primary \in {"surface", "weather"}
         /\ primary = "surface" => surfaceUsable
         /\ primary = "weather" => weatherCurrent
    BY <2>1
  <2> HIDE DEF primary, station, modelDelta, forecastDelta, reference, e, can, bySurface, byModel
  <2>13. r \in Estimates
    BY <2>5, <2>8, <2>10, <2>11, <2>12 DEF Estimates
  <2>14. r # None
    BY <2>13, NoneAssumption
  <2>15. r.kind = "estimate" /\ r.primary = primary /\ r.modelDelta = modelDelta
           /\ r.forecastDelta = forecastDelta
    OBVIOUS
  <2> HIDE DEF r
  <2>16. /\ e # None /\ e \in Estimates /\ e.kind = "estimate"
         /\ e.primary \in {"surface", "weather"}
         /\ e.primary = "surface" => surfaceUsable
         /\ e.primary = "weather" => weatherCurrent
         /\ e.modelDelta # None => weatherCurrent
         /\ e.forecastDelta # None => forecastCurrent
    BY <2>2, <2>10, <2>12, <2>13, <2>14, <2>15
  <2> QED BY <1>4, <2>16 DEF e, can
<1> QED BY <1>3, <1>4

-----------------------------------------------------------------------------
(* The world                                                               *)

LEMMA EntitiesAre ==
  Entities = {"alerts", "surface", "weather", "forecast", "radar", "context", "estimate"}
BY SourcesAre DEF Entities

LEMMA NoWorldIsOk == WorldOk(NoWorld)
<1>1. NoWorld = [s \in Entities |-> Unknown(s)]
  BY DEF NoWorld, Entities
<1>2. \A s \in Entities : NoWorld[s] = Unknown(s)
  BY <1>1
<1> QED BY <1>1, <1>2 DEF WorldOk, Unknown, Availabilities

\* What ingest_observation_batch makes of the components.
Stored(w, entity, batch) ==
  LET New(k) == {i \in DOMAIN batch : batch[i].value # None /\ batch[i].value.kind = k}
  IN [w EXCEPT ![entity].values =
        [k \in DOMAIN @ |-> IF New(k) = {} THEN @[k] ELSE batch[Max(New(k))].value]]

\* A component is the last of its kind in the batch, or is left as it was.
LEMMA StoredIs ==
  ASSUME NEW w, WorldOk(w), NEW entity \in Entities, NEW batch, BatchOk(entity, batch)
  PROVE  LET x == Stored(w, entity, batch)
         IN /\ WorldOk(x)
            /\ \A s \in Entities \ {entity} : x[s] = w[s]
            /\ x[entity].availability = w[entity].availability
            /\ \A k \in Kinds(entity) :
                 \/ /\ x[entity].values[k] = w[entity].values[k]
                    /\ \A i \in DOMAIN batch :
                         ~(batch[i].value # None /\ batch[i].value.kind = k)
                 \/ \E i \in DOMAIN batch :
                      /\ batch[i].value # None /\ batch[i].value.kind = k
                      /\ x[entity].values[k] = batch[i].value
<1> DEFINE New(k) == {i \in DOMAIN batch : batch[i].value # None /\ batch[i].value.kind = k}
           K == Kinds(entity)
           old == w[entity]
           values == [k \in K |-> IF New(k) = {} THEN old.values[k] ELSE batch[Max(New(k))].value]
           x == Stored(w, entity, batch)
<1>1. w = [s \in Entities |-> w[s]]
  BY DEF WorldOk
<1>2. old = [values |-> old.values, availability |-> old.availability]
        /\ old.availability \in Availabilities /\ DOMAIN old.values = K
  BY DEF WorldOk
<1>3. x = [w EXCEPT ![entity].values = values]
  BY <1>2 DEF Stored
<1> HIDE DEF values, x, old
<1>4. x = [s \in Entities |->
             IF s = entity THEN [values |-> values, availability |-> old.availability] ELSE w[s]]
  BY <1>1, <1>2, <1>3 DEF old
<1>5. x[entity] = [values |-> values, availability |-> old.availability]
        /\ \A s \in Entities \ {entity} : x[s] = w[s]
  BY <1>4
<1>6. x[entity].values = values /\ x[entity].availability = w[entity].availability
  BY <1>5 DEF old
<1>7. ASSUME NEW k \in K, New(k) # {}
      PROVE  \E i \in DOMAIN batch :
               /\ batch[i].value # None /\ batch[i].value.kind = k
               /\ values[k] = batch[i].value
  <2>1. New(k) \in SUBSET Int /\ Len(batch) \in Int /\ \A i \in New(k) : i <= Len(batch)
    BY DEF BatchOk
  <2>2. Max(New(k)) \in New(k)
    <3> HIDE DEF New
    <3>1. \E m \in New(k) : \A y \in New(k) : m >= y
      BY <1>7, <2>1, LargestIs
    <3> QED BY <3>1 DEF Max
  <2>3. values[k] = batch[Max(New(k))].value
    BY <1>7 DEF values
  <2> DEFINE m == Max(New(k))
  <2>4. m \in DOMAIN batch /\ batch[m].value # None /\ batch[m].value.kind = k
    BY <2>2
  <2> HIDE DEF m
  <2> QED BY <2>3, <2>4 DEF m
<1>8. ASSUME NEW k \in K
      PROVE  \/ /\ values[k] = w[entity].values[k]
                /\ \A i \in DOMAIN batch :
                     ~(batch[i].value # None /\ batch[i].value.kind = k)
             \/ \E i \in DOMAIN batch :
                  /\ batch[i].value # None /\ batch[i].value.kind = k
                  /\ values[k] = batch[i].value
  <2>1. CASE New(k) # {}
    <3> HIDE DEF New
    <3> QED BY <2>1, <1>7
  <2>2. CASE New(k) = {}
    BY <2>2 DEF values, old
  <2> QED BY <2>1, <2>2
<1>9. \A k \in K : values[k] = None \/ IsOf(values[k], k)
  <2> SUFFICES ASSUME NEW k \in K PROVE values[k] = None \/ IsOf(values[k], k)
    OBVIOUS
  <2>1. w[entity].values[k] = None \/ IsOf(w[entity].values[k], k)
    BY DEF WorldOk
  <2>2. \A i \in DOMAIN batch :
          batch[i].value # None /\ batch[i].value.kind = k => IsOf(batch[i].value, k)
    BY DEF BatchOk
  <2> QED BY <1>8, <2>1, <2>2
<1>10. values = [k \in K |-> values[k]]
  BY DEF values
<1>11. ASSUME NEW s \in Entities
       PROVE  /\ x[s] = [values |-> x[s].values, availability |-> x[s].availability]
              /\ x[s].availability \in Availabilities
              /\ x[s].values = [k \in Kinds(s) |-> x[s].values[k]]
              /\ \A k \in Kinds(s) : x[s].values[k] = None \/ IsOf(x[s].values[k], k)
  <2>1. CASE s = entity
    BY <2>1, <1>2, <1>5, <1>9, <1>10 DEF old
  <2>2. CASE s # entity
    BY <2>2, <1>5 DEF WorldOk
  <2> QED BY <2>1, <2>2
<1>12. x = [s \in Entities |-> x[s]]
  BY <1>4
<1>13. WorldOk(x)
  BY <1>11, <1>12 DEF WorldOk
<1> QED BY <1>5, <1>6, <1>8, <1>13 DEF x

LEMMA QualifiedIs ==
  ASSUME NEW w, WorldOk(w), NEW entity \in Entities, NEW a \in Availabilities
  PROVE  LET x == [w EXCEPT ![entity].availability = a]
         IN /\ WorldOk(x)
            /\ \A s \in Entities \ {entity} : x[s] = w[s]
            /\ x[entity].availability = a
            /\ \A s \in Entities : x[s].values = w[s].values
<1> DEFINE x == [w EXCEPT ![entity].availability = a]
           old == w[entity]
<1>1. w = [s \in Entities |-> w[s]]
  BY DEF WorldOk
<1>2. old = [values |-> old.values, availability |-> old.availability]
  BY DEF WorldOk
<1>3. x = [s \in Entities |->
             IF s = entity THEN [values |-> old.values, availability |-> a] ELSE w[s]]
  BY <1>1, <1>2
<1>4. x[entity] = [values |-> old.values, availability |-> a]
        /\ \A s \in Entities \ {entity} : x[s] = w[s]
  BY <1>3
<1> HIDE DEF x
<1>5. x[entity].values = old.values /\ x[entity].availability = a
  BY <1>4
<1>6. ASSUME NEW s \in Entities
      PROVE  /\ x[s] = [values |-> x[s].values, availability |-> x[s].availability]
             /\ x[s].availability \in Availabilities
             /\ x[s].values = w[s].values
             /\ x[s].values = [k \in Kinds(s) |-> x[s].values[k]]
             /\ \A k \in Kinds(s) : x[s].values[k] = None \/ IsOf(x[s].values[k], k)
  <2>1. /\ w[s] = [values |-> w[s].values, availability |-> w[s].availability]
        /\ w[s].availability \in Availabilities
        /\ w[s].values = [k \in Kinds(s) |-> w[s].values[k]]
        /\ \A k \in Kinds(s) : w[s].values[k] = None \/ IsOf(w[s].values[k], k)
    BY DEF WorldOk
  <2>2. CASE s = entity
    BY <2>1, <2>2, <1>4, <1>5
  <2>3. CASE s # entity
    BY <2>1, <2>3, <1>4
  <2> QED BY <2>2, <2>3
<1>7. x = [s \in Entities |-> x[s]]
  BY <1>3
<1>8. WorldOk(x)
  BY <1>6, <1>7 DEF WorldOk
<1> QED BY <1>4, <1>5, <1>6, <1>8 DEF x

LEMMA ReentryIs ==
  ASSUME NEW w, WorldOk(w), NEW config
  PROVE  /\ WorldOk(Reentry(w, config))
         /\ \A s \in Entities :
              s \in config \union {"estimate"} => Reentry(w, config)[s].availability = "unavailable"
<1> DEFINE x == Reentry(w, config)
<1>1. w = [s \in Entities |-> w[s]] /\ DOMAIN w = Entities
  BY DEF WorldOk
<1>2. x = [s \in Entities |->
             IF s \in config \union {"estimate"}
             THEN [w[s] EXCEPT !.availability = "unavailable"] ELSE w[s]]
  BY <1>1 DEF Reentry
<1> HIDE DEF x
<1>3. ASSUME NEW s \in Entities
      PROVE  /\ x[s] = [values |-> x[s].values, availability |-> x[s].availability]
             /\ x[s].availability \in Availabilities
             /\ x[s].values = [k \in Kinds(s) |-> x[s].values[k]]
             /\ \A k \in Kinds(s) : x[s].values[k] = None \/ IsOf(x[s].values[k], k)
             /\ s \in config \union {"estimate"} => x[s].availability = "unavailable"
  <2>1. /\ w[s] = [values |-> w[s].values, availability |-> w[s].availability]
        /\ w[s].availability \in Availabilities
        /\ w[s].values = [k \in Kinds(s) |-> w[s].values[k]]
        /\ \A k \in Kinds(s) : w[s].values[k] = None \/ IsOf(w[s].values[k], k)
    BY DEF WorldOk
  <2>2. CASE s \in config \union {"estimate"}
    <3>1. x[s] = [values |-> w[s].values, availability |-> "unavailable"]
      BY <1>2, <2>1, <2>2
    <3>2. x[s].values = w[s].values /\ x[s].availability = "unavailable"
      BY <3>1
    <3> QED BY <2>1, <3>1, <3>2 DEF Availabilities
  <2>3. CASE s \notin config \union {"estimate"}
    BY <1>2, <2>1, <2>3
  <2> QED BY <2>2, <2>3
<1>4. x = [s \in Entities |-> x[s]]
  BY <1>2
<1>5. WorldOk(x)
  BY <1>3, <1>4 DEF WorldOk
<1> QED BY <1>3, <1>5 DEF x

-----------------------------------------------------------------------------
(* The worker                                                              *)

LEMMA WorkerIs ==
  /\ Waiting = [at |-> "wait", source |-> None, entity |-> None, batch |-> <<>>, spent |-> 0]
  /\ \A s : Asking(s) = [at |-> "ask", source |-> s, entity |-> None, batch |-> <<>>, spent |-> 0]
  /\ \A s, e, b : Ingesting(s, e, b) =
       [at |-> "store", source |-> s, entity |-> e, batch |-> b, spent |-> 0]
  /\ \A s : [Asking(s) EXCEPT !.at = "fuse"] =
       [at |-> "fuse", source |-> s, entity |-> None, batch |-> <<>>, spent |-> 0]
<1>1. Waiting = [at |-> "wait", source |-> None, entity |-> None, batch |-> <<>>, spent |-> 0]
  BY DEF Waiting
<1>2. ASSUME NEW s
      PROVE  Asking(s) = [at |-> "ask", source |-> s, entity |-> None, batch |-> <<>>, spent |-> 0]
  <2> DEFINE W == [at |-> "wait", source |-> None, entity |-> None, batch |-> <<>>, spent |-> 0]
             A == [at |-> "ask", source |-> None, entity |-> None, batch |-> <<>>, spent |-> 0]
  <2>1. [W EXCEPT !.at = "ask"] = A
    OBVIOUS
  <2>2. [A EXCEPT !.source = s] =
          [at |-> "ask", source |-> s, entity |-> None, batch |-> <<>>, spent |-> 0]
    OBVIOUS
  <2>3. [W EXCEPT !.at = "ask", !.source = s] = [[W EXCEPT !.at = "ask"] EXCEPT !.source = s]
    OBVIOUS
  <2> HIDE DEF W, A
  <2>4. Asking(s) = [W EXCEPT !.at = "ask", !.source = s]
    BY <1>1 DEF Asking, W
  <2> QED BY <2>1, <2>2, <2>3, <2>4
<1>3. ASSUME NEW s, NEW e, NEW b
      PROVE  Ingesting(s, e, b) =
               [at |-> "store", source |-> s, entity |-> e, batch |-> b, spent |-> 0]
  <2> DEFINE A == [at |-> "ask", source |-> s, entity |-> None, batch |-> <<>>, spent |-> 0]
             S == [at |-> "store", source |-> s, entity |-> None, batch |-> <<>>, spent |-> 0]
             E == [at |-> "store", source |-> s, entity |-> e, batch |-> <<>>, spent |-> 0]
  <2>1. [A EXCEPT !.at = "store"] = S
    OBVIOUS
  <2>2. [S EXCEPT !.entity = e] = E
    OBVIOUS
  <2>3. [E EXCEPT !.batch = b] =
          [at |-> "store", source |-> s, entity |-> e, batch |-> b, spent |-> 0]
    OBVIOUS
  <2> HIDE DEF A, S, E
  <2>4. [A EXCEPT !.at = "store", !.entity = e, !.batch = b]
          = [[[A EXCEPT !.at = "store"] EXCEPT !.entity = e] EXCEPT !.batch = b]
    OBVIOUS
  <2>5. Ingesting(s, e, b) = [A EXCEPT !.at = "store", !.entity = e, !.batch = b]
    BY <1>2 DEF Ingesting, A
  <2> QED BY <2>1, <2>2, <2>3, <2>4, <2>5
<1>4. ASSUME NEW s
      PROVE  [Asking(s) EXCEPT !.at = "fuse"] =
               [at |-> "fuse", source |-> s, entity |-> None, batch |-> <<>>, spent |-> 0]
  BY <1>2
<1> QED BY <1>1, <1>2, <1>3, <1>4

\* What the worker does, action by action.
LEMMA DoingIs ==
  ASSUME Shape
  PROVE  /\ worker.at = "wait" => worker = Waiting
         /\ worker.at # "wait" =>
              /\ enabled # None /\ enabled \subseteq Source
              /\ worker.source \in enabled /\ worker.source \in Source
              /\ worker = [at |-> worker.at, source |-> worker.source, entity |-> worker.entity,
                           batch |-> worker.batch, spent |-> worker.spent]
         /\ worker.at = "ask" => /\ worker.entity = None /\ worker.batch = <<>>
                                 /\ worker.spent \in 0 .. Patience[worker.source]
         /\ worker.at \in {"store", "qualify"} =>
              /\ BatchOk(worker.entity, worker.batch)
              /\ worker.entity \in {worker.source, "estimate"} /\ worker.entity \in Entities
              /\ worker.entity = "estimate" => worker.source \in Fusing
         /\ worker.at = "fuse" => worker.entity = None /\ worker.source \in Fusing
         /\ worker.at \in {"wait", "ask", "store", "qualify", "fuse"}
<1>1. Doing /\ enabled \in Configs \union {None}
  BY DEF Shape
<1>2. CASE worker = Waiting
  BY <1>2, WorkerIs
<1>3. CASE worker # Waiting
  <2>1. enabled # None /\ enabled \subseteq Source /\ worker.source \in enabled
    BY <1>1, <1>3, EnabledAre DEF Doing
  <2> QED BY <1>1, <1>3, <2>1 DEF Doing, Entities
<1> QED BY <1>2, <1>3

-----------------------------------------------------------------------------
(* The estimate that the sources give                                      *)

\* The sources have a temperature.
CanNow ==
  CanEstimate(Value("surface", "surface"), Usable("surface"),
              Value("weather", "weather"), Current("weather"))

LEMMA EstimateNowIs ==
  ASSUME WorldOk(world), NEW t \in Int
  PROVE  /\ EstimateNow(t) # None <=> CanNow
         /\ CanNow =>
              /\ EstimateNow(t) \in Estimates /\ EstimateNow(t).kind = "estimate"
              /\ EstimateNow(t).primary \in {"surface", "weather"}
              /\ EstimateNow(t).primary = "surface" => Usable("surface")
              /\ EstimateNow(t).primary = "weather" => Current("weather")
              /\ EstimateNow(t).modelDelta # None => Current("weather")
              /\ EstimateNow(t).forecastDelta # None => Current("forecast")
<1> DEFINE a == Value("surface", "surface")
           b == Value("weather", "weather")
           c == Value("forecast", "hourly")
<1>1. a \in Optional(SurfaceStates)
  BY EntitiesAre, KindsAre DEF WorldOk, Optional, IsOf, Value
<1>2. b \in Optional(WeatherStates)
  BY EntitiesAre, KindsAre DEF WorldOk, Optional, IsOf, Value
<1>3. c \in Optional(ForecastStates)
  BY EntitiesAre, KindsAre DEF WorldOk, Optional, IsOf, Value
<1>4. Usable("surface") \in BOOLEAN /\ Current("weather") \in BOOLEAN /\ Current("forecast") \in BOOLEAN
  BY DEF Usable, Current
<1>5. EstimateNow(t) = Estimate(a, Usable("surface"), b, Current("weather"), c,
                                Current("forecast"), t)
  BY DEF EstimateNow
<1>6. CanNow = CanEstimate(a, Usable("surface"), b, Current("weather"))
  BY DEF CanNow
<1> HIDE DEF a, b, c
<1> QED BY <1>1, <1>2, <1>3, <1>4, <1>5, <1>6, EstimateIs

\* It depends on nothing but the three sources and the time.
LEMMA EstimateKept ==
  ASSUME NEW t, \A s \in Fusing : world'[s] = world[s]
  PROVE  EstimateNow(t)' = EstimateNow(t) /\ (CanNow' <=> CanNow)
<1>1. /\ world'["surface"] = world["surface"] /\ world'["weather"] = world["weather"]
      /\ world'["forecast"] = world["forecast"]
  BY DEF Fusing
<1> QED BY <1>1 DEF EstimateNow, CanNow, Value, Usable, Current

LEMMA EstimateNowKept ==
  ASSUME now' = now, \A s \in Fusing : world'[s] = world[s]
  PROVE  EstimateNow(now)' = EstimateNow(now)
<1>1. /\ world'["surface"] = world["surface"] /\ world'["weather"] = world["weather"]
      /\ world'["forecast"] = world["forecast"]
  BY DEF Fusing
<1> QED BY <1>1 DEF EstimateNow, Value, Usable, Current

LEMMA EstimateBatchIs ==
  ASSUME WorldOk(world), now \in Nat
  PROVE  LET e == EstimateNow(now)
             b == EstimateBatch(e)
         IN /\ BatchOk("estimate", b) /\ DOMAIN b = {1}
            /\ e = None => b[1].value = None /\ Availability(b) = "unavailable"
            /\ e # None => b[1].value = e /\ e.kind = "estimate" /\ Availability(b) = "current"
<1> DEFINE e == EstimateNow(now)
           b == EstimateBatch(e)
           name == "weather.fusion"
<1>1. e # None => e \in Estimates /\ e.kind = "estimate"
  BY EstimateNowIs
<1> HIDE DEF e
<1>2. CASE e = None
  <2>1. b = Failed(name)
    BY <1>2 DEF EstimateBatch
  <2>2. BatchOk("estimate", <<Unavailable(name, {<<"failed", name>>})>>)
    BY SingleOk, KindsAre DEF Unavailable
  <2>3. BatchOk("estimate", Failed(name))
    BY <2>2 DEF Failed
  <2>4. Availability(Failed(name)) = "unavailable"
          /\ DOMAIN Failed(name) = {1} /\ Failed(name)[1].value = None
    BY FailedIs
  <2> HIDE DEF b
  <2>5. BatchOk("estimate", b) /\ DOMAIN b = {1} /\ b[1].value = None
          /\ Availability(b) = "unavailable"
    BY <2>1, <2>3, <2>4
  <2> QED BY <1>2, <2>5 DEF b, e
<1>3. CASE e # None
  <2> DEFINE o == Observed(name, e)
  <2>1. b = <<o>>
    BY <1>3 DEF EstimateBatch
  <2>2. o.status = "observed" /\ o.value = e
    BY DEF Observed
  <2>3. IsOf(e, "estimate")
    BY <1>1, <1>3 DEF IsOf
  <2> HIDE DEF o, b
  <2>4. BatchOk("estimate", <<o>>)
    BY <2>2, <2>3, SingleOk, KindsAre
  <2>5. BatchOk("estimate", b) /\ DOMAIN b = {1} /\ b[1].value = e
          /\ Availability(b) = "current"
    BY <2>1, <2>2, <2>4, SingleBatch
  <2> QED BY <1>1, <1>3, <2>5 DEF b, e
<1> QED BY <1>2, <1>3

-----------------------------------------------------------------------------
(* What each action does                                                   *)

\* The worker goes on to a source that is due, or waits for those that are not.
GoesOn(i) ==
  \/ /\ worker' = Waiting
     /\ \A j \in DOMAIN Order : j > i /\ Order[j] \in enabled => ~(due'[Order[j]] <= now)
  \/ \E n \in DOMAIN Order :
       /\ n > i /\ Order[n] \in enabled /\ due'[Order[n]] <= now
       /\ worker' = Asking(Order[n])
       /\ \A j \in DOMAIN Order :
            j > i /\ j < n /\ Order[j] \in enabled => ~(due'[Order[j]] <= now)

LEMMA BeginIs ==
  ASSUME Shape, BeginPass
  PROVE  /\ enabled # None /\ worker.at = "wait" /\ GoesOn(0)
         /\ UNCHANGED <<now, enabled, boots, world, disk, due, fresh, points, heard>>
<1>1. /\ enabled # None /\ worker.at = "wait" /\ worker' = Onward(0, due)
      /\ UNCHANGED <<now, enabled, boots, world, disk, due, fresh, points, heard>>
  BY DEF BeginPass, process
<1>2. GoesOn(0)
  BY <1>1, OnwardIs DEF GoesOn
<1> QED BY <1>1, <1>2

LEMMA AnswerIs ==
  ASSUME Shape, worker.at = "ask", NEW answer \in Answers[worker.source], Answer(answer)
  PROVE  LET s == worker.source
         IN /\ \E batch :
                 /\ worker' = [at |-> "store", source |-> s, entity |-> s,
                               batch |-> batch, spent |-> 0]
                 /\ BatchOk(s, batch)
                 /\ s \in Fusing /\ InUse(batch) => s \in heard'
                 /\ s = "surface" =>
                      /\ Len(batch) = 1 /\ DOMAIN batch = {1}
                      /\ InUse(batch) =>
                           \/ batch[1].value # None /\ batch[1].value \in SurfaceStates
                                /\ InWindow(batch[1].value.freshest, now)
                           \/ /\ batch[1].value = None /\ Report # None
                              /\ InWindow(Report.freshest, now)
                      /\ ~InUse(batch) => batch[1].value = None
            /\ heard' \in {heard, heard \union {s}}
            /\ fresh' \in BOOLEAN /\ (fresh' => "surface" \in heard')
            /\ points' = None \/ (points' \in Nat /\ points' <= now)
            /\ UNCHANGED <<now, enabled, boots, world, disk, due>>
<1> DEFINE s == worker.source
           raw == Collect(s, answer, now)
           batch == IF s = "surface" THEN SurfaceBatch(raw) ELSE raw
<1>1. /\ worker' = Ingesting(s, s, batch)
      /\ fresh'  = (fresh \/ (s = "surface" /\ Successful(raw)))
      /\ points' = IF s = "forecast" THEN PointsAfter(raw) ELSE points
      /\ heard'  = IF Successful(raw) THEN heard \union {s} ELSE heard
      /\ UNCHANGED <<now, enabled, boots, world, disk, due>>
  BY DEF Answer, process
<1>2. /\ s \in Source /\ now \in 0 .. Horizon /\ now \in Nat
      /\ fresh \in BOOLEAN /\ (fresh => "surface" \in heard)
      /\ points = None \/ (points \in Nat /\ points <= now)
  BY DoingIs, ClockAssumption DEF Shape
<1>3. worker' = [at |-> "store", source |-> s, entity |-> s, batch |-> batch, spent |-> 0]
  BY <1>1, WorkerIs
<1>4. heard' \in {heard, heard \union {s}} /\ (Successful(raw) => s \in heard') /\ heard \subseteq heard'
  BY <1>1
<1>5. fresh' \in BOOLEAN /\ (fresh' => "surface" \in heard')
  BY <1>1, <1>2, <1>4
<1>6. points' = None \/ (points' \in Nat /\ points' <= now)
  BY <1>1, <1>2 DEF PointsAfter
<1>7. BatchOk(s, batch) /\ (s \in Fusing /\ InUse(batch) => s \in heard')
        /\ (s = "surface" =>
              /\ Len(batch) = 1 /\ DOMAIN batch = {1}
              /\ InUse(batch) =>
                   \/ batch[1].value # None /\ batch[1].value \in SurfaceStates
                        /\ InWindow(batch[1].value.freshest, now)
                   \/ /\ batch[1].value = None /\ Report # None
                      /\ InWindow(Report.freshest, now)
              /\ ~InUse(batch) => batch[1].value = None)
  <2>1. CASE s = "alerts"
    <3>1. batch = AlertsCollect(answer)
      BY <2>1 DEF Collect
    <3> HIDE DEF batch
    <3> QED BY <2>1, <3>1, AlertsAnswer DEF Fusing
  <2>2. CASE s = "surface"
    <3>1. raw = SurfaceCollect(Dated(answer, now), now) /\ batch = SurfaceBatch(raw)
      BY <2>2 DEF Collect
    <3> HIDE DEF raw, batch
    <3>2. BatchOk("surface", batch) /\ Len(batch) = 1 /\ DOMAIN batch = {1}
            /\ (InUse(batch) =>
                 \/ /\ Successful(raw) /\ batch[1].value # None
                    /\ batch[1].value \in SurfaceStates
                    /\ InWindow(batch[1].value.freshest, now)
                 \/ batch[1].value = None /\ RetentionIsEarned)
            /\ (~InUse(batch) => batch[1].value = None)
      BY <1>2, <2>2, <3>1, SurfaceIngested
    <3>3. RetentionIsEarned =>
            /\ fresh /\ Report # None /\ InWindow(Report.freshest, now)
      BY DEF RetentionIsEarned, Report
    <3>4. InUse(batch) => "surface" \in heard'
      BY <1>2, <1>4, <2>2, <3>2, <3>3
    <3> QED BY <2>2, <3>2, <3>3, <3>4
  <2>3. CASE s = "weather"
    <3>1. batch = OpenMeteoCollect(answer) /\ raw = batch
      BY <2>3 DEF Collect
    <3> HIDE DEF batch, raw
    <3> QED BY <1>4, <2>3, <3>1, WeatherAnswer
  <2>4. CASE s = "forecast"
    <3>1. batch = ForecastCollect(DatedHours(answer, now)) /\ raw = batch
      BY <2>4 DEF Collect
    <3> HIDE DEF batch, raw
    <3> QED BY <1>2, <1>4, <2>4, <3>1, ForecastAnswer
  <2>5. CASE s \in {"radar", "context"}
    <3>1. batch = answer
      BY <2>5 DEF Collect
    <3>2. Len(answer) \in Nat /\ DOMAIN answer = 1 .. Len(answer)
      BY <2>5, AnswersAssumption
    <3>3. \A v : \A k \in Kinds(s) : v.kind = k => IsOf(v, k)
      BY <2>5, KindsAre DEF IsOf
    <3>4. BatchOk(s, answer)
      BY <3>2, <3>3 DEF BatchOk
    <3> HIDE DEF batch
    <3> QED BY <2>5, <3>1, <3>4 DEF Fusing
  <2> QED BY <1>2, <2>1, <2>2, <2>3, <2>4, <2>5, SourcesAre
<1> HIDE DEF batch
<1> QED BY <1>1, <1>3, <1>4, <1>5, <1>6, <1>7

LEMMA StoreIs ==
  ASSUME Shape, Store
  PROVE  /\ worker.at = "store"
         /\ world' = Stored(world, worker.entity, worker.batch)
         /\ worker' = [at |-> "qualify", source |-> worker.source, entity |-> worker.entity,
                       batch |-> worker.batch, spent |-> worker.spent]
         /\ UNCHANGED <<now, enabled, boots, disk, due, fresh, points, heard>>
<1>1. /\ worker.at = "store" /\ worker' = [worker EXCEPT !.at = "qualify"]
      /\ UNCHANGED <<now, enabled, boots, disk, due, fresh, points, heard>>
  BY DEF Store, process
<1>2. world' = Stored(world, worker.entity, worker.batch)
  BY DEF Store, Stored
<1>3. worker = [at |-> worker.at, source |-> worker.source, entity |-> worker.entity,
                batch |-> worker.batch, spent |-> worker.spent]
  BY <1>1, DoingIs
<1> QED BY <1>1, <1>2, <1>3

LEMMA QualifyIs ==
  ASSUME Shape, Qualify
  PROVE  /\ worker.at = "qualify"
         /\ world' = [world EXCEPT ![worker.entity].availability = Availability(worker.batch)]
         /\ UNCHANGED <<now, enabled, boots, disk, fresh, points, heard>>
         /\ \/ /\ worker.entity \in Fusing
               /\ worker' = [at |-> "fuse", source |-> worker.source, entity |-> None,
                             batch |-> <<>>, spent |-> 0]
               /\ due' = due
            \/ /\ worker.entity \notin Fusing
               /\ due' = [due EXCEPT ![worker.source] = now + Interval[worker.source]]
               /\ GoesOn(Position(worker.source))
<1>1. /\ worker.at = "qualify"
      /\ world' = [world EXCEPT ![worker.entity].availability = Availability(worker.batch)]
      /\ UNCHANGED <<now, enabled, boots, disk, fresh, points, heard>>
  BY DEF Qualify, process
<1>2. CASE worker.entity \in Fusing
  <2>1. worker' = [Asking(worker.source) EXCEPT !.at = "fuse"] /\ due' = due
    BY <1>2 DEF Qualify
  <2> QED BY <1>1, <1>2, <2>1, WorkerIs
<1>3. CASE worker.entity \notin Fusing
  <2>1. /\ due' = [due EXCEPT ![worker.source] = now + Interval[worker.source]]
        /\ worker' = Onward(Position(worker.source), due')
    BY <1>3 DEF Qualify
  <2> DEFINE i == Position(worker.source)
  <2>2. GoesOn(i)
    <3> HIDE DEF i
    <3>1. \/ /\ Onward(i, due') = Waiting
             /\ \A j \in DOMAIN Order :
                  j > i /\ Order[j] \in enabled => ~(due'[Order[j]] <= now)
          \/ \E n \in DOMAIN Order :
               /\ n > i /\ Order[n] \in enabled /\ due'[Order[n]] <= now
               /\ Onward(i, due') = Asking(Order[n])
               /\ \A j \in DOMAIN Order :
                    j > i /\ j < n /\ Order[j] \in enabled => ~(due'[Order[j]] <= now)
      BY OnwardIs
    <3>2. worker' = Onward(i, due')
      BY <2>1 DEF i
    <3> QED BY <3>1, <3>2 DEF GoesOn
  <2> QED BY <1>1, <1>3, <2>1, <2>2
<1> QED BY <1>2, <1>3

LEMMA FuseIs ==
  ASSUME Shape, Fuse
  PROVE  /\ worker.at = "fuse"
         /\ worker' = [at |-> "store", source |-> worker.source, entity |-> "estimate",
                       batch |-> EstimateBatch(EstimateNow(now)), spent |-> 0]
         /\ BatchOk("estimate", EstimateBatch(EstimateNow(now)))
         /\ UNCHANGED <<now, enabled, boots, world, disk, due, fresh, points, heard>>
<1>1. now \in Nat /\ WorldOk(world)
  BY ClockAssumption DEF Shape
<1> QED BY <1>1, WorkerIs, EstimateBatchIs DEF Fuse, process

LEMMA TickIs ==
  ASSUME Shape, Tick
  PROVE  /\ now' = now + 1 /\ now < Horizon
         /\ \/ enabled = None /\ worker' = worker
            \/ /\ enabled # None /\ worker.at = "wait" /\ worker' = worker
               /\ \A s \in enabled : ~(due[s] <= now)
            \/ /\ enabled # None /\ worker.at = "ask"
               /\ worker.spent < Patience[worker.source]
               /\ worker' = [at |-> "ask", source |-> worker.source, entity |-> worker.entity,
                             batch |-> worker.batch, spent |-> worker.spent + 1]
         /\ UNCHANGED <<enabled, boots, world, disk, due, fresh, points, heard>>
<1>1. /\ now' = now + 1 /\ now < Horizon
      /\ UNCHANGED <<enabled, boots, world, disk, due, fresh, points, heard>>
  BY DEF Tick, process
<1>2. CASE enabled = None /\ worker' = worker
  BY <1>1, <1>2
<1>3. CASE enabled # None /\ worker.at = "wait" /\ DueAfter(0, due) = {} /\ worker' = worker
  <2>1. enabled \subseteq Source
    BY <1>3, EnabledAre DEF Shape
  <2>2. ASSUME NEW s \in enabled PROVE ~(due[s] <= now)
    <3>1. Position(s) \in DOMAIN Order /\ Order[Position(s)] = s /\ Position(s) > 0
      BY <2>1, PositionsAre, OrderIs
    <3> QED BY <1>3, <3>1 DEF DueAfter
  <2> QED BY <1>1, <1>3, <2>2
<1>4. CASE enabled # None /\ worker.at = "ask" /\ worker.spent < Patience[worker.source]
             /\ worker' = [worker EXCEPT !.spent = @ + 1]
  <2>1. worker = [at |-> worker.at, source |-> worker.source, entity |-> worker.entity,
                  batch |-> worker.batch, spent |-> worker.spent]
    BY <1>4, DoingIs
  <2>2. worker' = [at |-> "ask", source |-> worker.source, entity |-> worker.entity,
                   batch |-> worker.batch, spent |-> worker.spent + 1]
    BY <1>4, <2>1
  <2> QED BY <1>1, <1>4, <2>2
<1> QED BY <1>1, <1>2, <1>3, <1>4 DEF Tick

-----------------------------------------------------------------------------
(* The shape of the state                                                  *)

LEMMA ShapeInit == Init => Shape
<1> SUFFICES ASSUME Init PROVE Shape
  OBVIOUS
<1>1. due \in [Source -> Nat] /\ \A s \in Source : due[s] <= now + Interval[s]
  BY TurnsAre DEF Init
<1>2. now \in 0 .. Horizon /\ boots \in 0 .. Boots
  BY ClockAssumption DEF Init
<1> QED BY <1>1, <1>2, NoWorldIsOk DEF Init, Shape, Doing

\* The worker after it went on.
LEMMA GoneOn ==
  ASSUME Shape, NEW i, GoesOn(i), enabled # None, enabled' = enabled
  PROVE  Doing' /\ worker'.at \in {"wait", "ask"} /\ worker'.entity = None
<1>1. CASE worker' = Waiting
  BY <1>1, WorkerIs DEF Doing, Waiting
<1>2. CASE \E n \in DOMAIN Order : Order[n] \in enabled /\ worker' = Asking(Order[n])
  <2>1. PICK s \in enabled : worker' = Asking(s)
    BY <1>2
  <2>2. s \in Source
    BY <2>1, EnabledAre DEF Shape
  <2>3. worker' = [at |-> "ask", source |-> s, entity |-> None, batch |-> <<>>, spent |-> 0]
    BY <2>1, WorkerIs
  <2>4. 0 \in 0 .. Patience[s]
    BY <2>2, TurnsAre
  <2> QED BY <2>1, <2>3, <2>4 DEF Doing
<1> QED BY <1>1, <1>2 DEF GoesOn

LEMMA ShapeBegin ==
  ASSUME Shape, BeginPass
  PROVE  Shape'
<1>1. /\ enabled # None /\ GoesOn(0)
      /\ UNCHANGED <<now, enabled, boots, world, disk, due, fresh, points, heard>>
  BY BeginIs
<1>2. Doing'
  BY <1>1, GoneOn
<1> QED BY <1>1, <1>2 DEF Shape

LEMMA ShapeAnswer ==
  ASSUME Shape, worker.at = "ask", NEW answer \in Answers[worker.source], Answer(answer)
  PROVE  Shape'
<1> DEFINE s == worker.source
<1>1. PICK batch :
        /\ worker' = [at |-> "store", source |-> s, entity |-> s, batch |-> batch, spent |-> 0]
        /\ BatchOk(s, batch)
  BY AnswerIs
<1>2. /\ heard' \in {heard, heard \union {s}}
      /\ fresh' \in BOOLEAN /\ (fresh' => "surface" \in heard')
      /\ points' = None \/ (points' \in Nat /\ points' <= now)
      /\ UNCHANGED <<now, enabled, boots, world, disk, due>>
  BY AnswerIs
<1>3. enabled # None /\ s \in enabled /\ s \in Source
  BY DoingIs
<1> HIDE DEF s
<1>4. Doing'
  <2>1. /\ worker'.at = "store" /\ worker'.source = s /\ worker'.entity = s
        /\ worker'.batch = batch /\ worker'.spent = 0
    BY <1>1
  <2>2. s # "estimate"
    BY <1>3, SourcesAre
  <2> QED BY <1>1, <1>2, <1>3, <2>1, <2>2 DEF Doing
<1>5. heard' \in SUBSET Source /\ (heard' # {} => enabled' # None /\ heard' \subseteq enabled')
  BY <1>2, <1>3 DEF Shape
<1> QED BY <1>2, <1>4, <1>5 DEF Shape

LEMMA ShapeStore ==
  ASSUME Shape, Store
  PROVE  Shape'
<1>1. /\ worker.at = "store"
      /\ world' = Stored(world, worker.entity, worker.batch)
      /\ worker' = [at |-> "qualify", source |-> worker.source, entity |-> worker.entity,
                    batch |-> worker.batch, spent |-> worker.spent]
      /\ UNCHANGED <<now, enabled, boots, disk, due, fresh, points, heard>>
  BY StoreIs
<1>2. /\ enabled # None /\ worker.source \in enabled
      /\ BatchOk(worker.entity, worker.batch) /\ worker.entity \in Entities
      /\ worker.entity \in {worker.source, "estimate"}
      /\ worker.entity = "estimate" => worker.source \in Fusing
  BY <1>1, DoingIs
<1>3. WorldOk(world')
  BY <1>1, <1>2, StoredIs DEF Shape
<1>4. Doing'
  <2>1. /\ worker'.at = "qualify" /\ worker'.source = worker.source
        /\ worker'.entity = worker.entity /\ worker'.batch = worker.batch
        /\ worker'.spent = worker.spent
    BY <1>1
  <2> QED BY <1>1, <1>2, <2>1 DEF Doing
<1> QED BY <1>1, <1>3, <1>4 DEF Shape

LEMMA ShapeQualify ==
  ASSUME Shape, Qualify
  PROVE  Shape'
<1>1. /\ worker.at = "qualify"
      /\ world' = [world EXCEPT ![worker.entity].availability = Availability(worker.batch)]
      /\ UNCHANGED <<now, enabled, boots, disk, fresh, points, heard>>
  BY QualifyIs
<1>2. /\ enabled # None /\ worker.source \in enabled /\ worker.source \in Source
      /\ worker.entity \in Entities /\ worker.entity \in {worker.source, "estimate"}
      /\ worker.entity = "estimate" => worker.source \in Fusing
  BY <1>1, DoingIs
<1>3. WorldOk(world')
  BY <1>1, <1>2, AvailabilityIs, QualifiedIs DEF Shape
<1>4. Doing' /\ due' \in [Source -> Nat] /\ \A s \in Source : due'[s] <= now' + Interval[s]
  <2>1. CASE /\ worker.entity \in Fusing
             /\ worker' = [at |-> "fuse", source |-> worker.source, entity |-> None,
                           batch |-> <<>>, spent |-> 0]
             /\ due' = due
    <3>1. /\ worker'.at = "fuse" /\ worker'.source = worker.source /\ worker'.entity = None
          /\ worker'.batch = <<>> /\ worker'.spent = 0
      BY <2>1
    <3>2. worker.source \in Fusing
      BY <1>2, <2>1
    <3>3. Doing'
      BY <1>1, <1>2, <2>1, <3>1, <3>2 DEF Doing
    <3> QED BY <1>1, <2>1, <3>3 DEF Shape
  <2>2. CASE /\ due' = [due EXCEPT ![worker.source] = now + Interval[worker.source]]
             /\ GoesOn(Position(worker.source))
    <3>1. Doing'
      BY <1>1, <1>2, <2>2, GoneOn
    <3>2. now \in Nat /\ Interval[worker.source] \in Nat
      BY <1>2, TurnsAre, ClockAssumption DEF Shape
    <3>3. due' \in [Source -> Nat]
      BY <1>2, <2>2, <3>2 DEF Shape
    <3>4. \A s \in Source : due'[s] <= now + Interval[s]
      BY <1>2, <2>2, <3>2 DEF Shape
    <3> QED BY <1>1, <3>1, <3>3, <3>4
  <2> QED BY <2>1, <2>2, QualifyIs
<1> QED BY <1>1, <1>3, <1>4 DEF Shape

LEMMA ShapeFuse ==
  ASSUME Shape, Fuse
  PROVE  Shape'
<1> DEFINE b == EstimateBatch(EstimateNow(now))
<1>1. /\ worker.at = "fuse"
      /\ worker' = [at |-> "store", source |-> worker.source, entity |-> "estimate",
                    batch |-> b, spent |-> 0]
      /\ BatchOk("estimate", b)
      /\ UNCHANGED <<now, enabled, boots, world, disk, due, fresh, points, heard>>
  BY FuseIs
<1>2. enabled # None /\ worker.source \in enabled /\ worker.source \in Fusing
  BY <1>1, DoingIs
<1> HIDE DEF b
<1>3. Doing'
  <2>1. /\ worker'.at = "store" /\ worker'.source = worker.source
        /\ worker'.entity = "estimate" /\ worker'.batch = b /\ worker'.spent = 0
    BY <1>1
  <2> QED BY <1>1, <1>2, <2>1 DEF Doing
<1> QED BY <1>1, <1>3 DEF Shape

LEMMA ShapeTick ==
  ASSUME Shape, Tick
  PROVE  Shape'
<1>1. /\ now' = now + 1 /\ now < Horizon
      /\ UNCHANGED <<enabled, boots, world, disk, due, fresh, points, heard>>
  BY TickIs
<1>2. now' \in 0 .. Horizon /\ now \in Nat
  BY <1>1, ClockAssumption DEF Shape
<1>3. Doing'
  <2>1. CASE worker' = worker
    BY <1>1, <2>1 DEF Shape, Doing
  <2>2. CASE /\ enabled # None /\ worker.at = "ask"
             /\ worker.spent < Patience[worker.source]
             /\ worker' = [at |-> "ask", source |-> worker.source, entity |-> worker.entity,
                           batch |-> worker.batch, spent |-> worker.spent + 1]
    <3>1. /\ worker'.at = "ask" /\ worker'.source = worker.source
          /\ worker'.entity = worker.entity /\ worker'.batch = worker.batch
          /\ worker'.spent = worker.spent + 1
      BY <2>2
    <3>2. /\ worker.source \in enabled /\ worker.source \in Source
          /\ worker.entity = None /\ worker.batch = <<>>
          /\ worker.spent \in 0 .. Patience[worker.source]
      BY <2>2, DoingIs
    <3>3. worker.spent + 1 \in 0 .. Patience[worker.source]
      BY <2>2, <3>2, TurnsAre
    <3> QED BY <1>1, <2>2, <3>1, <3>2, <3>3 DEF Doing
  <2> QED BY <2>1, <2>2, TickIs
<1>4. \A s \in Source : due'[s] <= now' + Interval'[s]
  BY <1>1, <1>2, TurnsAre DEF Shape
<1>5. points' = None \/ (points' \in Nat /\ points' <= now')
  BY <1>1, <1>2 DEF Shape
<1> QED BY <1>1, <1>2, <1>3, <1>4, <1>5 DEF Shape

LEMMA ShapeBoot ==
  ASSUME Shape, NEW config \in Configs, Boot(config)
  PROVE  Shape'
<1>1. /\ boots < Boots /\ enabled' = config /\ boots' = boots + 1
      /\ world' = Reentry(disk, config) /\ due' = [s \in Source |-> now]
      /\ worker' = Waiting /\ fresh' = FALSE /\ points' = None /\ heard' = {}
      /\ disk' \in {disk, NoWorld} /\ now' = now
  BY DEF Boot
<1>2. boots' \in 0 .. Boots /\ now \in Nat
  BY <1>1, ClockAssumption DEF Shape
<1>3. WorldOk(world') /\ WorldOk(disk')
  BY <1>1, ReentryIs, NoWorldIsOk DEF Shape
<1>4. due' \in [Source -> Nat] /\ \A s \in Source : due'[s] <= now' + Interval[s]
  BY <1>1, <1>2, TurnsAre
<1>5. Doing'
  BY <1>1 DEF Doing, Waiting
<1> QED BY <1>1, <1>2, <1>3, <1>4, <1>5 DEF Shape

LEMMA ShapeGone ==
  ASSUME Shape, Gone, disk' \in {disk, world}
  PROVE  Shape'
<1>1. /\ enabled' = None /\ world' = NoWorld /\ worker' = Waiting
      /\ fresh' = FALSE /\ points' = None /\ heard' = {}
      /\ due' = [s \in Source |-> 0] /\ now' = now /\ boots' = boots
  BY DEF Gone
<1>2. WorldOk(world') /\ WorldOk(disk')
  BY <1>1, NoWorldIsOk DEF Shape
<1>3. due' \in [Source -> Nat] /\ \A s \in Source : due'[s] <= now' + Interval[s]
  BY <1>1, TurnsAre, ClockAssumption DEF Shape
<1>4. Doing'
  BY <1>1 DEF Doing, Waiting
<1> QED BY <1>1, <1>2, <1>3, <1>4 DEF Shape

LEMMA ShapeStep == Shape /\ [Next]_vars => Shape'
<1> SUFFICES ASSUME Shape, [Next]_vars PROVE Shape'
  OBVIOUS
<1>1. CASE BeginPass
  BY <1>1, ShapeBegin
<1>2. CASE worker.at = "ask" /\ \E answer \in Answers[worker.source] : Answer(answer)
  BY <1>2, ShapeAnswer
<1>3. CASE Store
  BY <1>3, ShapeStore
<1>4. CASE Qualify
  BY <1>4, ShapeQualify
<1>5. CASE Fuse
  BY <1>5, ShapeFuse
<1>6. CASE Tick
  BY <1>6, ShapeTick
<1>7. CASE Snapshot
  BY <1>7 DEF Snapshot, process, Shape, Doing
<1>8. CASE Leave
  BY <1>8, ShapeGone DEF Leave
<1>9. CASE Crash
  BY <1>9, ShapeGone DEF Crash
<1>10. CASE \E config \in Configs : Boot(config)
  BY <1>10, ShapeBoot
<1>11. CASE UNCHANGED vars
  BY <1>11 DEF vars, Shape, Doing
<1> QED BY <1>1, <1>2, <1>3, <1>4, <1>5, <1>6, <1>7, <1>8, <1>9, <1>10, <1>11 DEF Next

-----------------------------------------------------------------------------
(* How late a source can be                                                *)

\* When the worker goes on from place i: what is behind it in the pass is late
\* by the places between, what is still to come by those and the last pass.
LEMMA GoneOnInTime ==
  ASSUME Shape, Shape', NEW i \in {0} \union DOMAIN Order, GoesOn(i),
         enabled # None, enabled' = enabled, now' = now,
         \A s \in enabled :
           IF Position(s) <= i THEN now <= due'[s] + Takes(i) - Takes(Position(s))
           ELSE now <= due'[s] + Round + Takes(i) - Takes(Position(s))
  PROVE  InTime'
<1>1. /\ enabled \subseteq Source /\ now \in Nat
      /\ \A s \in Source : due'[s] \in Nat
      /\ \A s : Turn(s)' = Turn(s)
      /\ Round' = Round /\ \A j : Takes(j)' = Takes(j)
  <2>1. enabled \subseteq Source
    BY EnabledAre DEF Shape
  <2>2. \A s : Turn(s)' = Turn(s)
    BY DEF Turn
  <2>3. Round' = Round
    BY DEF Round, Turn
  <2>4. \A j : Takes(j)' = Takes(j)
    BY DEF Takes, Round, Turn
  <2> QED BY <2>1, <2>2, <2>3, <2>4, ClockAssumption DEF Shape
<1>2. Takes(i) \in Nat /\ Takes(i) <= Round /\ Round \in Nat
  BY TakesAre DEF TakesAddUp
<1>3. ASSUME NEW s \in enabled PROVE now <= due'[s] + LateBy(s)'
  <2> DEFINE k == Position(s)
  <2>1. k \in DOMAIN Order /\ Order[k] = s /\ due'[s] \in Nat
    BY <1>1, PositionsAre
  <2>2. Takes(k) \in Nat /\ Takes(k) <= Round
    BY <2>1, TakesAre DEF TakesAddUp
  <2>3. IF k <= i THEN now <= due'[s] + Takes(i) - Takes(k)
        ELSE now <= due'[s] + Round + Takes(i) - Takes(k)
    BY <1>3
  <2>4. i \in Nat /\ k \in Nat
    BY <2>1, OrderIs
  <2>5. Position(s)' = k
    BY DEF Position
  <2> HIDE DEF k
  <2>6. CASE /\ worker' = Waiting
             /\ \A j \in DOMAIN Order : j > i /\ Order[j] \in enabled => ~(due'[Order[j]] <= now)
    <3>1. LateBy(s)' = Round - Takes(k)
      BY <1>1, <2>5, <2>6, WorkerIs DEF LateBy
    <3>2. CASE k <= i
      BY <1>1, <1>2, <2>1, <2>2, <2>3, <3>1, <3>2
    <3>3. CASE k > i
      <4>1. ~(due'[s] <= now)
        BY <2>1, <2>6, <3>3
      <4> QED BY <1>1, <1>2, <2>1, <2>2, <3>1, <4>1
    <3> QED BY <2>4, <3>2, <3>3
  <2>7. CASE \E n \in DOMAIN Order :
               /\ n > i /\ Order[n] \in enabled /\ due'[Order[n]] <= now
               /\ worker' = Asking(Order[n])
               /\ \A j \in DOMAIN Order :
                    j > i /\ j < n /\ Order[j] \in enabled => ~(due'[Order[j]] <= now)
    <3>1. PICK n \in DOMAIN Order :
               /\ n > i /\ Order[n] \in enabled
               /\ worker' = Asking(Order[n])
               /\ \A j \in DOMAIN Order :
                    j > i /\ j < n /\ Order[j] \in enabled => ~(due'[Order[j]] <= now)
      BY <2>7
    <3>2. worker'.at = "ask" /\ worker'.source = Order[n] /\ worker'.spent = 0
      BY <3>1, WorkerIs
    <3>3. Position(Order[n]) = n /\ n \in Nat /\ n - 1 \in Nat /\ n >= 1
      BY PositionsAre, OrderIs
    <3>4. Takes(n - 1) \in Nat /\ Takes(n - 1) <= Round
      BY TakesAre DEF TakesAddUp
    <3>5. Takes(i) <= Takes(n - 1)
      <4>1. CASE i = 0
        BY <3>4, <4>1, TakesAre DEF TakesAddUp
      <4>2. CASE i \in DOMAIN Order
        BY <3>1, <4>2, TakesAre DEF TakesAddUp
      <4> QED BY <4>1, <4>2
    <3>6. LateBy(s)' = Takes(n - 1) + 0 - Takes(k) + (IF k < n THEN 0 ELSE Round)
      <4>1. Position(worker'.source) = n /\ Taken' = 0
        BY <3>2, <3>3 DEF Taken
      <4> QED BY <1>1, <2>5, <3>2, <4>1 DEF LateBy, Position
    <3>7. CASE k <= i
      <4>1. k < n
        BY <2>4, <3>1, <3>3, <3>7
      <4> QED BY <1>1, <1>2, <2>1, <2>2, <2>3, <3>4, <3>5, <3>6, <3>7, <4>1
    <3>8. CASE k > i /\ k < n
      <4>1. ~(due'[s] <= now)
        BY <2>1, <3>1, <3>8
      <4>2. Takes(k) <= Takes(n - 1)
        BY <2>1, <3>1, <3>8, TakesAre DEF TakesAddUp
      <4> QED BY <1>1, <1>2, <2>1, <2>2, <3>4, <3>6, <3>8, <4>1, <4>2
    <3>9. CASE k > i /\ ~(k < n)
      BY <1>1, <1>2, <2>1, <2>2, <2>3, <2>4, <3>4, <3>5, <3>6, <3>9
    <3> QED BY <2>4, <3>7, <3>8, <3>9
  <2> QED BY <2>6, <2>7 DEF GoesOn
<1> QED BY <1>3 DEF InTime

\* While a collection goes on and no time passes.
LEMMA CarriedInTime ==
  ASSUME Shape, InTime, enabled # None, worker.at # "wait", worker'.at # "wait",
         worker'.source = worker.source, Taken \in Nat, Taken' \in Nat, Taken <= Taken',
         UNCHANGED <<now, enabled, due>>
  PROVE  InTime'
<1>1. enabled \subseteq Source /\ now \in Nat /\ worker.source \in Source
  BY EnabledAre, DoingIs, ClockAssumption DEF Shape
<1>2. ASSUME NEW s \in enabled PROVE now <= due[s] + LateBy(s)'
  <2> DEFINE k == Position(s)
             p == Position(worker.source)
  <2>1. k \in DOMAIN Order /\ p \in DOMAIN Order /\ due[s] \in Nat
    BY <1>1, PositionsAre DEF Shape
  <2>2. Takes(k) \in Nat /\ Takes(p - 1) \in Nat /\ Round \in Nat
    BY <2>1, TakesAre DEF TakesAddUp
  <2>3. LateBy(s) = Takes(p - 1) + Taken - Takes(k) + (IF k < p THEN 0 ELSE Round)
    BY DEF LateBy
  <2>4. LateBy(s)' = Takes(p - 1) + Taken' - Takes(k) + (IF k < p THEN 0 ELSE Round)
    <3>1. Round' = Round /\ \A j : Takes(j)' = Takes(j)
      BY DEF Takes, Round, Turn
    <3> QED BY <3>1 DEF LateBy, Position
  <2>5. now <= due[s] + LateBy(s)
    BY DEF InTime
  <2> HIDE DEF k, p
  <2> QED BY <1>1, <2>1, <2>2, <2>3, <2>4, <2>5
<1> QED BY <1>2 DEF InTime

\* What a request has taken.
LEMMA TakenIs ==
  ASSUME Shape, worker.at # "wait"
  PROVE  Taken \in Nat /\ Taken <= Patience[worker.source] /\ Patience[worker.source] \in Nat
<1>1. worker.source \in Source
        /\ (worker.at = "ask" => worker.spent \in 0 .. Patience[worker.source])
  BY DoingIs
<1> QED BY <1>1, TurnsAre DEF Taken

LEMMA InTimeCarried ==
  ASSUME Shape, Shape', InTime, worker.at # "wait",
         worker'.at \in {"store", "qualify", "fuse"}, worker'.source = worker.source,
         UNCHANGED <<now, enabled, due>>
  PROVE  InTime'
<1>1. enabled # None
  BY DoingIs
<1>2. Taken \in Nat /\ Taken <= Patience[worker.source] /\ Patience[worker.source] \in Nat
  BY TakenIs
<1>3. Taken' = Patience[worker.source]
  BY DEF Taken
<1> QED BY <1>1, <1>2, <1>3, CarriedInTime

LEMMA InTimeQualify ==
  ASSUME Shape, Shape', InTime, Qualify
  PROVE  InTime'
<1> DEFINE o == worker.source
           p == Position(o)
<1>1. /\ worker.at = "qualify" /\ UNCHANGED <<now, enabled>>
      /\ \/ worker'.at = "fuse" /\ worker'.source = o /\ due' = due
         \/ due' = [due EXCEPT ![o] = now + Interval[o]] /\ GoesOn(p)
  BY QualifyIs
<1>2. /\ enabled # None /\ enabled \subseteq Source /\ o \in enabled /\ o \in Source
      /\ now \in Nat
  BY <1>1, DoingIs, ClockAssumption DEF Shape
<1>3. CASE worker'.at = "fuse" /\ worker'.source = o /\ due' = due
  BY <1>1, <1>3, InTimeCarried
<1>4. CASE due' = [due EXCEPT ![o] = now + Interval[o]] /\ GoesOn(p)
  <2>1. p \in DOMAIN Order /\ Order[p] = o
    BY <1>2, PositionsAre
  <2>2. Takes(p) = Takes(p - 1) + Turn(o) /\ Turn(o) = Patience[o] /\ Takes(p) \in Nat
          /\ Takes(p - 1) \in Nat /\ Round \in Nat /\ Patience[o] \in Nat
    BY <1>2, <2>1, TakesAre, TurnsAre DEF Turn, TakesAddUp
  <2>3. ASSUME NEW s \in enabled
        PROVE  IF Position(s) <= p THEN now <= due'[s] + Takes(p) - Takes(Position(s))
               ELSE now <= due'[s] + Round + Takes(p) - Takes(Position(s))
    <3> DEFINE k == Position(s)
    <3>1. k \in DOMAIN Order /\ Order[k] = s /\ s \in Source /\ k \in Nat /\ p \in Nat
      BY <1>2, <2>1, PositionsAre, OrderIs
    <3>2. Takes(k) \in Nat /\ due[s] \in Nat
      BY <3>1, TakesAre DEF Shape, TakesAddUp
    <3>3. CASE s = o
      <4>1. due'[s] = now + Interval[o] /\ Interval[o] \in Nat /\ k = p
        BY <1>2, <1>4, <3>3, TurnsAre DEF Shape
      <4> HIDE DEF k, p
      <4>2. now <= due'[s] + Takes(p) - Takes(k)
        BY <1>2, <2>2, <4>1
      <4> QED BY <3>1, <4>1, <4>2 DEF k, p
    <3>4. CASE s # o
      <4>1. due'[s] = due[s] /\ k # p
        BY <1>4, <2>1, <3>1, <3>4 DEF Shape
      <4>2. LateBy(s) = Takes(p - 1) + Patience[o] - Takes(k) + (IF k < p THEN 0 ELSE Round)
        BY <1>1 DEF LateBy, Taken
      <4>3. now <= due[s] + LateBy(s)
        BY <1>2 DEF InTime
      <4> DEFINE a == Takes(p)
                 b == Takes(p - 1)
                 c == Takes(k)
      <4>4. a = b + Patience[o] /\ a \in Nat /\ b \in Nat /\ c \in Nat
              /\ Patience[o] \in Nat
        BY <2>2, <3>2
      <4>5. now <= due'[s] + (b + Patience[o] - c + (IF k < p THEN 0 ELSE Round))
        BY <4>1, <4>2, <4>3
      <4> HIDE DEF k, p, a, b, c
      <4>6. CASE k <= p
        <5>1. k < p
          BY <3>1, <4>1, <4>6
        <5>2. now <= due'[s] + a - c
          BY <1>2, <3>2, <4>1, <4>4, <4>5, <5>1
        <5> QED BY <4>6, <5>2 DEF a, c, k
      <4>7. CASE ~(k <= p)
        <5>1. ~(k < p)
          BY <3>1, <4>7
        <5>2. now <= due'[s] + Round + a - c
          BY <1>2, <2>2, <3>2, <4>1, <4>4, <4>5, <5>1
        <5> QED BY <4>7, <5>2 DEF a, c, k
      <4> QED BY <4>6, <4>7
    <3> QED BY <3>3, <3>4
  <2> HIDE DEF o, p
  <2> QED BY <1>1, <1>2, <1>4, <2>1, <2>3, GoneOnInTime
<1> QED BY <1>1, <1>3, <1>4

LEMMA InTimeTick ==
  ASSUME Shape, Shape', InTime, Tick
  PROVE  InTime'
<1>1. /\ now' = now + 1 /\ UNCHANGED <<enabled, due>> /\ now \in Nat
  BY TickIs, ClockAssumption DEF Shape
<1>2. Round' = Round /\ \A j : Takes(j)' = Takes(j)
  BY <1>1 DEF Takes, Round, Turn
<1>3. CASE enabled = None
  BY <1>1, <1>3 DEF InTime
<1>4. CASE /\ enabled # None /\ worker.at = "wait" /\ worker' = worker
           /\ \A s \in enabled : ~(due[s] <= now)
  <2>1. ASSUME NEW s \in enabled PROVE now' <= due[s] + LateBy(s)'
    <3>1. Position(s) \in DOMAIN Order /\ due[s] \in Nat
      BY <1>4, EnabledAre, PositionsAre DEF Shape
    <3>2. Takes(Position(s)) \in Nat /\ Takes(Position(s)) <= Round /\ Round \in Nat
      BY <3>1, TakesAre DEF TakesAddUp
    <3>3. LateBy(s)' = Round - Takes(Position(s))
      BY <1>2, <1>4 DEF LateBy, Position
    <3> QED BY <1>1, <1>4, <3>1, <3>2, <3>3
  <2> QED BY <1>1, <2>1 DEF InTime
<1>5. CASE /\ enabled # None /\ worker.at = "ask"
           /\ worker.spent < Patience[worker.source]
           /\ worker' = [at |-> "ask", source |-> worker.source, entity |-> worker.entity,
                         batch |-> worker.batch, spent |-> worker.spent + 1]
  <2>1. worker'.at = "ask" /\ worker'.source = worker.source
          /\ worker'.spent = worker.spent + 1 /\ worker.spent \in Nat /\ worker.source \in Source
    BY <1>5, DoingIs, TurnsAre
  <2>2. ASSUME NEW s \in enabled PROVE now' <= due[s] + LateBy(s)'
    <3> DEFINE k == Position(s)
               p == Position(worker.source)
    <3>1. k \in DOMAIN Order /\ p \in DOMAIN Order /\ due[s] \in Nat
      BY <1>5, <2>1, EnabledAre, PositionsAre DEF Shape
    <3>2. Takes(k) \in Nat /\ Takes(p - 1) \in Nat /\ Round \in Nat
      BY <3>1, TakesAre DEF TakesAddUp
    <3>3. LateBy(s) = Takes(p - 1) + worker.spent - Takes(k) + (IF k < p THEN 0 ELSE Round)
      BY <1>5 DEF LateBy, Taken
    <3>4. LateBy(s)' = Takes(p - 1) + (worker.spent + 1) - Takes(k)
                         + (IF k < p THEN 0 ELSE Round)
      BY <1>2, <2>1 DEF LateBy, Taken, Position
    <3>5. now <= due[s] + LateBy(s)
      BY <1>5 DEF InTime
    <3> HIDE DEF k, p
    <3> QED BY <1>1, <2>1, <3>1, <3>2, <3>3, <3>4, <3>5
  <2> QED BY <1>1, <2>2 DEF InTime
<1> QED BY <1>3, <1>4, <1>5, TickIs

LEMMA InTimeStep == Shape /\ Shape' /\ InTime /\ [Next]_vars => InTime'
<1> SUFFICES ASSUME Shape, Shape', InTime, [Next]_vars PROVE InTime'
  OBVIOUS
<1>1. CASE BeginPass
  <2>1. /\ enabled # None /\ worker.at = "wait" /\ GoesOn(0)
        /\ UNCHANGED <<now, enabled, due>>
    BY <1>1, BeginIs
  <2>2. ASSUME NEW s \in enabled
        PROVE  IF Position(s) <= 0 THEN now <= due'[s] + Takes(0) - Takes(Position(s))
               ELSE now <= due'[s] + Round + Takes(0) - Takes(Position(s))
    <3>1. Position(s) \in DOMAIN Order /\ ~(Position(s) <= 0) /\ due[s] \in Nat
      BY <2>1, EnabledAre, PositionsAre, OrderIs DEF Shape
    <3>2. now <= due[s] + (Round - Takes(Position(s))) /\ now \in Nat
      BY <2>1, ClockAssumption DEF InTime, LateBy, Shape
    <3>3. Takes(Position(s)) \in Nat /\ Round \in Nat /\ Takes(0) = 0
      BY <3>1, TakesAre DEF TakesAddUp
    <3> QED BY <2>1, <3>1, <3>2, <3>3
  <2> QED BY <2>1, <2>2, GoneOnInTime
<1>2. CASE worker.at = "ask" /\ \E answer \in Answers[worker.source] : Answer(answer)
  <2>1. worker'.at = "store" /\ worker'.source = worker.source
          /\ UNCHANGED <<now, enabled, due>>
    BY <1>2, AnswerIs
  <2> QED BY <1>2, <2>1, InTimeCarried
<1>3. CASE Store
  BY <1>3, StoreIs, InTimeCarried
<1>4. CASE Qualify
  BY <1>4, InTimeQualify
<1>5. CASE Fuse
  BY <1>5, FuseIs, InTimeCarried
<1>6. CASE Tick
  BY <1>6, InTimeTick
<1>7. CASE Snapshot
  BY <1>7 DEF Snapshot, process, InTime, LateBy, Taken, Takes, Round, Turn, Position
<1>8. CASE Leave
  BY <1>8 DEF Leave, Gone, InTime
<1>9. CASE Crash
  BY <1>9 DEF Crash, Gone, InTime
<1>10. CASE \E config \in Configs : Boot(config)
  <2>1. PICK config \in Configs : Boot(config)
    BY <1>10
  <2>2. /\ enabled' = config /\ due' = [s \in Source |-> now] /\ worker' = Waiting /\ now' = now
    BY <2>1 DEF Boot
  <2>3. config \subseteq Source /\ now \in Nat
    BY ConfigAssumption, ClockAssumption DEF Shape
  <2>4. ASSUME NEW s \in config PROVE now <= due'[s] + LateBy(s)'
    <3>1. Position(s) \in DOMAIN Order /\ due'[s] = now
      BY <2>2, <2>3, PositionsAre
    <3>2. LateBy(s)' = Round' - Takes(Position(s))'
      BY <2>2, WorkerIs DEF LateBy, Position
    <3>3. Takes(Position(s))' \in Nat /\ Round' \in Nat /\ Takes(Position(s))' <= Round'
      <4> DEFINE k == Position(s)
      <4>1. Takes(k)' \in Nat /\ Round' \in Nat /\ Takes(k)' <= Round'
        BY <3>1, TakesNext DEF TakesAddUp, Position
      <4> QED BY <4>1
    <3> QED BY <2>3, <3>1, <3>2, <3>3
  <2> QED BY <2>2, <2>4 DEF InTime
<1>11. CASE UNCHANGED vars
  BY <1>11 DEF vars, InTime, LateBy, Taken, Takes, Round, Turn, Position
<1> QED BY <1>1, <1>2, <1>3, <1>4, <1>5, <1>6, <1>7, <1>8, <1>9, <1>10, <1>11 DEF Next

-----------------------------------------------------------------------------
(* What the components and the estimate rest on                            *)

LEMMA RestsKept ==
  ASSUME NEW e, Rests(e), enabled' = enabled, heard \subseteq heard'
  PROVE  Rests(e)'
BY DEF Rests

\* What the sources give now rests on what was heard.
LEMMA NowRests ==
  ASSUME Shape, Heard, EstimateNow(now) # None
  PROVE  Rests(EstimateNow(now))
<1> DEFINE e == EstimateNow(now)
<1>1. /\ e.primary \in {"surface", "weather"}
      /\ e.primary = "surface" => Usable("surface")
      /\ e.primary = "weather" => Current("weather")
      /\ e.modelDelta # None => Current("weather")
      /\ e.forecastDelta # None => Current("forecast")
  BY EstimateNowIs, ClockAssumption DEF Shape
<1>2. \A s : Current(s) => Usable(s)
  BY DEF Current, Usable
<1>3. \A s \in Fusing \intersect enabled : Usable(s) => s \in heard
  BY DEF Heard
<1> HIDE DEF e
<1>4. Rests(e)
  BY <1>1, <1>2, <1>3 DEF Rests, Fusing
<1> QED BY <1>4 DEF e

\* What follows still follows when time passes.
LEMMA FollowsKept ==
  ASSUME Shape, Follows, \A s \in Fusing : world'[s] = world[s],
         world'["estimate"] = world["estimate"],
         heard' \intersect Fusing = heard \intersect Fusing,
         now' \in Nat, now <= now', WorldOk(world)'
  PROVE  Follows'
<1>1. now \in Nat /\ WorldOk(world)
  BY ClockAssumption DEF Shape
<1>2. (Current("estimate")' <=> Current("estimate"))
        /\ Value("estimate", "estimate")' = Value("estimate", "estimate")
  BY DEF Current, Value
<1>3. CanNow' <=> CanNow
  BY EstimateKept
<1>4. EstimateNow(now) # None <=> CanNow
  BY <1>1, EstimateNowIs
<1>5. EstimateNow(now)' # None <=> CanNow'
  <2>1. /\ world'["surface"] = world["surface"] /\ world'["weather"] = world["weather"]
        /\ world'["forecast"] = world["forecast"]
    BY DEF Fusing
  <2>2. EstimateNow(now)' = EstimateNow(now')
    BY <2>1 DEF EstimateNow, Value, Usable, Current
  <2>3. EstimateNow(now') # None <=> CanNow
    BY <1>1, EstimateNowIs
  <2> QED BY <1>3, <2>2, <2>3
<1>6. Current("estimate") =>
        \E t \in 0 .. now' : Value("estimate", "estimate") = EstimateNow(t)'
  <2> SUFFICES ASSUME Current("estimate")
               PROVE  \E t \in 0 .. now' : Value("estimate", "estimate") = EstimateNow(t)'
    OBVIOUS
  <2>1. PICK t \in 0 .. now : Value("estimate", "estimate") = EstimateNow(t)
    BY DEF Follows
  <2>2. t \in 0 .. now'
    BY <1>1
  <2>3. EstimateNow(t)' = EstimateNow(t)
    BY EstimateKept
  <2> QED BY <2>1, <2>2, <2>3
<1> QED BY <1>2, <1>3, <1>4, <1>5, <1>6 DEF Follows

LEMMA NotHandling ==
  ASSUME worker.at \notin {"store", "qualify"}
  PROVE  \A e : ~Handling(e)
BY DEF Handling

\* Between two collections, and to the start of one.
LEMMA GroundsAtRest ==
  ASSUME Shape, Shape', Grounds, enabled # None,
         worker.at \in {"wait", "ask"}, worker'.at \in {"wait", "ask"},
         now <= now', UNCHANGED <<enabled, world, due, heard>>
  PROVE  Grounds'
<1>1. Heard /\ EstimateRests /\ EstimateIsSettled /\ SurfaceIsDated
  BY DEF Grounds
<1>2. \A e : ~Handling(e)'
  BY DEF Handling
<1>3. \A s : (Usable(s)' <=> Usable(s)) /\ (Current(s)' <=> Current(s))
  BY DEF Usable, Current
<1>4. Heard'
  BY <1>1, <1>2, <1>3 DEF Heard
<1>5. EstimateIsCarried'
  BY <1>2 DEF EstimateIsCarried
<1>6. EstimateRests'
  BY <1>1, <1>3 DEF EstimateRests, Rests, Value
<1>7. EstimateIsSettled'
  <2>1. Follows
    BY <1>1 DEF EstimateIsSettled
  <2>2. now' \in Nat /\ WorldOk(world)'
    BY ClockAssumption DEF Shape
  <2> QED BY <2>1, <2>2, FollowsKept DEF EstimateIsSettled
<1>8. SurfaceIsDated'
  <2>1. Report' = Report
    BY DEF Report, Value
  <2>2. \A e : ~Handling(e)
    BY DEF Handling
  <2>3. worker.at \notin {"fuse", "qualify"} /\ worker'.at \notin {"fuse", "qualify"}
    OBVIOUS
  <2>4. "surface" \in enabled /\ Usable("surface") =>
          /\ Report # None
          /\ due["surface"] <= Report.freshest + MaxAge + Interval["surface"]
    BY <1>1, <2>2, <2>3 DEF SurfaceIsDated
  <2> QED BY <1>2, <1>3, <2>1, <2>3, <2>4 DEF SurfaceIsDated
<1> QED BY <1>4, <1>5, <1>6, <1>7, <1>8 DEF Grounds

LEMMA GroundsSame ==
  ASSUME Shape, Shape', Grounds, UNCHANGED <<now, enabled, world, due, worker, heard>>
  PROVE  Grounds'
<1> SUFFICES ASSUME enabled # None PROVE Grounds'
  BY DEF Grounds
<1>1. Heard /\ EstimateIsCarried /\ EstimateRests /\ EstimateIsSettled /\ SurfaceIsDated
  BY DEF Grounds
<1>2. (\A s : (Usable(s)' <=> Usable(s)) /\ (Current(s)' <=> Current(s)))
        /\ (\A s, k : Value(s, k)' = Value(s, k)) /\ (\A e : Handling(e)' <=> Handling(e))
  BY DEF Usable, Current, Value, Handling
<1>3. Heard'
  BY <1>1, <1>2 DEF Heard
<1>4. EstimateIsCarried'
  BY <1>1, <1>2, EstimateNowKept DEF EstimateIsCarried
<1>5. EstimateRests'
  BY <1>1, <1>2 DEF EstimateRests, Rests
<1>6. EstimateIsSettled'
  <2>1. now' \in Nat /\ now <= now' /\ WorldOk(world)'
    BY ClockAssumption DEF Shape
  <2>2. Follows => Follows'
    BY <2>1, FollowsKept
  <2> QED BY <1>1, <2>2 DEF EstimateIsSettled
<1>7. SurfaceIsDated'
  BY <1>1, <1>2 DEF SurfaceIsDated, SurfaceIngests, Report, Young
<1> QED BY <1>3, <1>4, <1>5, <1>6, <1>7 DEF Grounds

LEMMA GroundsAnswer ==
  ASSUME Shape, Shape', Grounds, worker.at = "ask",
         NEW answer \in Answers[worker.source], Answer(answer)
  PROVE  Grounds'
<1> DEFINE s == worker.source
<1>1. PICK batch :
        /\ worker' = [at |-> "store", source |-> s, entity |-> s,
                      batch |-> batch, spent |-> 0]
        /\ BatchOk(s, batch)
        /\ s \in Fusing /\ InUse(batch) => s \in heard'
        /\ s = "surface" =>
             /\ Len(batch) = 1 /\ DOMAIN batch = {1}
             /\ InUse(batch) =>
                  \/ batch[1].value # None /\ batch[1].value \in SurfaceStates
                       /\ InWindow(batch[1].value.freshest, now)
                  \/ /\ batch[1].value = None /\ Report # None
                     /\ InWindow(Report.freshest, now)
             /\ ~InUse(batch) => batch[1].value = None
  BY AnswerIs
<1>2. /\ heard' \in {heard, heard \union {s}}
      /\ UNCHANGED <<now, enabled, boots, world, disk, due>>
  BY AnswerIs
<1>3. enabled # None /\ s \in enabled /\ s \in Source /\ s # "estimate"
  BY DoingIs, SourcesAre
<1>4. Heard /\ EstimateRests /\ EstimateIsSettled /\ SurfaceIsDated
  BY <1>3 DEF Grounds
<1> HIDE DEF s
<1>5. /\ worker'.at = "store" /\ worker'.source = s /\ worker'.entity = s
      /\ worker'.batch = batch
  BY <1>1
<1>6. (\A x : (Usable(x)' <=> Usable(x)) /\ (Current(x)' <=> Current(x)))
        /\ (\A e : Handling(e)' <=> e = s) /\ Report' = Report /\ heard \subseteq heard'
  BY <1>2, <1>5 DEF Usable, Current, Handling, Report, Value
<1>7. Heard'
  BY <1>1, <1>2, <1>4, <1>5, <1>6 DEF Heard, InUse
<1>8. EstimateIsCarried'
  BY <1>3, <1>6 DEF EstimateIsCarried
<1>9. EstimateRests'
  <2>1. Value("estimate", "estimate")' = Value("estimate", "estimate")
    BY <1>2 DEF Value
  <2> QED BY <1>2, <1>4, <1>6, <2>1 DEF EstimateRests, Rests
<1>10. EstimateIsSettled'
  <2> SUFFICES ASSUME s \notin Fusing PROVE Follows'
    BY <1>5 DEF EstimateIsSettled
  <2>1. Follows
    BY <1>4 DEF EstimateIsSettled
  <2>2. now' \in Nat /\ now <= now' /\ WorldOk(world)'
    BY <1>2, ClockAssumption DEF Shape
  <2>3. heard' \intersect Fusing = heard \intersect Fusing
    BY <1>2
  <2> QED BY <1>2, <2>1, <2>2, <2>3, FollowsKept
<1>11. SurfaceIsDated'
  <2> SUFFICES ASSUME "surface" \in enabled PROVE SurfaceIsDated'
    BY <1>2 DEF SurfaceIsDated
  <2>1. Usable("surface") =>
          /\ Report # None
          /\ due["surface"] <= Report.freshest + MaxAge + Interval["surface"]
    BY <1>4, NotHandling DEF SurfaceIsDated
  <2>2. s = "surface" => SurfaceIngests("store", batch)
    BY <1>1, <1>2 DEF Young, InWindow, SurfaceIngests
  <2>3. SurfaceIngests("store", batch)' <=> SurfaceIngests("store", batch)
    <3>1. Young(batch[1].value)' <=> Young(batch[1].value)
      BY <1>2 DEF Young
    <3>2. Young(Report)' <=> Young(Report)
      BY <1>2, <1>6 DEF Young
    <3> QED BY <3>1, <3>2 DEF SurfaceIngests
  <2>5. Handling("surface")' => SurfaceIngests(worker.at, worker.batch)'
    <3>1. SurfaceIngests(worker.at, worker.batch)' <=> SurfaceIngests("store", batch)'
      BY <1>5 DEF SurfaceIngests, Young, Report, Value
    <3> QED BY <1>6, <2>2, <2>3, <3>1
  <2>6. ~(worker'.source = "surface" /\ (worker'.at = "fuse" \/ Handling("estimate")'))
    BY <1>3, <1>5, <1>6
  <2>7. Usable("surface")' =>
          /\ Report' # None
          /\ due'["surface"] <= Report'.freshest + MaxAge + Interval["surface"]
    BY <1>2, <1>6, <2>1
  <2> QED BY <2>5, <2>6, <2>7 DEF SurfaceIsDated
<1> QED BY <1>7, <1>8, <1>9, <1>10, <1>11 DEF Grounds

LEMMA GroundsStore ==
  ASSUME Shape, Shape', Grounds, Store
  PROVE  Grounds'
<1> DEFINE e == worker.entity
           b == worker.batch
           x == Stored(world, e, b)
<1>1. /\ worker.at = "store" /\ world' = x
      /\ worker' = [at |-> "qualify", source |-> worker.source, entity |-> e,
                    batch |-> b, spent |-> worker.spent]
      /\ UNCHANGED <<now, enabled, boots, disk, due, fresh, points, heard>>
  BY StoreIs
<1>2. /\ enabled # None /\ e \in {worker.source, "estimate"} /\ e \in Entities
      /\ e = "estimate" => worker.source \in Fusing
      /\ BatchOk(e, b) /\ WorldOk(world) /\ now \in Nat
  BY <1>1, DoingIs, ClockAssumption DEF Shape
<1>3. Heard /\ EstimateIsCarried /\ EstimateRests /\ EstimateIsSettled /\ SurfaceIsDated
  BY <1>2 DEF Grounds
<1>4. /\ worker'.at = "qualify" /\ worker'.source = worker.source /\ worker'.entity = e
      /\ worker'.batch = b
  BY <1>1
<1>5. /\ \A s \in Entities \ {e} : x[s] = world[s]
      /\ x[e].availability = world[e].availability
      /\ \A k \in Kinds(e) :
           \/ /\ x[e].values[k] = world[e].values[k]
              /\ \A i \in DOMAIN b : ~(b[i].value # None /\ b[i].value.kind = k)
           \/ \E i \in DOMAIN b :
                /\ b[i].value # None /\ b[i].value.kind = k
                /\ x[e].values[k] = b[i].value
  BY <1>2, StoredIs
<1> HIDE DEF x, e, b
<1>6. /\ \A s \in Entities : (Usable(s)' <=> Usable(s)) /\ (Current(s)' <=> Current(s))
      /\ \A y : Handling(y) <=> y = e
      /\ \A y : Handling(y)' <=> y = e
  <2>1. \A s \in Entities : x[s].availability = world[s].availability
    BY <1>5
  <2>2. \A y : Handling(y) <=> y = e
    BY <1>1 DEF Handling, e
  <2>3. \A y : Handling(y)' <=> y = e
    BY <1>4 DEF Handling
  <2> QED BY <1>1, <2>1, <2>2, <2>3 DEF Usable, Current
<1>7. /\ Fusing \subseteq Entities /\ "estimate" \in Entities /\ "surface" \in Entities
      /\ "estimate" \notin Fusing
  BY EntitiesAre, SourcesAre DEF Fusing
<1>8. Heard'
  <2>1. \A s \in Fusing \intersect enabled :
          /\ Usable(s) => s \in heard
          /\ s = e /\ InUse(b) => s \in heard
    BY <1>3, <1>6 DEF Heard, b
  <2>2. \A s \in Fusing \intersect enabled :
          /\ Usable(s)' => s \in heard
          /\ Handling(s)' /\ InUse(b) => s \in heard
    BY <1>6, <1>7, <2>1
  <2> QED BY <1>1, <1>4, <2>2 DEF Heard, InUse
<1>9. e = "estimate" =>
        /\ b = EstimateBatch(EstimateNow(now))
        /\ EstimateNow(now)' = EstimateNow(now)
        /\ IF EstimateNow(now) # None
           THEN Value("estimate", "estimate")' = EstimateNow(now)
           ELSE Value("estimate", "estimate")' = Value("estimate", "estimate")
  <2> SUFFICES ASSUME e = "estimate"
               PROVE  /\ b = EstimateBatch(EstimateNow(now))
                      /\ EstimateNow(now)' = EstimateNow(now)
                      /\ IF EstimateNow(now) # None
                         THEN Value("estimate", "estimate")' = EstimateNow(now)
                         ELSE Value("estimate", "estimate")' = Value("estimate", "estimate")
    OBVIOUS
  <2>1. b = EstimateBatch(EstimateNow(now))
    BY <1>3, <1>6 DEF EstimateIsCarried, b
  <2>2. EstimateNow(now)' = EstimateNow(now)
    BY <1>1, <1>5, <1>7, EstimateNowKept
  <2>3. /\ DOMAIN b = {1}
        /\ EstimateNow(now) = None => b[1].value = None
        /\ EstimateNow(now) # None =>
             b[1].value = EstimateNow(now) /\ EstimateNow(now).kind = "estimate"
    BY <1>2, <2>1, EstimateBatchIs
  <2>4. \/ /\ x["estimate"].values["estimate"] = world["estimate"].values["estimate"]
           /\ \A i \in DOMAIN b : ~(b[i].value # None /\ b[i].value.kind = "estimate")
        \/ \E i \in DOMAIN b :
             /\ b[i].value # None /\ b[i].value.kind = "estimate"
             /\ x["estimate"].values["estimate"] = b[i].value
    BY <1>5, KindsAre
  <2>5. /\ EstimateNow(now) = None =>
             x["estimate"].values["estimate"] = world["estimate"].values["estimate"]
        /\ EstimateNow(now) # None =>
             x["estimate"].values["estimate"] = EstimateNow(now)
    BY <2>3, <2>4
  <2> QED BY <1>1, <2>1, <2>2, <2>5 DEF Value
<1>10. e # "estimate" => Value("estimate", "estimate")' = Value("estimate", "estimate")
  BY <1>1, <1>5, <1>7 DEF Value
<1>11. EstimateIsCarried'
  <2>1. CASE e = "estimate"
    <3>1. worker'.batch = EstimateBatch(EstimateNow(now))'
      BY <1>4, <1>9, <2>1 DEF EstimateBatch
    <3> QED BY <1>9, <2>1, <3>1 DEF EstimateIsCarried
  <2>2. CASE e # "estimate"
    BY <1>6, <2>2 DEF EstimateIsCarried
  <2> QED BY <2>1, <2>2
<1>12. EstimateRests'
  <2> SUFFICES ASSUME Current("estimate") PROVE Rests(Value("estimate", "estimate"))'
    BY <1>6, <1>7 DEF EstimateRests
  <2>1. Rests(Value("estimate", "estimate"))
    BY <1>3 DEF EstimateRests
  <2>2. EstimateNow(now) # None => Rests(EstimateNow(now))
    BY <1>3, NowRests
  <2>3. Value("estimate", "estimate")' = Value("estimate", "estimate")
          \/ (EstimateNow(now) # None /\ Value("estimate", "estimate")' = EstimateNow(now))
    BY <1>9, <1>10
  <2> QED BY <1>1, <2>1, <2>2, <2>3 DEF Rests
<1>13. EstimateIsSettled'
  <2> SUFFICES ASSUME worker.source \notin Fusing PROVE Follows'
    BY <1>4 DEF EstimateIsSettled
  <2>1. e \notin Fusing /\ e # "estimate"
    BY <1>2
  <2>2. Follows
    BY <1>3 DEF EstimateIsSettled
  <2>3. (\A s \in Fusing : world'[s] = world[s]) /\ world'["estimate"] = world["estimate"]
    BY <1>1, <1>5, <1>7, <2>1
  <2>4. now' \in Nat /\ now <= now' /\ WorldOk(world)'
    BY <1>1, <1>2 DEF Shape
  <2> QED BY <1>1, <2>2, <2>3, <2>4, FollowsKept
<1>14. SurfaceIsDated'
  <2> SUFFICES ASSUME "surface" \in enabled PROVE SurfaceIsDated'
    BY <1>1 DEF SurfaceIsDated
  <2>1. CASE e # "surface"
    <3>1. Report' = Report
      BY <1>1, <1>5, <1>7, <2>1 DEF Report, Value
    <3>2. Young(Report)' <=> Young(Report)
      BY <1>1, <3>1 DEF Young
    <3>3. ~Handling("surface")'
      BY <1>6, <2>1
    <3>4. Handling("estimate")' <=> Handling("estimate")
      BY <1>6
    <3>5. worker.at # "qualify" /\ worker.at # "fuse" /\ worker'.at # "fuse"
      BY <1>1, <1>4
    <3>6. Usable("surface")' <=> Usable("surface")
      BY <1>6, <1>7
    <3> QED BY <1>1, <1>3, <1>4, <3>1, <3>2, <3>3, <3>4, <3>5, <3>6 DEF SurfaceIsDated
  <2>2. CASE e = "surface"
    <3>1. SurfaceIngests("store", b)
      BY <1>1, <1>3, <1>6, <2>2 DEF SurfaceIsDated, b
    <3>2. Usable("surface") =>
            /\ Report # None
            /\ due["surface"] <= Report.freshest + MaxAge + Interval["surface"]
      BY <1>1, <1>3, <1>6, <2>2 DEF SurfaceIsDated
    <3>3. \/ /\ x["surface"].values["surface"] = world["surface"].values["surface"]
             /\ \A i \in DOMAIN b : ~(b[i].value # None /\ b[i].value.kind = "surface")
          \/ \E i \in DOMAIN b :
               /\ b[i].value # None /\ b[i].value.kind = "surface"
               /\ x["surface"].values["surface"] = b[i].value
      BY <1>5, <2>2, KindsAre
    <3>4. Report = world["surface"].values["surface"]
            /\ Report' = x["surface"].values["surface"]
      BY <1>1 DEF Report, Value
    <3>5. DOMAIN b = {1}
      BY <3>1 DEF SurfaceIngests
    <3>6. b[1].value \in SurfaceStates => b[1].value.kind = "surface"
      BY DEF SurfaceStates
    <3>7. CASE InUse(b)
      <4>1. Young(Report')
        <5>1. CASE b[1].value # None
          <6>1. Young(b[1].value) /\ b[1].value \in SurfaceStates
            BY <3>1, <3>7, <5>1 DEF SurfaceIngests
          <6> QED BY <3>3, <3>4, <3>5, <3>6, <5>1, <6>1
        <5>2. CASE b[1].value = None
          <6>1. Young(Report)
            BY <3>1, <3>7, <5>2 DEF SurfaceIngests
          <6> QED BY <3>3, <3>4, <3>5, <5>2, <6>1
        <5> QED BY <5>1, <5>2
      <4>2. Young(Report)'
        BY <1>1, <4>1 DEF Young
      <4>3. SurfaceIngests(worker.at, worker.batch)'
        BY <1>4, <3>5, <3>7, <4>2 DEF SurfaceIngests, InUse
      <4>4. worker'.source = "surface"
        BY <1>2, <1>4, <2>2
      <4>5. ~Handling("estimate")' /\ worker'.at # "fuse"
        BY <1>4, <1>6, <2>2
      <4> QED BY <1>4, <4>2, <4>3, <4>4, <4>5 DEF SurfaceIsDated
    <3>8. CASE ~InUse(b)
      <4>1. b[1].value = None
        BY <3>1, <3>8 DEF SurfaceIngests
      <4>2. Report' = Report
        BY <3>3, <3>4, <3>5, <4>1
      <4>3. SurfaceIngests(worker.at, worker.batch)'
        BY <1>4, <3>5, <3>8, <4>1 DEF SurfaceIngests, InUse
      <4>4. ~Handling("estimate")' /\ worker'.at # "fuse"
        BY <1>4, <1>6, <2>2
      <4>5. Usable("surface")' <=> Usable("surface")
        BY <1>6, <1>7
      <4> QED BY <1>1, <3>2, <4>2, <4>3, <4>4, <4>5 DEF SurfaceIsDated
    <3> QED BY <3>7, <3>8
  <2> QED BY <2>1, <2>2
<1> QED BY <1>8, <1>11, <1>12, <1>13, <1>14 DEF Grounds

LEMMA GroundsQualify ==
  ASSUME Shape, Shape', Grounds, Qualify
  PROVE  Grounds'
<1> DEFINE e == worker.entity
           b == worker.batch
           o == worker.source
<1>1. /\ worker.at = "qualify"
      /\ world' = [world EXCEPT ![e].availability = Availability(b)]
      /\ UNCHANGED <<now, enabled, boots, disk, fresh, points, heard>>
      /\ \/ /\ e \in Fusing /\ due' = due
            /\ worker' = [at |-> "fuse", source |-> o, entity |-> None,
                          batch |-> <<>>, spent |-> 0]
         \/ /\ e \notin Fusing
            /\ due' = [due EXCEPT ![o] = now + Interval[o]] /\ GoesOn(Position(o))
  BY QualifyIs
<1>2. /\ enabled # None /\ e \in {o, "estimate"} /\ e \in Entities
      /\ o \in enabled /\ o \in Source
      /\ e = "estimate" => o \in Fusing
      /\ WorldOk(world) /\ now \in Nat
  BY <1>1, DoingIs, ClockAssumption DEF Shape
<1>3. Heard /\ EstimateIsCarried /\ EstimateRests /\ EstimateIsSettled /\ SurfaceIsDated
  BY <1>2 DEF Grounds
<1>4. /\ \A s \in Entities \ {e} : world'[s] = world[s]
      /\ world'[e].availability = Availability(b)
      /\ \A s \in Entities : world'[s].values = world[s].values
  BY <1>1, <1>2, AvailabilityIs, QualifiedIs
<1>5. /\ Fusing \subseteq Entities /\ "estimate" \in Entities /\ "surface" \in Entities
      /\ "estimate" \notin Fusing /\ "estimate" \notin Source
  BY EntitiesAre, SourcesAre DEF Fusing
<1>6. \A y : Handling(y) <=> y = e
  BY <1>1 DEF Handling
<1>7. worker'.at \in {"wait", "ask", "fuse"} /\ \A y : ~Handling(y)'
  <2>1. worker'.at \in {"wait", "ask", "fuse"}
    BY <1>1, <1>2, GoneOn
  <2> QED BY <2>1 DEF Handling
<1>8. /\ Report' = Report /\ (Young(Report)' <=> Young(Report))
      /\ Value("estimate", "estimate")' = Value("estimate", "estimate")
      /\ \A s \in Entities \ {e} : (Usable(s)' <=> Usable(s)) /\ (Current(s)' <=> Current(s))
      /\ \A s : s = e => (Usable(s)' <=> InUse(b))
                         /\ (Current(s)' <=> Availability(b) = "current")
  BY <1>1, <1>4, <1>5 DEF Report, Young, Value, Usable, Current, InUse
<1> HIDE DEF e, b, o
<1>9. Heard'
  <2>1. \A s \in Fusing \intersect enabled : Usable(s)' => s \in heard
    BY <1>3, <1>5, <1>6, <1>8 DEF Heard, b
  <2> QED BY <1>1, <1>7, <2>1 DEF Heard
<1>10. EstimateIsCarried'
  BY <1>7 DEF EstimateIsCarried
<1>11. e = "estimate" =>
         /\ Current("estimate")' <=> EstimateNow(now) # None
         /\ EstimateNow(now) # None => Value("estimate", "estimate") = EstimateNow(now)
         /\ EstimateNow(now)' = EstimateNow(now)
  <2> SUFFICES ASSUME e = "estimate"
               PROVE  /\ Current("estimate")' <=> EstimateNow(now) # None
                      /\ EstimateNow(now) # None =>
                           Value("estimate", "estimate") = EstimateNow(now)
                      /\ EstimateNow(now)' = EstimateNow(now)
    OBVIOUS
  <2>1. b = EstimateBatch(EstimateNow(now))
          /\ (EstimateNow(now) # None => Value("estimate", "estimate") = EstimateNow(now))
    BY <1>1, <1>3, <1>6 DEF EstimateIsCarried, b
  <2>2. Availability(b) = "current" <=> EstimateNow(now) # None
    BY <1>2, <2>1, EstimateBatchIs
  <2>3. EstimateNow(now)' = EstimateNow(now)
    BY <1>1, <1>4, <1>5, EstimateNowKept
  <2> QED BY <1>8, <2>1, <2>2, <2>3
<1>12. EstimateRests'
  <2> SUFFICES ASSUME Current("estimate")' PROVE Rests(Value("estimate", "estimate"))'
    BY DEF EstimateRests
  <2>1. Rests(Value("estimate", "estimate"))
    <3>1. CASE e = "estimate"
      BY <1>3, <1>11, <3>1, NowRests
    <3>2. CASE e # "estimate"
      BY <1>3, <1>5, <1>8, <3>2 DEF EstimateRests
    <3> QED BY <3>1, <3>2
  <2> QED BY <1>1, <1>8, <2>1 DEF Rests
<1>13. EstimateIsSettled'
  <2>1. CASE e \in Fusing
    <3>1. worker'.at = "fuse" /\ worker'.source = o /\ o \in Fusing
      BY <1>1, <1>2, <1>5, <2>1
    <3> QED BY <3>1 DEF EstimateIsSettled
  <2>2. CASE e = "estimate"
    <3>1. Current("estimate")' =>
            now \in 0 .. now' /\ Value("estimate", "estimate")' = EstimateNow(now)
      BY <1>1, <1>2, <1>8, <1>11, <2>2
    <3>2. \A t : EstimateNow(t)' = EstimateNow(t)
      BY <1>4, <1>5, <2>2, EstimateKept
    <3>3. Follows'
      <4>1. Current("estimate")' =>
              \E t \in 0 .. now' : Value("estimate", "estimate")' = EstimateNow(t)'
        <5> SUFFICES ASSUME Current("estimate")'
                     PROVE  \E t \in 0 .. now' : Value("estimate", "estimate")' = EstimateNow(t)'
          OBVIOUS
        <5>1. PICK t \in 0 .. now' : Value("estimate", "estimate")' = EstimateNow(t)
          BY <3>1
        <5>2. EstimateNow(t)' = EstimateNow(t)
          BY <3>2
        <5> QED BY <5>1, <5>2
      <4>2. Current("estimate")' <=> EstimateNow(now)' # None
        BY <1>11, <2>2
      <4> QED BY <4>1, <4>2 DEF Follows
    <3> QED BY <3>3 DEF EstimateIsSettled
  <2>3. CASE e \notin Fusing /\ e # "estimate"
    <3>1. o \notin Fusing
      BY <1>2, <2>3
    <3>2. Follows
      BY <1>3, <3>1 DEF EstimateIsSettled, o
    <3>3. (\A s \in Fusing : world'[s] = world[s]) /\ world'["estimate"] = world["estimate"]
      BY <1>4, <1>5, <2>3
    <3>4. now' \in Nat /\ now <= now' /\ WorldOk(world)'
      BY <1>1, <1>2 DEF Shape
    <3>5. Follows'
      BY <1>1, <3>2, <3>3, <3>4, FollowsKept
    <3> QED BY <3>5 DEF EstimateIsSettled
  <2> QED BY <2>1, <2>2, <2>3
<1>14. SurfaceIsDated'
  <2> SUFFICES ASSUME "surface" \in enabled PROVE SurfaceIsDated'
    BY <1>1 DEF SurfaceIsDated
  <2> DEFINE Dates == /\ Report # None
                      /\ due'["surface"] <= Report.freshest + MaxAge + Interval["surface"]
  <2>1. CASE e = "surface"
    <3>1. SurfaceIngests("qualify", b)
      BY <1>1, <1>3, <1>6, <2>1 DEF SurfaceIsDated, b
    <3>2. InUse(b) => Young(Report)
      BY <3>1 DEF SurfaceIngests
    <3>3. o = "surface" /\ e \in Fusing
      BY <1>2, <2>1 DEF Fusing
    <3>4. worker'.at = "fuse" /\ worker'.source = "surface"
      BY <1>1, <3>3
    <3>5. Usable("surface")' => Young(Report)'
      BY <1>8, <2>1, <3>2
    <3> QED BY <1>7, <3>4, <3>5 DEF SurfaceIsDated
  <2>2. CASE e = "estimate" /\ o = "surface"
    <3>1. Usable("surface") => Young(Report)
      BY <1>3, <1>6, <2>2 DEF SurfaceIsDated, o
    <3>2. e \notin Fusing
      BY <1>5, <2>2
    <3>3. due'["surface"] = now + Interval["surface"] /\ worker'.at \in {"wait", "ask"}
      BY <1>1, <1>2, <2>2, <3>2, GoneOn DEF Shape
    <3>4. Young(Report) => Dates
      <4> SUFFICES ASSUME Young(Report) PROVE Dates
        OBVIOUS
      <4>1. Report \in SurfaceStates
        BY <1>2, EntitiesAre, KindsAre DEF WorldOk, IsOf, Young, Report, Value
      <4>2. Report.freshest \in Int
        BY <4>1 DEF SurfaceStates
      <4>3. Interval["surface"] \in Nat /\ MaxAge \in Nat
        BY TurnsAre, SourcesAre, ClockAssumption
      <4> QED BY <1>2, <3>3, <4>2, <4>3 DEF Young
    <3>5. Usable("surface")' <=> Usable("surface")
      BY <1>5, <1>8, <2>2
    <3> QED BY <1>7, <1>8, <3>1, <3>3, <3>4, <3>5 DEF SurfaceIsDated
  <2>3. CASE e # "surface" /\ o # "surface"
    <3>1. Usable("surface") =>
            /\ Report # None
            /\ due["surface"] <= Report.freshest + MaxAge + Interval["surface"]
      BY <1>3, <2>3 DEF SurfaceIsDated, o
    <3>2. due'["surface"] = due["surface"]
      BY <1>1, <2>3, SourcesAre DEF Shape
    <3>3. Usable("surface")' <=> Usable("surface")
      BY <1>5, <1>8, <2>3
    <3>4. ~(worker'.source = "surface" /\ (worker'.at = "fuse" \/ Handling("estimate")'))
      BY <1>1, <1>2, <1>7, <2>3, GoneOn
    <3> QED BY <1>7, <1>8, <3>1, <3>2, <3>3, <3>4 DEF SurfaceIsDated
  <2> QED BY <1>2, <2>1, <2>2, <2>3
<1> QED BY <1>9, <1>10, <1>12, <1>13, <1>14 DEF Grounds

LEMMA GroundsFuse ==
  ASSUME Shape, Shape', Grounds, Fuse
  PROVE  Grounds'
<1>1. /\ worker.at = "fuse"
      /\ worker' = [at |-> "store", source |-> worker.source, entity |-> "estimate",
                    batch |-> EstimateBatch(EstimateNow(now)), spent |-> 0]
      /\ UNCHANGED <<now, enabled, boots, world, disk, due, fresh, points, heard>>
  BY FuseIs
<1>2. enabled # None /\ worker.source \in Fusing
  BY <1>1, DoingIs
<1>3. Heard /\ EstimateRests /\ SurfaceIsDated
  BY <1>2 DEF Grounds
<1>4. /\ worker'.at = "store" /\ worker'.source = worker.source
      /\ worker'.entity = "estimate" /\ worker'.batch = EstimateBatch(EstimateNow(now))
  BY <1>1
<1>5. (\A s : (Usable(s)' <=> Usable(s)) /\ (Current(s)' <=> Current(s)))
        /\ (\A y : Handling(y)' <=> y = "estimate") /\ Report' = Report
        /\ (Young(Report)' <=> Young(Report))
        /\ Value("estimate", "estimate")' = Value("estimate", "estimate")
  BY <1>1, <1>4 DEF Usable, Current, Handling, Report, Value, Young
<1>6. Heard'
  <2>1. "estimate" \notin Fusing
    BY DEF Fusing
  <2> QED BY <1>1, <1>3, <1>5, <2>1 DEF Heard
<1>7. EstimateIsCarried'
  <2>1. EstimateNow(now)' = EstimateNow(now)
    BY <1>1, EstimateNowKept
  <2>2. worker'.batch = EstimateBatch(EstimateNow(now))'
    BY <1>4, <2>1 DEF EstimateBatch
  <2> QED BY <1>4, <2>2 DEF EstimateIsCarried
<1>8. EstimateRests'
  BY <1>1, <1>3, <1>5 DEF EstimateRests, Rests
<1>9. EstimateIsSettled'
  BY <1>2, <1>4 DEF EstimateIsSettled
<1>10. SurfaceIsDated'
  <2>1. worker.at # "qualify" /\ ~Handling("surface")'
    BY <1>1, <1>5
  <2>2. CASE worker.source = "surface"
    BY <1>1, <1>3, <1>4, <1>5, <2>1, <2>2 DEF SurfaceIsDated
  <2>3. CASE worker.source # "surface"
    BY <1>1, <1>3, <1>4, <1>5, <2>1, <2>3 DEF SurfaceIsDated
  <2> QED BY <2>2, <2>3
<1> QED BY <1>6, <1>7, <1>8, <1>9, <1>10 DEF Grounds

LEMMA GroundsBoot ==
  ASSUME Shape, Shape', NEW config \in Configs, Boot(config)
  PROVE  Grounds'
<1>1. /\ enabled' = config /\ world' = Reentry(disk, config)
      /\ worker' = Waiting /\ heard' = {}
  BY DEF Boot
<1>2. \A s \in Entities :
        s \in config \union {"estimate"} => world'[s].availability = "unavailable"
  BY <1>1, ReentryIs DEF Shape
<1>3. Fusing \subseteq Entities /\ "estimate" \in Entities /\ "surface" \in Fusing
  BY EntitiesAre DEF Fusing
<1>4. ~Current("estimate")' /\ \A s \in Fusing \intersect config : ~Usable(s)'
  BY <1>2, <1>3 DEF Current, Usable
<1>5. \A y : ~Handling(y)'
  BY <1>1, WorkerIs DEF Handling
<1>6. Heard'
  BY <1>1, <1>4, <1>5 DEF Heard
<1>7. EstimateIsCarried' /\ EstimateRests'
  BY <1>4, <1>5 DEF EstimateIsCarried, EstimateRests
<1>8. EstimateIsSettled'
  BY <1>1, <1>4 DEF EstimateIsSettled, Follows
<1>9. SurfaceIsDated'
  <2>1. "surface" \in config => ~Usable("surface")'
    BY <1>3, <1>4
  <2> QED BY <1>1, <1>5, <2>1 DEF SurfaceIsDated
<1> QED BY <1>6, <1>7, <1>8, <1>9 DEF Grounds

LEMMA GroundsStep == Shape /\ Shape' /\ Grounds /\ [Next]_vars => Grounds'
<1> SUFFICES ASSUME Shape, Shape', Grounds, [Next]_vars PROVE Grounds'
  OBVIOUS
<1>1. CASE BeginPass
  <2>1. /\ enabled # None /\ worker.at = "wait" /\ GoesOn(0)
        /\ UNCHANGED <<now, enabled, world, due, heard>>
    BY <1>1, BeginIs
  <2>2. worker'.at \in {"wait", "ask"} /\ now <= now'
    BY <2>1, GoneOn, ClockAssumption DEF Shape
  <2> QED BY <2>1, <2>2, GroundsAtRest
<1>2. CASE worker.at = "ask" /\ \E answer \in Answers[worker.source] : Answer(answer)
  BY <1>2, GroundsAnswer
<1>3. CASE Store
  BY <1>3, GroundsStore
<1>4. CASE Qualify
  BY <1>4, GroundsQualify
<1>5. CASE Fuse
  BY <1>5, GroundsFuse
<1>6. CASE Tick
  <2>1. now' = now + 1 /\ UNCHANGED <<enabled, world, due, heard>> /\ now <= now'
    BY <1>6, TickIs, ClockAssumption DEF Shape
  <2>2. CASE enabled = None
    BY <2>1, <2>2 DEF Grounds
  <2>3. CASE enabled # None
    <3>1. worker.at \in {"wait", "ask"} /\ worker'.at \in {"wait", "ask"}
      BY <1>6, <2>3, TickIs
    <3> QED BY <2>1, <2>3, <3>1, GroundsAtRest
  <2> QED BY <2>2, <2>3
<1>7. CASE Snapshot
  BY <1>7, GroundsSame DEF Snapshot, process
<1>8. CASE Leave
  BY <1>8 DEF Leave, Gone, Grounds
<1>9. CASE Crash
  BY <1>9 DEF Crash, Gone, Grounds
<1>10. CASE \E config \in Configs : Boot(config)
  BY <1>10, GroundsBoot
<1>11. CASE UNCHANGED vars
  BY <1>11, GroundsSame DEF vars
<1> QED BY <1>1, <1>2, <1>3, <1>4, <1>5, <1>6, <1>7, <1>8, <1>9, <1>10, <1>11 DEF Next

-----------------------------------------------------------------------------
(* The theorems                                                            *)

LEMMA WeatherInit == Init => WeatherInv
<1> SUFFICES ASSUME Init PROVE WeatherInv
  OBVIOUS
<1>1. InTime /\ Grounds
  BY DEF Init, InTime, Grounds
<1> QED BY <1>1, ShapeInit DEF WeatherInv

LEMMA WeatherStep == WeatherInv /\ [Next]_vars => WeatherInv'
BY ShapeStep, InTimeStep, GroundsStep DEF WeatherInv

\* The invariant on which everything rests: what is in the world and in hand,
\* how late each source can be, and what was heard by whoever is in use
\* (WorldAwarenessWorker).
THEOREM WeatherIsCoherent == Spec => []WeatherInv
BY WeatherInit, WeatherStep, PTL DEF Spec

\* The values of the variables: components are of the kind that they are kept
\* as, and a provider is asked only if the configuration enables it (_run).
THEOREM TypeCorrect == Spec => []TypeOK
<1>1. WeatherInv => TypeOK
  <2> SUFFICES ASSUME WeatherInv PROVE TypeOK
    OBVIOUS
  <2>1. Shape
    BY DEF WeatherInv
  <2>2. ASSUME NEW w \in {world, disk}, NEW s \in DOMAIN w
        PROVE  /\ w[s].availability \in {None, "current", "degraded", "unavailable"}
               /\ \A k \in Kinds(s) : w[s].values[k] = None \/ w[s].values[k].kind = k
    <3>1. WorldOk(w)
      BY <2>1 DEF Shape
    <3>2. s \in Entities
      BY <2>2, <3>1 DEF WorldOk
    <3> QED BY <3>1, <3>2 DEF WorldOk, Availabilities, IsOf
  <2>3. \A s \in Source : due[s] \in 0 .. Horizon + Interval[s]
    <3> SUFFICES ASSUME NEW s \in Source PROVE due[s] \in 0 .. Horizon + Interval[s]
      OBVIOUS
    <3>1. due[s] \in Nat /\ due[s] <= now + Interval[s] /\ now \in 0 .. Horizon
      BY <2>1 DEF Shape
    <3> QED BY <3>1, TurnsAre, ClockAssumption
  <2>4. /\ worker.at \in {"wait", "ask", "store", "qualify", "fuse"}
        /\ worker.source \in Source \union {None}
        /\ worker.entity \in {worker.source, "estimate", None}
        /\ worker.at = "ask" => worker.source \in enabled
    <3>1. CASE worker.at = "wait"
      <4>1. worker = Waiting
        BY <2>1, <3>1, DoingIs
      <4> QED BY <4>1, WorkerIs
    <3>2. CASE worker.at # "wait"
      BY <2>1, <3>2, DoingIs
    <3> QED BY <3>1, <3>2
  <2> QED BY <2>1, <2>2, <2>3, <2>4 DEF TypeOK, Shape
<1> QED BY <1>1, WeatherIsCoherent, PTL

\* A current estimate says nothing that this process was not told, however
\* young the snapshot looked (prepare_reentry, _surface_retention_is_earned).
THEOREM EstimatesRest == Spec => []EstimateRestsOnThisProcess
<1>1. WeatherInv => EstimateRestsOnThisProcess
  BY DEF WeatherInv, Grounds, EstimateRests, Rests, EstimateRestsOnThisProcess
<1> QED BY <1>1, WeatherIsCoherent, PTL

\* Between two collections the estimate is that of the sources, and it is
\* unavailable exactly when they give none (_recompute_estimate).
THEOREM EstimatesFollow == Spec => []EstimateFollowsSources
<1>1. WeatherInv => EstimateFollowsSources
  BY DEF WeatherInv, Grounds, EstimateIsSettled, Follows, EstimateFollowsSources
<1> QED BY <1>1, WeatherIsCoherent, PTL

\* A source that is due gets its turn within one round, whatever the
\* intervals and the timeouts are (_run).
THEOREM NobodyWaitsLonger == Spec => []NobodyStarves
<1>1. WeatherInv => NobodyStarves
  <2> SUFFICES ASSUME WeatherInv, enabled # None, NEW s \in enabled
               PROVE  now <= due[s] + Round
    BY DEF NobodyStarves
  <2>1. Shape /\ now <= due[s] + LateBy(s)
    BY DEF WeatherInv, InTime
  <2>2. s \in Source /\ now \in Nat /\ due[s] \in Nat
    BY <2>1, EnabledAre, ClockAssumption DEF Shape
  <2> DEFINE k == Position(s)
             p == Position(worker.source)
  <2>3. k \in DOMAIN Order /\ k \in Nat
    BY <2>2, PositionsAre, OrderIs
  <2>4. Takes(k) \in Nat /\ Takes(k) <= Round /\ Round \in Nat
    BY <2>3, TakesAre DEF TakesAddUp
  <2>5. CASE worker.at = "wait"
    <3>1. LateBy(s) = Round - Takes(k)
      BY <2>5 DEF LateBy
    <3> HIDE DEF k
    <3> QED BY <2>1, <2>2, <2>4, <3>1
  <2>6. CASE worker.at # "wait"
    <3>1. worker.source \in Source /\ worker.source \in enabled
      BY <2>1, <2>6, DoingIs
    <3>2. p \in DOMAIN Order /\ p \in Nat /\ Order[p] = worker.source
      BY <3>1, PositionsAre, OrderIs
    <3>3. /\ Takes(p) = Takes(p - 1) + Patience[worker.source]
          /\ Takes(p) \in Nat /\ Takes(p - 1) \in Nat /\ Takes(p) <= Round
      BY <3>1, <3>2, TakesAre DEF TakesAddUp, Turn
    <3>4. Taken \in Nat /\ Taken <= Patience[worker.source] /\ Patience[worker.source] \in Nat
      BY <2>1, <2>6, TakenIs
    <3>5. LateBy(s) = Takes(p - 1) + Taken - Takes(k) + (IF k < p THEN 0 ELSE Round)
      BY <2>6 DEF LateBy
    <3>6. ~(k < p) => Takes(p) <= Takes(k)
      <4>1. ~(k < p) => p <= k
        BY <2>3, <3>2
      <4> QED BY <2>3, <3>2, <4>1, TakesAre DEF TakesAddUp
    <3> HIDE DEF k, p
    <3> QED BY <2>1, <2>2, <2>4, <3>3, <3>4, <3>5, <3>6
  <2> QED BY <2>5, <2>6
<1> QED BY <1>1, WeatherIsCoherent, PTL

\* Surface values in use are not older than the window, the interval and one
\* round: retention prolongs nothing (_collect_surface).
THEOREM SurfaceStaysYoung == Spec => []SurfaceIsYoung
<1>1. WeatherInv /\ NobodyStarves => SurfaceIsYoung
  <2> SUFFICES ASSUME WeatherInv, NobodyStarves, enabled # None, "surface" \in enabled,
                      Usable("surface")
               PROVE  now - Report.freshest <= MaxAge + Interval["surface"] + Round
    BY DEF SurfaceIsYoung, Report
  <2>1. Shape /\ SurfaceIsDated /\ now <= due["surface"] + Round
    BY DEF WeatherInv, Grounds, NobodyStarves
  <2>2. /\ now \in Nat /\ due["surface"] \in Nat /\ Interval["surface"] \in Nat
        /\ MaxAge \in Nat /\ Round \in Nat
    BY <2>1, SourcesAre, TurnsAre, TakesAre, ClockAssumption DEF Shape, TakesAddUp
  <2>3. \/ Young(Report)
        \/ /\ Report # None
           /\ due["surface"] <= Report.freshest + MaxAge + Interval["surface"]
    BY <2>1 DEF SurfaceIsDated
  <2>4. Report \in SurfaceStates
    BY <2>1, <2>3, EntitiesAre, KindsAre DEF Shape, WorldOk, IsOf, Young, Report, Value
  <2>5. Report.freshest \in Int
    BY <2>4 DEF SurfaceStates
  <2> QED BY <2>1, <2>2, <2>3, <2>5 DEF Young
<1> QED BY <1>1, WeatherIsCoherent, NobodyWaitsLonger, PTL
=============================================================================
