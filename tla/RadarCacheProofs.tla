-------------------------- MODULE RadarCacheProofs --------------------------
(***************************************************************************)
(* Theorems about RadarCache, for every set of images, overlays, legends   *)
(* and contexts, every set of capacities, and any number of processes.     *)
(***************************************************************************)
EXTENDS RadarCache, SequenceTheorems, FiniteSetTheorems, WellFoundedInduction, TLAPS

-----------------------------------------------------------------------------
(* The loop of frames                                                      *)

\* The longest tail of a sequence that has n elements at most.
LEMMA LatestIs ==
  ASSUME NEW S, NEW s \in Seq(S), NEW n \in Nat \ {0}
  PROVE  LET l == Latest(s, n)
         IN /\ l \in Seq(S)
            /\ Len(l) <= n
            /\ \A i \in DOMAIN l : \E j \in DOMAIN s : l[i] = s[j]
            /\ s # <<>> => l # <<>> /\ l[Len(l)] = s[Len(s)]
            /\ Len(s) <= n => l = s
<1> DEFINE m == Len(s) - n + 1
           from == Max({1, m})
           l == SubSeq(s, from, Len(s))
<1>1. Len(s) \in Nat /\ m \in Int
  OBVIOUS
<1>2. from \in {1, m} /\ from >= 1 /\ from >= m
  <2>1. \E x \in {1, m} : \A y \in {1, m} : x >= y
    BY <1>1
  <2> HIDE DEF m
  <2>2. from \in {1, m} /\ \A y \in {1, m} : from >= y
    BY <2>1 DEF Max
  <2> QED BY <2>2
<1>3. from \in Nat
  BY <1>1, <1>2
<1> HIDE DEF from
<1>4. \A i \in from .. Len(s) : s[i] \in S
  BY <1>2, <1>3
<1>5. /\ l \in Seq(S)
      /\ Len(l) = IF from <= Len(s) THEN Len(s) - from + 1 ELSE 0
      /\ \A i \in 1 .. Len(s) - from + 1 : l[i] = s[from + i - 1]
  BY <1>1, <1>3, <1>4, SubSeqProperties
<1> HIDE DEF l
<1>6. Len(l) <= n
  BY <1>1, <1>2, <1>3, <1>5
<1>7. \A i \in DOMAIN l : \E j \in DOMAIN s : l[i] = s[j]
  <2> SUFFICES ASSUME NEW i \in DOMAIN l PROVE \E j \in DOMAIN s : l[i] = s[j]
    OBVIOUS
  <2>1. i \in 1 .. Len(l) /\ from <= Len(s)
    BY <1>1, <1>3, <1>5
  <2>2. from + i - 1 \in DOMAIN s
    BY <1>1, <1>2, <1>3, <1>5, <2>1
  <2> QED BY <1>1, <1>3, <1>5, <2>1, <2>2
<1>8. ASSUME s # <<>> PROVE l # <<>> /\ l[Len(l)] = s[Len(s)]
  <2>1. Len(s) >= 1 /\ from <= Len(s)
    BY <1>1, <1>2, <1>8
  <2>2. Len(l) = Len(s) - from + 1 /\ Len(l) \in 1 .. Len(s) - from + 1
    BY <1>1, <1>3, <1>5, <2>1
  <2>3. l[Len(l)] = s[from + Len(l) - 1] /\ from + Len(l) - 1 = Len(s)
    BY <1>1, <1>3, <1>5, <2>2
  <2> QED BY <2>2, <2>3
<1>9. ASSUME Len(s) <= n PROVE l = s
  <2>1. from = 1
    BY <1>1, <1>2, <1>9
  <2> QED BY <2>1, SubSeqFull DEF l
<1> QED BY <1>5, <1>6, <1>7, <1>8, <1>9 DEF Latest, l, from

LEMMA SmallestIs ==
  ASSUME NEW T, T \subseteq Nat, T # {}
  PROVE  \E x \in T : \A y \in T : x <= y
<1>1. PICK x \in T : \A y \in T : ~ (<<y, x>> \in OpToRel(<, Nat))
  BY WFMin, NatLessThanWellFounded, Zenon
<1>2. \A y \in T : ~ (y < x)
  BY <1>1, Zenon DEF OpToRel
<1> QED BY <1>2

\* Every frame that the manifest names is there, and so are the overlays.
Sound ==
  \A i \in DOMAIN files.manifest :
    /\ files.manifest[i].image \in files.frames
    /\ files.manifest[i].warning \in files.warnings \union {None}

\* Of a sound manifest everything is loaded that the capacity allows.
LEMMA LoadedIs ==
  ASSUME files.manifest \in Seq(Frames), Sound
  PROVE  LoadManifest = Latest(files.manifest, config.capacity)
<1> DEFINE m == files.manifest
           n == Len(m)
           Step(F, i) == IF i = 0 THEN <<>>
                         ELSE IF m[i].image \in files.frames
                         THEN Append(F[i - 1], Overlaid(m[i]))
                         ELSE F[i - 1]
           loaded == CHOOSE F : F = [i \in 0 .. n |-> Step(F, i)]
           G == [i \in 0 .. n |-> SubSeq(m, 1, i)]
<1>1. n \in Nat
  OBVIOUS
<1>2. \A i \in 1 .. n : Overlaid(m[i]) = m[i] /\ m[i].image \in files.frames
  <2> SUFFICES ASSUME NEW i \in 1 .. n
               PROVE  Overlaid(m[i]) = m[i] /\ m[i].image \in files.frames
    OBVIOUS
  <2>1. m[i] \in Frames /\ i \in DOMAIN m
    OBVIOUS
  <2>2. m[i].image \in files.frames /\ m[i].warning \in files.warnings \union {None}
    BY <2>1 DEF Sound
  <2>3. m[i].warning = None => [m[i] EXCEPT !.warning = None] = m[i]
    BY <2>1 DEF Frames
  <2> QED BY <2>2, <2>3 DEF Overlaid
<1>3. \A i \in 1 .. n : SubSeq(m, 1, i) = Append(SubSeq(m, 1, i - 1), m[i])
  <2> SUFFICES ASSUME NEW i \in 1 .. n
               PROVE  SubSeq(m, 1, i) = Append(SubSeq(m, 1, i - 1), m[i])
    OBVIOUS
  <2>1. SubSeq(m, 1, i) = SubSeq(m, 1, i - 1) \o <<m[i]>>
    BY <1>1, SubSeqRecursiveSecond
  <2> QED BY <2>1, <1>1
<1>4. SubSeq(m, 1, 0) = <<>>
  OBVIOUS
<1>5. G = [i \in 0 .. n |-> Step(G, i)]
  <2> SUFFICES ASSUME NEW i \in 0 .. n PROVE SubSeq(m, 1, i) = Step(G, i)
    OBVIOUS
  <2>1. CASE i = 0
    BY <2>1, <1>4
  <2>2. CASE i # 0
    <3>1. i \in 1 .. n /\ i - 1 \in 0 .. n
      BY <1>1, <2>2
    <3> QED BY <3>1, <1>2, <1>3
  <2> QED BY <2>1, <2>2
<1>6. loaded = [i \in 0 .. n |-> Step(loaded, i)]
  BY <1>5
<1> HIDE DEF loaded
<1>7. \A i \in 0 .. n : loaded[i] = SubSeq(m, 1, i)
  <2> DEFINE Bad == {i \in 0 .. n : loaded[i] # SubSeq(m, 1, i)}
  <2> SUFFICES ASSUME Bad # {} PROVE FALSE
    OBVIOUS
  <2> Bad \subseteq Nat
    BY <1>1
  <2> HIDE DEF Bad
  <2>1. PICK i \in Bad : \A j \in Bad : i <= j
    BY SmallestIs
  <2> USE DEF Bad
  <2>2. CASE i = 0
    BY <2>1, <2>2, <1>4, <1>6
  <2>3. CASE i # 0
    <3>1. i \in 1 .. n /\ i - 1 \in 0 .. n /\ i - 1 \notin Bad
      BY <1>1, <2>1, <2>3
    <3>2. loaded[i - 1] = SubSeq(m, 1, i - 1)
      BY <3>1
    <3>3. loaded[i] = Step(loaded, i)
      BY <3>1, <1>6
    <3>4. Step(loaded, i) = Append(loaded[i - 1], m[i])
      BY <3>1, <2>3, <1>2
    <3> QED BY <3>1, <3>2, <3>3, <3>4, <1>3, <2>1
  <2> QED BY <2>2, <2>3
<1>8. loaded[n] = m
  BY <1>1, <1>7, SubSeqFull
<1>9. LoadManifest = Latest(loaded[n], config.capacity)
  BY DEF LoadManifest, loaded
<1> QED BY <1>8, <1>9

-----------------------------------------------------------------------------
(* The inductive invariant                                                 *)
(*                                                                         *)
(* That a page gets what it asks for is a matter of who still refers to a  *)
(* file when it is unlinked: the manifest, the state of the world, and the *)
(* page that was loaded before that state.  What the worker has in hand    *)
(* connects them: the frames it found in the manifest are the ones of a    *)
(* state that may be believed, until its own are published.                *)

Places == {"idle", "legend", "frame", "warning", "manifest", "prune", "publish",
           "qualify", "context"}
Availabilities == {None, "current", "degraded", "unavailable"}
Worlds ==
  [radar   : [state : Mosaics \union {None}, availability : Availabilities],
   context : [state : Context \union {None}, availability : Availabilities]]

Configs ==
  {c \in [capacity : Capacities, radar : BOOLEAN, context : BOOLEAN] :
     c.context => c.radar}
Caches  ==
  [frames : SUBSET Image, warnings : SUBSET Warning, legend : Legend \union {None},
   manifest : Seq(Frames), context : Context \union {None}]
Workers ==
  [at : Places, radar : Image \union {None}, warning : Warning \union {None},
   legend : Legend \union {None}, before : Seq(Frames), frames : Seq(Frames)]

Typed ==
  /\ config \in Configs \union {None}
  /\ files \in Caches
  /\ worker \in Workers
  /\ world \in Worlds /\ disk \in Worlds
  /\ page \in Mosaics \union {None}

\* A worker works for a process that has the radar.
Working == worker.at # "idle" => Up /\ config.radar
Gone    == ~Up => page = None

\* Every element of frames can be read in a cache.
Readable(cache, frames) ==
  \A i \in DOMAIN frames :
    /\ frames[i].image \in cache.frames
    /\ frames[i].warning \in cache.warnings \union {None}

\* The image and the overlay of a mosaic are a frame of its loop.
InLoop(frames, image, warning) ==
  \E i \in DOMAIN frames : frames[i].image = image /\ frames[i].warning = warning

\* What the worker has written so far of what it has retrieved.
Asking == worker.at \in {"legend", "frame", "warning", "manifest"}
Recording == worker.at \in {"prune", "publish", "qualify"}

Written ==
  /\ Asking \/ Recording => worker.radar \in Image
  /\ worker.at = "legend" /\ files.legend # None => worker.legend = files.legend
  /\ worker.at \in {"frame", "warning", "manifest"} \/ Recording =>
       worker.legend = files.legend
  /\ worker.at \in {"warning", "manifest"} => worker.radar \in files.frames
  /\ worker.at = "manifest" =>
       worker.warning \in files.warnings \union {None}

\* The new loop, the one before it, and what is left when both were pruned.
LoopRecorded ==
  Recording =>
    /\ files.manifest = worker.frames
    /\ Readable(files, worker.before)
    /\ InLoop(worker.frames, worker.radar, worker.warning)
    /\ \A i \in DOMAIN worker.frames :
         \/ worker.frames[i].image = worker.radar
         \/ \E j \in DOMAIN worker.before :
              worker.before[j].image = worker.frames[i].image
    /\ Len(worker.before) <= config.capacity
    /\ Len(worker.frames) <= config.capacity

PrunedWell ==
  worker.at \in {"publish", "qualify"} =>
    files.frames \subseteq Images(Kept(worker.before, worker.frames))

\* What a cache has of a mosaic, apart from its loop.
Founded(cache, m) ==
  /\ InLoop(m.frames, m.radar, m.warning)
  /\ m.legend # None => cache.legend = m.legend

\* The loop of a state that may be believed is the one of the manifest, or the
\* one that the manifest had before the frame which is not yet published.
Published ==
  Up /\ config.radar /\ Usable(world.radar) =>
    LET m == world.radar.state
    IN /\ m # None /\ Founded(files, m)
       /\ m.frames = IF worker.at \in {"prune", "publish"} THEN worker.before
                     ELSE files.manifest
       /\ Len(m.frames) <= config.capacity

Qualified == worker.at = "qualify" => world.radar.state = MosaicState

\* Nothing is unlinked that a page was promised.
Promised ==
  page # None =>
    /\ Founded(files, page) /\ Readable(files, page.frames)
    /\ worker.at \notin {"prune", "publish"}

Believable ==
  \A w \in {world, disk} : Usable(w.radar) => w.radar.state # None

RadarInv ==
  /\ Typed /\ Working /\ Gone /\ Sound /\ Written /\ LoopRecorded /\ PrunedWell
  /\ Published /\ Qualified /\ Promised /\ Believable /\ UsableContextIsServed
  /\ \E n \in Capacities : Len(files.manifest) <= n
  /\ boots \in 0 .. Boots /\ fetched \in 0 .. Retrievals

LEMMA EmptyLoop == <<>> \in Seq(Frames)
OBVIOUS

LEMMA InitRadar == Init => RadarInv
<1> SUFFICES ASSUME Init PROVE RadarInv
  OBVIOUS
<1> USE DEF Init, NoFiles, NoWorld, Claim, Idle
<1>1. Typed
  BY DEF Typed, Configs, Workers, Caches, Worlds, Places, Availabilities
<1>2. Working /\ Gone /\ Sound /\ Written /\ LoopRecorded /\ PrunedWell
  BY DEF Working, Gone, Sound, Written, LoopRecorded, PrunedWell, Recording, Asking
<1>3. Published /\ Qualified /\ Promised /\ Believable /\ UsableContextIsServed
  BY NoneAssumption DEF Published, Qualified, Promised, Believable, UsableContextIsServed, Up, Usable
<1>4. \E n \in Capacities : Len(files.manifest) <= n
  <2>1. PICK n \in Capacities : n \in Nat
    BY CapacityAssumption
  <2>2. Len(files.manifest) = 0
    OBVIOUS
  <2> QED BY <2>1, <2>2
<1> QED BY <1>1, <1>2, <1>3, <1>4, BoundsAssumption DEF RadarInv

LEMMA StepFetch ==
  ASSUME RadarInv, NEW image \in Image, NEW warning \in Warning \union {None},
         NEW legend \in Legend \union {None}, Fetch(image, warning, legend)
  PROVE  RadarInv'
<1> USE DEF Fetch, RadarInv, Idle, At
<1>1. Typed'
  <2>1. worker' = [at |-> "legend", radar |-> image, warning |-> warning,
                   legend |-> legend, before |-> <<>>, frames |-> <<>>]
    OBVIOUS
  <2>2. worker' \in Workers
    <3>1. <<>> \in Seq(Frames)
      OBVIOUS
    <3> HIDE DEF RadarInv, Fetch
    <3> QED BY <2>1, <3>1 DEF Workers, Places
  <2> QED BY <2>2 DEF Typed
<1>2. Working' /\ Gone' /\ Sound' /\ Written' /\ LoopRecorded' /\ PrunedWell'
  BY DEF Typed, Working, Gone, Sound, Written, LoopRecorded, PrunedWell, Recording, Asking, Up
<1>3. Published' /\ Qualified' /\ Promised' /\ Believable' /\ UsableContextIsServed'
  BY DEF Typed, Published, Qualified, Promised, Believable, UsableContextIsServed, Up,
         Usable, Founded, InLoop, Readable
<1> QED BY <1>1, <1>2, <1>3, BoundsAssumption DEF RadarInv

LEMMA StepLegend == RadarInv /\ WriteLegend => RadarInv'
<1> SUFFICES ASSUME RadarInv, WriteLegend PROVE RadarInv'
  OBVIOUS
<1> USE DEF WriteLegend, RadarInv, Goes, At
<1>1. Typed'
  <2>1. worker' \in Workers /\ files' \in Caches
    BY DEF Typed, Workers, Caches, Places
  <2> QED BY <2>1 DEF Typed
<1>2. Working' /\ Gone' /\ Sound' /\ Written' /\ LoopRecorded' /\ PrunedWell'
  BY DEF Typed, Working, Gone, Sound, Written, LoopRecorded, PrunedWell, Recording, Asking, Up
<1>3. Published' /\ Qualified' /\ Promised' /\ Believable' /\ UsableContextIsServed'
  BY DEF Typed, Published, Qualified, Promised, Believable, UsableContextIsServed, Up,
         Usable, Founded, InLoop, Readable, Written
<1> QED BY <1>1, <1>2, <1>3, BoundsAssumption DEF RadarInv, bounds

\* What is in the loop when a frame was recorded.
LEMMA RecordedIs ==
  ASSUME NEW previous \in Seq(Frames), NEW frame \in Frames,
         config.capacity \in Nat \ {0}, Len(previous) <= config.capacity
  PROVE  LET r == Recorded(previous, frame)
         IN /\ r \in Seq(Frames)
            /\ Len(r) <= config.capacity
            /\ \E i \in DOMAIN r : r[i] = frame
            /\ \A i \in DOMAIN r :
                 r[i] = frame \/ \E j \in DOMAIN previous : r[i] = previous[j]
<1>1. CASE previous # <<>> /\ previous[Len(previous)] = frame
  <2>1. Recorded(previous, frame) = previous
    BY <1>1 DEF Recorded
  <2>2. Len(previous) \in DOMAIN previous
    BY <1>1
  <2> QED BY <1>1, <2>1, <2>2
<1>2. CASE ~(previous # <<>> /\ previous[Len(previous)] = frame)
  <2> DEFINE longer == Append(previous, frame)
             r == Latest(longer, config.capacity)
  <2>1. Recorded(previous, frame) = r
    BY <1>2 DEF Recorded
  <2>0. longer \in Seq(Frames) /\ longer # <<>>
    OBVIOUS
  <2>2. /\ longer[Len(longer)] = frame
        /\ \A i \in DOMAIN longer :
             longer[i] = frame \/ \E j \in DOMAIN previous : longer[i] = previous[j]
    OBVIOUS
  <2> HIDE DEF longer
  <2>3. /\ r \in Seq(Frames) /\ Len(r) <= config.capacity
        /\ \A i \in DOMAIN r : \E j \in DOMAIN longer : r[i] = longer[j]
        /\ r # <<>> /\ r[Len(r)] = longer[Len(longer)]
    BY <2>0, LatestIs
  <2> HIDE DEF r
  <2>4. Len(r) \in DOMAIN r
    BY <2>3
  <2> QED BY <2>1, <2>2, <2>3, <2>4
<1> QED BY <1>1, <1>2

\* The images and overlays of two loops.
LEMMA KeptIs ==
  ASSUME NEW p \in Seq(Frames), NEW f \in Seq(Frames)
  PROVE  /\ Images(Kept(p, f)) = Images(p) \union Images(f)
         /\ Warnings(Kept(p, f)) = Warnings(p) \union Warnings(f)
<1> DEFINE k == p \o f
<1>1. /\ k \in Seq(Frames) /\ Len(k) = Len(p) + Len(f)
      /\ \A i \in 1 .. Len(p) + Len(f) :
           k[i] = IF i <= Len(p) THEN p[i] ELSE f[i - Len(p)]
  BY ConcatProperties
<1> HIDE DEF k
<1>2. \A i \in DOMAIN k : (\E j \in DOMAIN p : k[i] = p[j]) \/ (\E j \in DOMAIN f : k[i] = f[j])
  <2> SUFFICES ASSUME NEW i \in DOMAIN k
               PROVE  (\E j \in DOMAIN p : k[i] = p[j]) \/ (\E j \in DOMAIN f : k[i] = f[j])
    OBVIOUS
  <2>1. i \in 1 .. Len(p) + Len(f)
    BY <1>1
  <2>2. CASE i <= Len(p)
    BY <1>1, <2>1, <2>2
  <2>3. CASE ~(i <= Len(p))
    <3>1. i - Len(p) \in DOMAIN f
      BY <2>1, <2>3
    <3> QED BY <1>1, <2>1, <2>3, <3>1
  <2> QED BY <2>2, <2>3
<1>3. \A j \in DOMAIN p : j \in DOMAIN k /\ k[j] = p[j]
  BY <1>1
<1>4. \A j \in DOMAIN f : j + Len(p) \in DOMAIN k /\ k[j + Len(p)] = f[j]
  BY <1>1
<1>5. Images(k) = Images(p) \union Images(f)
  BY <1>2, <1>3, <1>4 DEF Images
<1>6. Warnings(k) = Warnings(p) \union Warnings(f)
  BY <1>2, <1>3, <1>4 DEF Warnings
<1> QED BY <1>5, <1>6 DEF Kept, k

\* One file operation after the other.
LEMMA StepFrame == RadarInv /\ WriteFrame => RadarInv'
<1> SUFFICES ASSUME RadarInv, WriteFrame PROVE RadarInv'
  OBVIOUS
<1> USE DEF WriteFrame, RadarInv, Goes, At, bounds
<1>1. Typed'
  <2>1. worker' \in Workers /\ files' \in Caches
    BY DEF Typed, Workers, Caches, Places, Written, Asking
  <2> QED BY <2>1 DEF Typed
<1>2. Working' /\ Gone' /\ Sound' /\ Written' /\ LoopRecorded' /\ PrunedWell'
  BY DEF Typed, Working, Gone, Sound, Written, LoopRecorded, PrunedWell, Recording, Asking, Up, Readable
<1>3. Published' /\ Qualified' /\ Promised' /\ Believable' /\ UsableContextIsServed'
  BY DEF Typed, Published, Qualified, Promised, Believable, UsableContextIsServed, Up,
         Usable, Founded, InLoop, Readable, Written
<1> QED BY <1>1, <1>2, <1>3, BoundsAssumption DEF RadarInv, bounds

LEMMA StepWarning == RadarInv /\ WriteWarning => RadarInv'
<1> SUFFICES ASSUME RadarInv, WriteWarning PROVE RadarInv'
  OBVIOUS
<1> USE DEF WriteWarning, RadarInv, Goes, At, bounds
<1>1. Typed'
  <2>1. worker' \in Workers /\ files' \in Caches
    BY DEF Typed, Workers, Caches, Places, Written, Asking
  <2> QED BY <2>1 DEF Typed
<1>2. Working' /\ Gone' /\ Sound' /\ Written' /\ LoopRecorded' /\ PrunedWell'
  BY DEF Typed, Working, Gone, Sound, Written, LoopRecorded, PrunedWell, Recording, Asking, Up, Readable
<1>3. Published' /\ Qualified' /\ Promised' /\ Believable' /\ UsableContextIsServed'
  BY DEF Typed, Published, Qualified, Promised, Believable, UsableContextIsServed, Up,
         Usable, Founded, InLoop, Readable, Written
<1> QED BY <1>1, <1>2, <1>3, BoundsAssumption DEF RadarInv, bounds

LEMMA StepManifest == RadarInv /\ WriteManifest => RadarInv'
<1> SUFFICES ASSUME RadarInv, WriteManifest PROVE RadarInv'
  OBVIOUS
<1> USE DEF RadarInv
<1> DEFINE m == files.manifest
           before == LoadManifest
           frame == Frame(worker.radar, worker.warning)
           frames == Recorded(before, frame)
<1>1. /\ At("manifest") /\ page' = None
      /\ files' = [files EXCEPT !.manifest = frames]
      /\ worker' = [worker EXCEPT !.at = "prune", !.before = before, !.frames = frames]
      /\ UNCHANGED <<config, world, disk, bounds>>
  BY DEF WriteManifest
<1>2. /\ Up /\ config.radar /\ worker.at = "manifest"
      /\ worker \in Workers /\ files \in Caches
      /\ config.capacity \in Capacities /\ config.capacity \in Nat \ {0}
  BY <1>1, CapacityAssumption DEF At, Working, Typed, Up, Configs
<1>3. /\ worker.radar \in Image /\ worker.radar \in files.frames
      /\ worker.warning \in files.warnings \union {None}
      /\ worker.legend = files.legend
  BY <1>2 DEF Written, Asking
<1>4. m \in Seq(Frames) /\ frame \in Frames
  BY <1>2, <1>3 DEF Caches, Workers, Frame, Frames
<1>5. before = Latest(m, config.capacity)
  BY <1>4, LoadedIs
<1>6. /\ before \in Seq(Frames)
      /\ Len(before) <= config.capacity
      /\ \A i \in DOMAIN before : \E j \in DOMAIN m : before[i] = m[j]
      /\ Len(m) <= config.capacity => before = m
  BY <1>2, <1>4, <1>5, LatestIs
<1> HIDE DEF before
<1>7. /\ frames \in Seq(Frames)
      /\ Len(frames) <= config.capacity
      /\ \E i \in DOMAIN frames : frames[i] = frame
      /\ \A i \in DOMAIN frames :
           frames[i] = frame \/ \E j \in DOMAIN before : frames[i] = before[j]
  BY <1>2, <1>4, <1>6, RecordedIs
<1>8. frame.image = worker.radar /\ frame.warning = worker.warning
  BY DEF Frame
<1> HIDE DEF frames, frame, m
<1>9. /\ worker'.at = "prune" /\ worker'.before = before /\ worker'.frames = frames
      /\ worker'.radar = worker.radar /\ worker'.warning = worker.warning
      /\ worker'.legend = worker.legend
      /\ worker' \in Workers
  BY <1>1, <1>2, <1>6, <1>7 DEF Workers, Places
<1>10. /\ files' \in Caches /\ files'.manifest = frames
       /\ files'.frames = files.frames /\ files'.warnings = files.warnings
       /\ files'.legend = files.legend /\ files'.context = files.context
  BY <1>1, <1>2, <1>7 DEF Caches
<1>11. Typed'
  BY <1>1, <1>9, <1>10 DEF Typed
<1>12. Readable(files, before)
  BY <1>6 DEF Readable, Sound, m
<1>13. Readable(files', before) /\ Readable(files', frames) /\ Sound'
  BY <1>3, <1>7, <1>8, <1>10, <1>12 DEF Readable, Sound
<1>14. Working' /\ Gone' /\ Written' /\ PrunedWell' /\ Qualified' /\ Promised'
  BY <1>1, <1>2, <1>3, <1>9, <1>10
     DEF Working, Gone, Up, Written, Asking, Recording, PrunedWell, Qualified, Promised
<1>15. LoopRecorded'
  <2>1. InLoop(frames, worker.radar, worker.warning)
    BY <1>7, <1>8 DEF InLoop
  <2>2. \A i \in DOMAIN frames :
          \/ frames[i].image = worker.radar
          \/ \E j \in DOMAIN before : before[j].image = frames[i].image
    BY <1>7, <1>8
  <2> QED BY <1>1, <1>6, <1>7, <1>9, <1>10, <1>13, <2>1, <2>2
          DEF LoopRecorded
<1>16. Published'
  <2> SUFFICES ASSUME Usable(world.radar)
               PROVE  LET s == world.radar.state
                      IN /\ s # None /\ Founded(files', s)
                         /\ s.frames = before /\ Len(s.frames) <= config.capacity
    BY <1>1, <1>9 DEF Published, Founded
  <2>1. /\ world.radar.state # None /\ Founded(files, world.radar.state)
        /\ world.radar.state.frames = m /\ Len(m) <= config.capacity
    BY <1>2 DEF Published, m
  <2> QED BY <1>6, <1>10, <2>1 DEF Founded
<1>17. Believable' /\ UsableContextIsServed'
  BY <1>1, <1>2, <1>9, <1>10 DEF Believable, UsableContextIsServed, Up
<1> QED BY <1>1, <1>2, <1>7, <1>10, <1>11, <1>13, <1>14, <1>15, <1>16, <1>17
        DEF bounds

\* What is unlinked is in neither loop.
LEMMA SuperfluousIs ==
  ASSUME worker \in Workers
  PROVE  /\ \A i \in DOMAIN worker.before :
              /\ worker.before[i].image \notin Superfluous.frames
              /\ worker.before[i].warning \notin Superfluous.warnings \ {None}
         /\ \A i \in DOMAIN worker.frames :
              /\ worker.frames[i].image \notin Superfluous.frames
              /\ worker.frames[i].warning \notin Superfluous.warnings \ {None}
<1> DEFINE p == worker.before
           f == worker.frames
<1>1. p \in Seq(Frames) /\ f \in Seq(Frames)
  BY DEF Workers
<1>2. /\ Superfluous.frames = files.frames \ (Images(p) \union Images(f))
      /\ Superfluous.warnings = files.warnings \ (Warnings(p) \union Warnings(f))
  BY <1>1, KeptIs DEF Superfluous
<1> QED BY <1>2 DEF Images, Warnings

\* Pruning takes from the cache what is in neither loop.
LEMMA StepPrune ==
  ASSUME RadarInv, At("prune"), NEW F \in SUBSET Superfluous.frames,
         NEW W \in SUBSET Superfluous.warnings,
         files' = [files EXCEPT !.frames = @ \ F, !.warnings = @ \ W],
         UNCHANGED <<config, worker, world, disk, boots, fetched, page>>
  PROVE  RadarInv'
<1> USE DEF RadarInv, At
<1>1. /\ files \in Caches /\ worker \in Workers /\ Recording
      /\ worker.at = "prune" /\ config # None
  BY DEF Typed, Recording, Up
<1>2. /\ files' \in Caches /\ files'.manifest = files.manifest
      /\ files'.frames = files.frames \ F
      /\ files'.warnings = files.warnings \ W
      /\ files'.legend = files.legend /\ files'.context = files.context
  BY <1>1 DEF Caches
<1>3. Typed' /\ Working' /\ Gone'
  BY <1>2 DEF Typed, Working, Gone, Up
<1>4. Sound' /\ Readable(files', worker.before)
  <2>1. Readable(files, worker.before) /\ files.manifest = worker.frames
    BY <1>1 DEF LoopRecorded
  <2>2. /\ \A k \in DOMAIN worker.before :
             /\ worker.before[k].image \notin F
             /\ worker.before[k].warning \notin W \ {None}
        /\ \A k \in DOMAIN worker.frames :
             /\ worker.frames[k].image \notin F
             /\ worker.frames[k].warning \notin W \ {None}
    BY <1>1, SuperfluousIs
  <2> QED BY <1>2, <2>1, <2>2 DEF Sound, Readable
<1>5. LoopRecorded'
  BY <1>1, <1>2, <1>4 DEF LoopRecorded, Recording
<1>6. Written' /\ PrunedWell' /\ Qualified' /\ Promised'
  BY <1>1, <1>2 DEF Written, PrunedWell, Qualified, Promised, Recording, Asking
<1>7. Published'
  BY <1>1, <1>2 DEF Published, Founded
<1>8. Believable' /\ UsableContextIsServed'
  BY <1>2 DEF Believable, UsableContextIsServed, Up
<1> QED BY <1>2, <1>3, <1>4, <1>5, <1>6, <1>7, <1>8

LEMMA StepPruneImage ==
  ASSUME RadarInv, NEW image \in Image, PruneImage(image)
  PROVE  RadarInv'
<1>1. files \in Caches
  BY DEF RadarInv, Typed
<1>2. files' = [files EXCEPT !.frames = @ \ {image}, !.warnings = @ \ {}]
  BY <1>1 DEF PruneImage, Caches
<1>3. {image} \in SUBSET Superfluous.frames /\ {} \in SUBSET Superfluous.warnings
  BY DEF PruneImage
<1>4. At("prune") /\ UNCHANGED <<config, worker, world, disk, boots, fetched, page>>
  BY DEF PruneImage, bounds
<1> QED BY <1>2, <1>3, <1>4, StepPrune

LEMMA StepPruneWarning ==
  ASSUME RadarInv, NEW warning \in Warning, PruneWarning(warning)
  PROVE  RadarInv'
<1>1. files \in Caches
  BY DEF RadarInv, Typed
<1>2. files' = [files EXCEPT !.frames = @ \ {}, !.warnings = @ \ {warning}]
  BY <1>1 DEF PruneWarning, Caches
<1>3. {} \in SUBSET Superfluous.frames /\ {warning} \in SUBSET Superfluous.warnings
  BY DEF PruneWarning
<1>4. At("prune") /\ UNCHANGED <<config, worker, world, disk, boots, fetched, page>>
  BY DEF PruneWarning, bounds
<1> QED BY <1>2, <1>3, <1>4, StepPrune

LEMMA StepPruned == RadarInv /\ Pruned => RadarInv'
<1> SUFFICES ASSUME RadarInv, Pruned PROVE RadarInv'
  OBVIOUS
<1> USE DEF RadarInv
<1>1. /\ Superfluous.frames = {} /\ worker.at = "prune"
      /\ worker' = [worker EXCEPT !.at = "publish"]
      /\ UNCHANGED <<config, files, world, disk, boots, fetched, page>>
      /\ worker \in Workers /\ config # None
  BY DEF Pruned, Goes, At, Up, bounds, Typed
<1>2. /\ worker' \in Workers /\ worker'.at = "publish"
      /\ worker'.radar = worker.radar /\ worker'.warning = worker.warning
      /\ worker'.legend = worker.legend
      /\ worker'.before = worker.before /\ worker'.frames = worker.frames
  BY <1>1 DEF Workers, Places
<1>3. Typed' /\ Working' /\ Gone' /\ Sound' /\ Written'
  BY <1>1, <1>2 DEF Typed, Working, Gone, Sound, Written, Recording, Asking, Up
<1>4. LoopRecorded'
  BY <1>1, <1>2 DEF LoopRecorded, Recording
<1>5. PrunedWell'
  BY <1>1, <1>2 DEF PrunedWell, Superfluous
<1>6. Published' /\ Qualified' /\ Promised' /\ Believable' /\ UsableContextIsServed'
  BY <1>1, <1>2 DEF Published, Qualified, Promised, Believable, UsableContextIsServed, Up
<1> QED BY <1>1, <1>3, <1>4, <1>5, <1>6

LEMMA StepPublish == RadarInv /\ Publish => RadarInv'
<1> SUFFICES ASSUME RadarInv, Publish PROVE RadarInv'
  OBVIOUS
<1> USE DEF RadarInv
<1> DEFINE m == MosaicState
<1>1. /\ worker.at = "publish"
      /\ worker' = [worker EXCEPT !.at = "qualify"]
      /\ page' = IF Usable(world.radar) THEN world.radar.state ELSE None
      /\ world' = [world EXCEPT !.radar.state = m]
      /\ UNCHANGED <<config, files, disk, boots, fetched>>
      /\ worker \in Workers /\ world \in Worlds /\ config # None
  BY DEF Publish, Goes, At, Up, bounds, Typed
<1>2. /\ worker' \in Workers /\ worker'.at = "qualify"
      /\ worker'.radar = worker.radar /\ worker'.warning = worker.warning
      /\ worker'.legend = worker.legend
      /\ worker'.before = worker.before /\ worker'.frames = worker.frames
  BY <1>1 DEF Workers, Places
<1>3. /\ m.radar = worker.radar /\ m.warning = worker.warning
      /\ m.legend = worker.legend /\ m.frames = worker.frames
      /\ m = MosaicState'
  BY <1>2 DEF MosaicState
<1>4. m \in Mosaics /\ m # None
  <2>1. worker.radar \in Image
    BY <1>1 DEF Written, Recording
  <2> QED BY <1>1, <2>1, NoneAssumption DEF MosaicState, Mosaics, Workers
<1> HIDE DEF m
<1>5. /\ world' \in Worlds /\ world'.radar.state = m
      /\ world'.radar.availability = world.radar.availability
      /\ world'.context = world.context
  BY <1>1, <1>4 DEF Worlds
<1>6. Usable(world'.radar) <=> Usable(world.radar)
  BY <1>5 DEF Usable
<1>7. page' \in Mosaics \union {None}
  BY <1>1 DEF Worlds
<1>8. Typed' /\ Working' /\ Gone' /\ Sound' /\ Written'
  BY <1>1, <1>2, <1>5, <1>7 DEF Typed, Working, Gone, Sound, Written, Recording, Asking, Up
<1>9. LoopRecorded /\ Recording
  BY <1>1 DEF Recording
<1>10. LoopRecorded' /\ PrunedWell'
  BY <1>1, <1>2, <1>9 DEF LoopRecorded, Recording, PrunedWell
<1>11. Published'
  <2>1. worker.legend = files.legend
    BY <1>9 DEF Written
  <2>2. Founded(files, m)
    BY <1>3, <1>9, <2>1 DEF Founded, LoopRecorded
  <2> QED BY <1>1, <1>2, <1>3, <1>4, <1>5, <1>9, <2>2 DEF Published, LoopRecorded
<1>12. Promised'
  <2> SUFFICES ASSUME page' # None
               PROVE  Founded(files, page') /\ Readable(files, page'.frames)
    BY <1>1, <1>2 DEF Promised
  <2>1. Usable(world.radar) /\ page' = world.radar.state
    BY <1>1
  <2>2. Founded(files, page') /\ page'.frames = worker.before
    BY <1>1, <2>1 DEF Published, Working, Up
  <2> QED BY <1>9, <2>2 DEF LoopRecorded
<1>13. Qualified'
  BY <1>3, <1>5 DEF Qualified
<1>14. Believable' /\ UsableContextIsServed'
  BY <1>1, <1>2, <1>4, <1>5, <1>6 DEF Believable, UsableContextIsServed, Up
<1> QED BY <1>1, <1>8, <1>10, <1>11, <1>12, <1>13, <1>14

LEMMA StepQualify == RadarInv /\ Qualify => RadarInv'
<1> SUFFICES ASSUME RadarInv, Qualify PROVE RadarInv'
  OBVIOUS
<1> USE DEF RadarInv
<1> DEFINE m == world.radar.state
           av == IF worker.warning = None THEN "degraded" ELSE "current"
<1>1. /\ worker.at = "qualify" /\ worker' = Idle
      /\ world' = [world EXCEPT !.radar.availability = av]
      /\ UNCHANGED <<config, files, disk, boots, fetched, page>>
      /\ worker \in Workers /\ world \in Worlds /\ config # None
  BY DEF Qualify, At, Up, bounds, Typed
<1>2. Recording /\ m = MosaicState
  BY <1>1 DEF Recording, Qualified
<1>3. /\ m.radar = worker.radar /\ m.warning = worker.warning
      /\ m.legend = worker.legend /\ m.frames = worker.frames
  BY <1>2 DEF MosaicState
<1>4. m # None
  <2>1. worker.radar \in Image
    BY <1>2 DEF Written
  <2>2. m \in Mosaics
    BY <1>1, <1>2, <2>1 DEF MosaicState, Mosaics, Workers
  <2> QED BY <2>2, NoneAssumption
<1> HIDE DEF m, av
<1>5. /\ world' \in Worlds /\ world'.radar.state = m
      /\ world'.context = world.context
  BY <1>1 DEF Worlds, Availabilities, av, m
<1>6. worker' \in Workers /\ worker'.at = "idle"
  BY <1>1, EmptyLoop DEF Idle, Workers, Places
<1>7. Typed' /\ Working' /\ Gone' /\ Sound' /\ Written' /\ LoopRecorded' /\ PrunedWell'
  BY <1>1, <1>5, <1>6
     DEF Typed, Working, Gone, Sound, Written, Recording, Asking, LoopRecorded, PrunedWell, Up
<1>8. Published'
  <2>1. /\ files.manifest = worker.frames /\ Len(worker.frames) <= config.capacity
        /\ InLoop(worker.frames, worker.radar, worker.warning)
        /\ worker.legend = files.legend
    BY <1>2 DEF LoopRecorded, Written
  <2>2. Founded(files, m)
    BY <1>3, <2>1 DEF Founded
  <2> QED BY <1>1, <1>3, <1>4, <1>5, <1>6, <2>1, <2>2 DEF Published
<1>9. Qualified' /\ Promised' /\ Believable' /\ UsableContextIsServed'
  BY <1>1, <1>4, <1>5, <1>6
     DEF Qualified, Promised, Believable, UsableContextIsServed, Up
<1> QED BY <1>1, <1>7, <1>8, <1>9

LEMMA StepCollectFails == RadarInv /\ CollectFails => RadarInv'
<1> SUFFICES ASSUME RadarInv, CollectFails PROVE RadarInv'
  OBVIOUS
<1> USE DEF RadarInv
<1>1. /\ worker' = Idle /\ page' = None /\ worker.at # "context"
      /\ world' = [world EXCEPT !.radar.availability = "unavailable"]
      /\ UNCHANGED <<config, files, disk, boots, fetched>>
      /\ worker \in Workers /\ world \in Worlds
  BY DEF CollectFails, bounds, Typed
<1>2. /\ world' \in Worlds /\ world'.radar.availability = "unavailable"
      /\ world'.context = world.context
  BY <1>1 DEF Worlds, Availabilities
<1>3. worker' \in Workers /\ worker'.at = "idle"
  BY <1>1, EmptyLoop DEF Idle, Workers, Places
<1>4. ~Usable(world'.radar)
  BY <1>2 DEF Usable
<1>5. Typed' /\ Working' /\ Gone' /\ Sound' /\ Written' /\ LoopRecorded' /\ PrunedWell'
  BY <1>1, <1>2, <1>3
     DEF Typed, Working, Gone, Sound, Written, Recording, Asking, LoopRecorded, PrunedWell, Up
<1>6. Published' /\ Qualified' /\ Promised' /\ Believable' /\ UsableContextIsServed'
  BY <1>1, <1>2, <1>3, <1>4
     DEF Published, Qualified, Promised, Believable, UsableContextIsServed, Up
<1> QED BY <1>1, <1>5, <1>6

\* A worker that has retrieved nothing of the radar.
LEMMA IdleAt ==
  ASSUME NEW at \in {"idle", "context"}
  PROVE  [Idle EXCEPT !.at = at] \in Workers /\ [Idle EXCEPT !.at = at].at = at
<1>1. [Idle EXCEPT !.at = at] =
        [at |-> at, radar |-> None, warning |-> None, legend |-> None,
         before |-> <<>>, frames |-> <<>>]
  BY DEF Idle
<1>2. at \in Places
  BY DEF Places
<1> QED BY <1>1, <1>2, EmptyLoop DEF Workers

\* A step that changes what there is of the context and nothing else.
LEMMA StepContext ==
  ASSUME RadarInv, NEW at \in {"idle", "context"}, worker.at \in {"idle", "context"},
         worker' = [Idle EXCEPT !.at = at],
         Up /\ config.radar,
         NEW file \in Context \union {None}, files' = [files EXCEPT !.context = file],
         NEW claim \in [state : Context \union {None}, availability : Availabilities],
         world' = [world EXCEPT !.context = claim],
         at = "idle" /\ Usable(claim) => claim.state = file,
         UNCHANGED <<config, disk, page, boots>>, fetched' \in 0 .. Retrievals
  PROVE  RadarInv'
<1> USE DEF RadarInv
<1>1. files \in Caches /\ world \in Worlds /\ worker \in Workers
  BY DEF Typed
<1>2. /\ world' \in Worlds /\ world'.radar = world.radar /\ world'.context = claim
  BY <1>1 DEF Worlds
<1>3. /\ files' \in Caches /\ files'.manifest = files.manifest
      /\ files'.frames = files.frames /\ files'.warnings = files.warnings
      /\ files'.legend = files.legend /\ files'.context = file
  BY <1>1 DEF Caches
<1>4. worker' \in Workers /\ worker'.at = at
  BY IdleAt
<1>5. Typed' /\ Working' /\ Gone' /\ Sound' /\ Written' /\ LoopRecorded' /\ PrunedWell'
  BY <1>1, <1>2, <1>3, <1>4
     DEF Typed, Working, Gone, Sound, Written, Recording, Asking, LoopRecorded, PrunedWell, Up
<1>6. Published' /\ Qualified'
  BY <1>1, <1>2, <1>3, <1>4 DEF Published, Qualified, Founded, Up
<1>7. Promised'
  BY <1>3, <1>4 DEF Promised, Founded, Readable
<1>8. Believable' /\ UsableContextIsServed'
  BY <1>2, <1>3, <1>4 DEF Believable, UsableContextIsServed, Up
<1> QED BY <1>3, <1>5, <1>6, <1>7, <1>8

LEMMA StepFetchContext ==
  ASSUME RadarInv, NEW context \in Context, FetchContext(context)
  PROVE  RadarInv'
<1>1. /\ world \in Worlds /\ fetched \in 0 .. Retrievals
      /\ worker.at = "idle" /\ Up /\ config.radar
  BY DEF RadarInv, Typed, Configs, FetchContext, At, Up
<1>2. /\ world.context \in [state : Context \union {None}, availability : Availabilities]
      /\ world' = [world EXCEPT !.context = world.context]
  BY <1>1 DEF Worlds, FetchContext
<1>3. fetched' \in 0 .. Retrievals
  BY <1>1, BoundsAssumption DEF FetchContext
<1> QED BY <1>1, <1>2, <1>3, StepContext DEF FetchContext

LEMMA StepPublishContext == RadarInv /\ PublishContext => RadarInv'
<1> SUFFICES ASSUME RadarInv, PublishContext PROVE RadarInv'
  OBVIOUS
<1> DEFINE claim == Claim(files.context, "current")
<1>1. /\ files \in Caches /\ fetched \in 0 .. Retrievals
      /\ worker.at = "context" /\ Up /\ config.radar
  BY DEF RadarInv, Typed, PublishContext, At, Working
<1>2. /\ files.context \in Context \union {None}
      /\ files' = [files EXCEPT !.context = files.context]
      /\ worker' = [Idle EXCEPT !.at = "idle"]
      /\ claim \in [state : Context \union {None}, availability : Availabilities]
      /\ claim.state = files.context
  BY <1>1 DEF Caches, PublishContext, Idle, Claim, Availabilities
<1> QED BY <1>1, <1>2, StepContext DEF PublishContext, bounds

LEMMA StepContextFails ==
  ASSUME RadarInv, NEW young \in BOOLEAN, ContextFails(young)
  PROVE  RadarInv'
<1> DEFINE claim == FallbackContext(young)
<1>1. /\ files \in Caches /\ world \in Worlds
      /\ worker.at = "idle" /\ Up /\ config.radar
      /\ UNCHANGED <<config, files, worker, disk, page, boots, fetched>>
      /\ world' = [world EXCEPT !.context = claim]
  BY DEF RadarInv, Typed, Configs, ContextFails, At, Up, bounds
<1>2. /\ claim \in [state : Context \union {None}, availability : Availabilities]
      /\ Usable(claim) => claim.state = files.context
  BY <1>1 DEF FallbackContext, Claim, Worlds, Caches, Availabilities, Usable
<1> HIDE DEF claim
<1> USE DEF RadarInv
<1>3. world' \in Worlds /\ world'.radar = world.radar /\ world'.context = claim
  BY <1>1, <1>2 DEF Worlds
<1>4. Typed' /\ Working' /\ Gone' /\ Sound' /\ Written' /\ LoopRecorded' /\ PrunedWell'
  BY <1>1, <1>3
     DEF Typed, Working, Gone, Sound, Written, Recording, Asking, LoopRecorded, PrunedWell, Up
<1>5. Published' /\ Qualified' /\ Promised'
  BY <1>1, <1>3 DEF Published, Qualified, Promised, Founded, Up, MosaicState
<1>6. Believable' /\ UsableContextIsServed'
  BY <1>1, <1>2, <1>3 DEF Believable, UsableContextIsServed
<1> QED BY <1>1, <1>4, <1>5, <1>6

LEMMA StepBoot ==
  ASSUME RadarInv, NEW capacity \in Capacities, NEW radar \in BOOLEAN,
         NEW context \in BOOLEAN, Boot(capacity, radar, context)
  PROVE  RadarInv'
<1> USE DEF RadarInv
<1>0. config = None /\ (context = TRUE => radar = TRUE)
  BY DEF Boot, Up
<1>1. /\ config' = [capacity |-> capacity, radar |-> radar, context |-> context]
      /\ world' = [radar   |-> Withdrawn(disk.radar, radar),
                   context |-> Withdrawn(disk.context, context)]
      /\ disk' \in {NoWorld, disk}
      /\ UNCHANGED <<files, worker, fetched, page>>
      /\ disk \in Worlds
  BY DEF Boot, Up, Typed
<1>2. config' \in Configs /\ config'.radar = radar /\ config'.context = context
  <2> DEFINE c == [capacity |-> capacity, radar |-> radar, context |-> context]
  <2>1. c.radar = radar /\ c.context = context
    OBVIOUS
  <2>3. c.context => c.radar
    BY <1>0, <2>1
  <2>2. c \in [capacity : Capacities, radar : BOOLEAN, context : BOOLEAN]
    OBVIOUS
  <2>4. c \in Configs
    BY <2>2, <2>3 DEF Configs
  <2> HIDE DEF c
  <2>5. config' = c
    BY <1>1 DEF c
  <2> QED BY <2>1, <2>4, <2>5
<1>3. worker.at = "idle" /\ page = None
  <2>1. ~Up
    BY <1>0 DEF Up
  <2> QED BY <2>1 DEF Working, Gone
<1>4. /\ NoWorld \in Worlds /\ ~Usable(NoWorld.radar)
      /\ world' \in Worlds
      /\ world'.radar.state = disk.radar.state
      /\ radar => ~Usable(world'.radar)
      /\ ~radar => world'.radar = disk.radar
      /\ context => ~Usable(world'.context)
  BY <1>1, NoneAssumption DEF NoWorld, Withdrawn, Claim, Worlds, Availabilities, Usable
<1>5. /\ disk' \in Worlds
      /\ \A w \in {world', disk'} : Usable(w.radar) => w.radar.state # None
  BY <1>1, <1>4 DEF Believable
<1>6. boots' \in 0 .. Boots
  BY BoundsAssumption DEF Boot
<1>7. Typed' /\ Working' /\ Gone' /\ Sound' /\ Written' /\ LoopRecorded' /\ PrunedWell'
  BY <1>1, <1>2, <1>3, <1>4, <1>5
     DEF Typed, Working, Gone, Sound, Written, Recording, Asking, LoopRecorded, PrunedWell
<1>8. Published' /\ Qualified' /\ Promised' /\ Believable' /\ UsableContextIsServed'
  BY <1>1, <1>2, <1>3, <1>4, <1>5 DEF Published, Qualified, Promised, Believable, UsableContextIsServed
<1> QED BY <1>1, <1>6, <1>7, <1>8

LEMMA StepSnapshot == RadarInv /\ Snapshot => RadarInv'
<1> SUFFICES ASSUME RadarInv, Snapshot PROVE RadarInv'
  OBVIOUS
<1> USE DEF RadarInv
<1>1. /\ UNCHANGED <<config, files, worker, world, boots, fetched, page>>
      /\ disk' = world
  BY DEF Snapshot, bounds
<1>2. Typed' /\ Working' /\ Gone' /\ Sound' /\ Written' /\ LoopRecorded' /\ PrunedWell'
  BY <1>1
     DEF Typed, Working, Gone, Sound, Written, Recording, Asking, LoopRecorded, PrunedWell, Up
<1>3. Published' /\ Qualified' /\ Promised'
  BY <1>1 DEF Published, Qualified, Promised, Up, Founded, MosaicState
<1>4. Believable' /\ UsableContextIsServed'
  BY <1>1 DEF Believable, UsableContextIsServed, Up
<1> QED BY <1>1, <1>2, <1>3, <1>4

LEMMA StepCrash == RadarInv /\ Crash => RadarInv'
<1> SUFFICES ASSUME RadarInv, Crash PROVE RadarInv'
  OBVIOUS
<1> USE DEF RadarInv
<1>1. /\ config' = None /\ worker' = Idle /\ world' = NoWorld /\ page' = None
      /\ UNCHANGED <<files, disk, boots, fetched>>
  BY DEF Crash, bounds
<1>2. worker' \in Workers /\ worker'.at = "idle"
  BY <1>1, EmptyLoop DEF Idle, Workers, Places
<1>3. world' \in Worlds /\ ~Usable(world'.radar)
  BY <1>1, NoneAssumption DEF NoWorld, Claim, Worlds, Availabilities, Usable
<1>4. Typed' /\ Working' /\ Gone' /\ Sound' /\ Written' /\ LoopRecorded' /\ PrunedWell'
  BY <1>1, <1>2, <1>3
     DEF Typed, Working, Gone, Sound, Written, Recording, Asking, LoopRecorded, PrunedWell
<1>5. Published' /\ Qualified' /\ Promised' /\ Believable' /\ UsableContextIsServed'
  BY <1>1, <1>2, <1>3
     DEF Published, Qualified, Promised, Believable, UsableContextIsServed, Up
<1> QED BY <1>1, <1>4, <1>5

LEMMA StepRadar == RadarInv /\ [Next]_vars => RadarInv'
<1> SUFFICES ASSUME RadarInv, [Next]_vars PROVE RadarInv'
  OBVIOUS
<1>1. CASE UNCHANGED vars
  <2> USE <1>1 DEF vars, RadarInv
  <2>1. Typed' /\ Working' /\ Gone' /\ Sound' /\ Written' /\ LoopRecorded' /\ PrunedWell'
    BY DEF Typed, Working, Gone, Sound, Written, Recording, Asking, LoopRecorded, PrunedWell, Up
  <2>2. Published' /\ Qualified' /\ Promised'
    BY DEF Published, Qualified, Promised, Up, Founded, MosaicState
  <2>3. Believable' /\ UsableContextIsServed'
    BY DEF Believable, UsableContextIsServed, Up
  <2> QED BY <2>1, <2>2, <2>3
<1>2. CASE Collection
  <2>1. ASSUME NEW image \in Image, NEW warning \in Warning \union {None},
               NEW legend \in Legend \union {None}, Fetch(image, warning, legend)
        PROVE  RadarInv'
    BY <2>1, StepFetch
  <2>2. CASE WriteLegend \/ WriteFrame \/ WriteWarning \/ WriteManifest
    BY <2>2, StepLegend, StepFrame, StepWarning, StepManifest
  <2>3. CASE \/ \E image \in Image : PruneImage(image)
             \/ \E warning \in Warning : PruneWarning(warning)
    BY <2>3, StepPruneImage, StepPruneWarning
  <2>4. CASE Pruned \/ Publish \/ Qualify \/ CollectFails
    BY <2>4, StepPruned, StepPublish, StepQualify, StepCollectFails
  <2> QED BY <1>2, <2>1, <2>2, <2>3, <2>4 DEF Collection
<1>3. CASE \/ \E context \in Context : FetchContext(context)
           \/ PublishContext
           \/ \E young \in BOOLEAN : ContextFails(young)
  BY <1>3, StepFetchContext, StepPublishContext, StepContextFails
<1>4. CASE \/ \E capacity \in Capacities, radar, context \in BOOLEAN :
                Boot(capacity, radar, context)
           \/ Snapshot \/ Crash
  BY <1>4, StepBoot, StepSnapshot, StepCrash
<1> QED BY <1>1, <1>2, <1>3, <1>4 DEF Next

\* In every reachable state the cache, the manifest, the worker, the world and
\* the page that was loaded before fit together (the methods of
\* MRMSRadarMosaicAdapter, in the order in which collect calls them).
THEOREM CacheIsCoherent == Spec => []RadarInv
<1>1. Init => RadarInv
  BY InitRadar
<1>2. RadarInv /\ [Next]_vars => RadarInv'
  BY StepRadar
<1> QED BY <1>1, <1>2, PTL DEF Spec

-----------------------------------------------------------------------------
(* What follows                                                            *)

\* Whatever is sampled of the radar cache is of its type (every action).
THEOREM TypeCorrect == Spec => []TypeOK
<1>1. RadarInv => TypeOK
  <2> SUFFICES ASSUME RadarInv PROVE TypeOK
    OBVIOUS
  <2> USE DEF RadarInv
  <2>1. config = None \/ /\ config.capacity \in Capacities
                         /\ {config.radar, config.context} \subseteq BOOLEAN
                         /\ config.context => config.radar
    BY DEF Typed, Configs
  <2>2. /\ files.frames \subseteq Image /\ files.warnings \subseteq Warning
        /\ files.legend \in Legend \union {None}
        /\ files.context \in Context \union {None}
        /\ worker.radar \in Image \union {None}
    BY DEF Typed, Caches, Workers
  <2>3. worker.at # "idle" => Up
    BY DEF Working
  <2>4. ASSUME NEW w \in {world, disk}
        PROVE  /\ {w.radar.availability, w.context.availability}
                     \subseteq {None, "current", "degraded", "unavailable"}
               /\ w.context.state \in Context \union {None}
               /\ Usable(w.radar) => w.radar.state # None
    <3>1. w \in Worlds
      BY DEF Typed
    <3> QED BY <3>1 DEF Worlds, Availabilities, Believable
  <2> QED BY <2>1, <2>2, <2>3, <2>4 DEF TypeOK
<1> QED BY <1>1, CacheIsCoherent, PTL

\* The manifest names only files that are there, whenever the process is killed
\* (_record_frame, _write_manifest, _prune_immutable_cache).
THEOREM ManifestNamesWhatIsThere == Spec => []ManifestIsSound
<1>1. RadarInv => ManifestIsSound
  BY DEF RadarInv, Sound, ManifestIsSound, Images, Warnings
<1> QED BY <1>1, CacheIsCoherent, PTL

LEMMA ServedIf ==
  ASSUME NEW m, Founded(files, m), Readable(files, m.frames)
  PROVE  Served(m)
<1>1. PICK i \in DOMAIN m.frames :
        m.frames[i].image = m.radar /\ m.frames[i].warning = m.warning
  BY DEF Founded, InLoop
<1>2. /\ m.radar \in files.frames /\ m.warning \in files.warnings \union {None}
      /\ Images(m.frames) \subseteq files.frames
      /\ Warnings(m.frames) \subseteq files.warnings
      /\ m.legend # None => files.legend = m.legend
  BY <1>1 DEF Readable, Images, Warnings, Founded
<1> SUFFICES ASSUME NEW url \in Urls(m) PROVE Status(url) = 200
  BY DEF Served
<1>3. CASE \E image \in files.frames : url = <<"frames", image>>
  BY <1>3 DEF Status
<1>4. CASE \E w \in files.warnings : url = <<"warning-frames", w>>
  BY <1>4 DEF Status
<1>5. CASE files.legend # None /\ url = <<"legend.png", files.legend>>
  BY <1>5 DEF Status
<1> QED BY <1>2, <1>3, <1>4, <1>5 DEF Urls

\* While a collection writes, prunes and fails as it likes, what the surface
\* shows of a mosaic that may be believed can be fetched (_cached_png, and the
\* order of the file operations in collect).
THEOREM MosaicIsServed == Spec => []UsableMosaicIsServed
<1>1. RadarInv => UsableMosaicIsServed
  <2> SUFFICES ASSUME RadarInv, Up, config.radar, Usable(world.radar)
               PROVE  Served(world.radar.state)
    BY DEF UsableMosaicIsServed
  <2> USE DEF RadarInv
  <2> DEFINE m == world.radar.state
  <2>1. /\ Founded(files, m)
        /\ m.frames = IF worker.at \in {"prune", "publish"} THEN worker.before
                      ELSE files.manifest
    BY DEF Published
  <2>2. Readable(files, files.manifest)
    BY DEF Sound, Readable
  <2>3. Recording => Readable(files, worker.before)
    BY DEF LoopRecorded
  <2>4. Readable(files, m.frames)
    BY <2>1, <2>2, <2>3 DEF Recording
  <2> QED BY <2>1, <2>4, ServedIf
<1> QED BY <1>1, CacheIsCoherent, PTL

\* A page that was loaded before the mosaic was published finds its files until
\* the next frame is recorded (the pruning of _record_frame, which keeps the
\* previous manifest's frames).
THEOREM GraceIsGiven == Spec => []GraceGenerationIsKept
<1>1. RadarInv => GraceGenerationIsKept
  BY ServedIf DEF RadarInv, Promised, GraceGenerationIsKept
<1> QED BY <1>1, CacheIsCoherent, PTL

\* What the surface may believe of a geographic context that is collected is
\* what is in the file (prepare_reentry, TIGERRadarContextAdapter.collect, _cached_fallback).
THEOREM ContextIsServed == Spec => []UsableContextIsServed
<1>1. RadarInv => UsableContextIsServed
  BY DEF RadarInv
<1> QED BY <1>1, CacheIsCoherent, PTL

LEMMA ImagesAreFew ==
  ASSUME NEW s \in Seq(Frames)
  PROVE  IsFiniteSet(Images(s)) /\ Cardinality(Images(s)) <= Len(s)
<1> DEFINE f == [i \in 1 .. Len(s) |-> s[i].image]
<1>1. Len(s) \in Nat /\ DOMAIN s = 1 .. Len(s)
  OBVIOUS
<1>2. f \in Surjection(1 .. Len(s), Images(s))
  <2>1. f \in [1 .. Len(s) -> Images(s)]
    BY <1>1 DEF Images
  <2>2. \A x \in Images(s) : \E i \in 1 .. Len(s) : f[i] = x
    BY <1>1 DEF Images
  <2> QED BY <2>1, <2>2 DEF Surjection
<1>3. IsFiniteSet(1 .. Len(s)) /\ Cardinality(1 .. Len(s)) = Len(s)
  BY <1>1, FS_Interval
<1> HIDE DEF f
<1> QED BY <1>2, <1>3, FS_Surjection

\* A collection leaves no more images than the loop has frames, and one (the
\* comment in _record_frame, and _prune_immutable_cache).
THEOREM CacheIsBounded == Spec => []FilesAreBounded
<1>1. RadarInv => FilesAreBounded
  <2> SUFFICES ASSUME RadarInv, worker.at \in {"publish", "qualify"}
               PROVE  /\ Cardinality(files.frames) <= config.capacity + 1
                      /\ Len(files.manifest) <= config.capacity
    BY DEF FilesAreBounded
  <2> USE DEF RadarInv
  <2> DEFINE p == worker.before
             f == worker.frames
  <2>1. /\ Recording /\ LoopRecorded
        /\ p \in Seq(Frames) /\ f \in Seq(Frames)
        /\ config.capacity \in Nat /\ Len(p) \in Nat /\ Len(p) <= config.capacity
        /\ Len(files.manifest) <= config.capacity
    <3>1. Recording /\ LoopRecorded
      BY DEF Recording
    <3>2. worker \in Workers /\ config \in Configs
      BY DEF Typed, Working, Up
    <3>3. p \in Seq(Frames) /\ f \in Seq(Frames)
      BY <3>2 DEF Workers
    <3>4. config.capacity \in Nat
      BY <3>2, CapacityAssumption DEF Configs
    <3>5. Len(p) <= config.capacity /\ Len(files.manifest) <= config.capacity
      BY <3>1 DEF LoopRecorded
    <3> HIDE DEF RadarInv
    <3> QED BY <3>1, <3>3, <3>4, <3>5
  <2>2. files.frames \subseteq Images(p) \union Images(f)
    BY <2>1, KeptIs DEF PrunedWell
  <2>3. Images(f) \subseteq Images(p) \union {worker.radar}
    BY <2>1 DEF LoopRecorded, Images
  <2>4. files.frames \subseteq Images(p) \union {worker.radar}
    BY <2>2, <2>3
  <2>5. /\ IsFiniteSet(Images(p)) /\ Cardinality(Images(p)) <= Len(p)
        /\ Cardinality(Images(p)) \in Nat
    BY <2>1, ImagesAreFew, FS_CardinalityType
  <2>6. /\ IsFiniteSet(Images(p) \union {worker.radar})
        /\ Cardinality(Images(p) \union {worker.radar}) <= Len(p) + 1
    <3>1. /\ IsFiniteSet(Images(p) \union {worker.radar})
          /\ \/ Cardinality(Images(p) \union {worker.radar}) = Cardinality(Images(p))
             \/ Cardinality(Images(p) \union {worker.radar}) = Cardinality(Images(p)) + 1
      BY <2>5, FS_AddElement
    <3>2. Len(p) \in Nat
      BY <2>1
    <3> HIDE DEF p, RadarInv
    <3> QED BY <2>5, <3>1, <3>2
  <2>7. Cardinality(files.frames) <= Cardinality(Images(p) \union {worker.radar})
    BY <2>4, <2>6, FS_Subset
  <2>8. /\ Cardinality(files.frames) \in Nat
        /\ Cardinality(Images(p) \union {worker.radar}) \in Nat
    BY <2>4, <2>6, FS_Subset, FS_CardinalityType
  <2> HIDE DEF p
  <2> QED BY <2>1, <2>6, <2>7, <2>8
<1> QED BY <1>1, CacheIsCoherent, PTL
=============================================================================
