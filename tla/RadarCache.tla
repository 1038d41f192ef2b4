----------------------------- MODULE RadarCache -----------------------------
(***************************************************************************)
(* The radar image cache: the files that the mosaic adapter writes and     *)
(* prunes one by one (adapters/world/radar_mosaic.py), the file of the     *)
(* geographic context (adapters/world/radar_context.py), the two states    *)
(* that refer to these files, and what a request for one of them gets      *)
(* (presentation/server.py, presentation/projection.py).                   *)
(*                                                                         *)
(* A file holds the content its name says, since every write is to a       *)
(* temporary file that is then renamed; an image is its hash.  Left out    *)
(* are latest.png and warnings.png, which the mosaic writes before its     *)
(* frames and no projection gives an address of.  The worker               *)
(* may fail at each file operation, the process may crash between any two, *)
(* and the next process starts from a snapshot that may be older than the  *)
(* files, with another loop capacity, without the radar or without its     *)
(* context, which is collected only along with the radar.  The snapshot    *)
(* of the last process, which no other reads, is not kept.                 *)
(***************************************************************************)
EXTENDS Observation, Integers, SequencesExt

CONSTANTS
  Image,       \* radar images
  Warning,     \* warning overlays
  Legend,      \* legends
  Context,     \* contexts that were retrieved, each with its time
  Capacities,  \* the values of loop_frame_capacity
  Boots,       \* bound of the number of processes
  Retrievals   \* bound of the number of successful retrievals

ASSUME CapacityAssumption == Capacities # {} /\ Capacities \subseteq Nat \ {0}

ASSUME BoundsAssumption == Boots \in Nat /\ Retrievals \in Nat

Frame(image, warning) == [image |-> image, warning |-> warning]

Frames  == [image : Image, warning : Warning \union {None}]
Mosaics == [radar  : Image, warning : Warning \union {None},
            legend : Legend \union {None}, frames : Seq(Frames)]

\* A state is not the absence of one, nor is an availability.
ASSUME NoneAssumption ==
  None \notin Mosaics /\ None \notin {"current", "degraded", "unavailable"}

VARIABLES
  config,   \* capacity, and whether the worker collects the radar and, with
            \* it, the context; None: no process
  files,    \* the cache directory
  worker,   \* where the worker is and what it has in hand
  world,    \* the states of the mosaic and of the context
  disk,     \* the snapshot
  boots,    \* how many processes there were
  fetched,  \* how many retrievals succeeded
  page      \* the mosaic before the one that is published, while a page that
            \* was loaded then is promised its frames; None: no promise

vars == <<config, files, worker, world, disk, boots, fetched, page>>
bounds == <<boots, fetched>>

NoFiles ==
  [frames |-> {}, warnings |-> {}, legend |-> None, manifest |-> <<>>,
   context |-> None]

\* The state an entity has and how far it may be believed.
Claim(state, availability) == [state |-> state, availability |-> availability]
NoWorld == [radar |-> Claim(None, None), context |-> Claim(None, None)]
Usable(claim) == claim.availability \in {"current", "degraded"}

Idle == [at |-> "idle", radar |-> None, warning |-> None, legend |-> None,
         before |-> <<>>, frames |-> <<>>]

-----------------------------------------------------------------------------
(* The loop of frames                                                      *)

Latest(frames, n) ==
  SubSeq(frames, Max({1, Len(frames) - n + 1}), Len(frames))

\* Slip: the manifest is taken as it is, whatever the capacity is now.
LoadManifestWhole == files.manifest

Overlaid(f) == IF f.warning \in files.warnings THEN f ELSE [f EXCEPT !.warning = None]

\* Frames whose image is there, without an overlay that is not, the latest.
LoadManifest ==
  LET loaded[i \in 0 .. Len(files.manifest)] ==
        IF i = 0 THEN <<>>
        ELSE IF files.manifest[i].image \in files.frames
        THEN Append(loaded[i - 1], Overlaid(files.manifest[i]))
        ELSE loaded[i - 1]
  IN Latest(loaded[Len(files.manifest)], config.capacity)

\* Slip: the loop grows beyond its capacity.
RecordedUntrimmed(previous, frame) ==
  IF previous # <<>> /\ previous[Len(previous)] = frame THEN previous
  ELSE Append(previous, frame)

\* A frame that looks like the one before it takes its place.
Recorded(previous, frame) ==
  IF previous # <<>> /\ previous[Len(previous)] = frame THEN previous
  ELSE Latest(Append(previous, frame), config.capacity)

Images(frames)   == {frames[i].image : i \in DOMAIN frames}
Warnings(frames) == {frames[i].warning : i \in DOMAIN frames} \ {None}

\* Slip: the generation before is pruned at once.
KeptNow(previous, frames) == frames

\* Slip: what was there before is kept, and nothing else.
KeptBefore(previous, frames) == previous

\* Prune keeps the frames of this manifest and of the one before it.
Kept(previous, frames) == previous \o frames

Superfluous ==
  LET kept == Kept(worker.before, worker.frames)
  IN [frames   |-> files.frames \ Images(kept),
      warnings |-> files.warnings \ Warnings(kept)]

-----------------------------------------------------------------------------
(* MRMSRadarMosaicAdapter.collect, one file operation after another        *)

Up == config # None
At(place) == Up /\ worker.at = place

\* The listing, the image and perhaps the overlay and the legend were
\* retrieved; a legend that is cached is not asked for.
Fetch(image, warning, legend) ==
  /\ At("idle") /\ config.radar /\ fetched < Retrievals
  /\ fetched' = fetched + 1
  /\ files.legend # None => legend = files.legend
  /\ worker' = [Idle EXCEPT !.at = "legend", !.radar = image, !.warning = warning,
                            !.legend = legend]
  /\ UNCHANGED <<config, files, world, disk, boots, page>>

\* A worker that has done one thing and goes on with the next.
Goes(from, to) == At(from) /\ worker' = [worker EXCEPT !.at = to]

\* Written or, if it could not be retrieved, unlinked.
WriteLegend ==
  /\ Goes("legend", "frame")
  /\ files' = [files EXCEPT !.legend = worker.legend]
  /\ UNCHANGED <<config, world, disk, bounds, page>>

\* _record_frame: the image under its hash ...
WriteFrame ==
  /\ Goes("frame", "warning")
  /\ files' = [files EXCEPT !.frames = @ \union {worker.radar}]
  /\ UNCHANGED <<config, world, disk, bounds, page>>

WriteWarning ==
  /\ Goes("warning", "manifest")
  /\ files' = [files EXCEPT !.warnings = @ \union ({worker.warning} \ {None})]
  /\ UNCHANGED <<config, world, disk, bounds, page>>

\* ... then the manifest that names it ...
WriteManifest ==
  LET before == LoadManifest
      frames == Recorded(before, Frame(worker.radar, worker.warning))
  IN /\ At("manifest")
     /\ files' = [files EXCEPT !.manifest = frames]
     /\ worker' = [worker EXCEPT !.at = "prune", !.before = before, !.frames = frames]
     /\ page' = None
     /\ UNCHANGED <<config, world, disk, bounds>>

\* ... then what neither needs is unlinked, one file at a time ...
PruneImage(image) ==
  /\ At("prune") /\ image \in Superfluous.frames
  /\ files' = [files EXCEPT !.frames = @ \ {image}]
  /\ UNCHANGED <<config, worker, world, disk, bounds, page>>

PruneWarning(warning) ==
  /\ At("prune") /\ Superfluous.frames = {} /\ warning \in Superfluous.warnings
  /\ files' = [files EXCEPT !.warnings = @ \ {warning}]
  /\ UNCHANGED <<config, worker, world, disk, bounds, page>>

\* ... and the state is made of it.
Pruned ==
  /\ Superfluous.frames = {} /\ Superfluous.warnings = {}
  /\ Goes("prune", "publish")
  /\ UNCHANGED <<config, files, world, disk, bounds, page>>

MosaicState ==
  [radar |-> worker.radar, warning |-> worker.warning, legend |-> worker.legend,
   frames |-> worker.frames]

\* The value of the batch, which is stored before its ObservationState.
Publish ==
  /\ Goes("publish", "qualify")
  /\ page' = IF Usable(world.radar) THEN world.radar.state ELSE None
  /\ world' = [world EXCEPT !.radar.state = MosaicState]
  /\ UNCHANGED <<config, files, disk, bounds>>

Qualify ==
  /\ At("qualify")
  /\ world' = [world EXCEPT !.radar.availability =
                 IF worker.warning = None THEN "degraded" ELSE "current"]
  /\ worker' = Idle
  /\ UNCHANGED <<config, files, disk, bounds, page>>

\* Nothing could be retrieved, or a file operation failed.
CollectFails ==
  /\ Up /\ config.radar
  /\ worker.at \in {"idle", "legend", "frame", "warning",
                    "manifest", "prune"}
  /\ world' = [world EXCEPT !.radar.availability = "unavailable"]
  /\ worker' = Idle /\ page' = None
  /\ UNCHANGED <<config, files, disk, bounds>>

-----------------------------------------------------------------------------
(* TIGERRadarContextAdapter.collect                                        *)

\* All five queries were answered: the file is replaced.
FetchContext(context) ==
  /\ At("idle") /\ config.context /\ fetched < Retrievals
  /\ fetched' = fetched + 1
  /\ files' = [files EXCEPT !.context = context]
  /\ worker' = [Idle EXCEPT !.at = "context"]
  /\ UNCHANGED <<config, world, disk, boots, page>>

PublishContext ==
  /\ At("context")
  /\ world' = [world EXCEPT !.context = Claim(files.context, "current")]
  /\ worker' = Idle
  /\ UNCHANGED <<config, files, disk, bounds, page>>

\* Slip: the state of the world is retained, not the one of the file.
RetainedContext(young) ==
  Claim(world.context.state,
        IF files.context # None /\ young THEN "degraded" ELSE "unavailable")

\* _cached_fallback, or the last state without authority.
FallbackContext(young) ==
  IF files.context # None /\ young THEN Claim(files.context, "degraded")
  ELSE Claim(world.context.state, "unavailable")

\* A query failed, or the file could not be written.  Whether the file is
\* young enough is left open: a clock that was set back makes it so again.
ContextFails(young) ==
  /\ At("idle") /\ config.context
  /\ world' = [world EXCEPT !.context = FallbackContext(young)]
  /\ UNCHANGED <<config, files, worker, disk, bounds, page>>

-----------------------------------------------------------------------------
(* The process                                                             *)

\* What is not collected is not withdrawn either, whatever it says.
Withdrawn(claim, collected) ==
  IF collected THEN [claim EXCEPT !.availability = "unavailable"] ELSE claim

Boot(capacity, radar, context) ==
  /\ ~Up /\ boots < Boots
  /\ context => radar
  /\ boots' = boots + 1
  /\ config' = [capacity |-> capacity, radar |-> radar, context |-> context]
  /\ world' = [radar   |-> Withdrawn(disk.radar, radar),
               context |-> Withdrawn(disk.context, context)]
  /\ disk' = IF boots' = Boots THEN NoWorld ELSE disk
  /\ UNCHANGED <<files, worker, fetched, page>>

Snapshot ==
  /\ Up /\ disk # world /\ boots < Boots
  /\ disk' = world
  /\ UNCHANGED <<config, files, worker, world, bounds, page>>

Crash ==
  /\ Up
  /\ config' = None /\ worker' = Idle /\ world' = NoWorld /\ page' = None
  /\ UNCHANGED <<files, disk, bounds>>

Init ==
  /\ config = None /\ files = NoFiles /\ worker = Idle
  /\ world = NoWorld /\ disk = NoWorld /\ boots = 0 /\ fetched = 0 /\ page = None

Collection ==
  \/ \E image \in Image, warning \in Warning \union {None},
        legend \in Legend \union {None} : Fetch(image, warning, legend)
  \/ WriteLegend \/ WriteFrame \/ WriteWarning
  \/ WriteManifest \/ Pruned \/ Publish \/ Qualify \/ CollectFails
  \/ \E image \in Image : PruneImage(image)
  \/ \E warning \in Warning : PruneWarning(warning)

Next ==
  \/ Collection
  \/ \E context \in Context : FetchContext(context)
  \/ PublishContext \/ (\E young \in BOOLEAN : ContextFails(young))
  \/ \E capacity \in Capacities, radar, context \in BOOLEAN :
       Boot(capacity, radar, context)
  \/ Snapshot \/ Crash

Spec == Init /\ [][Next]_vars

-----------------------------------------------------------------------------
(* Requests                                                                *)

\* The addresses the projection gives for a mosaic.
Urls(mosaic) ==
  {<<"frames", image>> : image \in Images(mosaic.frames) \union {mosaic.radar}}
    \union {<<"warning-frames", w>> :
              w \in (Warnings(mosaic.frames) \union {mosaic.warning}) \ {None}}
    \union {<<"legend.png", l>> : l \in {mosaic.legend} \ {None}}

\* _cached_png: found, and with the content that was asked for.
Status(url) ==
  CASE url[1] = "frames"         -> IF url[2] \in files.frames THEN 200 ELSE 404
    [] url[1] = "warning-frames" -> IF url[2] \in files.warnings THEN 200 ELSE 404
    [] url[1] = "legend.png"     -> IF files.legend = None THEN 404
                                    ELSE IF files.legend = url[2] THEN 200 ELSE 409

Served(mosaic) == \A url \in Urls(mosaic) : Status(url) = 200

-----------------------------------------------------------------------------
TypeOK ==
  /\ config = None \/ /\ config.capacity \in Capacities
                      /\ {config.radar, config.context} \subseteq BOOLEAN
                      /\ config.context => config.radar
  /\ files.frames \subseteq Image /\ files.warnings \subseteq Warning
  /\ files.legend \in Legend \union {None}
  /\ files.context \in Context \union {None}
  /\ \E n \in Capacities : Len(files.manifest) <= n
  /\ worker.at # "idle" => Up
  /\ boots \in 0 .. Boots /\ fetched \in 0 .. Retrievals
  /\ worker.radar \in Image \union {None}
  /\ \A w \in {world, disk} :
       /\ {w.radar.availability, w.context.availability}
            \subseteq {None, "current", "degraded", "unavailable"}
       /\ w.context.state \in Context \union {None}
       /\ Usable(w.radar) => w.radar.state # None

\* Every frame that the manifest names can be read, at every moment, also
\* after a crash between any two file operations (radar_mosaic.py:
\* _record_frame writes images first and prunes last).
ManifestIsSound ==
  /\ Images(files.manifest) \subseteq files.frames
  /\ Warnings(files.manifest) \subseteq files.warnings

\* While the mosaic of the world may be believed, every address that a page
\* gets for it is answered, also in the middle of a collection that prunes.
\* Without the radar the snapshot may refer to files that are gone.
UsableMosaicIsServed ==
  Up /\ config.radar /\ Usable(world.radar) => Served(world.radar.state)

\* A page that was loaded before the mosaic was published is answered as well,
\* until the next collection has recorded its frame (the grace generation).
GraceGenerationIsKept == page # None => Served(page)

\* After a collection there are at most as many frames as the loop has, and
\* one (the bound that the comment in _record_frame gives).
FilesAreBounded ==
  worker.at \in {"publish", "qualify"} =>
    /\ Cardinality(files.frames) <= config.capacity + 1
    /\ Len(files.manifest) <= config.capacity

\* Where the context is collected, one that may be believed is the one in the
\* file, except between the replacement of the file and the update of the world.
\* Without the context nobody withdraws what the snapshot says (prepare_reentry):
\* it may be older than the file, and is then refused.
UsableContextIsServed ==
  Up /\ config.context /\ Usable(world.context) /\ worker.at # "context" =>
    world.context.state = files.context
=============================================================================
