------------------------------- MODULE Probes -------------------------------
(***************************************************************************)
(* The probe handlers that ProbeHandlerManager attaches, and the services  *)
(* they own, in one specification.  ProbeHandlerManager::attach_probes     *)
(* makes an object of its own for each handler of the configuration, and   *)
(* no two of the parts below share state, so a behaviour follows one part, *)
(* whichever it is; the state of the others stands still.                  *)
(***************************************************************************)
EXTENDS SmartRecord, ProbeConfig, Sequences

CONSTANTS CropScenes,     \* bound: what a frame may show to crop_objects
          CallIds,        \* bounds of the external processors: tracker ids
          CallScenes,     \*   and scenes,
          LastCallTime,   \*   and their clock
          LastCacheTime   \* bound of the evidence cache's clock

ASSUME BoundsAssumption ==
  /\ Untracked \in CallIds /\ CallIds \subseteq Ids
  /\ \A f \in CropScenes : IsScene(f)
  /\ {LastCallTime, LastCacheTime} \subseteq Nat \ {0}

VARIABLE part    \* the part of the probe system that is followed
VARIABLE now     \* the clock
VARIABLES camera, emit_state, sent, view                             \* FrameEvents
VARIABLES frame_num, phase, batch, batch_pts, frame_pts, groups, batch_counter, \* CropObject
          pub_state, last_capture_pts, object_last_seen, object_keys,
          child_parent, full_frame_paths, full_frame_of, out
VARIABLES up, last_processed_ns, calls, osd_overrides, sight, shown  \* ExternalProcessors
VARIABLES place, object, made, copied                                \* ClassIdNamespace
VARIABLES entries, source_entries, captured, next_frame              \* FrameEvidenceCache

Events == INSTANCE FrameEvents
Crop == INSTANCE CropObject WITH Scenes <- CropScenes
Calls == INSTANCE ExternalProcessors
           WITH Ids <- CallIds, Scenes <- CallScenes, LastTime <- LastCallTime
Namespace == INSTANCE ClassIdNamespace
Cache == INSTANCE FrameEvidenceCache WITH LastTime <- LastCacheTime

(* NoMessage is none of the messages. *)
ASSUME MessageAssumption == NoMessage \notin Events!Shown

eventsVars == <<camera, emit_state, sent, view>>
cropVars == <<frame_num, phase, batch, batch_pts, frame_pts, groups, batch_counter, pub_state,
              last_capture_pts, object_last_seen, object_keys, child_parent,
              full_frame_paths, full_frame_of, out>>
callVars == <<up, last_processed_ns, calls, osd_overrides, sight, shown>>
classVars == <<place, object, made, copied>>
cacheVars == <<entries, source_entries, captured, next_frame>>
probeVars == <<part, now, vars, eventsVars, cropVars, callVars, classVars, cacheVars>>

(* The triggers of attach_probes (the two of the class ids are one part) and *)
(* the services behind frame_events and crop_objects.                        *)
Parts == {"smart_record", "crop_objects", "frame_events", "class_id", "ext_proc",
          "evidence_cache"}

(* Cameras are interchangeable, and what storing holds before the first clip *)
(* is of no consequence: one initial value stands for all.  The objects of   *)
(* ClassIdNamespace begin as any object, and the service of                  *)
(* ExternalProcessors is any, if they are the part that is followed.         *)
Any(S) == CHOOSE v \in S : TRUE

ProbesInit ==
  /\ part \in Parts
  /\ Init /\ Events!Init /\ Crop!Init /\ Calls!Init /\ Namespace!Init /\ Cache!Init
  /\ storing.source = Any(Sources)
  /\ camera = Any([Slots -> Cameras])
  /\ part # "class_id" => object.class_id = Any(ClassIds) /\ object.uid = Any(Detectors)
  /\ part # "ext_proc" => "crop" \in up

SmartRecordStep ==
  /\ part = "smart_record" /\ Next
  /\ UNCHANGED <<part, now, eventsVars, cropVars, callVars, classVars, cacheVars>>

CropStep ==
  /\ part = "crop_objects" /\ Crop!Next
  /\ UNCHANGED <<part, vars, eventsVars, callVars, classVars, cacheVars>>

EventsStep ==
  /\ part = "frame_events" /\ Events!Next
  /\ UNCHANGED <<part, vars, cropVars, callVars, classVars, cacheVars>>

CallsStep ==
  /\ part = "ext_proc" /\ Calls!Next
  /\ UNCHANGED <<part, vars, eventsVars, cropVars, classVars, cacheVars>>

ClassIdStep ==
  /\ part = "class_id" /\ Namespace!Next
  /\ UNCHANGED <<part, now, vars, eventsVars, cropVars, callVars, cacheVars>>

CacheStep ==
  /\ part = "evidence_cache" /\ Cache!Next
  /\ UNCHANGED <<part, vars, eventsVars, cropVars, callVars, classVars>>

ProbesNext == \/ SmartRecordStep \/ CropStep \/ EventsStep \/ CallsStep \/ ClassIdStep
              \/ CacheStep

(* The fairness of SmartRecord's FairSpec, for behaviours that follow it. *)
ProbesSpec ==
  /\ ProbesInit /\ [][ProbesNext]_probeVars
  /\ WF_vars(part = "smart_record" /\ BeginBatch)
  /\ WF_vars(part = "smart_record" /\ StoreSession)
  /\ WF_vars(part = "smart_record" /\ EndBatch)
  /\ WF_vars(part = "smart_record" /\ Tick)
  /\ WF_vars(part = "smart_record" /\ \E s \in Sources : SkipFrame(s) \/ EmitStart(s))
  /\ WF_vars(part = "smart_record" /\ \E e \in Elements : ClipEnds(e) \/ on_recording_done(e))
-----------------------------------------------------------------------------
(* The properties of the parts (those of SmartRecord have their names there). *)

(* Every handler's state has its type: indices, counters, token buckets and  *)
(* vote windows stay in their ranges, whatever the frames bring.             *)
ProbesTypeOK ==
  CASE part = "smart_record"   -> TypeOK
    [] part = "crop_objects"   -> Crop!TypeOK
    [] part = "frame_events"   -> Events!TypeOK
    [] part = "ext_proc"       -> Calls!TypeOK
    [] part = "class_id"       -> Namespace!TypeOK
    [] part = "evidence_cache" -> Cache!TypeOK

(* FrameEvents: messages of a slot are min_emit_gap_ms apart. *)
EmitGap == Events!EmitGap

(* FrameEvents: no change in view is withheld for longer than the gap. *)
ViewIsPublished == Events!ViewIsPublished

(* CropObject: the maps of an object's state agree, through every cleanup. *)
BooksAgree == Crop!BooksAgree

(* CropObject: interval, minimum gap and token bucket govern the messages. *)
Cadence == Crop!Cadence

(* CropObject: a message's full frame shows the camera of the message. *)
FullFrameIsOwn == Crop!FullFrameIsOwn

(* ExternalProcessors: throttle and timeout bound the requests crop_objects  *)
(* has under way for an object.                                              *)
CallsBounded == Calls!CallsBounded

(* ExternalProcessors: no old text over an id that is used again. *)
TextOfThisLife == Calls!TextOfThisLife

(* ClassIdNamespace: behind the restore probe an object is as it was made. *)
ClassIdsRestored == Namespace!ClassIdsRestored

(* FrameEvidenceCache: every snapshot is listed, every list is bounded. *)
NothingLeaks == Cache!NothingLeaks

(* FrameEvidenceCache: resolve returns the frame asked for, or the nearest. *)
ResolveIsNearest == part = "evidence_cache" => Cache!ResolveIsNearest

(* FrameEvidenceCache: an expired frame is returned only behind a later one. *)
ResolveIsFresh == part = "evidence_cache" => Cache!ResolveIsFresh
=============================================================================
