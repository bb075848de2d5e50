---------------------------- MODULE ProbeConfig ----------------------------
(***************************************************************************)
(* The configuration of the probe handlers (core config_types.hpp and the  *)
(* YAML blocks of an event handler), and the small worlds they look at.    *)
(***************************************************************************)
EXTENDS Integers

CONSTANTS Slots,       \* source ids
          Cameras,     \* camera names
          Ids,         \* tracker ids, Untracked (-1) among them
          Untracked,
          NoParent,    \* parent_object_id -1
          Kinds,       \* class_id and object_type
          Nameless,    \* the empty object_type
          Labels,      \* classifier labels of an object
          NoLabel,     \* none: the empty signature
          NoMessage,
          Scenes,      \* bound: what a frame may show, ids -> kind, parent, label, place
          LastTime     \* bound of the clock

CONSTANT LabelFilter   \* label_filter, {} for all

(* FrameEventsConfig *)
CONSTANTS EmitOn,      \* the emit_on_... flags that are set
          MinGap,      \* min_emit_gap_ms
          Heartbeat,   \* heartbeat_interval_ms
          Window,      \* label_vote_window_frames, at least 1
          Shift        \* center_shift_ratio_threshold, in places

(* What a frame may show: some ids, each with what the detectors say of it. *)
IsScene(f) ==
  /\ DOMAIN f \subseteq Ids
  /\ \A o \in DOMAIN f : f[o] \in [kind : Kinds, parent : Ids \cup {NoParent}, label : Labels,
                                   place : Nat]

ASSUME FrameEventsAssumption ==
  /\ Untracked \in Ids /\ NoParent \notin Ids
  /\ NoLabel \in Labels
  /\ EmitOn \subseteq {"first_frame", "object_set_change", "label_change", "parent_change",
                       "motion_change"}
  /\ MinGap \in Nat /\ Heartbeat \in Nat /\ LastTime \in Nat
  /\ Window \in Nat \ {0} /\ Shift \in Nat \ {0}
  /\ \A f \in Scenes : IsScene(f)

(* EventHandlerConfig of crop_objects, and its clean-up block *)
CONSTANTS CaptureInterval, \* capture_interval_sec
          BurstMax,        \* burst_max
          TokenRefill,     \* token_refill_sec
          BypassMinGap,    \* bypass_min_gap_sec
          KOn, KOff, KLabel, \* k_on_frames, k_off_frames, k_label_frames
          StaleTimeout,    \* stale_object_timeout_min, 0 for never
          CheckInterval,   \* check_interval_batches, 0 for never
          MaxTracked,      \* MAX_TRACKED_OBJECTS
          SaveFullFrame,   \* save_full_frame
          LostPts,         \* {-1} if buffers may come without a PTS, {} if not
          NoSignature,     \* the empty label signature
          LastFrameNum     \* bound of the frame numbers

ASSUME CropAssumption ==
  /\ {CaptureInterval, BurstMax, BypassMinGap, StaleTimeout, CheckInterval, MaxTracked,
      LastFrameNum} \subseteq Nat
  /\ {TokenRefill, KOn, KOff, KLabel} \subseteq Nat \ {0}
  /\ SaveFullFrame \in BOOLEAN /\ LostPts \subseteq {-1}

(* ClassIdNamespaceHandler *)
CONSTANTS Detectors,       \* unique_component_id of the detectors
          ClassIds,        \* bound: their class ids
          BaseNoOffset,    \* base_no_offset_
          OffsetStep,      \* offset_step_
          ExplicitOffsets  \* explicit_offsets_: detector -> offset

compute_offset(uid) ==
  IF uid \in DOMAIN ExplicitOffsets THEN ExplicitOffsets[uid]
  ELSE IF uid <= BaseNoOffset THEN 0 ELSE (uid - BaseNoOffset) * OffsetStep

ASSUME NamespaceAssumption ==
  /\ Detectors \subseteq Nat /\ ClassIds \subseteq Nat
  /\ BaseNoOffset \in Nat /\ OffsetStep \in Nat
  /\ DOMAIN ExplicitOffsets \subseteq Nat
  /\ \A u \in DOMAIN ExplicitOffsets : ExplicitOffsets[u] \in Int
  /\ \A u \in Detectors, c \in ClassIds :    \* the offsets are wide enough
       compute_offset(u) > 0 => c < compute_offset(u)

(* ExtProcessorConfig and FrameEventsExtProcConfig *)
CONSTANTS RuleKinds,   \* labels with a rule
          ApiInterval, \* min_interval_sec
          ApiTimeout,  \* CURLOPT_TIMEOUT, request_timeout_ms
          Retention,   \* stale_after_ms
          MaxCalls,    \* bound: threads at a time
          NoCall

ASSUME ExtProcAssumption ==
  /\ RuleKinds \subseteq Kinds
  /\ {ApiInterval, ApiTimeout, Retention, MaxCalls} \subseteq Nat

(* FrameEvidenceCache *)
CONSTANTS Handlers,   \* probe handlers, each on a streaming thread of its own
          Ttl,        \* frame_cache_ttl_ms
          MaxFrames,  \* max_frames_per_source, 0 for no bound
          MaxGap,     \* max_frame_gap_ms
          LastFrame,  \* bound: the frame numbers of a slot are 0 .. LastFrame
          NoEntry

ASSUME CacheAssumption == /\ Ttl \in Nat /\ MaxFrames \in Nat /\ MaxGap \in Nat
                          /\ LastFrame \in Nat
=============================================================================
