---------------------------- MODULE ProbesProofs ----------------------------
(***************************************************************************)
(* What the probe handlers guarantee for any frames, any configuration and *)
(* any number of slots, objects and threads: class ids come back, messages *)
(* of a slot keep their gap and leave no change in view untold, texts      *)
(* stand over their own objects, few threads call for one object, the maps *)
(* of crop_objects agree, its messages keep their cadence, and every state *)
(* keeps its type.  SmartRecord and FrameEvidenceCache have proofs of      *)
(* their own, which are taken over here.                                   *)
(***************************************************************************)
EXTENDS FrameEvidenceCacheProofs, SmartRecordProofs, FiniteSetTheorems, TLAPS

(* A step of the probe system is one of the part that is followed, and       *)
(* leaves the variables of the others alone.                                 *)
LEMMA PartsStep ==
  ASSUME [ProbesNext]_probeVars
  PROVE  /\ part' = part
         /\ [Namespace!Next]_classVars
         /\ [Calls!Next]_callVars
         /\ [Crop!Next]_cropVars
         /\ part = "frame_events" => [Events!Next]_<<now, eventsVars>>
         /\ part # "frame_events" => UNCHANGED eventsVars
<1>1. CASE UNCHANGED probeVars
  BY <1>1 DEF probeVars
<1>2. CASE ProbesNext
  BY <1>2 DEF ProbesNext, SmartRecordStep, CropStep, EventsStep, CallsStep, ClassIdStep, CacheStep
<1>3. QED
  BY <1>1, <1>2

(* The same with the clock, which only the part that is followed moves. *)
LEMMA PartsClock ==
  ASSUME [ProbesNext]_probeVars
  PROVE  /\ part' = part
         /\ part = "ext_proc" => [Calls!Next]_<<now, callVars>>
         /\ part # "ext_proc" => UNCHANGED callVars
         /\ part = "crop_objects" => [Crop!Next]_<<now, cropVars>>
         /\ part # "crop_objects" => UNCHANGED cropVars
<1>1. CASE UNCHANGED probeVars
  BY <1>1 DEF probeVars
<1>2. CASE ProbesNext
  BY <1>2 DEF ProbesNext, SmartRecordStep, CropStep, EventsStep, CallsStep, ClassIdStep, CacheStep
<1> QED BY <1>1, <1>2

(* The clock stands or ticks, whichever part is followed. *)
LEMMA ClockMoves ==
  ASSUME [ProbesNext]_probeVars
  PROVE  now' = now \/ now' = now + 1
<1>1. CASE UNCHANGED probeVars
  BY <1>1 DEF probeVars
<1>2. CASE SmartRecordStep \/ ClassIdStep
  BY <1>2 DEF SmartRecordStep, ClassIdStep
<1>3. ASSUME Crop!Next PROVE now' = now \/ now' = now + 1
  BY <1>3 DEF Crop!Next, Crop!BeginBatch, Crop!EndFrame, Crop!EndBatch, Crop!Tick, Crop!BeginFrame,
              Crop!HandleGroup
<1>4. ASSUME Events!Next PROVE now' = now \/ now' = now + 1
  BY <1>4 DEF Events!Next, Events!Tick, Events!Replace, Events!Frame, Events!EmptyFrame
<1>5. ASSUME Calls!Next PROVE now' = now \/ now' = now + 1
  BY <1>5 DEF Calls!Next, Calls!Tick, Calls!ProcessCrop, Calls!ProcessFrameObject, Calls!CallEnds,
              Calls!Answered, Calls!ApplyCachedDisplayText, Calls!Stop
<1>6. ASSUME Cache!Next PROVE now' = now \/ now' = now + 1
  BY <1>6 DEF Cache!Next, Cache!Tick, Cache!Emit, Cache!Capture, Cache!CloneFails, Cache!Insert,
              Cache!Resolve
<1> QED BY <1>1, <1>2, <1>3, <1>4, <1>5, <1>6 DEF ProbesNext, CropStep, EventsStep, CallsStep,
                                                CacheStep

-----------------------------------------------------------------------------
(* ClassIdNamespace: ClassIdsRestored alone is not inductive, as what a      *)
(* restore does depends on how far the object has come and on its marker.    *)

MovedId == IF Namespace!compute_offset(made.uid) > 0
           THEN Namespace!compute_offset(made.uid) + made.class_id ELSE made.class_id

Object(c, info) == [class_id |-> c, uid |-> made.uid, info |-> info]

MarkerOf == <<Namespace!Marker, made.class_id, made.uid>>

(* An object has its own class id before the offset probe and behind the     *)
(* restore probe, the moved one between; a marker names the object as made.  *)
Journey ==
  /\ place \in {"new", "offset", "tracked", "restored"}
  /\ made.class_id \in ClassIds /\ made.uid \in Detectors
  /\ made = Object(made.class_id, Namespace!NoInfo)
  /\ place = "new" => object = made
  /\ place = "offset" => object = Object(MovedId, MarkerOf)
  /\ place = "tracked" => object \in {Object(MovedId, MarkerOf), Object(MovedId, Namespace!NoInfo)}
  /\ place = "restored" => object = made

(* An offset is an integer, and wider than the class ids it is added to. *)
LEMMA OffsetsWide ==
  ASSUME NEW u \in Detectors, NEW c \in ClassIds
  PROVE  /\ c \in Nat /\ u \in Nat
         /\ Namespace!compute_offset(u) \in Int
         /\ Namespace!compute_offset(u) > 0 => c < Namespace!compute_offset(u)
<1>1. c \in Nat /\ u \in Nat
  BY NamespaceAssumption
<1>2. Namespace!compute_offset(u) = compute_offset(u)
  BY DEF Namespace!compute_offset, compute_offset
<1>3. compute_offset(u) > 0 => c < compute_offset(u)
  BY NamespaceAssumption
<1>4. compute_offset(u) \in Int
  <2>1. CASE u \in DOMAIN ExplicitOffsets
    BY <2>1, NamespaceAssumption DEF compute_offset
  <2>2. CASE u \notin DOMAIN ExplicitOffsets
    <3>1. (u - BaseNoOffset) * OffsetStep \in Int
      BY <1>1, NamespaceAssumption
    <3>2. QED
      BY <2>2, <3>1 DEF compute_offset
  <2>3. QED
    BY <2>1, <2>2
<1>5. QED
  BY <1>1, <1>2, <1>3, <1>4

(* Init establishes the invariant. *)
LEMMA JourneyBegins == Namespace!Init => Journey
  BY DEF Namespace!Init, Journey, Object

(* Each probe and the tracker keep it. *)
LEMMA JourneyGoesOn == Journey /\ [Namespace!Next]_classVars => Journey'
<1>1. SUFFICES ASSUME Journey, [Namespace!Next]_classVars PROVE Journey'
  OBVIOUS
<1>2. /\ made.class_id \in Nat /\ made.uid \in Nat
      /\ Namespace!compute_offset(made.uid) \in Int
      /\ Namespace!compute_offset(made.uid) > 0 => made.class_id < Namespace!compute_offset(made.uid)
  BY <1>1, OffsetsWide DEF Journey
<1>3. Namespace!Marker # 0 /\ MarkerOf[1] = Namespace!Marker /\ MarkerOf[2] = made.class_id
      /\ MarkerOf[3] = made.uid /\ Namespace!NoInfo[1] = 0
  BY DEF Namespace!Marker, MarkerOf, Namespace!NoInfo
<1>4. CASE Namespace!process_offset
  <2>1. made' = made /\ place' = "offset"
    BY <1>4 DEF Namespace!process_offset
  <2>2. object' = Object(MovedId, MarkerOf)
    <3>1. CASE place = "new"
      <4>1. object = Object(made.class_id, Namespace!NoInfo)
        BY <1>1, <3>1 DEF Journey
      <4>2. ~Namespace!Marked /\ object.uid = made.uid /\ object.class_id = made.class_id
        BY <4>1, <1>3 DEF Object, Namespace!Marked
      <4>3. QED
        BY <1>4, <4>1, <4>2 DEF Namespace!process_offset, Object, MovedId, MarkerOf
    <3>2. CASE place = "offset"
      <4>1. object = Object(MovedId, MarkerOf)
        BY <1>1, <3>2 DEF Journey
      <4>2. Namespace!Marked
        BY <4>1, <1>3 DEF Object, Namespace!Marked
      <4>3. QED
        BY <1>4, <4>1, <4>2 DEF Namespace!process_offset
    <3>3. QED
      BY <1>4, <3>1, <3>2 DEF Namespace!process_offset
  <2>3. QED
    BY <1>1, <2>1, <2>2 DEF Journey, Object, MovedId, MarkerOf
<1>5. CASE Namespace!Track
  <2>1. made' = made /\ place' = "tracked" /\ object = Object(MovedId, MarkerOf)
    BY <1>1, <1>5 DEF Namespace!Track, Journey
  <2>2. object' \in {Object(MovedId, MarkerOf), Object(MovedId, Namespace!NoInfo)}
    BY <1>5, <2>1 DEF Namespace!Track, Object
  <2>3. QED
    BY <1>1, <2>1, <2>2 DEF Journey, Object, MovedId, MarkerOf
<1>6. CASE Namespace!process_restore
  <2>1. made' = made /\ place' = "restored"
    BY <1>6 DEF Namespace!process_restore
  <2>2. made = Object(made.class_id, Namespace!NoInfo)
    BY <1>1 DEF Journey
  <2>3. object' = made
    <3>1. CASE place = "restored"
      <4>1. object = Object(made.class_id, Namespace!NoInfo) /\ ~Namespace!Marked
        BY <1>1, <3>1, <1>3, <2>2 DEF Journey, Namespace!Marked, Object
      <4>2. object.uid = made.uid /\ object.class_id = made.class_id
        BY <4>1 DEF Object
      <4>3. ~(/\ Namespace!compute_offset(object.uid) > 0
              /\ object.class_id >= Namespace!compute_offset(object.uid))
        BY <4>2, <1>2
      <4>4. QED
        BY <1>6, <4>1, <4>3, <2>2 DEF Namespace!process_restore
    <3>2. CASE place = "tracked" /\ object = Object(MovedId, MarkerOf)
      <4>1. Namespace!Marked
        BY <3>2, <1>3 DEF Namespace!Marked, Object
      <4>2. object.info = MarkerOf
        BY <3>2 DEF Object
      <4>3. QED
        BY <1>6, <4>1, <4>2, <1>3, <2>2 DEF Namespace!process_restore, Object
    <3>3. CASE place = "tracked" /\ object = Object(MovedId, Namespace!NoInfo)
      <4>1. ~Namespace!Marked /\ object.uid = made.uid /\ object.class_id = MovedId
        BY <3>3, <1>3 DEF Namespace!Marked, Object
      <4>2. CASE Namespace!compute_offset(made.uid) > 0
        <5>1. MovedId >= Namespace!compute_offset(made.uid)
              /\ MovedId - Namespace!compute_offset(made.uid) = made.class_id
          BY <4>2, <1>2 DEF MovedId
        <5>2. object' = [class_id |-> made.class_id, uid |-> made.uid, info |-> object.info]
          BY <1>6, <4>1, <4>2, <5>1 DEF Namespace!process_restore
        <5>3. QED
          BY <5>1, <5>2, <3>3, <2>2 DEF Object
      <4>3. CASE ~(Namespace!compute_offset(made.uid) > 0)
        <5>1. object' = object /\ MovedId = made.class_id
          BY <1>6, <4>1, <4>3 DEF Namespace!process_restore, MovedId
        <5>2. QED
          BY <5>1, <3>3, <2>2 DEF Object
      <4>4. QED
        BY <4>2, <4>3
    <3>4. QED
      BY <1>1, <1>6, <3>1, <3>2, <3>3 DEF Namespace!process_restore, Journey
  <2>4. QED
    BY <1>1, <2>1, <2>3 DEF Journey, Object, MovedId, MarkerOf
<1>7. CASE UNCHANGED classVars
  BY <1>1, <1>7 DEF classVars, Journey, Object, MovedId, MarkerOf
<1>8. QED
  BY <1>1, <1>4, <1>5, <1>6, <1>7 DEF Namespace!Next

(* Behind the restore probes every object is as its detector made it, for    *)
(* all detectors, offsets and class ids that NamespaceAssumption allows.     *)
THEOREM IdsComeBack == ProbesSpec => []ClassIdsRestored
<1>1. ProbesInit => Journey
  BY JourneyBegins DEF ProbesInit
<1>2. Journey /\ [ProbesNext]_probeVars => Journey'
  BY JourneyGoesOn, PartsStep
<1>3. Journey => ClassIdsRestored
  BY DEF Journey, ClassIdsRestored, Namespace!ClassIdsRestored
<1>4. QED
  BY <1>1, <1>2, <1>3, PTL DEF ProbesSpec
-----------------------------------------------------------------------------
(* FrameEvents *)

(* What the gap is measured from is the time of the slot's last message, and *)
(* no frame, empty view or new camera makes a slot forget it.                *)
LastEmitIsSent ==
  /\ now \in Nat /\ now > 0
  /\ emit_state = [s \in Slots |-> emit_state[s]]
  /\ sent = [s \in Slots |-> sent[s]]
  /\ \A s \in Slots :
       /\ emit_state[s].last_emit \in Nat
       /\ sent[s] # NoMessage => /\ emit_state[s].last_emit > 0
                                 /\ sent[s].at = emit_state[s].last_emit

(* Init establishes the invariant. *)
LEMMA GapBegins == Events!Init => LastEmitIsSent
  BY DEF Events!Init, LastEmitIsSent

(* What one frame does to its slot, and to no other: either the message and  *)
(* the time are those of before, or both are new and the gap has passed.     *)
LEMMA FrameEmits ==
  ASSUME LastEmitIsSent, NEW s \in Slots, NEW objects, NEW votes,
         Events!Observe(s, objects, votes)
  PROVE  /\ emit_state' = [t \in Slots |-> emit_state'[t]]
         /\ sent' = [t \in Slots |-> sent'[t]]
         /\ \A t \in Slots \ {s} : emit_state'[t] = emit_state[t] /\ sent'[t] = sent[t]
         /\ \/ /\ emit_state'[s].last_emit = emit_state[s].last_emit
               /\ sent'[s] = sent[s]
            \/ /\ emit_state'[s].last_emit = now /\ sent'[s].at = now
               /\ emit_state[s].last_emit > 0 => now - emit_state[s].last_emit >= MinGap
<1> DEFINE st == Events!Voted(s, votes)
           message == [camera |-> camera[s], at |-> now, objects |-> objects]
           new == [last_emit |-> now, had_detection |-> TRUE, objects |-> objects,
                   label_votes |-> votes]
           emits == Events!should_emit_message(st, objects)
<1>1. /\ emit_state' = [emit_state EXCEPT ![s] = IF emits THEN new ELSE st]
      /\ sent' = IF emits THEN [sent EXCEPT ![s] = message] ELSE sent
  BY DEF Events!Observe
<1>2. st.last_emit = emit_state[s].last_emit
  BY DEF Events!Voted
<1>3. new.last_emit = now /\ message.at = now
  OBVIOUS
<1>4. emits /\ emit_state[s].last_emit > 0 => now - emit_state[s].last_emit >= MinGap
  <2>1. SUFFICES ASSUME emits, emit_state[s].last_emit > 0
                 PROVE  now - emit_state[s].last_emit >= MinGap
    OBVIOUS
  <2>2. ~(st.last_emit > 0 /\ Events!Elapsed(st) < MinGap)
    BY <2>1 DEF Events!should_emit_message
  <2>3. Events!Elapsed(st) = now - emit_state[s].last_emit
    BY <1>2, <2>1 DEF Events!Elapsed
  <2>4. /\ now \in Nat /\ emit_state[s].last_emit \in Nat /\ MinGap \in Nat
    BY FrameEventsAssumption DEF LastEmitIsSent
  <2>5. QED
    BY <1>2, <2>1, <2>2, <2>3, <2>4
<1> HIDE DEF st, message, new, emits
<1>5. /\ emit_state = [t \in Slots |-> emit_state[t]]
      /\ sent = [t \in Slots |-> sent[t]]
  BY DEF LastEmitIsSent
<1>6. CASE emits
  BY <1>1, <1>3, <1>4, <1>5, <1>6
<1>7. CASE ~emits
  BY <1>1, <1>2, <1>5, <1>7
<1>8. QED
  BY <1>6, <1>7

(* A step keeps the invariant and the gap. *)
LEMMA GapGoesOn ==
  ASSUME LastEmitIsSent, [Events!Next]_<<now, eventsVars>>
  PROVE  /\ LastEmitIsSent'
         /\ \A s \in Slots : (sent'[s] # sent[s] /\ sent[s] # NoMessage)
                               => sent'[s].at - sent[s].at >= MinGap
<1>1. CASE \E s \in Slots, f \in Scenes : Events!Frame(s, f)
  <2>1. PICK s \in Slots, f \in Scenes : Events!Frame(s, f)
    BY <1>1
  <2>2. PICK objects, votes : Events!Observe(s, objects, votes)
    BY <2>1 DEF Events!Frame
  <2>3. now' = now
    BY <2>1 DEF Events!Frame
  <2> HIDE DEF LastEmitIsSent
  <2>4. /\ emit_state' = [t \in Slots |-> emit_state'[t]]
        /\ sent' = [t \in Slots |-> sent'[t]]
        /\ \A t \in Slots \ {s} : emit_state'[t] = emit_state[t] /\ sent'[t] = sent[t]
        /\ \/ /\ emit_state'[s].last_emit = emit_state[s].last_emit
              /\ sent'[s] = sent[s]
           \/ /\ emit_state'[s].last_emit = now /\ sent'[s].at = now
              /\ emit_state[s].last_emit > 0 => now - emit_state[s].last_emit >= MinGap
    BY <2>2, FrameEmits
  <2>5. LastEmitIsSent'
    BY <2>3, <2>4 DEF LastEmitIsSent
  <2>6. \A t \in Slots : (sent'[t] # sent[t] /\ sent[t] # NoMessage)
                           => sent'[t].at - sent[t].at >= MinGap
    BY <2>4 DEF LastEmitIsSent
  <2>7. QED
    BY <2>5, <2>6
<1>2. CASE \E s \in Slots, f \in Scenes : Events!EmptyFrame(s, f)
  <2>1. PICK s \in Slots, f \in Scenes : Events!EmptyFrame(s, f)
    BY <1>2
  <2>2. /\ now' = now /\ sent' = sent
        /\ emit_state' = [emit_state EXCEPT ![s] = Events!reset_source_state(emit_state[s])]
    BY <2>1 DEF Events!EmptyFrame
  <2>3. Events!reset_source_state(emit_state[s]).last_emit = emit_state[s].last_emit
    BY DEF Events!reset_source_state
  <2>4. QED
    BY <2>2, <2>3 DEF LastEmitIsSent
<1>3. CASE \E s \in Slots : Events!Replace(s)
  BY <1>3 DEF Events!Replace, LastEmitIsSent
<1>4. CASE Events!Tick
  BY <1>4 DEF Events!Tick, LastEmitIsSent
<1>5. CASE UNCHANGED <<now, eventsVars>>
  BY <1>5 DEF eventsVars, LastEmitIsSent
<1>6. QED
  BY <1>1, <1>2, <1>3, <1>4, <1>5 DEF Events!Next

(* Two messages of a slot are at least min_emit_gap_ms apart, whatever is    *)
(* between them: should_emit_message measures from the last message of the   *)
(* slot, and reset_source_state keeps its time.                              *)
THEOREM GapKept == ProbesSpec => EmitGap
<1> DEFINE EventsInv == part = "frame_events" => LastEmitIsSent
           Apart == \A s \in Slots : (sent'[s] # sent[s] /\ sent[s] # NoMessage)
                                       => sent'[s].at - sent[s].at >= MinGap
<1>1. ProbesInit => EventsInv
  BY GapBegins DEF ProbesInit
<1>2. EventsInv /\ [ProbesNext]_probeVars => EventsInv' /\ Apart
  <2>1. SUFFICES ASSUME EventsInv, [ProbesNext]_probeVars PROVE EventsInv' /\ Apart
    OBVIOUS
  <2>2. part' = part
    BY <2>1, PartsStep
  <2>3. CASE part = "frame_events"
    <3>1. LastEmitIsSent /\ [Events!Next]_<<now, eventsVars>>
      BY <2>1, <2>3, PartsStep
    <3>2. LastEmitIsSent' /\ Apart
      BY <3>1, GapGoesOn
    <3>3. QED
      BY <3>2
  <2>4. CASE part # "frame_events"
    <3>1. sent' = sent
      BY <2>1, <2>4, PartsStep DEF eventsVars
    <3>2. QED
      BY <2>2, <2>4, <3>1
  <2>5. QED
    BY <2>3, <2>4
<1>3. EventsInv /\ [ProbesNext]_probeVars => [Apart]_Events!vars
  BY <1>2
<1>4. QED
  BY <1>1, <1>2, <1>3, PTL DEF ProbesSpec, EmitGap, Events!EmitGap

(* What a frame shows of interest. *)
LEMMA FrameTypes ==
  ASSUME NEW f \in Scenes
  PROVE  LET objects == Events!collect_frame_objects(f)
         IN /\ DOMAIN objects \subseteq Ids
            /\ \A o \in DOMAIN objects : /\ objects[o].kind \in Kinds /\ objects[o].label \in Labels
                                         /\ objects[o].parent \in Ids \cup {NoParent}
                                         /\ objects[o].place \in Nat
<1> DEFINE objects == Events!collect_frame_objects(f)
           ids == {o \in DOMAIN f : /\ o # Untracked
                                    /\ LabelFilter = {} \/ f[o].kind \in LabelFilter}
           look(o) == [f[o] EXCEPT !.parent = IF @ = Untracked THEN NoParent ELSE @]
<1>1. objects = [o \in ids |-> look(o)]
  BY DEF Events!collect_frame_objects
<1>2. ASSUME NEW o \in ids
      PROVE  /\ look(o).kind \in Kinds /\ look(o).label \in Labels
             /\ look(o).parent \in Ids \cup {NoParent} /\ look(o).place \in Nat
  <2>1. f[o] \in [kind : Kinds, parent : Ids \cup {NoParent}, label : Labels, place : Nat]
    BY FrameEventsAssumption DEF IsScene
  <2> QED BY <2>1
<1>3. ids \subseteq Ids
  BY FrameEventsAssumption DEF IsScene
<1> HIDE DEF objects, ids, look
<1> QED BY <1>1, <1>2, <1>3 DEF objects

(* The types of the votes of some objects. *)
Voting(votes) ==
  /\ DOMAIN votes \subseteq Ids
  /\ \A o \in DOMAIN votes : votes[o] \in Events!Votes /\ Len(votes[o].samples) <= Window

(* A vote keeps its types and the window its length. *)
LEMMA VoteTypes ==
  ASSUME NEW votes, Voting(votes), NEW o, NEW label \in Labels
  PROVE  /\ Events!Vote(votes, o, label) \in Events!Votes
         /\ Len(Events!Vote(votes, o, label).samples) <= Window
<1> DEFINE old == IF o \in DOMAIN votes THEN votes[o]
                  ELSE [samples |-> <<>>, committed |-> NoLabel, provisional |-> label]
           more == Append(old.samples, label)
           new == Events!Last(more)
           wins == {l \in Labels : Len(new) >= Window /\ Events!Count(new, l) > Len(new) \div 2}
           c == IF wins = {} THEN old.committed ELSE CHOOSE l \in wins : TRUE
<1>1. old \in Events!Votes /\ Len(old.samples) <= Window
  BY FrameEventsAssumption DEF Voting, Events!Votes
<1>2. Events!Vote(votes, o, label)
        = [samples |-> new, provisional |-> old.provisional, committed |-> c]
  BY DEF Events!Vote
<1> HIDE DEF old
<1>3. old.samples \in Seq(Labels) /\ old.committed \in Labels /\ old.provisional \in Labels
      /\ Len(old.samples) \in Nat
  BY <1>1 DEF Events!Votes
<1>4. more \in Seq(Labels) /\ Len(more) = Len(old.samples) + 1
  BY <1>3
<1>5. new \in Seq(Labels) /\ Len(new) <= Window
  <2> HIDE DEF more
  <2>1. CASE Len(more) > Window
    <3>1. new = Tail(more)
      BY <2>1 DEF Events!Last
    <3>2. Tail(more) \in Seq(Labels) /\ Len(Tail(more)) = Len(more) - 1
      BY <1>3, <1>4
    <3> QED BY <1>1, <1>3, <1>4, <3>1, <3>2, FrameEventsAssumption
  <2>2. CASE ~(Len(more) > Window)
    <3>1. new = more
      BY <2>2 DEF Events!Last
    <3> QED BY <1>3, <1>4, <2>2, <3>1, FrameEventsAssumption
  <2> QED BY <2>1, <2>2
<1>6. wins \subseteq Labels
  OBVIOUS
<1> HIDE DEF new, wins
<1>7. c \in Labels
  BY <1>3, <1>6
<1> HIDE DEF c
<1> QED BY <1>2, <1>3, <1>5, <1>7 DEF Events!Votes

(* What a frame's votes and its report are. *)
LEMMA ReportTypes ==
  ASSUME NEW old, Voting(old), NEW f \in Scenes
  PROVE  LET objects == Events!collect_frame_objects(f)
             votes == Events!apply_label_majority_vote(old, objects)
             told == Events!Report(objects, votes)
         IN /\ Voting(votes)
            /\ told \in [DOMAIN objects -> Events!Reported] /\ DOMAIN objects \subseteq Ids
<1> DEFINE objects == Events!collect_frame_objects(f)
           votes == Events!apply_label_majority_vote(old, objects)
           told == Events!Report(objects, votes)
<1>1. /\ DOMAIN objects \subseteq Ids
      /\ \A o \in DOMAIN objects : /\ objects[o].kind \in Kinds /\ objects[o].label \in Labels
                                   /\ objects[o].parent \in Ids \cup {NoParent}
                                   /\ objects[o].place \in Nat
  BY FrameTypes
<1> HIDE DEF objects
<1>2. votes = [o \in DOMAIN objects |-> Events!Vote(old, o, objects[o].label)]
  BY DEF Events!apply_label_majority_vote
<1>3. Voting(votes)
  <2>1. ASSUME NEW o \in DOMAIN objects
        PROVE  votes[o] \in Events!Votes /\ Len(votes[o].samples) <= Window
    <3> DEFINE v == Events!Vote(old, o, objects[o].label)
    <3>1. v \in Events!Votes /\ Len(v.samples) <= Window
      BY <1>1, VoteTypes
    <3>2. votes[o] = v
      BY <1>2
    <3> HIDE DEF v, votes
    <3> QED BY <3>1, <3>2
  <2> HIDE DEF votes
  <2> QED BY <1>1, <1>2, <2>1 DEF Voting
<1>4. DOMAIN votes = DOMAIN objects
  BY <1>2
<1> HIDE DEF votes
<1>5. told \in [DOMAIN objects -> Events!Reported]
  <2>1. told = [o \in DOMAIN objects |->
                  [kind |-> objects[o].kind, parent |-> objects[o].parent, place |-> objects[o].place,
                   label |-> IF votes[o].committed # NoLabel THEN votes[o].committed
                             ELSE votes[o].provisional,
                   sig |-> votes[o].committed]]
    BY DEF Events!Report
  <2>2. \A o \in DOMAIN objects : votes[o].committed \in Labels /\ votes[o].provisional \in Labels
    BY <1>3, <1>4 DEF Voting, Events!Votes
  <2> QED BY <1>1, <2>1, <2>2 DEF Events!Reported
<1> QED BY <1>1, <1>3, <1>5 DEF objects, votes

(* What a slot remembers of its last message, and what its objects were in   *)
(* it; a view that was empty since has made it forget the objects.           *)
Told(s) ==
  LET st == emit_state[s]
  IN /\ st.last_emit > 0 => sent[s] # NoMessage
     /\ IF st.had_detection THEN sent[s] # NoMessage /\ st.objects = sent[s].objects
        ELSE st.objects = Events!Nobody

EventsInv ==
  /\ LastEmitIsSent /\ Events!TypeOK
  /\ view = [s \in Slots |-> view[s]]
  /\ \A s \in Slots : Told(s)

(* The types of the state of one slot, and of a message. *)
SlotTypes(st, t) ==
  /\ st.last_emit \in 0 .. t /\ st.had_detection \in BOOLEAN
  /\ DOMAIN st.objects \subseteq Ids /\ Voting(st.label_votes)
  /\ \A o \in DOMAIN st.objects : st.objects[o] \in Events!Reported

MessageTypes(m, t) ==
  m # NoMessage => /\ m.camera \in Cameras /\ m.at \in 1 .. t
                   /\ \A o \in DOMAIN m.objects : m.objects[o] \in Events!Reported

(* Events!TypeOK in parts, now and next. *)
LEMMA EventTypesAre ==
  /\ Events!TypeOK <=>
       /\ now \in Nat /\ camera \in [Slots -> Cameras]
       /\ \A s \in Slots : /\ SlotTypes(emit_state[s], now)
                           /\ MessageTypes(sent[s], now) /\ MessageTypes(view[s], now)
  /\ Events!TypeOK' <=>
       /\ now' \in Nat /\ camera' \in [Slots -> Cameras]
       /\ \A s \in Slots : /\ SlotTypes(emit_state'[s], now')
                           /\ MessageTypes(sent'[s], now') /\ MessageTypes(view'[s], now')
<1>1. Events!TypeOK <=>
        /\ now \in Nat /\ camera \in [Slots -> Cameras]
        /\ \A s \in Slots : /\ SlotTypes(emit_state[s], now)
                            /\ MessageTypes(sent[s], now) /\ MessageTypes(view[s], now)
  BY DEF Events!TypeOK, SlotTypes, MessageTypes, Voting
<1>2. Events!TypeOK' <=>
       /\ now' \in Nat /\ camera' \in [Slots -> Cameras]
       /\ \A s \in Slots : /\ SlotTypes(emit_state'[s], now')
                           /\ MessageTypes(sent'[s], now') /\ MessageTypes(view'[s], now')
  BY DEF Events!TypeOK, SlotTypes, MessageTypes, Voting
<1> QED BY <1>1, <1>2

(* Types outlast the clock. *)
LEMMA TypesLast ==
  ASSUME NEW t \in Nat
  PROVE  /\ \A st : SlotTypes(st, t) => SlotTypes(st, t + 1)
         /\ \A m : MessageTypes(m, t) => MessageTypes(m, t + 1)
<1>1. \A n : n \in 0 .. t => n \in 0 .. t + 1
  OBVIOUS
<1>2. \A n : n \in 1 .. t => n \in 1 .. t + 1
  OBVIOUS
<1>3. \A st : SlotTypes(st, t) => SlotTypes(st, t + 1)
  BY <1>1 DEF SlotTypes
<1>4. \A m : MessageTypes(m, t) => MessageTypes(m, t + 1)
  BY <1>2 DEF MessageTypes
<1> QED BY <1>3, <1>4

(* What Observe leaves of a slot: a message with the frame, or the state as  *)
(* it was with new votes.                                                    *)
LEMMA ObserveDoes ==
  ASSUME EventsInv, NEW s \in Slots, NEW objects, NEW votes, Events!Observe(s, objects, votes)
  PROVE  LET st == Events!Voted(s, votes)
             message == [camera |-> camera[s], at |-> now, objects |-> objects]
         IN /\ view' = [view EXCEPT ![s] = message]
            /\ \A u \in Slots \ {s} :
                 emit_state'[u] = emit_state[u] /\ sent'[u] = sent[u] /\ view'[u] = view[u]
            /\ view'[s] = message
            /\ \/ /\ sent'[s] = message
                  /\ emit_state'[s] = [last_emit |-> now, had_detection |-> TRUE,
                                       objects |-> objects, label_votes |-> votes]
               \/ /\ ~Events!should_emit_message(st, objects)
                  /\ sent'[s] = sent[s] /\ emit_state'[s] = st
<1> DEFINE st == Events!Voted(s, votes)
           message == [camera |-> camera[s], at |-> now, objects |-> objects]
           emits == Events!should_emit_message(st, objects)
           new == [last_emit |-> now, had_detection |-> TRUE, objects |-> objects,
                   label_votes |-> votes]
<1>1. /\ emit_state' = [emit_state EXCEPT ![s] = IF emits THEN new ELSE st]
      /\ sent' = IF emits THEN [sent EXCEPT ![s] = message] ELSE sent
      /\ view' = [view EXCEPT ![s] = message]
  BY DEF Events!Observe
<1>2. /\ emit_state = [t \in Slots |-> emit_state[t]] /\ sent = [t \in Slots |-> sent[t]]
      /\ view = [t \in Slots |-> view[t]]
  BY DEF EventsInv, LastEmitIsSent
<1> HIDE DEF st, message, emits, new
<1>3. CASE emits
  BY <1>1, <1>2, <1>3 DEF new, message
<1>4. CASE ~emits
  BY <1>1, <1>2, <1>4 DEF emits, st, message
<1> QED BY <1>3, <1>4

(* A frame with objects of interest keeps the invariant. *)
LEMMA FrameKeeps ==
  ASSUME EventsInv, LastEmitIsSent', NEW s \in Slots, NEW f \in Scenes, Events!Frame(s, f)
  PROVE  EventsInv'
<1> DEFINE raw == Events!collect_frame_objects(f)
           votes == Events!apply_label_majority_vote(emit_state[s].label_votes, raw)
           objects == Events!Report(raw, votes)
           message == [camera |-> camera[s], at |-> now, objects |-> objects]
           new == [last_emit |-> now, had_detection |-> TRUE, objects |-> objects,
                   label_votes |-> votes]
           st == Events!Voted(s, votes)
<1>1. Events!Observe(s, objects, votes) /\ now' = now /\ camera' = camera
  BY DEF Events!Frame
<1>2. SlotTypes(emit_state[s], now)
  BY EventTypesAre DEF EventsInv
<1>3. Voting(emit_state[s].label_votes)
  BY <1>2 DEF SlotTypes
<1>4. Voting(votes) /\ objects \in [DOMAIN raw -> Events!Reported] /\ DOMAIN raw \subseteq Ids
  BY <1>3, ReportTypes
<1> HIDE DEF raw, votes, objects
<1>5. now \in Nat /\ now > 0 /\ camera \in [Slots -> Cameras]
  BY EventTypesAre DEF EventsInv, LastEmitIsSent
<1>6. /\ view' = [view EXCEPT ![s] = message]
      /\ \A u \in Slots \ {s} :
           emit_state'[u] = emit_state[u] /\ sent'[u] = sent[u] /\ view'[u] = view[u]
      /\ view'[s] = message
      /\ \/ sent'[s] = message /\ emit_state'[s] = new
         \/ sent'[s] = sent[s] /\ emit_state'[s] = st
  BY <1>1, ObserveDoes
<1>7. objects \in Events!Partial(Events!Reported)
  BY <1>4 DEF Events!Partial
<1>8. message \in Events!Shown
  BY <1>5, <1>7 DEF Events!Shown
<1>9. message # NoMessage /\ message.objects = objects
  BY <1>8, MessageAssumption
<1>10. MessageTypes(message, now)
  BY <1>4, <1>5 DEF MessageTypes
<1>11. new.last_emit = now /\ new.had_detection = TRUE /\ new.objects = objects /\ new.label_votes = votes
  OBVIOUS
<1>12. /\ st.last_emit = emit_state[s].last_emit /\ st.had_detection = emit_state[s].had_detection
       /\ st.objects = emit_state[s].objects /\ st.label_votes = votes
  BY DEF Events!Voted
<1> HIDE DEF message, new, st
<1>13. SlotTypes(new, now)
  <2>1. new.had_detection \in BOOLEAN
    BY <1>11, Zenon
  <2>2. now \in 0 .. now
    BY <1>5
  <2> QED BY <1>4, <1>11, <2>1, <2>2 DEF SlotTypes
<1>14. SlotTypes(st, now)
  BY <1>2, <1>4, <1>12 DEF SlotTypes
<1>15. \A u \in Slots : /\ SlotTypes(emit_state[u], now)
                        /\ MessageTypes(sent[u], now) /\ MessageTypes(view[u], now)
  BY EventTypesAre DEF EventsInv
<1>16. \A u \in Slots : /\ SlotTypes(emit_state'[u], now)
                        /\ MessageTypes(sent'[u], now) /\ MessageTypes(view'[u], now)
  BY <1>6, <1>10, <1>13, <1>14, <1>15
<1>17. Events!TypeOK'
  BY <1>1, <1>5, <1>16, EventTypesAre
<1>18. view' = [u \in Slots |-> view'[u]]
  BY <1>6 DEF EventsInv
<1>19. ASSUME NEW u \in Slots PROVE Told(u)'
  <2>0. Told(u)
    BY DEF EventsInv
  <2>1. CASE u # s
    BY <1>6, <2>0, <2>1 DEF Told
  <2>2. CASE u = s /\ sent'[s] = message /\ emit_state'[s] = new
    BY <1>9, <1>11, <2>2 DEF Told
  <2>3. CASE u = s /\ sent'[s] = sent[s] /\ emit_state'[s] = st
    BY <1>12, <2>0, <2>3 DEF Told
  <2> QED BY <1>6, <2>1, <2>2, <2>3
<1> QED BY <1>17, <1>18, <1>19 DEF EventsInv

(* Every step of the part keeps the invariant. *)
LEMMA EventsGoOn ==
  ASSUME EventsInv, [Events!Next]_<<now, eventsVars>>
  PROVE  EventsInv'
<1>0. LastEmitIsSent'
  BY GapGoesOn DEF EventsInv
<1>1. /\ now \in Nat /\ camera \in [Slots -> Cameras]
      /\ \A u \in Slots : /\ SlotTypes(emit_state[u], now)
                          /\ MessageTypes(sent[u], now) /\ MessageTypes(view[u], now)
      /\ \A u \in Slots : Told(u)
  BY EventTypesAre DEF EventsInv
<1>2. MessageTypes(NoMessage, now)
  BY DEF MessageTypes
<1>3. CASE UNCHANGED <<now, eventsVars>>
  <2>1. UNCHANGED <<now, camera, emit_state, sent, view>>
    BY <1>3 DEF eventsVars
  <2>2. Events!TypeOK'
    BY <1>1, <2>1, EventTypesAre
  <2>3. \A u \in Slots : Told(u)'
    BY <1>1, <2>1 DEF Told
  <2> QED BY <1>0, <2>1, <2>2, <2>3 DEF EventsInv
<1>4. CASE \E s \in Slots, f \in Scenes : Events!Frame(s, f)
  BY <1>0, <1>4, FrameKeeps
<1>5. CASE \E s \in Slots, f \in Scenes : Events!EmptyFrame(s, f)
  <2>1. PICK s \in Slots, f \in Scenes : Events!EmptyFrame(s, f)
    BY <1>5
  <2> DEFINE st == Events!reset_source_state(emit_state[s])
  <2>2. /\ emit_state' = [emit_state EXCEPT ![s] = st] /\ view' = [view EXCEPT ![s] = NoMessage]
        /\ UNCHANGED <<now, camera, sent>>
    BY <2>1 DEF Events!EmptyFrame
  <2>3. /\ st.last_emit = emit_state[s].last_emit /\ st.had_detection = FALSE
        /\ st.objects = Events!Nobody /\ st.label_votes = Events!Nobody
    BY DEF Events!reset_source_state
  <2> HIDE DEF st
  <2>4. DOMAIN Events!Nobody = {}
    BY DEF Events!Nobody
  <2>5. SlotTypes(st, now)
    <3>1. st.had_detection \in BOOLEAN
      BY <2>3, Zenon
    <3>2. st.last_emit \in 0 .. now
      BY <1>1, <2>3 DEF SlotTypes
    <3>3. Voting(st.label_votes)
      BY <2>3, <2>4 DEF Voting
    <3> QED BY <2>3, <2>4, <3>1, <3>2, <3>3 DEF SlotTypes
  <2>6. /\ emit_state = [u \in Slots |-> emit_state[u]] /\ view = [u \in Slots |-> view[u]]
    BY DEF EventsInv, LastEmitIsSent
  <2>7. /\ view' = [u \in Slots |-> view'[u]] /\ emit_state'[s] = st /\ view'[s] = NoMessage
        /\ \A u \in Slots \ {s} : emit_state'[u] = emit_state[u] /\ view'[u] = view[u]
    BY <2>2, <2>6
  <2>8. Events!TypeOK'
    BY <1>1, <1>2, <2>2, <2>5, <2>7, EventTypesAre
  <2>9. ASSUME NEW u \in Slots PROVE Told(u)'
    <3>1. CASE u = s
      BY <1>1, <2>2, <2>3, <2>7, <3>1 DEF Told
    <3>2. CASE u # s
      BY <1>1, <2>2, <2>7, <3>2 DEF Told
    <3> QED BY <3>1, <3>2
  <2> QED BY <1>0, <2>7, <2>8, <2>9 DEF EventsInv
<1>6. CASE \E s \in Slots : Events!Replace(s)
  <2>1. PICK s \in Slots : Events!Replace(s)
    BY <1>6
  <2>2. PICK c \in Cameras : camera' = [camera EXCEPT ![s] = c]
    BY <2>1 DEF Events!Replace
  <2>3. view' = [view EXCEPT ![s] = NoMessage] /\ UNCHANGED <<now, emit_state, sent>>
    BY <2>1 DEF Events!Replace
  <2>4. view = [u \in Slots |-> view[u]]
    BY DEF EventsInv
  <2>5. /\ view' = [u \in Slots |-> view'[u]]
        /\ \A u \in Slots : view'[u] = NoMessage \/ view'[u] = view[u]
    BY <2>3, <2>4
  <2>6. camera' \in [Slots -> Cameras]
    BY <1>1, <2>2
  <2>7. Events!TypeOK'
    BY <1>1, <1>2, <2>3, <2>5, <2>6, EventTypesAre
  <2>8. \A u \in Slots : Told(u)'
    BY <1>1, <2>3 DEF Told
  <2> QED BY <1>0, <2>5, <2>7, <2>8 DEF EventsInv
<1>7. CASE Events!Tick
  <2>1. now' = now + 1 /\ UNCHANGED <<camera, emit_state, sent, view>>
    BY <1>7 DEF Events!Tick
  <2>2. /\ \A u \in Slots : /\ SlotTypes(emit_state[u], now + 1)
                            /\ MessageTypes(sent[u], now + 1) /\ MessageTypes(view[u], now + 1)
    BY <1>1, TypesLast
  <2>3. Events!TypeOK'
    BY <1>1, <2>1, <2>2, EventTypesAre
  <2>4. \A u \in Slots : Told(u)'
    BY <1>1, <2>1 DEF Told
  <2> QED BY <1>0, <2>1, <2>3, <2>4 DEF EventsInv
<1> QED BY <1>3, <1>4, <1>5, <1>6, <1>7 DEF Events!Next

(* The slots begin without a message. *)
LEMMA EventsBegin == ProbesInit => EventsInv /\ ViewIsPublished
<1> SUFFICES ASSUME ProbesInit PROVE EventsInv /\ ViewIsPublished
  OBVIOUS
<1> DEFINE st == [last_emit |-> 0, had_detection |-> FALSE, objects |-> Events!Nobody,
                  label_votes |-> Events!Nobody]
<1>1. /\ now = 1 /\ camera \in [Slots -> Cameras] /\ emit_state = [s \in Slots |-> st]
      /\ sent = [s \in Slots |-> NoMessage] /\ view = [s \in Slots |-> NoMessage]
  BY DEF ProbesInit, Events!Init
<1>2. LastEmitIsSent
  BY GapBegins DEF ProbesInit
<1>3. /\ st.last_emit = 0 /\ st.had_detection = FALSE /\ st.objects = Events!Nobody
      /\ st.label_votes = Events!Nobody
  OBVIOUS
<1> HIDE DEF st
<1>4. DOMAIN Events!Nobody = {}
  BY DEF Events!Nobody
<1>5. SlotTypes(st, now)
  <2>1. st.had_detection \in BOOLEAN
    BY <1>3, Zenon
  <2>2. st.last_emit \in 0 .. now
    BY <1>1, <1>3
  <2>3. Voting(st.label_votes)
    BY <1>3, <1>4 DEF Voting
  <2> QED BY <1>3, <1>4, <2>1, <2>2, <2>3 DEF SlotTypes
<1>6. MessageTypes(NoMessage, now)
  BY DEF MessageTypes
<1>7. Events!TypeOK
  BY <1>1, <1>5, <1>6, EventTypesAre
<1>8. \A s \in Slots : Told(s)
  BY <1>1, <1>3 DEF Told
<1>9. ViewIsPublished
  BY <1>1 DEF ViewIsPublished, Events!ViewIsPublished
<1> QED BY <1>1, <1>2, <1>7, <1>8, <1>9 DEF EventsInv

(* The invariant where the part is followed. *)
LEMMA EventsInvariance == ProbesSpec => [](part = "frame_events" => EventsInv)
<1>1. ASSUME part = "frame_events" => EventsInv, [ProbesNext]_probeVars
      PROVE  (part = "frame_events" => EventsInv)'
  BY <1>1, PartsStep, EventsGoOn
<1> QED BY <1>1, EventsBegin, PTL DEF ProbesSpec

(* What the message of a slot owes its view. *)
Current(m, v) ==
  v # NoMessage =>
    /\ m # NoMessage
    /\ Events!Outdated(m, v) => v.at - m.at < MinGap
    /\ (~Events!Outdated(m, v) /\ Events!Lags(m, v))
         => v.at - m.at < MinGap \/ v.at - m.at < Heartbeat

(* A message that is the view itself is neither outdated nor lagging. *)
LEMMA ItselfCurrent ==
  ASSUME NEW m, \A o \in DOMAIN m.objects : m.objects[o] \in Events!Reported
  PROVE  Current(m, m)
<1>1. \A o \in DOMAIN m.objects : Events!Distance(m.objects[o].place, m.objects[o].place) = 0
  BY DEF Events!Distance, Events!Reported
<1>2. ~(0 >= Shift)
  BY FrameEventsAssumption
<1>3. ~Events!Outdated(m, m)
  BY <1>1, <1>2 DEF Events!Outdated
<1>4. ~Events!Lags(m, m)
  BY DEF Events!Lags
<1> QED BY <1>3, <1>4 DEF Current

(* A frame without a reason to be published shows what the last message told. *)
LEMMA NoReasonCurrent ==
  ASSUME {"object_set_change", "label_change", "motion_change"} \subseteq EmitOn,
         EventsInv, NEW s \in Slots, NEW objects, NEW votes, NEW c,
         DOMAIN objects # {}, Events!Reasons(Events!Voted(s, votes), objects) = {}
  PROVE  Current(sent[s], [camera |-> c, at |-> now, objects |-> objects])
<1> DEFINE st == Events!Voted(s, votes)
           m == sent[s]
           v == [camera |-> c, at |-> now, objects |-> objects]
<1>1. st.last_emit = emit_state[s].last_emit /\ st.objects = emit_state[s].objects
  BY DEF Events!Voted
<1>2. Events!Reasons(st, objects) = {}
  OBVIOUS
<1>3. v.at = now /\ v.objects = objects
  OBVIOUS
<1> HIDE DEF st, v
<1>4. Events!Changes(st, objects) = {} /\ ~(Events!Elapsed(st) >= Heartbeat)
  BY <1>2 DEF Events!Reasons
<1> DEFINE both == DOMAIN st.objects \cap DOMAIN objects
<1>5. /\ Events!build_signature(objects) = Events!build_signature(st.objects)
      /\ \A o \in both : st.objects[o]["sig"] = objects[o]["sig"]
      /\ \A o \in both : ~(Events!Distance(st.objects[o].place, objects[o].place) >= Shift)
  <2>1. "object_set_change" \in EmitOn /\ "label_change" \in EmitOn /\ "motion_change" \in EmitOn
    OBVIOUS
  <2>2. Events!build_signature(objects) = Events!build_signature(st.objects)
    BY <1>4, <2>1 DEF Events!Changes
  <2>3. \A o \in both : st.objects[o]["sig"] = objects[o]["sig"]
    BY <1>4, <2>1 DEF Events!Changes
  <2>4. \A o \in both : ~(Events!Distance(st.objects[o].place, objects[o].place) >= Shift)
    BY <1>4, <2>1 DEF Events!Changes
  <2> QED BY <2>2, <2>3, <2>4
<1>6. DOMAIN objects = DOMAIN st.objects
  <2>1. DOMAIN Events!build_signature(objects) = DOMAIN objects
        /\ DOMAIN Events!build_signature(st.objects) = DOMAIN st.objects
    BY DEF Events!build_signature
  <2> QED BY <1>5, <2>1
<1>7. m # NoMessage /\ m.objects = st.objects
  <2>1. st.objects # Events!Nobody
    BY <1>6 DEF Events!Nobody
  <2> QED BY <1>1, <2>1 DEF EventsInv, Told
<1>8. m.at = st.last_emit /\ st.last_emit > 0
  BY <1>1, <1>7 DEF EventsInv, LastEmitIsSent
<1>9. v.at - m.at < Heartbeat
  <2>1. now \in Nat /\ st.last_emit \in Nat /\ Heartbeat \in Nat
    BY <1>1, FrameEventsAssumption DEF EventsInv, LastEmitIsSent
  <2>2. Events!Elapsed(st) = now - st.last_emit
    BY <1>8 DEF Events!Elapsed
  <2> QED BY <1>3, <1>4, <1>8, <2>1, <2>2
<1>10. ~Events!Outdated(m, v)
  <2>1. ASSUME NEW o \in DOMAIN objects
        PROVE  m.objects[o].sig = objects[o].sig
               /\ ~(Events!Distance(m.objects[o].place, objects[o].place) >= Shift)
    BY <1>5, <1>6, <1>7
  <2> QED BY <1>3, <1>5, <1>7, <2>1 DEF Events!Outdated
<1>11. Current(m, v)
  BY <1>7, <1>9, <1>10 DEF Current
<1> QED BY <1>11 DEF v

(* A frame with objects leaves its slot's message current. *)
LEMMA FrameCurrent ==
  ASSUME {"object_set_change", "label_change", "motion_change"} \subseteq EmitOn,
         EventsInv, NEW s \in Slots, NEW f \in Scenes, Events!Frame(s, f),
         \A u \in Slots : Current(sent[u], view[u])
  PROVE  \A u \in Slots : Current(sent'[u], view'[u])
<1> DEFINE raw == Events!collect_frame_objects(f)
           votes == Events!apply_label_majority_vote(emit_state[s].label_votes, raw)
           objects == Events!Report(raw, votes)
           message == [camera |-> camera[s], at |-> now, objects |-> objects]
           st == Events!Voted(s, votes)
<1>1. Events!Observe(s, objects, votes) /\ DOMAIN raw # {}
  BY DEF Events!Frame
<1>2. DOMAIN objects = DOMAIN raw
  BY DEF Events!Report
<1>3. objects \in [DOMAIN raw -> Events!Reported]
  <2>1. Voting(emit_state[s].label_votes)
    BY EventTypesAre DEF EventsInv, SlotTypes
  <2> QED BY <2>1, ReportTypes
<1> HIDE DEF raw, votes, objects
<1>4. /\ \A u \in Slots \ {s} : sent'[u] = sent[u] /\ view'[u] = view[u]
      /\ view'[s] = message
      /\ \/ sent'[s] = message
         \/ ~Events!should_emit_message(st, objects) /\ sent'[s] = sent[s]
  BY <1>1, ObserveDoes
<1>5. message.objects = objects /\ message.at = now
  OBVIOUS
<1>6. Current(message, message)
  <2> HIDE DEF message
  <2> QED BY <1>3, <1>5, ItselfCurrent
<1>7. ASSUME ~Events!should_emit_message(st, objects) PROVE Current(sent[s], message)
  <2>1. CASE Events!Reasons(st, objects) = {}
    BY <1>1, <1>2, <2>1, NoReasonCurrent
  <2>2. CASE st.last_emit > 0 /\ Events!Elapsed(st) < MinGap
    <3>1. st.last_emit = emit_state[s].last_emit
      BY DEF Events!Voted
    <3> HIDE DEF message, st
    <3>2. sent[s] # NoMessage
      BY <2>2, <3>1 DEF EventsInv, Told
    <3>3. sent[s].at = st.last_emit
      BY <3>1, <3>2 DEF EventsInv, LastEmitIsSent
    <3>4. Events!Elapsed(st) = now - st.last_emit
      BY <2>2 DEF Events!Elapsed
    <3>5. message.at - sent[s].at < MinGap
      BY <1>5, <2>2, <3>3, <3>4
    <3> QED BY <3>2, <3>5 DEF Current
  <2> QED BY <1>7, <2>1, <2>2 DEF Events!should_emit_message
<1> HIDE DEF message, st
<1> QED BY <1>4, <1>6, <1>7

(* With the flags of object set, labels and motion on, no change in view is  *)
(* withheld by min_emit_gap_ms for longer than the gap, nor what no flag     *)
(* watches for longer than gap and heartbeat.                                *)
THEOREM ViewsPublished ==
  ASSUME {"object_set_change", "label_change", "motion_change"} \subseteq EmitOn
  PROVE  ProbesSpec => []ViewIsPublished
<1>1. ViewIsPublished <=> \A s \in Slots : Current(sent[s], view[s])
  BY DEF ViewIsPublished, Events!ViewIsPublished, Current
<1>2. ViewIsPublished' <=> \A s \in Slots : Current(sent'[s], view'[s])
  BY DEF ViewIsPublished, Events!ViewIsPublished, Current
<1>3. ASSUME part = "frame_events" => EventsInv, ViewIsPublished, [ProbesNext]_probeVars
      PROVE  ViewIsPublished'
  <2>1. CASE UNCHANGED <<sent, view>>
    BY <1>1, <1>2, <1>3, <2>1
  <2>2. CASE part # "frame_events"
    BY <1>3, <2>1, <2>2, PartsStep DEF eventsVars
  <2>3. CASE part = "frame_events"
    <3>1. EventsInv /\ [Events!Next]_<<now, eventsVars>>
      BY <1>3, <2>3, PartsStep
    <3>2. CASE UNCHANGED <<now, eventsVars>>
      BY <2>1, <3>2 DEF eventsVars
    <3>3. CASE \E s \in Slots, f \in Scenes : Events!Frame(s, f)
      BY <1>1, <1>2, <1>3, <3>1, <3>3, FrameCurrent
    <3>4. CASE \E s \in Slots : Events!Replace(s) \/ \E f \in Scenes : Events!EmptyFrame(s, f)
      <4>1. PICK s \in Slots : sent' = sent /\ view' = [view EXCEPT ![s] = NoMessage]
        BY <3>4 DEF Events!EmptyFrame, Events!Replace
      <4>2. view = [u \in Slots |-> view[u]]
        BY <3>1 DEF EventsInv
      <4>3. \A u \in Slots : view'[u] = NoMessage \/ view'[u] = view[u]
        BY <4>1, <4>2
      <4>4. \A u \in Slots : Current(sent[u], NoMessage)
        BY DEF Current
      <4> QED BY <1>1, <1>2, <1>3, <4>1, <4>3, <4>4
    <3>5. CASE Events!Tick
      BY <2>1, <3>5 DEF Events!Tick
    <3> QED BY <3>1, <3>2, <3>3, <3>4, <3>5 DEF Events!Next
  <2> QED BY <2>2, <2>3
<1> QED BY <1>3, EventsBegin, EventsInvariance, PTL DEF ProbesSpec
-----------------------------------------------------------------------------
(* ExternalProcessors *)

(* Requests for one object are an interval apart; none lasts beyond the      *)
(* timeout.                                                                  *)
Waits(t) == calls[t] # NoCall /\ calls[t].stage = "http"
CropCall(t, x) == Waits(t) /\ calls[t].service = "crop" /\ calls[t].object = x

Young == \A t \in Calls!Threads :
           Waits(t) => calls[t].at <= now /\ now - calls[t].at <= ApiTimeout

(* The throttle knows the last call of an object. *)
Noted == \A x \in Calls!Objects, t \in Calls!Threads :
           CropCall(t, x) => x \in DOMAIN last_processed_ns /\ calls[t].at <= last_processed_ns[x]

Spaced == \A x \in Calls!Objects, t, u \in Calls!Threads :
            CropCall(t, x) /\ CropCall(u, x) /\ t # u
              => calls[u].at - calls[t].at >= ApiInterval \/ calls[t].at - calls[u].at >= ApiInterval

CallsInv == Calls!TypeOK /\ Young /\ Noted /\ Spaced

(* Division by the interval: monotone, and tells apart what is apart. *)
LEMMA Divided ==
  ASSUME NEW a \in Nat, NEW b \in Nat, NEW i \in Nat \ {0}
  PROVE  /\ a \div i \in Nat
         /\ a <= b => a \div i <= b \div i
         /\ b - a >= i => a \div i # b \div i
  OBVIOUS

(* Threads that are an interval apart within a timeout are few. *)
LEMMA FewThreads ==
  ASSUME CallsInv, ApiInterval > 0, NEW x \in Calls!Objects
  PROVE  Cardinality({t \in Calls!Threads : CropCall(t, x)}) <= ApiTimeout \div ApiInterval + 1
<1> DEFINE S == {t \in Calls!Threads : CropCall(t, x)}
           top == ApiTimeout \div ApiInterval
           since(t) == calls[t].at - now + ApiTimeout
           f == [t \in S |-> since(t) \div ApiInterval]
<1>1. ApiTimeout \in Nat /\ ApiInterval \in Nat \ {0} /\ now \in Nat
  BY ExtProcAssumption DEF CallsInv, Calls!TypeOK
<1>2. \A t \in S : calls[t].at \in Nat
  BY DEF CallsInv, Calls!TypeOK, CropCall, Waits, Calls!Call
<1>3. \A t \in S : calls[t].at <= now /\ now - calls[t].at <= ApiTimeout
  BY DEF CallsInv, Young, CropCall
<1>4. ASSUME NEW t \in S PROVE since(t) \in Nat /\ since(t) <= ApiTimeout
  BY <1>1, <1>2, <1>3
<1>5. ASSUME NEW t \in S, NEW u \in S, t # u
      PROVE  since(u) - since(t) >= ApiInterval \/ since(t) - since(u) >= ApiInterval
  <2>1. calls[u].at - calls[t].at >= ApiInterval \/ calls[t].at - calls[u].at >= ApiInterval
    BY <1>5 DEF CallsInv, Spaced
  <2>2. calls[t].at \in Nat /\ calls[u].at \in Nat
    BY <1>2
  <2> QED BY <1>1, <2>1, <2>2
<1>6. top \in Nat
  BY <1>1, Divided
<1> HIDE DEF S, since
<1>7. \A t \in S : f[t] \in 0 .. top
  <2>1. ASSUME NEW t \in S PROVE since(t) \div ApiInterval \in 0 .. top
    <3>1. since(t) \in Nat /\ since(t) <= ApiTimeout
      BY <1>4
    <3>2. since(t) \div ApiInterval \in Nat /\ since(t) \div ApiInterval <= top
      BY <1>1, <3>1, Divided
    <3> QED BY <1>6, <3>2
  <2> QED BY <2>1
<1>8. ASSUME NEW t \in S, NEW u \in S, t # u PROVE f[t] # f[u]
  <2>1. since(t) \in Nat /\ since(u) \in Nat
    BY <1>4
  <2>2. since(u) - since(t) >= ApiInterval \/ since(t) - since(u) >= ApiInterval
    BY <1>5, <1>8
  <2>3. since(t) \div ApiInterval # since(u) \div ApiInterval
    BY <1>1, <2>1, <2>2, Divided
  <2> QED BY <2>3
<1>9. f \in Injection(S, 0 .. top)
  <2> HIDE DEF f, top
  <2>1. f \in [S -> 0 .. top]
    BY <1>7 DEF f
  <2>2. \A t, u \in S : f[t] = f[u] => t = u
    BY <1>8
  <2> QED BY <2>1, <2>2 DEF Injection, IsInjective
<1>10. IsFiniteSet(0 .. top) /\ Cardinality(0 .. top) = top + 1
  BY <1>6, FS_Interval
<1>11. Cardinality(S) <= top + 1
  BY <1>9, <1>10, FS_Injection
<1> QED BY <1>11 DEF S

(* Calls that end, and what leaves calls and throttle alone. *)
LEMMA FewerCalls ==
  ASSUME CallsInv, now' = now, last_processed_ns' = last_processed_ns,
         \A t \in Calls!Threads : calls'[t] = calls[t] \/ ~Waits(t)'
  PROVE  Young' /\ Noted' /\ Spaced'
<1>1. \A t \in Calls!Threads, x \in Calls!Objects :
        CropCall(t, x)' => CropCall(t, x) /\ calls'[t] = calls[t]
  BY DEF CropCall, Waits
<1>2. Young'
  BY DEF CallsInv, Young, Waits
<1>3. Noted'
  <2> SUFFICES ASSUME NEW x \in Calls!Objects, NEW t \in Calls!Threads, CropCall(t, x)'
               PROVE  x \in DOMAIN last_processed_ns' /\ calls'[t].at <= last_processed_ns'[x]
    BY DEF Noted
  <2> QED BY <1>1 DEF CallsInv, Noted
<1>4. Spaced'
  <2> SUFFICES ASSUME NEW x \in Calls!Objects, NEW t \in Calls!Threads, NEW u \in Calls!Threads,
                      CropCall(t, x)', CropCall(u, x)', t # u
               PROVE  calls'[u].at - calls'[t].at >= ApiInterval
                      \/ calls'[t].at - calls'[u].at >= ApiInterval
    BY DEF Spaced
  <2> QED BY <1>1 DEF CallsInv, Spaced
<1> QED BY <1>2, <1>3, <1>4

(* A call that begins, under the throttle if it is one of "crop". *)
LEMMA NewCall ==
  ASSUME CallsInv, NEW v \in Calls!Services, NEW x \in Calls!Objects, NEW t \in Calls!Threads,
         now' = now, calls' = [calls EXCEPT ![t] = [service |-> v, object |-> x, at |-> now, stage |-> "http"]],
         \/ v = "frame" /\ last_processed_ns' = last_processed_ns
         \/ Calls!should_process(x)
  PROVE  Young' /\ Noted' /\ Spaced' /\ calls' \in [Calls!Threads -> Calls!Call \cup {NoCall}]
<1> DEFINE r == [service |-> v, object |-> x, at |-> now, stage |-> "http"]
<1>1. /\ calls \in [Calls!Threads -> Calls!Call \cup {NoCall}] /\ now \in Nat
      /\ DOMAIN last_processed_ns \subseteq Calls!Objects
      /\ \A y \in DOMAIN last_processed_ns : last_processed_ns[y] \in 0 .. now
  BY DEF CallsInv, Calls!TypeOK
<1>2. ApiInterval \in Nat /\ ApiTimeout \in Nat
  BY ExtProcAssumption
<1>3. r \in Calls!Call /\ r.at = now /\ r.stage = "http" /\ r.service = v /\ r.object = x
  BY <1>1 DEF Calls!Call
<1>4. /\ calls' \in [Calls!Threads -> Calls!Call \cup {NoCall}] /\ calls'[t] = r
      /\ \A u \in Calls!Threads : u # t => calls'[u] = calls[u]
  <2> HIDE DEF r
  <2>1. calls' = [calls EXCEPT ![t] = r]
    BY DEF r
  <2> QED BY <1>1, <1>3, <2>1
<1> HIDE DEF r
<1>5. \A u \in Calls!Threads, y \in Calls!Objects :
        CropCall(u, y)' /\ u # t => CropCall(u, y) /\ calls'[u] = calls[u]
  BY <1>4 DEF CropCall, Waits
<1>6. \A y \in Calls!Objects : CropCall(t, y)' => v = "crop" /\ y = x /\ calls'[t].at = now
  BY <1>3, <1>4 DEF CropCall, Waits
<1>7. ASSUME v = "crop"
      PROVE  /\ x \in DOMAIN last_processed_ns => now - last_processed_ns[x] >= ApiInterval
             /\ x \in DOMAIN last_processed_ns' /\ last_processed_ns'[x] = now
  BY <1>7 DEF Calls!should_process, Calls!Set
<1>8. \A y \in DOMAIN last_processed_ns :
        y \in DOMAIN last_processed_ns' /\ last_processed_ns[y] <= last_processed_ns'[y]
  <2>1. CASE last_processed_ns' = last_processed_ns
    BY <1>1, <2>1
  <2>2. CASE Calls!should_process(x)
    <3>1. last_processed_ns' = [i \in DOMAIN last_processed_ns \cup {x} |->
                                  IF i = x THEN now ELSE last_processed_ns[i]]
      BY <2>2 DEF Calls!should_process, Calls!Set
    <3> QED BY <1>1, <3>1
  <2> QED BY <2>1, <2>2
<1>9. Young'
  <2> SUFFICES ASSUME NEW u \in Calls!Threads, Waits(u)'
               PROVE  calls'[u].at <= now /\ now - calls'[u].at <= ApiTimeout
    BY DEF Young
  <2>1. CASE u = t
    BY <1>1, <1>2, <1>3, <1>4, <2>1
  <2>2. CASE u # t
    BY <1>4, <2>2 DEF CallsInv, Young, Waits
  <2> QED BY <2>1, <2>2
<1>10. Noted'
  <2> SUFFICES ASSUME NEW y \in Calls!Objects, NEW u \in Calls!Threads, CropCall(u, y)'
               PROVE  y \in DOMAIN last_processed_ns' /\ calls'[u].at <= last_processed_ns'[y]
    BY DEF Noted
  <2>1. CASE u = t
    BY <1>1, <1>6, <1>7, <2>1
  <2>2. CASE u # t
    <3>1. CropCall(u, y) /\ calls'[u] = calls[u]
      BY <1>5, <2>2
    <3>2. y \in DOMAIN last_processed_ns /\ calls[u].at <= last_processed_ns[y]
      BY <3>1 DEF CallsInv, Noted
    <3>3. y \in DOMAIN last_processed_ns' /\ last_processed_ns[y] <= last_processed_ns'[y]
      BY <1>8, <3>2
    <3>4. calls[u].at \in Nat /\ last_processed_ns[y] \in Nat /\ last_processed_ns'[y] \in Int
      <4>1. calls[u].at \in Nat
        BY <1>1, <3>1 DEF CropCall, Waits, Calls!Call
      <4>2. last_processed_ns[y] \in Nat
        BY <1>1, <3>2
      <4>3. last_processed_ns'[y] \in Int
        BY <1>1, <3>2, <4>2 DEF Calls!should_process, Calls!Set
      <4> QED BY <4>1, <4>2, <4>3
    <3> QED BY <3>1, <3>2, <3>3, <3>4
  <2> QED BY <2>1, <2>2
<1>11. Spaced'
  <2>1. ASSUME NEW y \in Calls!Objects, NEW u \in Calls!Threads,
               CropCall(t, y)', CropCall(u, y)', t # u
        PROVE  calls'[t].at - calls'[u].at >= ApiInterval
    <3>1. CropCall(u, x) /\ calls'[u] = calls[u] /\ calls'[t].at = now /\ v = "crop"
      BY <1>5, <1>6, <2>1
    <3>2. x \in DOMAIN last_processed_ns /\ calls[u].at <= last_processed_ns[x]
      BY <3>1 DEF CallsInv, Noted
    <3>3. calls[u].at \in Nat /\ last_processed_ns[x] \in Nat
      BY <1>1, <3>1, <3>2 DEF CropCall, Waits, Calls!Call
    <3>4. now - last_processed_ns[x] >= ApiInterval
      BY <1>7, <3>1, <3>2
    <3> QED BY <1>1, <1>2, <3>1, <3>2, <3>3, <3>4
  <2> SUFFICES ASSUME NEW y \in Calls!Objects, NEW u \in Calls!Threads, NEW w \in Calls!Threads,
                      CropCall(u, y)', CropCall(w, y)', u # w
               PROVE  calls'[w].at - calls'[u].at >= ApiInterval
                      \/ calls'[u].at - calls'[w].at >= ApiInterval
    BY DEF Spaced
  <2>2. CASE u = t \/ w = t
    BY <2>1, <2>2
  <2>3. CASE u # t /\ w # t
    <3>1. CropCall(u, y) /\ CropCall(w, y) /\ calls'[u] = calls[u] /\ calls'[w] = calls[w]
      BY <1>5, <2>3
    <3> QED BY <3>1 DEF CallsInv, Spaced
  <2> QED BY <2>2, <2>3
<1> QED BY <1>4, <1>9, <1>10, <1>11

(* The types of what is kept for the overlay. *)
Overlays(f, t) ==
  /\ DOMAIN f \subseteq Slots \X CallIds
  /\ \A k \in DOMAIN f : f[k] \in Calls!Text /\ f[k].touched <= t

(* Clean-up keeps them. *)
LEMMA KeptTypes ==
  ASSUME NEW f, NEW t, Overlays(f, t)
  PROVE  Overlays(Calls!Kept(f), t)
  BY DEF Overlays, Calls!Kept

(* Calls!TypeOK in parts, now and next. *)
LEMMA CallTypesAre ==
  /\ Calls!TypeOK <=>
       /\ now \in Nat /\ up \subseteq Calls!Services
       /\ DOMAIN last_processed_ns \subseteq Calls!Objects
       /\ \A x \in DOMAIN last_processed_ns : last_processed_ns[x] \in 0 .. now
       /\ calls \in [Calls!Threads -> Calls!Call \cup {NoCall}] /\ Overlays(osd_overrides, now)
  /\ Calls!TypeOK' <=>
       /\ now' \in Nat /\ up' \subseteq Calls!Services
       /\ DOMAIN last_processed_ns' \subseteq Calls!Objects
       /\ \A x \in DOMAIN last_processed_ns' : last_processed_ns'[x] \in 0 .. now'
       /\ calls' \in [Calls!Threads -> Calls!Call \cup {NoCall}] /\ Overlays(osd_overrides', now')
  BY DEF Calls!TypeOK, Overlays

(* process_object of either service. *)
LEMMA ProcessKeeps ==
  ASSUME CallsInv, NEW x \in Calls!Objects, Calls!ProcessCrop(x) \/ Calls!ProcessFrameObject(x)
  PROVE  CallsInv'
<1>1. PICK v \in Calls!Services :
        /\ Calls!Launch(v, x) /\ UNCHANGED <<now, up, osd_overrides>>
        /\ \/ v = "frame" /\ last_processed_ns' = last_processed_ns
           \/ Calls!should_process(x)
  BY DEF Calls!ProcessCrop, Calls!ProcessFrameObject, Calls!Services
<1>2. /\ DOMAIN last_processed_ns' \subseteq Calls!Objects
      /\ \A y \in DOMAIN last_processed_ns' : last_processed_ns'[y] \in 0 .. now
      /\ \A y \in DOMAIN last_processed_ns :
           y \in DOMAIN last_processed_ns' /\ last_processed_ns[y] <= last_processed_ns'[y]
  <2>1. /\ now \in Nat /\ DOMAIN last_processed_ns \subseteq Calls!Objects
        /\ \A y \in DOMAIN last_processed_ns : last_processed_ns[y] \in 0 .. now
    BY DEF CallsInv, Calls!TypeOK
  <2>2. CASE last_processed_ns' = last_processed_ns
    BY <2>1, <2>2
  <2>3. CASE Calls!should_process(x)
    <3>1. last_processed_ns' = [i \in DOMAIN last_processed_ns \cup {x} |->
                                  IF i = x THEN now ELSE last_processed_ns[i]]
      BY <2>3 DEF Calls!should_process, Calls!Set
    <3> QED BY <2>1, <3>1
  <2> QED BY <1>1, <2>2, <2>3
<1>3. Young' /\ Noted' /\ Spaced' /\ calls' \in [Calls!Threads -> Calls!Call \cup {NoCall}]
  <2>1. CASE \E t \in Calls!Threads :
               calls' = [calls EXCEPT ![t] = [service |-> v, object |-> x, at |-> now, stage |-> "http"]]
    BY <1>1, <2>1, NewCall
  <2>2. CASE calls' = calls
    <3>1. Young' /\ Spaced' /\ calls' \in [Calls!Threads -> Calls!Call \cup {NoCall}]
      BY <1>1, <2>2 DEF CallsInv, Young, Spaced, CropCall, Waits, Calls!TypeOK
    <3>2. Noted'
      <4> SUFFICES ASSUME NEW y \in Calls!Objects, NEW t \in Calls!Threads, CropCall(t, y)'
                   PROVE  y \in DOMAIN last_processed_ns' /\ calls'[t].at <= last_processed_ns'[y]
        BY DEF Noted
      <4>1. CropCall(t, y) /\ calls[t].at \in Nat
        BY <2>2 DEF CropCall, Waits, CallsInv, Calls!TypeOK, Calls!Call
      <4>2. y \in DOMAIN last_processed_ns /\ calls[t].at <= last_processed_ns[y]
        BY <4>1 DEF CallsInv, Noted
      <4>3. last_processed_ns[y] \in Nat /\ last_processed_ns'[y] \in Nat
            /\ last_processed_ns[y] <= last_processed_ns'[y] /\ y \in DOMAIN last_processed_ns'
        BY <1>2, <4>2 DEF CallsInv, Calls!TypeOK
      <4> QED BY <2>2, <4>1, <4>2, <4>3
    <3> QED BY <3>1, <3>2
  <2> QED BY <1>1, <2>1, <2>2 DEF Calls!Launch
<1>4. Calls!TypeOK'
  BY <1>1, <1>2, <1>3, CallTypesAre DEF CallsInv
<1> QED BY <1>3, <1>4 DEF CallsInv

(* An answer, and the end of a thread. *)
LEMMA EndKeeps ==
  ASSUME CallsInv, NEW t \in Calls!Threads, Calls!CallEnds(t) \/ Calls!Answered(t)
  PROVE  CallsInv'
<1>1. /\ calls[t] # NoCall /\ UNCHANGED <<now, up, last_processed_ns>>
      /\ \/ calls' = [calls EXCEPT ![t] = NoCall]
         \/ calls' = [calls EXCEPT ![t] = [calls[t] EXCEPT !.stage = "publish"]]
  BY DEF Calls!CallEnds, Calls!Answered
<1>2. calls \in [Calls!Threads -> Calls!Call \cup {NoCall}] /\ now \in Nat
  BY DEF CallsInv, Calls!TypeOK
<1>3. [calls[t] EXCEPT !.stage = "publish"] \in Calls!Call
  BY <1>1, <1>2 DEF Calls!Call
<1>4. [calls[t] EXCEPT !.stage = "publish"].stage = "publish"
  BY <1>1, <1>2 DEF Calls!Call
<1>5. /\ calls' \in [Calls!Threads -> Calls!Call \cup {NoCall}]
      /\ \A u \in Calls!Threads : calls'[u] = calls[u] \/ ~Waits(u)'
  BY <1>1, <1>2, <1>3, <1>4 DEF Waits
<1>6. Young' /\ Noted' /\ Spaced'
  BY <1>1, <1>5, FewerCalls
<1>7. Overlays(osd_overrides, now)
  BY CallTypesAre DEF CallsInv
<1>8. Overlays(osd_overrides', now)
  <2>1. CASE osd_overrides' = osd_overrides
    BY <1>7, <2>1
  <2>2. CASE osd_overrides' # osd_overrides
    <3> DEFINE x == calls[t].object
               e == [kind |-> x[3], taken |-> calls[t].at, touched |-> now]
               more == Calls!Set(osd_overrides, <<x[1], x[2]>>, e)
    <3>1. osd_overrides' = Calls!Kept(more)
      BY <2>2 DEF Calls!CallEnds, Calls!Answered
    <3>2. x \in Calls!Objects /\ calls[t].at \in Nat
      BY <1>1, <1>2 DEF Calls!Call
    <3>3. <<x[1], x[2]>> \in Slots \X CallIds /\ x[3] \in Kinds
      BY <3>2 DEF Calls!Objects
    <3>4. e \in Calls!Text /\ e.touched <= now
      BY <1>2, <3>2, <3>3 DEF Calls!Text
    <3> HIDE DEF e, x
    <3>5. Overlays(more, now)
      BY <1>7, <3>3, <3>4 DEF Overlays, Calls!Set
    <3> HIDE DEF more
    <3> QED BY <3>1, <3>5, KeptTypes
  <2> QED BY <2>1, <2>2
<1>9. Calls!TypeOK'
  BY <1>1, <1>5, <1>8, CallTypesAre DEF CallsInv
<1> QED BY <1>6, <1>9 DEF CallsInv

(* A frame shows the texts that are kept. *)
LEMMA ApplyKeeps ==
  ASSUME CallsInv, NEW s, NEW scene, Calls!ApplyCachedDisplayText(s, scene)
  PROVE  CallsInv'
<1> DEFINE kept == Calls!Kept(osd_overrides)
<1>1. /\ UNCHANGED <<now, up, last_processed_ns, calls>>
      /\ DOMAIN osd_overrides' = DOMAIN kept
      /\ \A k \in DOMAIN kept :
           \/ osd_overrides'[k] = [kept[k] EXCEPT !.touched = now]
           \/ osd_overrides'[k] = kept[k]
  BY DEF Calls!ApplyCachedDisplayText
<1>2. Overlays(kept, now) /\ now \in Nat
  BY CallTypesAre, KeptTypes DEF CallsInv
<1> HIDE DEF kept
<1>3. Overlays(osd_overrides', now)
  <2>1. ASSUME NEW e \in Calls!Text
        PROVE  [e EXCEPT !.touched = now] \in Calls!Text /\ [e EXCEPT !.touched = now].touched <= now
    BY <1>2 DEF Calls!Text
  <2> QED BY <1>1, <1>2, <2>1 DEF Overlays
<1>4. Young' /\ Noted' /\ Spaced'
  BY <1>1, FewerCalls
<1>5. Calls!TypeOK'
  BY <1>1, <1>3, CallTypesAre DEF CallsInv
<1> QED BY <1>4, <1>5 DEF CallsInv

(* The clock waits for the timeout of curl. *)
LEMMA CallsTickKeeps ==
  ASSUME CallsInv, Calls!Tick
  PROVE  CallsInv'
<1>1. /\ now' = now + 1 /\ UNCHANGED <<up, last_processed_ns, calls, osd_overrides>>
      /\ \A t \in Calls!Threads : Waits(t) => now - calls[t].at < ApiTimeout
  BY DEF Calls!Tick, Waits
<1>2. now \in Nat /\ ApiTimeout \in Nat
  BY ExtProcAssumption DEF CallsInv, Calls!TypeOK
<1>3. \A n \in 0 .. now : n \in 0 .. now + 1
  BY <1>2
<1>4. Young'
  <2> SUFFICES ASSUME NEW t \in Calls!Threads, Waits(t)
               PROVE  calls[t].at <= now + 1 /\ (now + 1) - calls[t].at <= ApiTimeout
    BY <1>1 DEF Young, Waits
  <2>1. calls[t].at \in Nat
    BY DEF CallsInv, Calls!TypeOK, Calls!Call, Waits
  <2>2. calls[t].at <= now /\ now - calls[t].at < ApiTimeout
    BY <1>1 DEF CallsInv, Young, Waits
  <2> QED BY <1>2, <2>1, <2>2
<1>5. Noted' /\ Spaced'
  BY <1>1 DEF CallsInv, Noted, Spaced, CropCall, Waits
<1>6. Overlays(osd_overrides', now')
  <2>1. Overlays(osd_overrides, now)
    BY CallTypesAre DEF CallsInv
  <2>2. \A e \in Calls!Text : e.touched <= now => e.touched <= now + 1
    BY <1>2 DEF Calls!Text
  <2> QED BY <1>1, <2>1, <2>2 DEF Overlays
<1>7. Calls!TypeOK'
  BY <1>1, <1>2, <1>3, <1>6, CallTypesAre DEF CallsInv
<1> QED BY <1>4, <1>5, <1>7 DEF CallsInv

(* Every step keeps the invariant. *)
LEMMA CallsGoOn ==
  ASSUME CallsInv, [Calls!Next]_<<now, callVars>>
  PROVE  CallsInv'
<1>1. CASE UNCHANGED <<now, callVars>>
  BY <1>1, CallTypesAre DEF callVars, CallsInv, Young, Noted, Spaced, CropCall, Waits
<1>2. CASE \E v \in Calls!Services : Calls!Stop(v)
  <2>1. up' \subseteq up /\ UNCHANGED <<now, last_processed_ns, calls, osd_overrides>>
    BY <1>2 DEF Calls!Stop
  <2>2. Calls!TypeOK'
    BY <2>1, CallTypesAre DEF CallsInv
  <2>3. Young' /\ Noted' /\ Spaced'
    BY <2>1, FewerCalls
  <2> QED BY <2>2, <2>3 DEF CallsInv
<1>3. CASE Calls!Tick
  BY <1>3, CallsTickKeeps
<1>4. CASE \E x \in Calls!Objects : Calls!ProcessCrop(x) \/ Calls!ProcessFrameObject(x)
  BY <1>4, ProcessKeeps
<1>5. CASE \E t \in Calls!Threads : Calls!CallEnds(t) \/ Calls!Answered(t)
  BY <1>5, EndKeeps
<1>6. CASE \E s \in Slots, f \in CallScenes : Calls!ApplyCachedDisplayText(s, f)
  BY <1>6, ApplyKeeps
<1> QED BY <1>1, <1>2, <1>3, <1>4, <1>5, <1>6 DEF Calls!Next

(* The invariant of the calls, where they are followed; elsewhere none. *)
CallsPartInv == IF part = "ext_proc" THEN CallsInv ELSE \A t \in Calls!Threads : calls[t] = NoCall

(* The services begin without calls. *)
LEMMA CallsBegin == ProbesInit => CallsPartInv
<1> SUFFICES ASSUME ProbesInit PROVE CallsPartInv
  OBVIOUS
<1>1. Calls!Init
  BY DEF ProbesInit
<1>2. /\ now = 1 /\ up \subseteq Calls!Services /\ last_processed_ns = [x \in {} |-> 0]
      /\ calls = [t \in Calls!Threads |-> NoCall] /\ osd_overrides = [k \in {} |-> NoCall]
  BY <1>1 DEF Calls!Init
<1>3. Calls!TypeOK
  BY <1>2 DEF Calls!TypeOK
<1>4. Young /\ Noted /\ Spaced
  BY <1>2 DEF Young, Noted, Spaced, CropCall, Waits
<1> QED BY <1>2, <1>3, <1>4 DEF CallsPartInv, CallsInv

(* It holds throughout. *)
LEMMA CallsInvariance == ProbesSpec => []CallsPartInv
<1>1. ASSUME CallsPartInv, [ProbesNext]_probeVars PROVE CallsPartInv'
  <2>1. CASE part = "ext_proc"
    BY <1>1, <2>1, PartsClock, CallsGoOn DEF CallsPartInv
  <2>2. CASE part # "ext_proc"
    <3>1. calls' = calls /\ part' = part
      BY <1>1, <2>2, PartsClock DEF callVars
    <3> QED BY <1>1, <2>2, <3>1 DEF CallsPartInv
  <2> QED BY <2>1, <2>2
<1> QED BY <1>1, CallsBegin, PTL DEF ProbesSpec

(* ExternalProcessors counts with the Cardinality of FiniteSets. *)
LEMMA SameCardinality == \A S : Calls!Cardinality(S) = Cardinality(S)
  BY DEF Calls!Cardinality, Cardinality

(* However long the endpoint of crop_objects hangs, at most as many requests *)
(* are under way for an object as intervals of the throttle fit into the     *)
(* timeout of curl, and one.                                                 *)
THEOREM ThreadsFew == ProbesSpec => []CallsBounded
<1>1. CallsPartInv => CallsBounded
  <2> SUFFICES ASSUME CallsPartInv, ApiInterval > 0, NEW x \in Calls!Objects
               PROVE  Cardinality({t \in Calls!Threads :
                                     /\ calls[t] # NoCall /\ calls[t].stage = "http"
                                     /\ calls[t].service = "crop" /\ calls[t].object = x})
                        <= ApiTimeout \div ApiInterval + 1
    BY SameCardinality, Zenon DEF CallsBounded, Calls!CallsBounded
  <2> DEFINE S == {t \in Calls!Threads : CropCall(t, x)}
  <2> SUFFICES Cardinality(S) <= ApiTimeout \div ApiInterval + 1
    BY DEF CropCall, Waits
  <2>1. CASE part = "ext_proc"
    BY <2>1, FewThreads DEF CallsPartInv
  <2>2. CASE part # "ext_proc"
    <3>1. S = {}
      BY <2>2 DEF CallsPartInv, CropCall, Waits
    <3>2. ApiTimeout \div ApiInterval \in Nat
      BY ExtProcAssumption, Divided
    <3>3. Cardinality({}) = 0
      BY FS_EmptySet
    <3> HIDE DEF S
    <3>4. Cardinality(S) = 0
      BY <3>1, <3>3
    <3> QED BY <3>2, <3>4
  <2> QED BY <2>1, <2>2
<1> QED BY <1>1, CallsInvariance, PTL
-----------------------------------------------------------------------------
(* The overlay *)

Tracks == Slots \X CallIds
TrackOf(call) == <<call.object[1], call.object[2]>>

(* What is known of when an id was in sight is of the past. *)
SightTyped ==
  /\ sight = [k \in Tracks |-> sight[k]]
  /\ \A k \in Tracks : /\ sight[k].last \in Nat /\ sight[k].birth \in Nat
                       /\ sight[k].last <= now /\ sight[k].birth <= now

(* A request under way is of the present life of its id, and not older than  *)
(* the last time the id was in sight.                                        *)
AsksForLiving ==
  \A t \in Calls!Threads :
    Waits(t) /\ calls[t].service = "frame"
      => LET k == TrackOf(calls[t])
         IN calls[t].at <= sight[k].last /\ sight[k].birth <= calls[t].at

(* So is a text, or it is stale; it was touched when its id was in sight, or *)
(* when a request ended that was made then.                                  *)
TextsLive ==
  \A k \in DOMAIN osd_overrides :
    /\ osd_overrides[k].touched <= sight[k].last + ApiTimeout
    /\ \/ sight[k].birth <= osd_overrides[k].taken
       \/ now - osd_overrides[k].touched > Retention

LifeInv == /\ SightTyped /\ AsksForLiving /\ TextsLive
           /\ shown = [s \in Slots |-> shown[s]] /\ TextOfThisLife

(* The types CallsInv gives to calls and texts. *)
LEMMA CallFacts ==
  ASSUME CallsInv
  PROVE  /\ now \in Nat /\ ApiTimeout \in Nat /\ Retention \in Nat
         /\ \A t \in Calls!Threads : calls[t] # NoCall
              => calls[t] \in Calls!Call /\ calls[t].at \in Nat /\ TrackOf(calls[t]) \in Tracks
         /\ \A t \in Calls!Threads :
              Waits(t) => calls[t].at <= now /\ now - calls[t].at <= ApiTimeout
         /\ \A k \in DOMAIN osd_overrides :
              /\ k \in Tracks /\ osd_overrides[k] \in Calls!Text
              /\ osd_overrides[k].touched \in Nat /\ osd_overrides[k].taken \in Nat
              /\ osd_overrides[k].touched <= now
<1>1. now \in Nat /\ ApiTimeout \in Nat /\ Retention \in Nat
  BY ExtProcAssumption DEF CallsInv, Calls!TypeOK
<1>2. \A t \in Calls!Threads : calls[t] # NoCall => calls[t] \in Calls!Call
  BY DEF CallsInv, Calls!TypeOK
<1>3. \A c \in Calls!Call : c.at \in Nat /\ TrackOf(c) \in Tracks
  BY DEF Calls!Call, Calls!Objects, TrackOf, Tracks
<1>4. /\ DOMAIN osd_overrides \subseteq Tracks
      /\ \A k \in DOMAIN osd_overrides : /\ osd_overrides[k] \in Calls!Text
                                         /\ osd_overrides[k].touched <= now
  BY CallTypesAre DEF CallsInv, Overlays, Tracks
<1>5. \A e \in Calls!Text : e.touched \in Nat /\ e.taken \in Nat
  BY DEF Calls!Text
<1>6. \A t \in Calls!Threads : Waits(t) => calls[t].at <= now /\ now - calls[t].at <= ApiTimeout
  BY DEF CallsInv, Young
<1> QED BY <1>1, <1>2, <1>3, <1>4, <1>5, <1>6

(* An id in sight begins a new life only when no request for it is under way *)
(* and its text is stale.                                                    *)
LEMMA SightKeeps ==
  ASSUME CallsInv, LifeInv, now' = now, sight' = [k \in Tracks |-> sight'[k]],
         \A k \in Tracks : sight'[k] = sight[k] \/ sight'[k] = Calls!Seen(k)
  PROVE  /\ SightTyped'
         /\ \A t \in Calls!Threads :
              Waits(t) /\ calls[t].service = "frame"
                => LET k == TrackOf(calls[t])
                   IN calls[t].at <= sight'[k].last /\ sight'[k].birth <= calls[t].at
         /\ \A k \in DOMAIN osd_overrides :
              /\ osd_overrides[k].touched <= sight'[k].last + ApiTimeout
              /\ \/ sight'[k].birth <= osd_overrides[k].taken
                 \/ now - osd_overrides[k].touched > Retention
<1>1. /\ now \in Nat /\ ApiTimeout \in Nat /\ Retention \in Nat
      /\ \A k \in Tracks : /\ sight[k].last \in Nat /\ sight[k].birth \in Nat
                           /\ sight[k].last <= now /\ sight[k].birth <= now
  BY CallFacts DEF LifeInv, SightTyped
<1>2. ASSUME NEW k \in Tracks
      PROVE  /\ Calls!Seen(k).last = now
             /\ \/ Calls!Seen(k).birth = sight[k].birth
                \/ /\ Calls!Seen(k).birth = now
                   /\ now - sight[k].last > Retention + ApiTimeout
  BY DEF Calls!Seen, Calls!Away
<1>3. ASSUME NEW k \in Tracks
      PROVE  /\ sight'[k].last \in Nat /\ sight'[k].birth \in Nat
             /\ sight'[k].last <= now /\ sight'[k].birth <= now
             /\ sight[k].last <= sight'[k].last
             /\ \/ sight'[k].birth = sight[k].birth
                \/ now - sight[k].last > Retention + ApiTimeout
  BY <1>1, <1>2
<1>4. SightTyped'
  BY <1>3 DEF SightTyped
<1>5. ASSUME NEW t \in Calls!Threads, Waits(t), calls[t].service = "frame"
      PROVE  LET k == TrackOf(calls[t])
             IN calls[t].at <= sight'[k].last /\ sight'[k].birth <= calls[t].at
  <2> DEFINE k == TrackOf(calls[t])
  <2>1. /\ k \in Tracks /\ calls[t].at \in Nat /\ now - calls[t].at <= ApiTimeout
    BY <1>5, CallFacts DEF Waits
  <2>2. calls[t].at <= sight[k].last /\ sight[k].birth <= calls[t].at
    BY <1>5 DEF LifeInv, AsksForLiving
  <2> HIDE DEF k
  <2>3. calls[t].at <= sight'[k].last /\ sight'[k].birth <= calls[t].at
    BY <1>1, <1>3, <2>1, <2>2
  <2> QED BY <2>3 DEF k
<1>6. ASSUME NEW k \in DOMAIN osd_overrides
      PROVE  /\ osd_overrides[k].touched <= sight'[k].last + ApiTimeout
             /\ \/ sight'[k].birth <= osd_overrides[k].taken
                \/ now - osd_overrides[k].touched > Retention
  <2>1. /\ k \in Tracks /\ osd_overrides[k].touched \in Nat /\ osd_overrides[k].taken \in Nat
    BY CallFacts
  <2>2. /\ osd_overrides[k].touched <= sight[k].last + ApiTimeout
        /\ \/ sight[k].birth <= osd_overrides[k].taken
           \/ now - osd_overrides[k].touched > Retention
    BY DEF LifeInv, TextsLive
  <2> QED BY <1>1, <1>3, <2>1, <2>2
<1> QED BY <1>4, <1>5, <1>6

(* process_object: a request is made when its object is in sight. *)
LEMMA ProcessLives ==
  ASSUME CallsInv, LifeInv, NEW x \in Calls!Objects,
         Calls!ProcessCrop(x) \/ Calls!ProcessFrameObject(x)
  PROVE  LifeInv'
<1> DEFINE k0 == <<x[1], x[2]>>
<1>1. k0 \in Tracks
  BY DEF Calls!Objects, Tracks
<1>2. PICK v \in Calls!Services :
        /\ Calls!Launch(v, x) /\ UNCHANGED <<now, osd_overrides, shown>>
        /\ \/ v = "crop" /\ sight' = sight
           \/ v = "frame" /\ sight' = [sight EXCEPT ![k0] = Calls!Seen(k0)]
  BY DEF Calls!ProcessCrop, Calls!ProcessFrameObject, Calls!Services
<1> HIDE DEF k0
<1>3. sight = [k \in Tracks |-> sight[k]]
  BY DEF LifeInv, SightTyped
<1>4. /\ sight' = [k \in Tracks |-> sight'[k]]
      /\ \A k \in Tracks : sight'[k] = sight[k] \/ sight'[k] = Calls!Seen(k)
      /\ v = "frame" => sight'[k0] = Calls!Seen(k0)
  BY <1>1, <1>2, <1>3
<1>5. /\ SightTyped'
      /\ \A t \in Calls!Threads :
           Waits(t) /\ calls[t].service = "frame"
             => LET k == TrackOf(calls[t])
                IN calls[t].at <= sight'[k].last /\ sight'[k].birth <= calls[t].at
      /\ \A k \in DOMAIN osd_overrides :
           /\ osd_overrides[k].touched <= sight'[k].last + ApiTimeout
           /\ \/ sight'[k].birth <= osd_overrides[k].taken
              \/ now - osd_overrides[k].touched > Retention
  BY <1>2, <1>4, SightKeeps
<1>6. TextsLive' /\ shown' = [s \in Slots |-> shown'[s]] /\ TextOfThisLife'
  BY <1>2, <1>5 DEF LifeInv, TextsLive, TextOfThisLife, Calls!TextOfThisLife
<1>7. AsksForLiving'
  <2> SUFFICES ASSUME NEW t \in Calls!Threads, Waits(t)', calls'[t].service = "frame"
               PROVE  LET k == TrackOf(calls'[t])
                      IN calls'[t].at <= sight'[k].last /\ sight'[k].birth <= calls'[t].at
    BY DEF AsksForLiving, TrackOf
  <2>1. CASE calls'[t] = calls[t]
    BY <1>5, <2>1 DEF Waits, TrackOf
  <2>2. CASE calls'[t] # calls[t]
    <3>1. calls'[t] = [service |-> v, object |-> x, at |-> now, stage |-> "http"]
      BY <1>2, <2>2 DEF Calls!Launch, CallsInv, Calls!TypeOK
    <3>2. v = "frame" /\ TrackOf(calls'[t]) = k0 /\ calls'[t].at = now
      BY <3>1 DEF TrackOf, k0
    <3>3. sight'[k0].last = now
      BY <1>4, <3>2 DEF Calls!Seen
    <3>4. sight'[k0].birth <= now
      BY <1>1, <1>2, <1>5 DEF SightTyped
    <3>5. now \in Nat
      BY CallFacts
    <3> QED BY <3>2, <3>3, <3>4, <3>5
  <2> QED BY <2>1, <2>2
<1> QED BY <1>5, <1>6, <1>7 DEF LifeInv

(* An answer is of the life its request was made in, and comes within the    *)
(* timeout.                                                                  *)
LEMMA AnswerLives ==
  ASSUME CallsInv, LifeInv, NEW t \in Calls!Threads, Calls!Answered(t) \/ Calls!CallEnds(t)
  PROVE  LifeInv'
<1>1. /\ calls[t] # NoCall /\ UNCHANGED <<now, sight, shown>>
      /\ \/ calls' = [calls EXCEPT ![t] = NoCall]
         \/ calls' = [calls EXCEPT ![t] = [calls[t] EXCEPT !.stage = "publish"]]
  BY DEF Calls!CallEnds, Calls!Answered
<1>2. calls \in [Calls!Threads -> Calls!Call \cup {NoCall}]
  BY DEF CallsInv, Calls!TypeOK
<1>3. [calls[t] EXCEPT !.stage = "publish"].stage = "publish"
  BY <1>1, <1>2 DEF Calls!Call
<1>4. \A u \in Calls!Threads : calls'[u] = calls[u] \/ ~Waits(u)'
  BY <1>1, <1>2, <1>3 DEF Waits
<1>5. AsksForLiving'
  BY <1>1, <1>4 DEF LifeInv, AsksForLiving, Waits, TrackOf
<1>6. SightTyped' /\ shown' = [s \in Slots |-> shown'[s]] /\ TextOfThisLife'
  BY <1>1 DEF LifeInv, SightTyped, TextOfThisLife, Calls!TextOfThisLife
<1>7. TextsLive'
  <2>1. CASE osd_overrides' = osd_overrides
    BY <1>1, <2>1 DEF LifeInv, TextsLive
  <2>2. CASE osd_overrides' # osd_overrides
    <3> DEFINE x == calls[t].object
               e == [kind |-> x[3], taken |-> calls[t].at, touched |-> now]
               k0 == <<x[1], x[2]>>
               more == Calls!Set(osd_overrides, k0, e)
    <3>1. osd_overrides' = Calls!Kept(more) /\ Waits(t) /\ calls[t].service = "frame"
      BY <2>2 DEF Calls!CallEnds, Calls!Answered, Waits
    <3>2. k0 = TrackOf(calls[t])
      BY DEF TrackOf
    <3>3. calls[t].at <= sight[k0].last /\ sight[k0].birth <= calls[t].at
      BY <3>1, <3>2 DEF LifeInv, AsksForLiving
    <3>4. /\ now \in Nat /\ ApiTimeout \in Nat /\ k0 \in Tracks /\ calls[t].at \in Nat
          /\ now - calls[t].at <= ApiTimeout
      BY <3>1, <3>2, CallFacts DEF Waits
    <3>5. sight[k0].last \in Nat
      BY <3>4 DEF LifeInv, SightTyped
    <3>6. e.touched = now /\ e.taken = calls[t].at
      OBVIOUS
    <3> HIDE DEF e, k0, x
    <3>7. e.touched <= sight[k0].last + ApiTimeout /\ sight[k0].birth <= e.taken
      BY <3>3, <3>4, <3>5, <3>6
    <3>8. \A k \in DOMAIN more : \/ k = k0 /\ more[k] = e
                                 \/ k \in DOMAIN osd_overrides /\ more[k] = osd_overrides[k]
      BY DEF Calls!Set
    <3> HIDE DEF more
    <3>9. \A k \in DOMAIN osd_overrides' : k \in DOMAIN more /\ osd_overrides'[k] = more[k]
      BY <3>1 DEF Calls!Kept
    <3> QED BY <1>1, <3>7, <3>8, <3>9 DEF LifeInv, TextsLive
  <2> QED BY <2>1, <2>2
<1> QED BY <1>5, <1>6, <1>7 DEF LifeInv

(* A frame writes texts that are not stale, and these are of this life. *)
LEMMA ApplyLives ==
  ASSUME CallsInv, LifeInv, NEW s \in Slots, NEW scene, Calls!ApplyCachedDisplayText(s, scene)
  PROVE  LifeInv'
<1> DEFINE kept == Calls!Kept(osd_overrides)
           mine == {k \in DOMAIN kept : /\ k[1] = s /\ k[2] \in DOMAIN scene
                                        /\ Calls!Compatible(kept[k].kind, scene[k[2]].kind)}
           over == {[taken |-> kept[k].taken, birth |-> Calls!Seen(k).birth] : k \in mine}
<1>1. /\ osd_overrides' = [k \in DOMAIN kept |->
                             IF k \in mine THEN [kept[k] EXCEPT !.touched = now] ELSE kept[k]]
      /\ sight' = [k \in Tracks |->
                     IF k[1] = s /\ k[2] \in DOMAIN scene THEN Calls!Seen(k) ELSE sight[k]]
      /\ shown' = [shown EXCEPT ![s] = over]
      /\ calls' = calls /\ now' = now
  BY DEF Calls!ApplyCachedDisplayText, Tracks
<1>2. \A k \in DOMAIN kept : /\ k \in DOMAIN osd_overrides /\ kept[k] = osd_overrides[k]
                             /\ now - kept[k].touched <= Retention
  BY DEF Calls!Kept
<1>3. \A k \in mine : k \in DOMAIN kept /\ k[1] = s /\ k[2] \in DOMAIN scene
  OBVIOUS
<1>4. \A b \in over : \E k \in mine : b.taken = kept[k].taken /\ b.birth = Calls!Seen(k).birth
  OBVIOUS
<1> HIDE DEF kept, mine, over
<1>5. /\ sight' = [k \in Tracks |-> sight'[k]]
      /\ \A k \in Tracks : sight'[k] = sight[k] \/ sight'[k] = Calls!Seen(k)
  BY <1>1
<1>6. /\ SightTyped'
      /\ \A t \in Calls!Threads :
           Waits(t) /\ calls[t].service = "frame"
             => LET k == TrackOf(calls[t])
                IN calls[t].at <= sight'[k].last /\ sight'[k].birth <= calls[t].at
      /\ \A k \in DOMAIN osd_overrides :
           /\ osd_overrides[k].touched <= sight'[k].last + ApiTimeout
           /\ \/ sight'[k].birth <= osd_overrides[k].taken
              \/ now - osd_overrides[k].touched > Retention
  BY <1>1, <1>5, SightKeeps
<1>7. AsksForLiving'
  BY <1>1, <1>6 DEF AsksForLiving, Waits, TrackOf
<1>8. now \in Nat /\ ApiTimeout \in Nat /\ Retention \in Nat
  BY CallFacts
<1>9. ASSUME NEW k \in DOMAIN kept
      PROVE  /\ k \in Tracks /\ kept[k] \in Calls!Text
             /\ kept[k].touched <= sight'[k].last + ApiTimeout
             /\ sight'[k].birth <= kept[k].taken
             /\ k \in mine => sight'[k] = Calls!Seen(k) /\ sight'[k].last = now
  <2>1. k \in Tracks /\ kept[k] \in Calls!Text /\ kept[k].touched \in Nat
    BY <1>2, CallFacts
  <2>2. k \in mine => sight'[k] = Calls!Seen(k)
    BY <1>1, <1>3, <2>1
  <2>3. Calls!Seen(k).last = now
    BY DEF Calls!Seen
  <2> QED BY <1>2, <1>6, <1>8, <2>1, <2>2, <2>3
<1>10. TextsLive'
  <2> SUFFICES ASSUME NEW k \in DOMAIN osd_overrides'
               PROVE  /\ osd_overrides'[k].touched <= sight'[k].last + ApiTimeout
                      /\ sight'[k].birth <= osd_overrides'[k].taken
    BY DEF TextsLive
  <2>1. k \in DOMAIN kept
    BY <1>1
  <2>2. CASE k \in mine
    <3>1. osd_overrides'[k] = [kept[k] EXCEPT !.touched = now]
      BY <1>1, <2>1, <2>2
    <3>2. osd_overrides'[k].touched = now /\ osd_overrides'[k].taken = kept[k].taken
      BY <1>9, <2>1, <3>1 DEF Calls!Text
    <3> QED BY <1>8, <1>9, <2>1, <2>2, <3>2
  <2>3. CASE k \notin mine
    BY <1>1, <1>9, <2>1, <2>3
  <2> QED BY <2>2, <2>3
<1>11. shown' = [u \in Slots |-> shown'[u]] /\ \A u \in Slots : u # s => shown'[u] = shown[u]
  BY <1>1 DEF LifeInv
<1>12. shown'[s] = over
  BY <1>1 DEF LifeInv
<1>13. \A b \in over : b.birth <= b.taken
  BY <1>3, <1>4, <1>9
<1>14. TextOfThisLife'
  BY <1>11, <1>12, <1>13 DEF LifeInv, TextOfThisLife, Calls!TextOfThisLife
<1> QED BY <1>6, <1>7, <1>10, <1>11, <1>14 DEF LifeInv

(* Time passes: what is stale stays so. *)
LEMMA TickLives ==
  ASSUME CallsInv, LifeInv, Calls!Tick
  PROVE  LifeInv'
<1>1. now' = now + 1 /\ UNCHANGED <<calls, osd_overrides, sight, shown>>
  BY DEF Calls!Tick
<1>2. SightTyped'
  BY <1>1, CallFacts DEF LifeInv, SightTyped
<1>3. TextsLive'
  BY <1>1, CallFacts DEF LifeInv, TextsLive
<1>4. AsksForLiving' /\ shown' = [s \in Slots |-> shown'[s]] /\ TextOfThisLife'
  BY <1>1 DEF LifeInv, AsksForLiving, Waits, TrackOf, TextOfThisLife, Calls!TextOfThisLife
<1> QED BY <1>2, <1>3, <1>4 DEF LifeInv

(* The invariant where the services are followed; elsewhere nothing is shown. *)
OverlayInv == IF part = "ext_proc" THEN LifeInv ELSE TextOfThisLife

(* No id has been in sight, and no text is kept or shown. *)
LEMMA OverlayBegins == ProbesInit => OverlayInv
<1> SUFFICES ASSUME ProbesInit PROVE OverlayInv
  OBVIOUS
<1>1. /\ now = 1 /\ calls = [t \in Calls!Threads |-> NoCall] /\ osd_overrides = [k \in {} |-> NoCall]
      /\ sight = [k \in Tracks |-> [last |-> 0, birth |-> 0]] /\ shown = [s \in Slots |-> {}]
  BY DEF ProbesInit, Calls!Init, Tracks
<1>2. SightTyped
  BY <1>1 DEF SightTyped
<1>3. AsksForLiving /\ TextsLive
  BY <1>1 DEF AsksForLiving, TextsLive, Waits
<1>4. shown = [s \in Slots |-> shown[s]] /\ TextOfThisLife
  BY <1>1 DEF TextOfThisLife, Calls!TextOfThisLife
<1> QED BY <1>2, <1>3, <1>4 DEF OverlayInv, LifeInv

(* Every step keeps it. *)
LEMMA OverlayGoesOn == CallsPartInv /\ OverlayInv /\ [ProbesNext]_probeVars => OverlayInv'
<1> SUFFICES ASSUME CallsPartInv, OverlayInv, [ProbesNext]_probeVars PROVE OverlayInv'
  OBVIOUS
<1>1. CASE part = "ext_proc"
  <2>1. CallsInv /\ LifeInv /\ part' = part /\ [Calls!Next]_<<now, callVars>>
    BY <1>1, PartsClock DEF CallsPartInv, OverlayInv
  <2>2. ASSUME UNCHANGED <<now, calls, osd_overrides, sight, shown>> PROVE LifeInv'
    BY <2>1, <2>2 DEF LifeInv, SightTyped, AsksForLiving, TextsLive, Waits, TrackOf,
                      TextOfThisLife, Calls!TextOfThisLife
  <2>3. LifeInv'
    BY <2>1, <2>2, ProcessLives, AnswerLives, ApplyLives, TickLives
    DEF Calls!Next, Calls!Stop, callVars
  <2> QED BY <1>1, <2>1, <2>3 DEF OverlayInv
<1>2. CASE part # "ext_proc"
  <2>1. shown' = shown /\ part' = part
    BY <1>2, PartsClock DEF callVars
  <2> QED BY <1>2, <2>1 DEF OverlayInv, TextOfThisLife, Calls!TextOfThisLife
<1> QED BY <1>1, <1>2

(* apply_cached_display_text writes no old text over a tracker id that is    *)
(* used again after it was out of sight for longer than the retention and    *)
(* the timeout of a request together, however many requests are under way    *)
(* and in whichever order they are answered.  LifeInv strengthens it by what *)
(* a request knows of the life it was made in.                               *)
THEOREM OldTextsGo == ProbesSpec => []TextOfThisLife
<1>1. OverlayInv => TextOfThisLife
  BY DEF OverlayInv, LifeInv
<1> QED BY <1>1, OverlayBegins, OverlayGoesOn, CallsInvariance, PTL DEF ProbesSpec
-----------------------------------------------------------------------------
(* CropObject *)

(* Forgetting a set of objects forgets it in all maps. *)
LEMMA ForgetKeeps ==
  ASSUME BooksAgree, NEW K, Crop!Forget(K)
  PROVE  BooksAgree'
  BY DEF BooksAgree, Crop!BooksAgree, Crop!Forget, Crop!Without

(* A group that is published enters all maps, one that is not enters those   *)
(* the clean-up walks or none; objects are only added.                       *)
LEMMA GroupKeeps ==
  ASSUME BooksAgree, NEW g, Crop!HandleGroup(g)
  PROVE  BooksAgree'
<1>1. CASE Crop!Undecided(g)
  BY <1>1 DEF BooksAgree, Crop!BooksAgree, Crop!Undecided, Crop!Put
<1>2. CASE Crop!Refused(g)
  BY <1>2 DEF BooksAgree, Crop!BooksAgree, Crop!Refused, Crop!Put
<1>3. CASE Crop!Publish(g)
  <2> DEFINE seen == {<<g.slot, g.parent>>} \cup ({g.slot} \X g.children)
             Pub == {k \in seen : Crop!Passes(g.scene[k[2]])}
  <2>1. /\ DOMAIN pub_state' = DOMAIN pub_state \cup Pub
        /\ DOMAIN last_capture_pts' = DOMAIN last_capture_pts \cup Pub
        /\ DOMAIN object_last_seen' = DOMAIN object_last_seen \cup seen
        /\ object_keys' = object_keys \cup Pub
    BY <1>3 DEF Crop!Publish, Crop!Put
  <2>2. Pub \subseteq seen
    OBVIOUS
  <2> HIDE DEF seen, Pub
  <2>3. QED
    BY <2>1, <2>2 DEF BooksAgree, Crop!BooksAgree
<1>4. QED
  BY <1>1, <1>2, <1>3 DEF Crop!HandleGroup

(* Every step keeps the books. *)
LEMMA BooksGoOn == BooksAgree /\ [Crop!Next]_cropVars => BooksAgree'
<1>1. SUFFICES ASSUME BooksAgree, [Crop!Next]_cropVars PROVE BooksAgree'
  OBVIOUS
<1>2. CASE UNCHANGED <<pub_state, last_capture_pts, object_last_seen, object_keys>>
  BY <1>1, <1>2 DEF BooksAgree, Crop!BooksAgree
<1>3. CASE \E g \in groups : Crop!HandleGroup(g)
  BY <1>1, <1>3, GroupKeeps
<1>4. CASE Crop!EndBatch
  <2>1. ASSUME NEW t, Crop!cleanup_stale_objects(t) PROVE BooksAgree'
    BY <1>1, <1>2, <2>1, ForgetKeeps DEF Crop!cleanup_stale_objects, Crop!maps
  <2>2. CASE UNCHANGED Crop!maps
    BY <1>2, <2>2 DEF Crop!maps
  <2>3. QED
    BY <1>4, <2>1, <2>2 DEF Crop!EndBatch
<1>5. CASE \/ UNCHANGED cropVars \/ Crop!BeginBatch \/ Crop!EndFrame \/ Crop!Tick
           \/ \E s \in Slots : Crop!BeginFrame(s)
  <2>1. UNCHANGED <<pub_state, last_capture_pts, object_last_seen, object_keys>>
    BY <1>5 DEF cropVars, Crop!BeginBatch, Crop!EndFrame, Crop!Tick, Crop!BeginFrame, Crop!maps
  <2>2. QED
    BY <1>2, <2>1
<1>6. QED
  BY <1>1, <1>3, <1>4, <1>5 DEF Crop!Next

(* The maps of crop_objects agree on who was published, and the stale        *)
(* clean-up reaches all of them, through expiry and the emergency clear      *)
(* (cleanup_stale_objects), for any scenes, filters and limits.              *)
THEOREM BooksKept == ProbesSpec => []BooksAgree
<1>1. ProbesInit => BooksAgree
  BY DEF ProbesInit, Crop!Init, BooksAgree, Crop!BooksAgree, Crop!Empty
<1>2. BooksAgree /\ [ProbesNext]_probeVars => BooksAgree'
  BY BooksGoOn, PartsStep
<1>3. QED
  BY <1>1, <1>2, PTL DEF ProbesSpec

(* The fields of ObjectPubState and their ranges. *)
PubFields == {"seen", "on", "tokens", "refill", "labels", "pending", "count", "hash"}

PubOk(st) ==
  /\ DOMAIN st = PubFields
  /\ st.tokens \in 0 .. BurstMax /\ st.refill \in Crop!Pts /\ st.seen \in Nat
  /\ st.on \in 0 .. KOn /\ st.count \in 0 .. KLabel

(* The bucket goes from its state to these tokens and this refill time: it   *)
(* stays, is filled for the first time, or gains a token per refill time.    *)
Poured(st, tokens, refill, pts) ==
  \/ tokens = st.tokens /\ refill = st.refill
  \/ /\ pts # -1 /\ refill = pts
     /\ \/ st.refill = -1
        \/ st.refill <= pts /\ tokens <= st.tokens + (pts - st.refill) \div TokenRefill

(* An object without state has it in its ranges. *)
LEMMA FreshOk == PubOk(Crop!Fresh) /\ Crop!Fresh.refill = -1
<1>1. DOMAIN Crop!Fresh = PubFields
  BY DEF Crop!Fresh, PubFields
<1>2. /\ Crop!Fresh.tokens = 0 /\ Crop!Fresh.refill = -1 /\ Crop!Fresh.seen = 0
      /\ Crop!Fresh.on = 0 /\ Crop!Fresh.count = 0
  BY DEF Crop!Fresh, Crop!None
<1> QED BY <1>1, <1>2, CropAssumption DEF PubOk, Crop!Pts, Crop!None

(* The hysteresis, and what is pending, leave the bucket alone. *)
LEMMA SightedOk ==
  ASSUME NEW st, PubOk(st), NEW num \in Nat
  PROVE  LET r == Crop!Sighted(st, num)
         IN PubOk(r) /\ r.tokens = st.tokens /\ r.refill = st.refill
<1> DEFINE on == IF st.seen > 0 /\ num > st.seen /\ num - st.seen <= KOff
                 THEN Crop!AtMost(st.on + 1, KOn) ELSE 1
           r == [st EXCEPT !.seen = num, !.on = on]
<1>1. Crop!Sighted(st, num) = r
  BY DEF Crop!Sighted
<1>2. on \in 0 .. KOn
  BY CropAssumption DEF PubOk, Crop!AtMost
<1> HIDE DEF on
<1>3. /\ DOMAIN r = PubFields /\ r.seen = num /\ r.on = on
      /\ r.tokens = st.tokens /\ r.refill = st.refill /\ r.count = st.count
  BY DEF PubOk, PubFields
<1> HIDE DEF r
<1> QED BY <1>1, <1>2, <1>3 DEF PubOk

(* Nothing pending is a state, too. *)
LEMMA NoPendingOk ==
  ASSUME NEW st, PubOk(st)
  PROVE  LET r == Crop!NoPending(st)
         IN PubOk(r) /\ r.tokens = st.tokens /\ r.refill = st.refill
<1> DEFINE r == [st EXCEPT !.pending = NoSignature, !.count = 0]
<1>1. Crop!NoPending(st) = r
  BY DEF Crop!NoPending
<1>2. /\ DOMAIN r = PubFields /\ r.seen = st.seen /\ r.on = st.on
      /\ r.tokens = st.tokens /\ r.refill = st.refill /\ r.count = 0
  BY DEF PubOk, PubFields
<1> HIDE DEF r
<1>3. 0 \in 0 .. KLabel
  BY CropAssumption
<1> QED BY <1>1, <1>2, <1>3 DEF PubOk

(* And a signature that is. *)
LEMMA PendingOk ==
  ASSUME NEW st, PubOk(st), NEW sig
  PROVE  LET r == Crop!Pending(st, sig)
         IN PubOk(r) /\ r.tokens = st.tokens /\ r.refill = st.refill
<1> DEFINE count == IF st.pending = sig THEN Crop!AtMost(st.count + 1, KLabel) ELSE 1
           r == [st EXCEPT !.pending = sig, !.count = count]
<1>1. Crop!Pending(st, sig) = r
  BY DEF Crop!Pending
<1>2. count \in 0 .. KLabel
  BY CropAssumption DEF PubOk, Crop!AtMost
<1> HIDE DEF count
<1>3. /\ DOMAIN r = PubFields /\ r.seen = st.seen /\ r.on = st.on
      /\ r.tokens = st.tokens /\ r.refill = st.refill /\ r.count = count
  BY DEF PubOk, PubFields
<1> HIDE DEF r
<1> QED BY <1>1, <1>2, <1>3 DEF PubOk

(* refill_tokens pours, and starts the clock of the bucket. *)
LEMMA RefillOk ==
  ASSUME NEW st, PubOk(st), NEW pts \in Crop!Pts
  PROVE  LET r == Crop!refill_tokens(st, pts)
         IN PubOk(r) /\ Poured(st, r.tokens, r.refill, pts) /\ (pts # -1 => r.refill # -1)
<1> DEFINE r == Crop!refill_tokens(st, pts)
           more == st.tokens + (pts - st.refill) \div TokenRefill
           top == IF more < BurstMax THEN more ELSE BurstMax
<1>0. /\ st.tokens \in 0 .. BurstMax /\ st.refill \in Nat \cup {-1} /\ pts \in Nat \cup {-1}
      /\ BurstMax \in Nat /\ TokenRefill \in Nat \ {0}
  BY CropAssumption DEF PubOk, Crop!Pts, Crop!None
<1>1. CASE pts = -1
  <2>1. r = st
    BY <1>1 DEF Crop!refill_tokens, Crop!valid, Crop!None
  <2> QED BY <1>1, <2>1 DEF Poured
<1>2. CASE pts # -1 /\ st.refill = -1
  <2>1. r = [st EXCEPT !.refill = pts, !.tokens = BurstMax]
    BY <1>2 DEF Crop!refill_tokens, Crop!valid, Crop!None
  <2>2. BurstMax \in 0 .. BurstMax
    BY <1>0
  <2>3. PubOk(r) /\ r.tokens = BurstMax /\ r.refill = pts
    <3> HIDE DEF r
    <3>1. /\ DOMAIN r = PubFields /\ r.seen = st.seen /\ r.on = st.on
          /\ r.tokens = BurstMax /\ r.refill = pts /\ r.count = st.count
      BY <2>1 DEF PubOk, PubFields
    <3> QED BY <2>2, <3>1 DEF PubOk
  <2> HIDE DEF r
  <2>4. Poured(st, r.tokens, r.refill, pts) /\ r.refill # -1
    BY <1>2, <2>3 DEF Poured
  <2> QED BY <2>3, <2>4 DEF r
<1>3. CASE pts # -1 /\ st.refill # -1 /\ (pts <= st.refill \/ pts - st.refill < TokenRefill)
  <2>1. r = st
    BY <1>3 DEF Crop!refill_tokens, Crop!valid, Crop!None
  <2> QED BY <1>3, <2>1 DEF Poured
<1>4. CASE pts # -1 /\ st.refill # -1 /\ ~(pts <= st.refill \/ pts - st.refill < TokenRefill)
  <2>1. r = [st EXCEPT !.tokens = top, !.refill = pts]
    BY <1>4 DEF Crop!refill_tokens, Crop!valid, Crop!None
  <2>2. pts - st.refill \in Nat /\ st.refill <= pts
    BY <1>0, <1>4
  <2>3. (pts - st.refill) \div TokenRefill \in Nat
    BY <1>0, <2>2, Divided
  <2>4. more \in Nat
    BY <1>0, <2>3
  <2>5. top \in 0 .. BurstMax /\ top <= more
    <3> HIDE DEF more
    <3> QED BY <1>0, <2>4
  <2>6. PubOk(r) /\ r.tokens = top /\ r.refill = pts
    <3> HIDE DEF top, r
    <3>1. /\ DOMAIN r = PubFields /\ r.seen = st.seen /\ r.on = st.on
          /\ r.tokens = top /\ r.refill = pts /\ r.count = st.count
      BY <2>1 DEF PubOk, PubFields
    <3> QED BY <2>5, <3>1 DEF PubOk
  <2> HIDE DEF r, top
  <2>7. Poured(st, r.tokens, r.refill, pts) /\ r.refill # -1
    BY <1>4, <2>2, <2>5, <2>6 DEF Poured
  <2> QED BY <2>6, <2>7 DEF r
<1> QED BY <1>0, <1>1, <1>2, <1>3, <1>4

(* Within the interval: a bypass takes a token. *)
LEMMA WithinOk ==
  ASSUME NEW st, PubOk(st), NEW elapsed \in Int, NEW sig
  PROVE  LET w == Crop!Within(st, elapsed, sig)
         IN /\ PubOk(w.st) /\ w.st.refill = st.refill
            /\ \/ w.decision = "none" /\ w.st.tokens = st.tokens
               \/ /\ w.decision = "bypass" /\ w.st.tokens + 1 = st.tokens
                  /\ elapsed >= BypassMinGap
<1> DEFINE w == Crop!Within(st, elapsed, sig)
           n == Crop!NoPending(st)
           p == Crop!Pending(st, sig)
           np == Crop!NoPending(p)
<1>0. BypassMinGap \in Nat /\ BurstMax \in Nat
  BY CropAssumption
<1>1. PubOk(n) /\ n.tokens = st.tokens /\ n.refill = st.refill
  BY NoPendingOk
<1>2. PubOk(p) /\ p.tokens = st.tokens /\ p.refill = st.refill
  BY PendingOk
<1>3. \/ w = [st |-> st, decision |-> "none"]
      \/ w = [st |-> n, decision |-> "none"]
      \/ w = [st |-> p, decision |-> "none"]
      \/ /\ w = [st |-> [np EXCEPT !.tokens = np.tokens - 1], decision |-> "bypass"]
         /\ p.tokens > 0 /\ ~(elapsed < BypassMinGap)
  BY DEF Crop!Within
<1> HIDE DEF n, p, w
<1>4. PubOk(np) /\ np.tokens = p.tokens /\ np.refill = p.refill
  BY <1>2, NoPendingOk
<1> HIDE DEF np
<1>5. CASE w = [st |-> st, decision |-> "none"]
  BY <1>5 DEF w
<1>6. CASE w = [st |-> n, decision |-> "none"]
  BY <1>1, <1>6 DEF w
<1>7. CASE w = [st |-> p, decision |-> "none"]
  BY <1>2, <1>7 DEF w
<1>8. CASE /\ w = [st |-> [np EXCEPT !.tokens = np.tokens - 1], decision |-> "bypass"]
           /\ p.tokens > 0 /\ ~(elapsed < BypassMinGap)
  <2> DEFINE r == [np EXCEPT !.tokens = np.tokens - 1]
  <2>1. np.tokens \in 0 .. BurstMax /\ np.tokens > 0 /\ np.tokens - 1 \in 0 .. BurstMax
    BY <1>0, <1>4, <1>8 DEF PubOk
  <2>2. /\ DOMAIN r = PubFields /\ r.seen = np.seen /\ r.on = np.on
        /\ r.tokens = np.tokens - 1 /\ r.refill = np.refill /\ r.count = np.count
    BY <1>4 DEF PubOk, PubFields
  <2>3. w.st = r /\ w.decision = "bypass"
    BY <1>8
  <2> HIDE DEF r
  <2>4. PubOk(r)
    BY <1>4, <2>1, <2>2 DEF PubOk
  <2>5. w.st.tokens + 1 = st.tokens /\ w.st.refill = st.refill
    BY <1>2, <1>4, <2>1, <2>2, <2>3
  <2>6. elapsed >= BypassMinGap
    BY <1>0, <1>8
  <2> QED BY <2>3, <2>4, <2>5, <2>6 DEF w
<1> QED BY <1>3, <1>5, <1>6, <1>7, <1>8

(* What decide_capture decides, and on what. *)
Decided(k, pts, s0, st, decision) ==
  /\ PubOk(st)
  /\ \/ /\ decision = "first_seen" /\ k \notin DOMAIN last_capture_pts
        /\ st.refill = IF pts # -1 THEN pts ELSE s0.refill
     \/ decision = "none" /\ Poured(s0, st.tokens, st.refill, pts)
     \/ /\ decision = "heartbeat" /\ k \in DOMAIN last_capture_pts
        /\ Poured(s0, st.tokens, st.refill, pts)
        /\ \/ CaptureInterval = 0 \/ last_capture_pts[k] = -1 \/ pts = -1
           \/ last_capture_pts[k] <= pts /\ pts - last_capture_pts[k] >= CaptureInterval
     \/ /\ decision = "bypass" /\ k \in DOMAIN last_capture_pts
        /\ Poured(s0, st.tokens + 1, st.refill, pts) /\ st.tokens + 1 <= BurstMax
        /\ last_capture_pts[k] # -1 /\ pts # -1 /\ st.refill # -1
        /\ BypassMinGap = 0
           \/ (last_capture_pts[k] <= pts /\ pts - last_capture_pts[k] >= BypassMinGap)

(* decide_capture decides so, from any state of the books. *)
LEMMA DecideOk ==
  ASSUME NEW k, NEW pts \in Crop!Pts, NEW sig, PubOk(Crop!State(k)), frame_num[k[1]] \in Nat,
         k \in DOMAIN last_capture_pts => last_capture_pts[k] \in Crop!Pts
  PROVE  LET d == Crop!decide_capture(k, pts, sig)
         IN Decided(k, pts, Crop!State(k), d.st, d.decision)
<1> DEFINE d == Crop!decide_capture(k, pts, sig)
           s0 == Crop!State(k)
           st == Crop!Sighted(s0, frame_num[k[1]])
           n == Crop!NoPending(st)
           last == last_capture_pts[k]
           elapsed == IF pts >= last THEN pts - last ELSE 0
           r == Crop!refill_tokens(st, pts)
           w == Crop!Within(r, elapsed, sig)
           first == [n EXCEPT !.tokens = BurstMax, !.labels = sig,
                              !.refill = IF pts # -1 THEN pts ELSE n.refill]
<1>0. /\ BurstMax \in Nat /\ CaptureInterval \in Nat /\ BypassMinGap \in Nat
      /\ pts \in Nat \cup {-1}
  BY CropAssumption DEF Crop!Pts, Crop!None
<1>1. \/ d = [st |-> st, decision |-> "none"]
      \/ k \notin DOMAIN last_capture_pts /\ d = [st |-> first, decision |-> "first_seen"]
      \/ /\ k \in DOMAIN last_capture_pts /\ (CaptureInterval = 0 \/ last = -1 \/ pts = -1)
         /\ d = [st |-> st, decision |-> "heartbeat"]
      \/ /\ k \in DOMAIN last_capture_pts /\ ~(CaptureInterval = 0 \/ last = -1 \/ pts = -1)
         /\ elapsed >= CaptureInterval
         /\ d = [st |-> Crop!NoPending(r), decision |-> "heartbeat"]
      \/ /\ k \in DOMAIN last_capture_pts /\ ~(CaptureInterval = 0 \/ last = -1 \/ pts = -1)
         /\ d = w
  BY DEF Crop!decide_capture, Crop!valid, Crop!None
<1> HIDE DEF s0
<1>2. PubOk(st) /\ st.tokens = s0.tokens /\ st.refill = s0.refill
  BY SightedOk DEF s0
<1> HIDE DEF st, d
<1>3. PubOk(n) /\ n.tokens = st.tokens /\ n.refill = st.refill
  BY <1>2, NoPendingOk
<1>4. PubOk(r) /\ Poured(st, r.tokens, r.refill, pts) /\ (pts # -1 => r.refill # -1)
  BY <1>2, RefillOk
<1> HIDE DEF n, r
<1>5. ASSUME NEW tokens, NEW refill, Poured(st, tokens, refill, pts)
      PROVE  Poured(s0, tokens, refill, pts)
  BY <1>2, <1>5 DEF Poured
<1>6. Poured(s0, st.tokens, st.refill, pts)
  BY <1>5 DEF Poured
<1>7. CASE d = [st |-> st, decision |-> "none"]
  <2>1. d.st = st /\ d.decision = "none"
    BY <1>7
  <2> QED BY <1>2, <1>6, <2>1 DEF Decided, d, s0
<1>8. CASE k \notin DOMAIN last_capture_pts /\ d = [st |-> first, decision |-> "first_seen"]
  <2>1. d.st = first /\ d.decision = "first_seen"
    BY <1>8
  <2>2. /\ DOMAIN first = PubFields /\ first.seen = n.seen /\ first.on = n.on
        /\ first.tokens = BurstMax /\ first.count = n.count
        /\ first.refill = IF pts # -1 THEN pts ELSE n.refill
    BY <1>3 DEF PubOk, PubFields
  <2> HIDE DEF first
  <2>3. BurstMax \in 0 .. BurstMax /\ first.refill \in Crop!Pts
    BY <1>0, <1>3, <2>2 DEF PubOk
  <2>4. PubOk(first)
    BY <1>3, <2>2, <2>3 DEF PubOk
  <2>5. first.refill = IF pts # -1 THEN pts ELSE s0.refill
    BY <1>2, <1>3, <2>2
  <2> QED BY <1>8, <2>1, <2>4, <2>5 DEF Decided, d, s0
<1>9. CASE /\ k \in DOMAIN last_capture_pts /\ (CaptureInterval = 0 \/ last = -1 \/ pts = -1)
           /\ d = [st |-> st, decision |-> "heartbeat"]
  <2>1. d.st = st /\ d.decision = "heartbeat"
    BY <1>9
  <2> QED BY <1>2, <1>6, <1>9, <2>1 DEF Decided, d, s0
<1>10. CASE /\ k \in DOMAIN last_capture_pts /\ ~(CaptureInterval = 0 \/ last = -1 \/ pts = -1)
            /\ elapsed >= CaptureInterval
            /\ d = [st |-> Crop!NoPending(r), decision |-> "heartbeat"]
  <2> DEFINE nr == Crop!NoPending(r)
  <2>1. PubOk(nr) /\ nr.tokens = r.tokens /\ nr.refill = r.refill
    BY <1>4, NoPendingOk
  <2>2. d.st = nr /\ d.decision = "heartbeat"
    BY <1>10
  <2> HIDE DEF nr
  <2>3. last \in Nat
    BY <1>10 DEF Crop!Pts, Crop!None
  <2>4. last <= pts /\ pts - last >= CaptureInterval
    <3> HIDE DEF last
    <3> QED BY <1>0, <1>10, <2>3
  <2>5. Poured(s0, nr.tokens, nr.refill, pts)
    BY <1>4, <1>5, <2>1
  <2> QED BY <1>10, <2>1, <2>2, <2>4, <2>5 DEF Decided, d, s0
<1>11. CASE /\ k \in DOMAIN last_capture_pts /\ ~(CaptureInterval = 0 \/ last = -1 \/ pts = -1)
            /\ d = w
  <2>1. last \in Nat /\ pts \in Nat
    BY <1>0, <1>11 DEF Crop!Pts, Crop!None
  <2>2. elapsed \in Int
    BY <2>1
  <2>3. /\ PubOk(w.st) /\ w.st.refill = r.refill
        /\ \/ w.decision = "none" /\ w.st.tokens = r.tokens
           \/ /\ w.decision = "bypass" /\ w.st.tokens + 1 = r.tokens
              /\ elapsed >= BypassMinGap
    <3> HIDE DEF elapsed
    <3> QED BY <1>4, <2>2, WithinOk
  <2> HIDE DEF w
  <2>4. CASE w.decision = "none" /\ w.st.tokens = r.tokens
    <3>1. Poured(s0, w.st.tokens, w.st.refill, pts)
      BY <1>4, <1>5, <2>3, <2>4
    <3> QED BY <1>11, <2>3, <2>4, <3>1 DEF Decided, d, s0
  <2>5. CASE /\ w.decision = "bypass" /\ w.st.tokens + 1 = r.tokens /\ elapsed >= BypassMinGap
    <3>1. Poured(s0, w.st.tokens + 1, w.st.refill, pts)
      BY <1>4, <1>5, <2>3, <2>5
    <3>2. BypassMinGap = 0 \/ (last <= pts /\ pts - last >= BypassMinGap)
      <4> HIDE DEF last
      <4> QED BY <1>0, <2>1, <2>5
    <3>3. last # -1 /\ pts # -1 /\ w.st.refill # -1
      BY <1>4, <1>11, <2>3
    <3>4. w.st.tokens + 1 <= BurstMax
      BY <1>4, <2>5 DEF PubOk
    <3> QED BY <1>11, <2>3, <2>5, <3>1, <3>2, <3>3, <3>4 DEF Decided, d, s0
  <2> QED BY <2>3, <2>4, <2>5
<1> QED BY <1>1, <1>7, <1>8, <1>9, <1>10, <1>11

(* The account of a bucket: what was used of it in a life and what it holds  *)
(* stay within its size and the refills since the life began.                *)
Bucket(tokens, refill, used, born) ==
  IF refill = -1 THEN used = 0
  ELSE born <= refill /\ used + tokens <= BurstMax + (refill - born) \div TokenRefill

(* Quotients of a sum. *)
LEMMA DividedSum ==
  ASSUME NEW a \in Nat, NEW b \in Nat, NEW i \in Nat \ {0}
  PROVE  a \div i \in Nat /\ b \div i \in Nat /\ (a + b) \div i \in Nat
         /\ a \div i + b \div i <= (a + b) \div i
  OBVIOUS

(* Pouring keeps the account. *)
LEMMA BucketPours ==
  ASSUME NEW st, PubOk(st), NEW tokens \in 0 .. BurstMax, NEW refill, NEW pts \in Crop!Pts,
         NEW used \in Nat, NEW born \in Nat, born <= pts \/ pts = -1,
         Poured(st, tokens, refill, pts), Bucket(st.tokens, st.refill, used, born)
  PROVE  Bucket(tokens, refill, used, born)
<1> DEFINE r0 == st.refill
           t0 == st.tokens
<1>0. /\ BurstMax \in Nat /\ TokenRefill \in Nat \ {0} /\ r0 \in Nat \cup {-1}
      /\ t0 \in 0 .. BurstMax /\ pts \in Nat \cup {-1}
  BY CropAssumption DEF PubOk, Crop!Pts, Crop!None
<1>1. CASE tokens = t0 /\ refill = r0
  BY <1>1
<1>2. CASE pts # -1 /\ refill = pts /\ r0 = -1
  <2>1. used = 0 /\ pts \in Nat /\ born <= pts
    BY <1>0, <1>2 DEF Bucket
  <2>2. (pts - born) \div TokenRefill \in Nat
    <3>1. pts - born \in Nat
      BY <2>1
    <3> QED BY <1>0, <3>1, Divided
  <2> QED BY <1>0, <1>2, <2>1, <2>2 DEF Bucket
<1>3. CASE /\ pts # -1 /\ refill = pts /\ r0 # -1
           /\ r0 <= pts /\ tokens <= t0 + (pts - r0) \div TokenRefill
  <2>1. /\ born <= r0 /\ used + t0 <= BurstMax + (r0 - born) \div TokenRefill
        /\ pts \in Nat /\ r0 \in Nat
    BY <1>0, <1>3 DEF Bucket
  <2>2. r0 - born \in Nat /\ pts - r0 \in Nat /\ (r0 - born) + (pts - r0) = pts - born
    BY <1>3, <2>1
  <2> DEFINE a == (r0 - born) \div TokenRefill
             b == (pts - r0) \div TokenRefill
             c == (pts - born) \div TokenRefill
  <2>3. a \in Nat /\ b \in Nat /\ c \in Nat /\ a + b <= c
    BY <1>0, <2>2, DividedSum
  <2>4. used + t0 <= BurstMax + a /\ tokens <= t0 + b
    BY <1>3, <2>1
  <2> HIDE DEF a, b, r0, t0
  <2>5. used + tokens <= BurstMax + c
    <3> HIDE DEF c
    <3> QED BY <1>0, <2>3, <2>4
  <2> QED BY <1>3, <2>1, <2>5 DEF Bucket
<1> QED BY <1>1, <1>2, <1>3 DEF Poured

(* A message of the history within the cadence, at time t. *)
OutOk(o, t) ==
  /\ o.pts \in Crop!Pts /\ o.pts <= t /\ o.born \in Nat /\ o.born <= t /\ o.bypasses \in Nat
  /\ (o.kind = "heartbeat" /\ o.gap # -1) => o.gap >= CaptureInterval
  /\ (o.kind = "bypass" /\ o.gap # -1) => o.gap >= BypassMinGap
  /\ o.bypasses <= BurstMax + (t - o.born) \div TokenRefill

(* The books know at least as late a message as the history, and the account *)
(* of the object's bucket is right.                                          *)
Life(o, st, last) ==
  /\ o.pts # -1 => last # -1 /\ o.pts <= last
  /\ Bucket(st.tokens, st.refill, o.bypasses, o.born)

(* The account bounds the bypasses. *)
LEMMA BucketBounds ==
  ASSUME NEW tokens \in 0 .. BurstMax, NEW refill \in Crop!Pts, NEW used \in Nat, NEW born \in Nat,
         NEW t \in Nat, refill <= t, born <= t, Bucket(tokens, refill, used, born)
  PROVE  used <= BurstMax + (t - born) \div TokenRefill
<1>0. /\ BurstMax \in Nat /\ TokenRefill \in Nat \ {0} /\ refill \in Nat \cup {-1}
  BY CropAssumption DEF Crop!Pts, Crop!None
<1>1. t - born \in Nat /\ (t - born) \div TokenRefill \in Nat
  <2>1. t - born \in Nat
    OBVIOUS
  <2> QED BY <1>0, <2>1, Divided
<1>2. CASE refill = -1
  <2>1. used = 0
    BY <1>2 DEF Bucket
  <2> QED BY <1>0, <1>1, <2>1
<1>3. CASE refill # -1
  <2>1. born <= refill /\ used + tokens <= BurstMax + (refill - born) \div TokenRefill
    BY <1>3 DEF Bucket
  <2>2. refill - born \in Nat /\ refill - born <= t - born
    BY <1>0, <1>3, <2>1
  <2>3. /\ (refill - born) \div TokenRefill \in Nat
        /\ (refill - born) \div TokenRefill <= (t - born) \div TokenRefill
    BY <1>0, <1>1, <2>2, Divided
  <2> DEFINE a == (refill - born) \div TokenRefill
             b == (t - born) \div TokenRefill
  <2>4. a \in Nat /\ b \in Nat /\ a <= b /\ used + tokens <= BurstMax + a
    BY <1>1, <2>1, <2>3
  <2> HIDE DEF a, b
  <2>5. used <= BurstMax + b
    BY <1>0, <2>4
  <2> QED BY <2>5 DEF b
<1> QED BY <1>2, <1>3

(* Time passes, and the cadence holds. *)
LEMMA OutLasts ==
  ASSUME NEW t \in Nat, NEW o, OutOk(o, t)
  PROVE  OutOk(o, t + 1)
<1>1. BurstMax \in Nat /\ TokenRefill \in Nat \ {0}
  BY CropAssumption
<1>2. o.born \in Nat /\ o.born <= t /\ o.pts \in Nat \cup {-1} /\ o.pts <= t /\ o.bypasses \in Nat
      /\ o.bypasses <= BurstMax + (t - o.born) \div TokenRefill
  BY DEF OutOk, Crop!Pts, Crop!None
<1>3. t - o.born \in Nat /\ t + 1 - o.born \in Nat /\ t - o.born <= t + 1 - o.born
      /\ o.born <= t + 1 /\ o.pts <= t + 1
  BY <1>2
<1> DEFINE a == (t - o.born) \div TokenRefill
           b == (t + 1 - o.born) \div TokenRefill
<1>4. a \in Nat /\ b \in Nat /\ a <= b
  BY <1>1, <1>3, Divided
<1>5. o.bypasses <= BurstMax + a
  BY <1>2
<1> HIDE DEF a, b
<1>6. o.bypasses <= BurstMax + b
  BY <1>1, <1>2, <1>4, <1>5
<1> QED BY <1>3, <1>6 DEF OutOk, b

(* A group of a frame. *)
GroupOk(g) ==
  /\ g.slot \in Slots /\ g.parent \in Ids /\ IsScene(g.scene)
  /\ g.children \subseteq DOMAIN g.scene \ {Untracked}

(* The types of the books, and the clock they are read against. *)
BookTypes ==
  /\ DOMAIN pub_state \subseteq Crop!Keys /\ DOMAIN last_capture_pts \subseteq Crop!Keys
  /\ DOMAIN object_last_seen \subseteq Crop!Keys
  /\ \A k \in DOMAIN pub_state : PubOk(pub_state[k]) /\ pub_state[k].refill <= now
  /\ \A k \in DOMAIN last_capture_pts : last_capture_pts[k] \in Crop!Pts /\ last_capture_pts[k] <= now
  /\ \A k \in DOMAIN object_last_seen : object_last_seen[k] \in Crop!Pts

ParentTypes ==
  /\ DOMAIN child_parent \subseteq Crop!Keys
  /\ \A k \in DOMAIN child_parent : child_parent[k] \in Ids \ {Untracked}

BatchTypes ==
  /\ now \in Nat /\ frame_num \in [Slots -> Nat \cup {-1}]
  /\ phase \in {"idle", "batch", "groups"}
  /\ batch_pts \in Crop!Pts /\ frame_pts \in Crop!Pts /\ batch_counter \in Nat
  /\ phase # "idle" => batch_pts \in {now, -1}
  /\ phase = "groups" => frame_pts \in {now, -1}
  /\ DOMAIN batch \subseteq Slots
  /\ \A s \in DOMAIN batch : IsScene(batch[s]) /\ frame_num[s] \in Nat
  /\ \A g \in groups : GroupOk(g) /\ frame_num[g.slot] \in Nat

Lives ==
  /\ out = [k \in Crop!Keys |-> out[k]]
  /\ \A k \in Crop!Keys : OutOk(out[k], now)
  /\ \A k \in DOMAIN last_capture_pts : Life(out[k], pub_state[k], last_capture_pts[k])

CropInv == BatchTypes /\ ParentTypes /\ BookTypes /\ BooksAgree /\ Lives

(* A pointer names a parent, and a group is one. *)
LEMMA GroupsOk ==
  ASSUME NEW s \in Slots, NEW scene, IsScene(scene), ParentTypes
  PROVE  /\ \A o \in Crop!Pointers(scene) : o \in Ids /\ scene[o].parent \in Ids \ {Untracked}
         /\ \A g \in Crop!build_object_groups(s, scene) : GroupOk(g) /\ g.slot = s
<1>1. \A o \in Crop!Tracked(scene) : o \in Ids /\ o \in DOMAIN scene \ {Untracked}
                                     /\ scene[o].parent \in Ids \cup {NoParent}
  BY DEF Crop!Tracked, IsScene
<1>2. Crop!Pointers(scene) \subseteq Crop!Tracked(scene)
  BY DEF Crop!Pointers
<1>3. \A o \in Crop!Pointers(scene) : scene[o].parent \notin {NoParent, Untracked}
  BY DEF Crop!Pointers
<1>4. \A o \in Crop!Pointers(scene) : o \in Ids /\ scene[o].parent \in Ids \ {Untracked}
  BY <1>1, <1>2, <1>3
<1>5. ASSUME NEW p \in Ids
      PROVE  GroupOk(Crop!Group(s, scene, p)) /\ Crop!Group(s, scene, p).slot = s
  <2> DEFINE g == Crop!Group(s, scene, p)
  <2>1. g.slot = s /\ g.parent = p /\ g.scene = scene /\ g.children \subseteq Crop!Tracked(scene)
    BY <1>2 DEF Crop!Group
  <2> HIDE DEF g
  <2>2. GroupOk(g)
    BY <1>1, <2>1 DEF GroupOk
  <2> QED BY <2>1, <2>2 DEF g
<1>6. ASSUME NEW g \in Crop!build_object_groups(s, scene) PROVE GroupOk(g) /\ g.slot = s
  <2>1. PICK p \in {scene[o].parent : o \in Crop!Pointers(scene)} \cup Crop!Tracked(scene) :
          g = Crop!Group(s, scene, p)
    BY <1>6 DEF Crop!build_object_groups
  <2>2. p \in Ids
    BY <1>1, <1>4
  <2> QED BY <1>5, <2>1, <2>2
<1> QED BY <1>4, <1>6

(* The books after a group, as far as the cadence goes: other states and     *)
(* times for some objects, and messages for them in the history.             *)
LEMMA BooksChange ==
  ASSUME CropInv, BooksAgree', now' = now,
         DOMAIN pub_state' \subseteq Crop!Keys, DOMAIN last_capture_pts' \subseteq Crop!Keys,
         out' = [k \in Crop!Keys |-> out'[k]],
         \A k \in DOMAIN pub_state' : PubOk(pub_state'[k]) /\ pub_state'[k].refill <= now,
         \A k \in DOMAIN last_capture_pts' :
           last_capture_pts'[k] \in Crop!Pts /\ last_capture_pts'[k] <= now
           /\ Life(out'[k], pub_state'[k], last_capture_pts'[k]),
         \A k \in Crop!Keys : OutOk(out'[k], now),
         DOMAIN object_last_seen' \subseteq Crop!Keys,
         \A k \in DOMAIN object_last_seen' : object_last_seen'[k] \in Crop!Pts,
         BatchTypes', child_parent' = child_parent
  PROVE  CropInv'
<1>1. BookTypes'
  BY DEF BookTypes
<1>2. ParentTypes'
  BY DEF CropInv, ParentTypes
<1>3. Lives'
  BY DEF Lives
<1> QED BY <1>1, <1>2, <1>3 DEF CropInv

(* The state of an object, kept or fresh. *)
LEMMA StateOk ==
  ASSUME CropInv, NEW k
  PROVE  PubOk(Crop!State(k)) /\ Crop!State(k).refill <= now
<1>1. CASE k \in DOMAIN pub_state
  BY <1>1 DEF CropInv, BookTypes, Crop!State
<1>2. CASE k \notin DOMAIN pub_state
  <2>1. Crop!State(k) = Crop!Fresh
    BY <1>2 DEF Crop!State
  <2>2. -1 <= now
    BY DEF CropInv, BatchTypes
  <2> QED BY <2>1, <2>2, FreshOk
<1> QED BY <1>1, <1>2

(* A publication writes a hash and labels, and leaves the bucket alone. *)
LEMMA PublishedOk ==
  ASSUME NEW st, PubOk(st), NEW look, NEW sig
  PROVE  LET r == Crop!Published(st, look, sig)
         IN PubOk(r) /\ r.tokens = st.tokens /\ r.refill = st.refill
<1> DEFINE r == [st EXCEPT !.hash = Crop!payload_hash(look), !.labels = sig]
<1>1. Crop!Published(st, look, sig) = r
  BY DEF Crop!Published
<1>2. /\ DOMAIN r = PubFields /\ r.seen = st.seen /\ r.on = st.on
      /\ r.tokens = st.tokens /\ r.refill = st.refill /\ r.count = st.count
  BY DEF PubOk, PubFields
<1> HIDE DEF r
<1> QED BY <1>1, <1>2 DEF PubOk

(* The parent of a group is decided on, by a refill no later than now. *)
LEMMA LeaderDecides ==
  ASSUME CropInv, phase = "groups", NEW g \in groups
  PROVE  LET p == <<g.slot, g.parent>>
             d == Crop!decide_capture(p, frame_pts, Crop!build_group_sgie_signature(g))
         IN /\ p \in Crop!Keys /\ PubOk(d.st) /\ d.st.refill <= now
            /\ Decided(p, frame_pts, Crop!State(p), d.st, d.decision)
<1> DEFINE p == <<g.slot, g.parent>>
           sig == Crop!build_group_sgie_signature(g)
           d == Crop!decide_capture(p, frame_pts, sig)
<1>1. g.slot \in Slots /\ g.parent \in Ids
  BY DEF CropInv, BatchTypes, GroupOk
<1>2. p \in Crop!Keys /\ frame_num[p[1]] \in Nat
  BY <1>1 DEF CropInv, BatchTypes, Crop!Keys
<1>3. frame_pts \in Crop!Pts /\ frame_pts <= now
  <2>1. frame_pts \in {now, -1} /\ now \in Nat
    BY DEF CropInv, BatchTypes
  <2> QED BY <2>1 DEF Crop!Pts, Crop!None
<1>4. PubOk(Crop!State(p)) /\ Crop!State(p).refill <= now
  BY StateOk
<1>5. p \in DOMAIN last_capture_pts => last_capture_pts[p] \in Crop!Pts
  BY DEF CropInv, BookTypes
<1> HIDE DEF p, sig
<1>6. Decided(p, frame_pts, Crop!State(p), d.st, d.decision)
  BY <1>2, <1>3, <1>4, <1>5, DecideOk
<1> HIDE DEF d
<1>7. PubOk(d.st)
  BY <1>6 DEF Decided
<1>8. d.st.refill = frame_pts \/ d.st.refill = Crop!State(p).refill
  BY <1>6 DEF Decided, Poured
<1> QED BY <1>2, <1>3, <1>4, <1>6, <1>7, <1>8 DEF p, sig, d

(* An object the books know keeps its account, whatever was decided. *)
LEMMA LifeGoesOn ==
  ASSUME CropInv, phase = "groups", NEW k \in DOMAIN last_capture_pts, NEW st, NEW decision,
         Decided(k, frame_pts, Crop!State(k), st, decision)
  PROVE  /\ decision # "first_seen"
         /\ Bucket(st.tokens, st.refill, out[k].bypasses, out[k].born)
         /\ decision = "bypass" =>
              Bucket(st.tokens, st.refill, out[k].bypasses + 1, out[k].born)
<1> DEFINE s0 == Crop!State(k)
           used == out[k].bypasses
           born == out[k].born
<1>0. /\ BurstMax \in Nat /\ TokenRefill \in Nat \ {0} /\ now \in Nat /\ frame_pts \in {now, -1}
  BY CropAssumption DEF CropInv, BatchTypes
<1>1. k \in Crop!Keys /\ k \in DOMAIN pub_state
  BY DEF CropInv, BookTypes, BooksAgree, Crop!BooksAgree
<1>2. used \in Nat /\ born \in Nat /\ born <= now
  BY <1>1 DEF CropInv, Lives, OutOk
<1>3. s0 = pub_state[k] /\ PubOk(s0)
  BY <1>1 DEF CropInv, BookTypes, Crop!State
<1>4. Bucket(s0.tokens, s0.refill, used, born)
  BY <1>3 DEF CropInv, Lives, Life
<1>5. frame_pts \in Crop!Pts /\ (born <= frame_pts \/ frame_pts = -1)
  BY <1>0, <1>2 DEF Crop!Pts, Crop!None
<1>6. decision # "first_seen"
  BY DEF Decided
<1> HIDE DEF s0, used, born
<1>7. PubOk(st) /\ st.tokens \in 0 .. BurstMax /\ st.refill \in Nat \cup {-1}
  BY DEF Decided, PubOk, Crop!Pts, Crop!None
<1>8. CASE decision # "bypass"
  <2>1. Poured(s0, st.tokens, st.refill, frame_pts)
    BY <1>6, <1>8 DEF Decided, s0
  <2>2. Bucket(st.tokens, st.refill, used, born)
    BY <1>2, <1>3, <1>4, <1>5, <1>7, <2>1, BucketPours
  <2> QED BY <1>6, <1>8, <2>2 DEF used, born
<1>9. CASE decision = "bypass"
  <2>1. /\ Poured(s0, st.tokens + 1, st.refill, frame_pts)
        /\ st.tokens + 1 <= BurstMax /\ st.refill # -1
    BY <1>9 DEF Decided, s0
  <2>2. st.tokens + 1 \in 0 .. BurstMax
    BY <1>0, <1>7, <2>1
  <2>3. Bucket(st.tokens + 1, st.refill, used, born)
    BY <1>2, <1>3, <1>4, <1>5, <2>1, <2>2, BucketPours
  <2>4. /\ born <= st.refill
        /\ used + (st.tokens + 1) <= BurstMax + (st.refill - born) \div TokenRefill
    BY <2>1, <2>3 DEF Bucket
  <2> DEFINE q == (st.refill - born) \div TokenRefill
  <2>5. q \in Nat
    <3>1. st.refill - born \in Nat
      BY <1>2, <1>7, <2>1, <2>4
    <3> QED BY <1>0, <3>1, Divided
  <2>6. used + (st.tokens + 1) <= BurstMax + q
    BY <2>4
  <2> HIDE DEF q
  <2>7. used + 1 + st.tokens <= BurstMax + q /\ used + st.tokens <= BurstMax + q
    BY <1>0, <1>2, <1>7, <2>5, <2>6
  <2>8. Bucket(st.tokens, st.refill, used, born) /\ Bucket(st.tokens, st.refill, used + 1, born)
    BY <2>1, <2>4, <2>7 DEF Bucket, q
  <2> QED BY <1>6, <2>8 DEF used, born
<1> QED BY <1>8, <1>9

(* A life that begins in the books: its account starts with the bucket. *)
LEMMA LifeBegins ==
  ASSUME now \in Nat, NEW st, PubOk(st), st.refill <= now
  PROVE  LET born == Crop!Since(st)
         IN /\ born \in Nat /\ born <= now /\ Bucket(st.tokens, st.refill, 0, born)
            /\ 0 <= BurstMax + (now - born) \div TokenRefill
<1> DEFINE born == Crop!Since(st)
<1>0. /\ BurstMax \in Nat /\ TokenRefill \in Nat \ {0} /\ st.tokens \in 0 .. BurstMax
      /\ st.refill \in Nat \cup {-1}
  BY CropAssumption DEF PubOk, Crop!Pts, Crop!None
<1>1. born = IF st.refill # -1 THEN st.refill ELSE now
  BY DEF Crop!Since, Crop!valid, Crop!None
<1> HIDE DEF born
<1>2. born \in Nat /\ born <= now
  BY <1>0, <1>1
<1>3. Bucket(st.tokens, st.refill, 0, born)
  <2>1. CASE st.refill = -1
    BY <2>1 DEF Bucket
  <2>2. CASE st.refill # -1
    <3>1. born = st.refill /\ st.refill - born = 0
      BY <1>0, <1>1, <2>2
    <3>2. (st.refill - born) \div TokenRefill = 0
      BY <1>0, <3>1
    <3> QED BY <1>0, <2>2, <3>1, <3>2 DEF Bucket
  <2> QED BY <2>1, <2>2
<1>4. (now - born) \div TokenRefill \in Nat
  <2>1. now - born \in Nat
    BY <1>2
  <2> QED BY <1>0, <2>1, Divided
<1>5. 0 <= BurstMax + (now - born) \div TokenRefill
  BY <1>0, <1>4
<1> QED BY <1>2, <1>3, <1>5 DEF born

(* The message of a parent keeps the cadence, and its life goes on. *)
LEMMA MessageOk ==
  ASSUME CropInv, phase = "groups", NEW p \in Crop!Keys, NEW d, PubOk(d.st), d.st.refill <= now,
         Decided(p, frame_pts, Crop!State(p), d.st, d.decision), d.decision # "none"
  PROVE  LET m == Crop!Message(p, d)
         IN OutOk(m, now) /\ Life(m, d.st, frame_pts)
<1> DEFINE m == Crop!Message(p, d)
           o == out[p]
<1>0. /\ BurstMax \in Nat /\ TokenRefill \in Nat \ {0} /\ CaptureInterval \in Nat
      /\ BypassMinGap \in Nat /\ now \in Nat /\ frame_pts \in {now, -1}
  BY CropAssumption DEF CropInv, BatchTypes
<1>1. /\ m.pts = frame_pts /\ m.kind = d.decision
      /\ m.born = (IF d.decision = "first_seen" THEN Crop!Since(d.st) ELSE o.born)
      /\ m.bypasses = (IF d.decision = "first_seen" THEN 0
                       ELSE o.bypasses + (IF d.decision = "bypass" THEN 1 ELSE 0))
      /\ m.gap = (IF frame_pts # -1 /\ o.pts # -1 THEN frame_pts - o.pts ELSE -1)
  BY DEF Crop!Message, Crop!valid, Crop!None
<1>2. /\ o.pts \in Nat \cup {-1} /\ o.pts <= now /\ o.born \in Nat /\ o.born <= now
      /\ o.bypasses \in Nat
  BY DEF CropInv, Lives, OutOk, Crop!Pts, Crop!None
<1> HIDE DEF m, o
<1>3. m.pts \in Crop!Pts /\ m.pts <= now
  BY <1>0, <1>1 DEF Crop!Pts, Crop!None
<1>4. d.st.tokens \in 0 .. BurstMax /\ d.st.refill \in Crop!Pts
  BY DEF PubOk
<1>5. /\ m.born \in Nat /\ m.born <= now /\ m.bypasses \in Nat
      /\ Bucket(d.st.tokens, d.st.refill, m.bypasses, m.born)
  <2>1. CASE d.decision = "first_seen"
    BY <1>0, <1>1, <2>1, LifeBegins
  <2>2. CASE d.decision # "first_seen"
    <3>1. p \in DOMAIN last_capture_pts
      BY <2>2 DEF Decided
    <3>2. /\ Bucket(d.st.tokens, d.st.refill, o.bypasses, o.born)
          /\ d.decision = "bypass" => Bucket(d.st.tokens, d.st.refill, o.bypasses + 1, o.born)
      BY <3>1, LifeGoesOn DEF o
    <3>3. CASE d.decision = "bypass"
      BY <1>1, <1>2, <3>2, <3>3
    <3>4. CASE d.decision # "bypass"
      <4>1. m.bypasses = o.bypasses /\ m.born = o.born
        BY <1>1, <1>2, <2>2, <3>4
      <4> QED BY <1>2, <3>2, <4>1
    <3> QED BY <3>3, <3>4
  <2> QED BY <2>1, <2>2
<1>6. m.bypasses <= BurstMax + (now - m.born) \div TokenRefill
  BY <1>0, <1>4, <1>5, BucketBounds
<1>7. d.decision \in {"heartbeat", "bypass"} =>
        /\ p \in DOMAIN last_capture_pts
        /\ o.pts # -1 => last_capture_pts[p] # -1 /\ o.pts <= last_capture_pts[p]
        /\ last_capture_pts[p] \in Nat \cup {-1}
  BY DEF Decided, CropInv, Lives, Life, BookTypes, o, Crop!Pts, Crop!None
<1>8. (m.kind = "heartbeat" /\ m.gap # -1) => m.gap >= CaptureInterval
  <2> SUFFICES ASSUME m.kind = "heartbeat", m.gap # -1 PROVE m.gap >= CaptureInterval
    OBVIOUS
  <2>1. /\ frame_pts = now /\ o.pts \in Nat /\ m.gap = now - o.pts
        /\ last_capture_pts[p] \in Nat /\ o.pts <= last_capture_pts[p]
    BY <1>0, <1>1, <1>2, <1>7
  <2>2. \/ CaptureInterval = 0
        \/ last_capture_pts[p] <= now /\ now - last_capture_pts[p] >= CaptureInterval
    BY <1>0, <1>1, <2>1 DEF Decided
  <2> QED BY <1>0, <1>2, <2>1, <2>2
<1>9. (m.kind = "bypass" /\ m.gap # -1) => m.gap >= BypassMinGap
  <2> SUFFICES ASSUME m.kind = "bypass", m.gap # -1 PROVE m.gap >= BypassMinGap
    OBVIOUS
  <2>1. /\ frame_pts = now /\ o.pts \in Nat /\ m.gap = now - o.pts
        /\ last_capture_pts[p] \in Nat /\ o.pts <= last_capture_pts[p]
    BY <1>0, <1>1, <1>2, <1>7
  <2>2. \/ BypassMinGap = 0
        \/ last_capture_pts[p] <= now /\ now - last_capture_pts[p] >= BypassMinGap
    BY <1>0, <1>1, <2>1 DEF Decided
  <2> QED BY <1>0, <1>2, <2>1, <2>2
<1>10. OutOk(m, now)
  BY <1>3, <1>5, <1>6, <1>8, <1>9 DEF OutOk
<1>11. Life(m, d.st, frame_pts)
  <2>1. m.pts # -1 => frame_pts # -1 /\ m.pts <= frame_pts
    BY <1>0, <1>1
  <2> QED BY <1>5, <2>1 DEF Life
<1> QED BY <1>10, <1>11 DEF m

(* So does a child that accompanies its parent. *)
LEMMA AccompaniesOk ==
  ASSUME CropInv, phase = "groups", NEW k \in Crop!Keys
  PROVE  LET m == Crop!Accompanies(k)
         IN OutOk(m, now) /\ Life(m, Crop!State(k), frame_pts)
<1> DEFINE m == Crop!Accompanies(k)
           o == out[k]
           st == Crop!State(k)
<1>0. now \in Nat /\ frame_pts \in {now, -1}
  BY DEF CropInv, BatchTypes
<1>1. /\ m.pts = (IF frame_pts # -1 THEN o.pts ELSE -1)
      /\ m.kind = o.kind /\ m.gap = o.gap
      /\ m.bypasses = (IF k \notin DOMAIN last_capture_pts THEN 0 ELSE o.bypasses)
      /\ m.born = (IF k \notin DOMAIN last_capture_pts THEN Crop!Since(st) ELSE o.born)
  BY DEF Crop!Accompanies, Crop!valid, Crop!None
<1>2. OutOk(o, now)
  BY DEF CropInv, Lives
<1>3. PubOk(st) /\ st.refill <= now
  BY StateOk
<1> HIDE DEF m, o, st
<1>4. m.pts \in Crop!Pts /\ m.pts <= now /\ (m.pts # -1 => frame_pts # -1 /\ m.pts <= frame_pts)
  BY <1>0, <1>1, <1>2 DEF OutOk, Crop!Pts, Crop!None
<1>5. CASE k \notin DOMAIN last_capture_pts
  <2>1. /\ m.born \in Nat /\ m.born <= now /\ Bucket(st.tokens, st.refill, 0, m.born)
        /\ 0 <= BurstMax + (now - m.born) \div TokenRefill
    BY <1>0, <1>1, <1>3, <1>5, LifeBegins
  <2>2. m.bypasses = 0
    BY <1>1, <1>5
  <2>3. OutOk(m, now)
    BY <1>1, <1>2, <1>4, <2>1, <2>2 DEF OutOk
  <2>4. Life(m, st, frame_pts)
    BY <1>4, <2>1, <2>2 DEF Life
  <2> QED BY <2>3, <2>4 DEF m, st
<1>6. CASE k \in DOMAIN last_capture_pts
  <2>1. m.born = o.born /\ m.bypasses = o.bypasses
    BY <1>1, <1>6
  <2>2. st = pub_state[k]
    BY <1>6 DEF CropInv, BooksAgree, Crop!BooksAgree, Crop!State, st
  <2>3. Bucket(st.tokens, st.refill, o.bypasses, o.born)
    BY <1>6, <2>2 DEF CropInv, Lives, Life, o
  <2>4. OutOk(m, now)
    BY <1>1, <1>2, <1>4, <2>1 DEF OutOk
  <2>5. Life(m, st, frame_pts)
    BY <1>4, <2>1, <2>3 DEF Life
  <2> QED BY <2>4, <2>5 DEF m, st
<1> QED BY <1>5, <1>6

(* The batch goes on after a group. *)
LEMMA BatchGoesOn ==
  ASSUME CropInv, NEW g \in groups, Crop!HandleGroup(g)
  PROVE  BatchTypes' /\ now' = now /\ child_parent' = child_parent
<1>1. /\ now' = now /\ frame_num' = frame_num /\ phase' = phase /\ batch' = batch
      /\ batch_pts' = batch_pts /\ frame_pts' = frame_pts /\ batch_counter' = batch_counter
      /\ groups' \subseteq groups /\ child_parent' = child_parent
  BY DEF Crop!HandleGroup
<1> QED BY <1>1 DEF CropInv, BatchTypes

(* A parent of which nothing is published: its state has changed. *)
LEMMA UnpublishedKeeps ==
  ASSUME CropInv, NEW g \in groups, Crop!HandleGroup(g), Crop!Undecided(g) \/ Crop!Refused(g)
  PROVE  CropInv'
<1> DEFINE p == <<g.slot, g.parent>>
           d == Crop!decide_capture(p, frame_pts, Crop!build_group_sgie_signature(g))
<1>1. phase = "groups"
  BY DEF Crop!HandleGroup
<1>2. /\ p \in Crop!Keys /\ PubOk(d.st) /\ d.st.refill <= now
      /\ Decided(p, frame_pts, Crop!State(p), d.st, d.decision)
  BY <1>1, LeaderDecides
<1>3. /\ DOMAIN pub_state' = DOMAIN pub_state \cup {p}
      /\ \A k \in DOMAIN pub_state' : pub_state'[k] = IF k = p THEN d.st ELSE pub_state[k]
      /\ last_capture_pts' = last_capture_pts /\ out' = out
  BY DEF Crop!Undecided, Crop!Refused, Crop!Put, Crop!history
<1>4. /\ DOMAIN object_last_seen' \subseteq DOMAIN object_last_seen \cup {p}
      /\ \A k \in DOMAIN object_last_seen' :
           \/ object_last_seen'[k] = frame_pts
           \/ k \in DOMAIN object_last_seen /\ object_last_seen'[k] = object_last_seen[k]
  BY DEF Crop!Undecided, Crop!Refused, Crop!Put
<1>5. BatchTypes' /\ now' = now /\ child_parent' = child_parent
  BY BatchGoesOn
<1>6. BooksAgree'
  BY GroupKeeps DEF CropInv
<1> HIDE DEF p, d
<1>7. /\ DOMAIN pub_state' \subseteq Crop!Keys
      /\ \A k \in DOMAIN pub_state' : PubOk(pub_state'[k]) /\ pub_state'[k].refill <= now
  BY <1>2, <1>3 DEF CropInv, BookTypes
<1>8. /\ DOMAIN object_last_seen' \subseteq Crop!Keys
      /\ \A k \in DOMAIN object_last_seen' : object_last_seen'[k] \in Crop!Pts
  BY <1>2, <1>4 DEF CropInv, BookTypes, BatchTypes
<1>9. ASSUME NEW k \in DOMAIN last_capture_pts
      PROVE  Life(out[k], pub_state'[k], last_capture_pts[k])
  <2>1. k \in DOMAIN pub_state /\ k \in DOMAIN pub_state'
    BY <1>3 DEF CropInv, BooksAgree, Crop!BooksAgree
  <2>2. Life(out[k], pub_state[k], last_capture_pts[k])
    BY DEF CropInv, Lives
  <2>3. CASE k # p
    BY <1>3, <2>1, <2>2, <2>3
  <2>4. CASE k = p
    <3>1. Bucket(d.st.tokens, d.st.refill, out[k].bypasses, out[k].born)
      BY <1>1, <1>2, <2>4, LifeGoesOn
    <3>2. pub_state'[k] = d.st
      BY <1>3, <2>1, <2>4
    <3> QED BY <2>2, <3>1, <3>2 DEF Life
  <2> QED BY <2>3, <2>4
<1>10. \A k \in DOMAIN last_capture_pts' :
         last_capture_pts'[k] \in Crop!Pts /\ last_capture_pts'[k] <= now
         /\ Life(out'[k], pub_state'[k], last_capture_pts'[k])
  BY <1>3, <1>9 DEF CropInv, BookTypes
<1>11. DOMAIN last_capture_pts' \subseteq Crop!Keys
  BY <1>3 DEF CropInv, BookTypes
<1>12. out' = [k \in Crop!Keys |-> out'[k]] /\ \A k \in Crop!Keys : OutOk(out'[k], now)
  BY <1>3 DEF CropInv, Lives
<1> QED BY <1>5, <1>6, <1>7, <1>8, <1>10, <1>11, <1>12, BooksChange

(* A parent that is published, with its children. *)
LEMMA PublishKeeps ==
  ASSUME CropInv, NEW g \in groups, Crop!HandleGroup(g), Crop!Publish(g)
  PROVE  CropInv'
<1> DEFINE p == <<g.slot, g.parent>>
           sig == Crop!build_group_sgie_signature(g)
           d == Crop!decide_capture(p, frame_pts, sig)
           look(k) == g.scene[k[2]]
           seen == {p} \cup ({g.slot} \X g.children)
           Pub == {k \in seen : Crop!Passes(look(k))}
           stOf == [k \in Pub |->
                      IF k = p THEN Crop!Published(d.st, look(p), sig)
                      ELSE Crop!Published(Crop!State(k), look(k),
                                          Crop!ChildSignature(look(k).label))]
           msgOf == [k \in Pub |-> IF k = p THEN Crop!Message(p, d) ELSE Crop!Accompanies(k)]
<1>1. phase = "groups"
  BY DEF Crop!HandleGroup
<1>2. /\ p \in Crop!Keys /\ PubOk(d.st) /\ d.st.refill <= now
      /\ Decided(p, frame_pts, Crop!State(p), d.st, d.decision)
  BY <1>1, LeaderDecides
<1>3. d.decision # "none" /\ p \in Pub
  BY DEF Crop!Publish
<1>4. seen \subseteq Crop!Keys
  <2>1. g.slot \in Slots /\ g.children \subseteq Ids
    BY DEF CropInv, BatchTypes, GroupOk, IsScene
  <2> QED BY <1>2, <2>1 DEF Crop!Keys
<1>5. Pub \subseteq seen
  OBVIOUS
<1>6. /\ DOMAIN pub_state' = DOMAIN pub_state \cup Pub
      /\ \A k \in DOMAIN pub_state' :
           pub_state'[k] = IF k \in Pub THEN stOf[k] ELSE pub_state[k]
  BY <1>3 DEF Crop!Publish
<1>7. /\ DOMAIN last_capture_pts' = DOMAIN last_capture_pts \cup Pub
      /\ \A k \in DOMAIN last_capture_pts' :
           last_capture_pts'[k] = IF k \in Pub THEN frame_pts ELSE last_capture_pts[k]
  BY DEF Crop!Publish, Crop!Put
<1>8. /\ DOMAIN object_last_seen' = DOMAIN object_last_seen \cup seen
      /\ \A k \in DOMAIN object_last_seen' :
           object_last_seen'[k] = IF k \in seen THEN frame_pts ELSE object_last_seen[k]
  BY DEF Crop!Publish, Crop!Put
<1>9. /\ out' = [k \in Crop!Keys |-> out'[k]]
      /\ \A k \in Crop!Keys : out'[k] = IF k \in Pub THEN msgOf[k] ELSE out[k]
  <2>1. out' = [k \in Crop!Keys |-> IF k = p THEN Crop!Message(p, d)
                                    ELSE IF k \in Pub THEN Crop!Accompanies(k) ELSE out[k]]
    BY DEF Crop!Publish
  <2> HIDE DEF d, Pub
  <2> QED BY <1>3, <2>1
<1> HIDE DEF d, sig, seen
<1>10. ASSUME NEW k \in Pub
       PROVE  /\ PubOk(stOf[k]) /\ stOf[k].refill <= now
              /\ OutOk(msgOf[k], now) /\ Life(msgOf[k], stOf[k], frame_pts)
  <2>1. k \in Crop!Keys
    BY <1>4, <1>5
  <2>2. CASE k = p
    <3>1. stOf[k] = Crop!Published(d.st, look(p), sig) /\ msgOf[k] = Crop!Message(p, d)
      BY <2>2
    <3>2. PubOk(stOf[k]) /\ stOf[k].tokens = d.st.tokens /\ stOf[k].refill = d.st.refill
      BY <1>2, <3>1, PublishedOk
    <3>3. OutOk(msgOf[k], now) /\ Life(msgOf[k], d.st, frame_pts)
      BY <1>1, <1>2, <1>3, <3>1, MessageOk
    <3> QED BY <1>2, <3>2, <3>3 DEF Life
  <2>3. CASE k # p
    <3>1. /\ stOf[k] = Crop!Published(Crop!State(k), look(k), Crop!ChildSignature(look(k).label))
          /\ msgOf[k] = Crop!Accompanies(k)
      BY <2>3
    <3>2. PubOk(Crop!State(k)) /\ Crop!State(k).refill <= now
      BY StateOk
    <3>3. /\ PubOk(stOf[k]) /\ stOf[k].tokens = Crop!State(k).tokens
          /\ stOf[k].refill = Crop!State(k).refill
      BY <3>1, <3>2, PublishedOk
    <3>4. OutOk(msgOf[k], now) /\ Life(msgOf[k], Crop!State(k), frame_pts)
      BY <1>1, <2>1, <3>1, AccompaniesOk
    <3> QED BY <3>2, <3>3, <3>4 DEF Life
  <2> QED BY <2>2, <2>3
<1>11. BatchTypes' /\ now' = now /\ child_parent' = child_parent
  BY BatchGoesOn
<1>12. BooksAgree'
  BY GroupKeeps DEF CropInv
<1> HIDE DEF stOf, msgOf, Pub, p
<1>13. /\ DOMAIN pub_state' \subseteq Crop!Keys
       /\ \A k \in DOMAIN pub_state' : PubOk(pub_state'[k]) /\ pub_state'[k].refill <= now
  BY <1>4, <1>5, <1>6, <1>10 DEF CropInv, BookTypes
<1>14. frame_pts \in Crop!Pts /\ frame_pts <= now
  <2>1. frame_pts \in {now, -1} /\ now \in Nat
    BY <1>1 DEF CropInv, BatchTypes
  <2> QED BY <2>1 DEF Crop!Pts, Crop!None
<1>15. /\ DOMAIN object_last_seen' \subseteq Crop!Keys
       /\ \A k \in DOMAIN object_last_seen' : object_last_seen'[k] \in Crop!Pts
  BY <1>4, <1>8, <1>14 DEF CropInv, BookTypes
<1>16. \A k \in Crop!Keys : OutOk(out'[k], now)
  BY <1>9, <1>10 DEF CropInv, Lives
<1>17. ASSUME NEW k \in DOMAIN last_capture_pts'
       PROVE  last_capture_pts'[k] \in Crop!Pts /\ last_capture_pts'[k] <= now
              /\ Life(out'[k], pub_state'[k], last_capture_pts'[k])
  <2>1. CASE k \in Pub
    <3>1. /\ k \in Crop!Keys /\ out'[k] = msgOf[k] /\ pub_state'[k] = stOf[k]
          /\ last_capture_pts'[k] = frame_pts
      BY <1>4, <1>5, <1>6, <1>7, <1>9, <2>1
    <3> QED BY <1>10, <1>14, <2>1, <3>1
  <2>2. CASE k \notin Pub
    <3>1. k \in DOMAIN last_capture_pts /\ k \in DOMAIN pub_state /\ k \in Crop!Keys
      BY <1>7, <2>2 DEF CropInv, BookTypes, BooksAgree, Crop!BooksAgree
    <3>2. /\ out'[k] = out[k] /\ pub_state'[k] = pub_state[k]
          /\ last_capture_pts'[k] = last_capture_pts[k]
      BY <1>6, <1>7, <1>9, <2>2, <3>1
    <3> QED BY <3>1, <3>2 DEF CropInv, BookTypes, Lives
  <2> QED BY <2>1, <2>2
<1>18. DOMAIN last_capture_pts' \subseteq Crop!Keys
  BY <1>4, <1>5, <1>7 DEF CropInv, BookTypes
<1> QED BY <1>9, <1>11, <1>12, <1>13, <1>15, <1>16, <1>17, <1>18, BooksChange

(* The other steps of a batch. *)
LEMMA BatchSteps ==
  ASSUME CropInv,
         \/ Crop!BeginBatch \/ Crop!EndFrame \/ Crop!Tick
         \/ \E s \in Slots : Crop!BeginFrame(s)
  PROVE  CropInv'
<1>0. now \in Nat
  BY DEF CropInv, BatchTypes
<1>1. UNCHANGED <<pub_state, last_capture_pts, object_last_seen, object_keys, out>>
  BY DEF Crop!BeginBatch, Crop!EndFrame, Crop!Tick, Crop!BeginFrame, Crop!maps, Crop!history
<1>2. BooksAgree'
  BY <1>1 DEF CropInv, BooksAgree, Crop!BooksAgree
<1>3. ASSUME now' = now PROVE BookTypes' /\ Lives'
  BY <1>1, <1>3 DEF CropInv, BookTypes, Lives
<1>4. CASE Crop!BeginBatch
  <2>1. PICK S \in SUBSET {s \in Slots : frame_num[s] < LastFrameNum} :
          /\ batch' \in [S -> CropScenes]
          /\ frame_num' = [s \in Slots |-> IF s \in S THEN frame_num[s] + 1 ELSE frame_num[s]]
    BY <1>4 DEF Crop!BeginBatch
  <2>2. /\ now' = now /\ phase' = "batch" /\ groups' = groups /\ batch_counter' = batch_counter
        /\ batch_pts' \in {now} \cup LostPts /\ child_parent' = child_parent
        /\ frame_pts' = frame_pts
    BY <1>4 DEF Crop!BeginBatch, Crop!maps
  <2>3. /\ frame_num' \in [Slots -> Nat \cup {-1}] /\ \A s \in S : frame_num'[s] \in Nat
        /\ \A s \in Slots : frame_num[s] \in Nat => frame_num'[s] \in Nat
    BY <2>1 DEF CropInv, BatchTypes
  <2>4. /\ DOMAIN batch' \subseteq Slots
        /\ \A s \in DOMAIN batch' : IsScene(batch'[s]) /\ frame_num'[s] \in Nat
    BY <2>1, <2>3, BoundsAssumption
  <2>8. \A g \in groups' : GroupOk(g) /\ frame_num'[g.slot] \in Nat
    BY <2>2, <2>3 DEF CropInv, BatchTypes, GroupOk
  <2>5. batch_pts' \in {now, -1} /\ batch_pts' \in Crop!Pts
    BY <1>0, <2>2, CropAssumption DEF Crop!Pts, Crop!None
  <2>6. BatchTypes'
    BY <2>2, <2>3, <2>4, <2>5, <2>8 DEF CropInv, BatchTypes
  <2>7. ParentTypes'
    BY <2>2 DEF CropInv, ParentTypes
  <2> QED BY <1>2, <1>3, <2>2, <2>6, <2>7 DEF CropInv
<1>5. CASE Crop!EndFrame
  <2>1. /\ now' = now /\ phase = "groups" /\ phase' = "batch" /\ groups' = groups
        /\ frame_pts' = -1
        /\ batch_counter' = batch_counter /\ batch_pts' = batch_pts /\ batch' = batch
        /\ frame_num' = frame_num /\ child_parent' = child_parent
    BY <1>5 DEF Crop!EndFrame, Crop!maps, Crop!None
  <2>2. BatchTypes'
    BY <2>1 DEF CropInv, BatchTypes, Crop!Pts, Crop!None
  <2>3. ParentTypes'
    BY <2>1 DEF CropInv, ParentTypes
  <2> QED BY <1>2, <1>3, <2>1, <2>2, <2>3 DEF CropInv
<1>6. CASE Crop!Tick
  <2>1. /\ now' = now + 1 /\ phase = "idle" /\ phase' = phase /\ groups' = groups
        /\ frame_pts' = frame_pts
        /\ batch_counter' = batch_counter /\ batch_pts' = batch_pts /\ batch' = batch
        /\ frame_num' = frame_num /\ child_parent' = child_parent
    BY <1>6 DEF Crop!Tick, Crop!maps
  <2>2. BatchTypes'
    BY <1>0, <2>1 DEF CropInv, BatchTypes
  <2>3. ParentTypes'
    BY <2>1 DEF CropInv, ParentTypes
  <2>4. \A t \in Crop!Pts : t <= now => t <= now'
    BY <1>0, <2>1 DEF Crop!Pts, Crop!None
  <2>5. BookTypes'
    <3>1. ASSUME NEW k \in DOMAIN pub_state PROVE pub_state[k].refill <= now'
      BY <2>4 DEF CropInv, BookTypes, PubOk
    <3>2. ASSUME NEW k \in DOMAIN last_capture_pts PROVE last_capture_pts[k] <= now'
      BY <2>4 DEF CropInv, BookTypes
    <3> QED BY <1>1, <3>1, <3>2 DEF CropInv, BookTypes
  <2>6. Lives'
    <3>1. \A k \in Crop!Keys : OutOk(out[k], now')
      BY <1>0, <2>1, OutLasts DEF CropInv, Lives
    <3> QED BY <1>1, <3>1 DEF CropInv, Lives
  <2> QED BY <1>2, <2>2, <2>3, <2>5, <2>6 DEF CropInv
<1>7. ASSUME NEW s \in Slots, Crop!BeginFrame(s) PROVE CropInv'
  <2> DEFINE scene == batch[s]
             new == {s} \X Crop!Pointers(scene)
  <2>1. s \in DOMAIN batch /\ IsScene(scene) /\ ParentTypes
    BY <1>7 DEF Crop!BeginFrame, CropInv, BatchTypes
  <2>2. /\ \A o \in Crop!Pointers(scene) : o \in Ids /\ scene[o].parent \in Ids \ {Untracked}
        /\ \A g \in Crop!build_object_groups(s, scene) : GroupOk(g) /\ g.slot = s
    <3> HIDE DEF scene
    <3> QED BY <2>1, GroupsOk
  <2>3. /\ now' = now /\ phase = "batch" /\ phase' = "groups"
        /\ groups' = Crop!build_object_groups(s, scene)
        /\ batch_counter' = batch_counter /\ batch_pts' = batch_pts
        /\ batch' = Crop!Without(batch, {s}) /\ frame_num' = frame_num
        /\ frame_pts' \in {now, batch_pts}
    BY <1>7 DEF Crop!BeginFrame
  <2>4. /\ DOMAIN child_parent' = DOMAIN child_parent \cup new
        /\ \A k \in DOMAIN child_parent' :
             child_parent'[k] = IF k \in new THEN scene[k[2]].parent ELSE child_parent[k]
    BY <1>7 DEF Crop!BeginFrame
  <2>5. /\ DOMAIN batch' \subseteq Slots
        /\ \A r \in DOMAIN batch' : IsScene(batch'[r]) /\ frame_num'[r] \in Nat
    BY <2>3 DEF CropInv, BatchTypes, Crop!Without
  <2>9. frame_pts' \in {now, -1} /\ frame_pts' \in Crop!Pts /\ frame_num[s] \in Nat
    BY <2>1, <2>3 DEF CropInv, BatchTypes, Crop!Pts, Crop!None
  <2> HIDE DEF scene
  <2>6. BatchTypes'
    BY <2>2, <2>3, <2>5, <2>9 DEF CropInv, BatchTypes
  <2>7. \A k \in new : k \in Crop!Keys /\ scene[k[2]].parent \in Ids \ {Untracked}
    BY <2>2 DEF Crop!Keys
  <2> HIDE DEF new
  <2>8. ParentTypes'
    BY <2>1, <2>4, <2>7 DEF ParentTypes
  <2> QED BY <1>2, <1>3, <2>3, <2>6, <2>8 DEF CropInv
<1> QED BY <1>4, <1>5, <1>6, <1>7

(* The end of a batch forgets lives whole. *)
LEMMA EndBatchKeeps ==
  ASSUME CropInv, Crop!EndBatch
  PROVE  CropInv'
<1>1. /\ now' = now /\ phase' = "idle" /\ groups' = groups /\ batch_pts' = batch_pts
      /\ batch' = batch /\ frame_num' = frame_num /\ out' = out /\ frame_pts' = frame_pts
      /\ batch_counter' = IF CheckInterval = 0 THEN 0 ELSE (batch_counter + 1) % CheckInterval
  BY DEF Crop!EndBatch, Crop!history
<1>2. batch_counter' \in Nat
  <2>1. batch_counter \in Nat /\ CheckInterval \in Nat
    BY CropAssumption DEF CropInv, BatchTypes
  <2> QED BY <1>1, <2>1
<1>3. BatchTypes'
  BY <1>1, <1>2 DEF CropInv, BatchTypes
<1>4. BooksAgree'
  BY BooksGoOn DEF CropInv, Crop!Next
<1>5. \/ UNCHANGED Crop!maps
      \/ \E K : Crop!Forget(K)
  BY DEF Crop!EndBatch, Crop!cleanup_stale_objects
<1>6. /\ DOMAIN pub_state' \subseteq DOMAIN pub_state
      /\ DOMAIN last_capture_pts' \subseteq DOMAIN last_capture_pts
      /\ DOMAIN object_last_seen' \subseteq DOMAIN object_last_seen
      /\ DOMAIN child_parent' \subseteq DOMAIN child_parent
      /\ \A k \in DOMAIN pub_state' : pub_state'[k] = pub_state[k]
      /\ \A k \in DOMAIN last_capture_pts' : last_capture_pts'[k] = last_capture_pts[k]
      /\ \A k \in DOMAIN object_last_seen' : object_last_seen'[k] = object_last_seen[k]
      /\ \A k \in DOMAIN child_parent' : child_parent'[k] = child_parent[k]
  <2>1. CASE UNCHANGED Crop!maps
    BY <2>1 DEF Crop!maps
  <2>2. ASSUME NEW K, Crop!Forget(K) PROVE <1>6
    BY <2>2 DEF Crop!Forget, Crop!Without
  <2> QED BY <1>5, <2>1, <2>2
<1>7. BookTypes' /\ ParentTypes'
  BY <1>1, <1>6 DEF CropInv, BookTypes, ParentTypes
<1>8. Lives'
  <2>1. \A k \in DOMAIN last_capture_pts' : k \in DOMAIN pub_state'
    BY <1>4 DEF BooksAgree, Crop!BooksAgree
  <2> QED BY <1>1, <1>6, <2>1 DEF CropInv, Lives
<1> QED BY <1>3, <1>4, <1>7, <1>8 DEF CropInv

(* So every step keeps the invariant. *)
LEMMA CropGoesOn == CropInv /\ [Crop!Next]_<<now, cropVars>> => CropInv'
<1> SUFFICES ASSUME CropInv, [Crop!Next]_<<now, cropVars>> PROVE CropInv'
  OBVIOUS
<1>1. CASE UNCHANGED <<now, cropVars>>
  BY <1>1 DEF cropVars, CropInv, BatchTypes, ParentTypes, BookTypes, BooksAgree, Crop!BooksAgree,
              Lives
<1>2. ASSUME NEW g \in groups, Crop!HandleGroup(g) PROVE CropInv'
  BY <1>2, UnpublishedKeeps, PublishKeeps DEF Crop!HandleGroup
<1> QED BY <1>1, <1>2, BatchSteps, EndBatchKeeps DEF Crop!Next

(* The invariant where crop_objects is followed; elsewhere there are no      *)
(* messages.                                                                 *)
CropPartInv ==
  /\ now \in Nat
  /\ IF part = "crop_objects" THEN CropInv ELSE out = [k \in Crop!Keys |-> Crop!Never]

(* The probe begins with empty books. *)
LEMMA CropBegins == ProbesInit => CropPartInv
<1> SUFFICES ASSUME ProbesInit PROVE CropPartInv
  OBVIOUS
<1>0. Crop!Init
  BY DEF ProbesInit
<1>1. /\ now = 1 /\ frame_num = [s \in Slots |-> -1] /\ phase = "idle" /\ batch = [k \in {} |-> -1]
      /\ batch_pts = -1 /\ frame_pts = -1 /\ groups = {} /\ batch_counter = 0
      /\ pub_state = [k \in {} |-> -1]
      /\ last_capture_pts = [k \in {} |-> -1] /\ object_last_seen = [k \in {} |-> -1]
      /\ object_keys = {} /\ child_parent = [k \in {} |-> -1]
      /\ out = [k \in Crop!Keys |-> Crop!Never]
  BY <1>0 DEF Crop!Init, Crop!Empty, Crop!None
<1>2. BatchTypes
  BY <1>1 DEF BatchTypes, Crop!Pts, Crop!None
<1>3. ParentTypes /\ BookTypes /\ BooksAgree
  BY <1>1 DEF ParentTypes, BookTypes, BooksAgree, Crop!BooksAgree
<1>4. Lives
  <2>1. OutOk(Crop!Never, 1)
    <3>1. /\ Crop!Never.pts = -1 /\ Crop!Never.kind = "none" /\ Crop!Never.gap = -1
          /\ Crop!Never.bypasses = 0 /\ Crop!Never.born = 0
      BY DEF Crop!Never, Crop!None
    <3>2. (1 - 0) \div TokenRefill \in Nat /\ BurstMax \in Nat
      BY CropAssumption, Divided
    <3> HIDE DEF Crop!Never
    <3> QED BY <3>1, <3>2 DEF OutOk, Crop!Pts, Crop!None
  <2> QED BY <1>1, <2>1 DEF Lives
<1> QED BY <1>1, <1>2, <1>3, <1>4 DEF CropPartInv, CropInv

(* It holds throughout. *)
LEMMA CropInvariance == ProbesSpec => []CropPartInv
<1>1. ASSUME CropPartInv, [ProbesNext]_probeVars PROVE CropPartInv'
  <2>1. now' \in Nat
    BY <1>1, ClockMoves DEF CropPartInv
  <2>2. CASE part = "crop_objects"
    BY <1>1, <2>1, <2>2, PartsClock, CropGoesOn DEF CropPartInv
  <2>3. CASE part # "crop_objects"
    <3>1. out' = out /\ part' = part
      BY <1>1, <2>3, PartsClock DEF cropVars
    <3> QED BY <1>1, <2>1, <2>3, <3>1 DEF CropPartInv
  <2> QED BY <2>2, <2>3
<1> QED BY <1>1, CropBegins, PTL DEF ProbesSpec

(* The cadence of an object that leads its group, for any scenes, filters,   *)
(* limits and lost timestamps: heartbeats keep the capture interval,         *)
(* bypasses the minimum gap, and the bypasses of a life stay within the      *)
(* bucket and its refills (decide_capture, refill_tokens), through expiry,   *)
(* the emergency clear and publications as somebody's child.                 *)
THEOREM CadenceKept == ProbesSpec => []Cadence
<1>1. CropPartInv => Cadence
  <2> SUFFICES ASSUME CropPartInv, NEW k \in Crop!Keys PROVE OutOk(out[k], now)
    BY DEF Cadence, Crop!Cadence, OutOk, Crop!valid, Crop!None
  <2>1. CASE part = "crop_objects"
    BY <2>1 DEF CropPartInv, CropInv, Lives
  <2>2. CASE part # "crop_objects"
    <3>1. /\ out[k].pts = -1 /\ out[k].kind = "none" /\ out[k].gap = -1
          /\ out[k].bypasses = 0 /\ out[k].born = 0
      BY <2>2 DEF CropPartInv, Crop!Never, Crop!None
    <3>2. now \in Nat /\ now - 0 = now
      BY DEF CropPartInv
    <3>3. (now - 0) \div TokenRefill \in Nat /\ BurstMax \in Nat
      BY <3>2, CropAssumption, Divided
    <3> QED BY <3>1, <3>2, <3>3 DEF OutOk, Crop!Pts, Crop!None
  <2> QED BY <2>1, <2>2
<1> QED BY <1>1, CropInvariance, PTL
-----------------------------------------------------------------------------
(* SmartRecord, and the types of the parts *)

(* A step of the probe system is one of SmartRecord, or leaves it alone. *)
LEMMA RecordStep == [ProbesNext]_probeVars => [Next]_vars
<1>1. CASE UNCHANGED probeVars
  BY <1>1 DEF probeVars
<1>2. CASE ProbesNext
  BY <1>2 DEF ProbesNext, SmartRecordStep, CropStep, EventsStep, CallsStep, ClassIdStep, CacheStep
<1> QED BY <1>1, <1>2

(* Among the other handlers, too, a clip has the session it was started for  *)
(* (emit_start, on_recording_done), and the clips under way stay within      *)
(* max_concurrent_recordings.                                                *)
THEOREM RecordsAmongProbes == ProbesSpec => [](TypeOK /\ ClipHasItsSession /\ ClipsWithinCap)
<1>1. ProbesInit => TypeOK /\ ClipInv /\ BusyWithinCap
  BY InitTyped, InitClips, InitBusy DEF ProbesInit
<1>2. TypeOK /\ ClipInv /\ BusyWithinCap /\ [ProbesNext]_probeVars
        => (TypeOK /\ ClipInv /\ BusyWithinCap)'
  BY RecordStep, StepTyped, StepClips, StepBusy
<1>3. TypeOK /\ ClipInv /\ BusyWithinCap => TypeOK /\ ClipHasItsSession /\ ClipsWithinCap
  BY ClipsAreFew DEF ClipInv
<1> QED BY <1>1, <1>2, <1>3, PTL DEF ProbesSpec

(* A part is followed, and goes on being followed. *)
LEMMA PartFollowed == ProbesSpec => [](part \in Parts)
<1>1. ProbesInit => part \in Parts
  BY DEF ProbesInit
<1>2. part \in Parts /\ [ProbesNext]_probeVars => (part \in Parts)'
  BY PartsStep
<1> QED BY <1>1, <1>2, PTL DEF ProbesSpec

(* The object of the class ids on its journey, and whether it was copied. *)
LEMMA JourneyTypes == ProbesSpec => []Namespace!TypeOK
<1> DEFINE Travels == Journey /\ copied \in BOOLEAN
<1>1. ProbesInit => Travels
  <2>1. ProbesInit => Journey
    BY JourneyBegins DEF ProbesInit
  <2>2. ProbesInit => copied \in BOOLEAN
    BY Zenon DEF ProbesInit, Namespace!Init
  <2> QED BY <2>1, <2>2
<1>2. Travels /\ [ProbesNext]_probeVars => Travels'
  <2> SUFFICES ASSUME Travels, [ProbesNext]_probeVars PROVE Travels'
    OBVIOUS
  <2>1. Journey' /\ [Namespace!Next]_classVars
    BY JourneyGoesOn, PartsStep
  <2>2. copied' = copied \/ copied' = TRUE
    BY <2>1 DEF classVars, Namespace!Next, Namespace!process_offset, Namespace!Track,
                Namespace!process_restore
  <2>3. copied' \in BOOLEAN
    BY <2>2, Zenon
  <2> QED BY <2>1, <2>3
<1>3. Travels => Namespace!TypeOK
  <2> SUFFICES ASSUME Travels PROVE Namespace!TypeOK
    OBVIOUS
  <2>1. /\ place \in {"new", "offset", "tracked", "restored"}
        /\ made.class_id \in ClassIds /\ made.uid \in Detectors
    BY DEF Journey
  <2>2. /\ made.class_id \in Nat /\ made.uid \in Nat
        /\ Namespace!compute_offset(made.uid) \in Int
    BY <2>1, OffsetsWide
  <2>3. MovedId \in Int /\ made.class_id \in Int /\ made.uid \in Int
    BY <2>2 DEF MovedId
  <2>4. \E c \in Int, i \in {MarkerOf, Namespace!NoInfo} : object = Object(c, i)
    BY <2>1, <2>3 DEF Journey
  <2>5. PICK c \in Int, i \in {MarkerOf, Namespace!NoInfo} : object = Object(c, i)
    BY <2>4
  <2>6. object.class_id = c /\ object.uid = made.uid /\ object.info = i
    BY <2>5 DEF Object
  <2>7. i[1] \in {0, Namespace!Marker}
    BY DEF MarkerOf, Namespace!NoInfo
  <2>8. copied \in BOOLEAN
    OBVIOUS
  <2> QED BY <2>1, <2>3, <2>6, <2>7, <2>8, Zenon DEF Namespace!TypeOK
<1> HIDE DEF Travels
<1> QED BY <1>1, <1>2, <1>3, PTL DEF ProbesSpec

(* The types of crop_objects follow from its invariant. *)
LEMMA CropTypes == CropInv => Crop!TypeOK
<1> SUFFICES ASSUME CropInv PROVE Crop!TypeOK
  OBVIOUS
<1>1. /\ now \in Nat /\ frame_num \in [Slots -> Nat \cup {-1}] /\ phase \in {"idle", "batch", "groups"}
      /\ batch_pts \in Crop!Pts /\ frame_pts \in Crop!Pts /\ batch_counter \in Nat
      /\ DOMAIN batch \subseteq Slots
      /\ \A g \in groups : g.slot \in Slots /\ g.children \subseteq DOMAIN g.scene \ {Untracked}
  BY DEF CropInv, BatchTypes, GroupOk
<1>2. DOMAIN pub_state \cup DOMAIN last_capture_pts \cup DOMAIN object_last_seen
        \cup DOMAIN child_parent \cup object_keys \subseteq Crop!Keys
  BY DEF CropInv, BookTypes, ParentTypes, BooksAgree, Crop!BooksAgree
<1>3. /\ \A k \in DOMAIN pub_state : PubOk(pub_state[k])
      /\ \A k \in DOMAIN last_capture_pts : last_capture_pts[k] \in Crop!Pts
      /\ \A k \in DOMAIN object_last_seen : object_last_seen[k] \in Crop!Pts
      /\ \A k \in DOMAIN child_parent : child_parent[k] \in Ids \ {Untracked}
  BY DEF CropInv, BookTypes, ParentTypes
<1> QED BY <1>1, <1>2, <1>3 DEF Crop!TypeOK, PubOk

(* Every handler's state keeps its type, for any frames and configuration:   *)
(* counters, token buckets, vote windows, throttle times and cache lists     *)
(* stay in their ranges.                                                     *)
THEOREM ProbesTyped == ProbesSpec => []ProbesTypeOK
<1>1. part = "crop_objects" /\ CropPartInv => Crop!TypeOK
  BY CropTypes DEF CropPartInv
<1>2. part = "ext_proc" /\ CallsPartInv => Calls!TypeOK
  BY DEF CallsPartInv, CallsInv
<1>3. (part = "frame_events" => EventsInv) /\ part = "frame_events" => Events!TypeOK
  BY DEF EventsInv
<1>4. part = "evidence_cache" /\ CacheInv => Cache!TypeOK
  BY DEF CacheInv, CacheTypes, Cache!TypeOK
<1>5. /\ part \in Parts /\ TypeOK /\ CropPartInv /\ CallsPartInv /\ CacheInv
      /\ part = "frame_events" => EventsInv
      /\ Namespace!TypeOK
      => ProbesTypeOK
  BY <1>1, <1>2, <1>3, <1>4 DEF ProbesTypeOK, Parts
<1> QED BY <1>5, PartFollowed, RecordsAmongProbes, CropInvariance, CallsInvariance, CacheInvariance,
           EventsInvariance, JourneyTypes, PTL
=============================================================================
