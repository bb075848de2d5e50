---------------------------- MODULE FrameEvents ----------------------------
(***************************************************************************)
(* pipeline/src/probes/frame_events_probe_handler.cpp: the probe that      *)
(* decides, frame by frame, whether the objects in view are published.     *)
(* One streaming thread calls it; its state is kept per source id, that is *)
(* per slot of the source bin, and a slot may be given to another camera   *)
(* at run time.  Class and type of an object are one value here (kind),    *)
(* its classifier labels one value (label), its box a place on a line.     *)
(***************************************************************************)
EXTENDS ProbeConfig, Sequences, FiniteSets

VARIABLES now,        \* now_epoch_ms, a steadily growing clock
          camera,     \* slot -> name of its camera, lookup_runtime_source_name
          emit_state, \* emit_state_
          sent,       \* history: the last frame_events message of a slot
          view        \* history: what the last frame of a slot showed, once voted

vars == <<now, camera, emit_state, sent, view>>

(* What the message says of an object, and the label_signature beside it. *)
Reported == [kind : Kinds, parent : Ids \cup {NoParent}, label : Labels, sig : Labels,
             place : Nat]

Votes == [samples : Seq(Labels), committed : Labels, provisional : Labels]

(* The functions from some of the object ids to S. *)
Partial(S) == UNION {[D -> S] : D \in SUBSET Ids}

(* PerSourceEmitState; last_object_signature is build_signature(objects),    *)
(* as both are written and cleared together.                                 *)
EmitStates == [last_emit : Nat, had_detection : BOOLEAN, objects : Partial(Reported),
               label_votes : Partial(Votes)]

Shown == [camera : Cameras, at : Nat, objects : Partial(Reported)]

TypeOK ==
  /\ now \in Nat
  /\ camera \in [Slots -> Cameras]
  /\ \A s \in Slots :
       LET st == emit_state[s]
       IN /\ st.last_emit \in 0 .. now /\ st.had_detection \in BOOLEAN
          /\ DOMAIN st.objects \subseteq Ids /\ DOMAIN st.label_votes \subseteq Ids
          /\ \A o \in DOMAIN st.objects : st.objects[o] \in Reported
          /\ \A o \in DOMAIN st.label_votes : /\ st.label_votes[o] \in Votes
                                              /\ Len(st.label_votes[o].samples) <= Window
          /\ \A m \in {sent[s], view[s]} \ {NoMessage} :
               /\ m.camera \in Cameras /\ m.at \in 1 .. now
               /\ \A o \in DOMAIN m.objects : m.objects[o] \in Reported

Nobody == [o \in {} |-> {}]

Init ==
  /\ now = 1
  /\ camera \in [Slots -> Cameras]
  /\ emit_state = [s \in Slots |-> [last_emit |-> 0, had_detection |-> FALSE,
                                    objects |-> Nobody, label_votes |-> Nobody]]
  /\ sent = [s \in Slots |-> NoMessage]
  /\ view = [s \in Slots |-> NoMessage]
-----------------------------------------------------------------------------
(* Tracked objects of the frame whose kind passes the filter. *)
collect_frame_objects(frame) ==
  LET ids == {o \in DOMAIN frame : /\ o # Untracked
                                   /\ LabelFilter = {} \/ frame[o].kind \in LabelFilter}
  IN [o \in ids |-> [frame[o] EXCEPT !.parent = IF @ = Untracked THEN NoParent ELSE @]]

Count(samples, l) == Cardinality({n \in DOMAIN samples : samples[n] = l})

Last(samples) == IF Len(samples) > Window THEN Tail(samples) ELSE samples

(* One frame's label added to the votes of an object.  A label commits when  *)
(* it holds more than half of a full window, so at most one can; the window  *)
(* of 1 is no exception.                                                     *)
Vote(votes, o, label) ==
  LET old == IF o \in DOMAIN votes THEN votes[o]
             ELSE [samples |-> <<>>, committed |-> NoLabel, provisional |-> label]
      new == Last(Append(old.samples, label))
      wins == {l \in Labels : Len(new) >= Window /\ Count(new, l) > Len(new) \div 2}
  IN [samples |-> new, provisional |-> old.provisional,
      committed |-> IF wins = {} THEN old.committed ELSE CHOOSE l \in wins : TRUE]

(* The votes of the objects in view; those of all others are erased. *)
apply_label_majority_vote(votes, objects) ==
  [o \in DOMAIN objects |-> Vote(votes, o, objects[o].label)]

Report(objects, votes) ==
  [o \in DOMAIN objects |->
     [kind |-> objects[o].kind, parent |-> objects[o].parent, place |-> objects[o].place,
      label |-> IF votes[o].committed # NoLabel THEN votes[o].committed
                ELSE votes[o].provisional,
      sig |-> votes[o].committed]]

build_signature(objects) == [o \in DOMAIN objects |-> <<objects[o].kind, objects[o].parent>>]

Distance(a, b) == IF a < b THEN b - a ELSE a - b

(* The change reasons of should_emit_message; motion is measured from the    *)
(* object's place in the last message.                                       *)
Changes(st, objects) ==
  LET both == DOMAIN st.objects \cap DOMAIN objects
      Differs(f) == \E o \in both : st.objects[o][f] # objects[o][f]
  IN EmitOn \cap
     ((IF st.had_detection THEN {} ELSE {"first_frame"})
      \cup (IF build_signature(objects) # build_signature(st.objects)
            THEN {"object_set_change"} ELSE {})
      \cup (IF Differs("kind") \/ Differs("sig") THEN {"label_change"} ELSE {})
      \cup (IF Differs("parent") THEN {"parent_change"} ELSE {})
      \cup (IF \E o \in both : Distance(st.objects[o].place, objects[o].place) >= Shift
            THEN {"motion_change"} ELSE {}))

Elapsed(st) == IF st.last_emit > 0 THEN now - st.last_emit ELSE 0

Reasons(st, objects) ==
  IF Changes(st, objects) = {} /\ Elapsed(st) >= Heartbeat THEN {"heartbeat"}
  ELSE Changes(st, objects)

(* min_emit_gap_ms is the last word, and leaves the state as it was. *)
should_emit_message(st, objects) ==
  /\ ~(st.last_emit > 0 /\ Elapsed(st) < MinGap)
  /\ Reasons(st, objects) # {}

(* Mutant of reset_source_state: the time of the last message goes, too. *)
ResetAll(st) == [last_emit |-> 0, had_detection |-> FALSE, objects |-> Nobody,
                 label_votes |-> Nobody]

reset_source_state(st) ==
  [last_emit |-> st.last_emit, had_detection |-> FALSE, objects |-> Nobody,
   label_votes |-> Nobody]

(* on_buffer, for a frame without objects of interest. *)
EmptyFrame(s, frame) ==
  /\ DOMAIN collect_frame_objects(frame) = {}
  /\ emit_state' = [emit_state EXCEPT ![s] = reset_source_state(@)]
  /\ view' = [view EXCEPT ![s] = NoMessage]
  /\ UNCHANGED <<now, camera, sent>>

(* The state of slot s with the votes of its new frame. *)
Voted(s, votes) ==
  [last_emit |-> emit_state[s].last_emit, had_detection |-> emit_state[s].had_detection,
   objects |-> emit_state[s].objects, label_votes |-> votes]

(* Mutant of Observe: a frame that is not published is remembered, too. *)
Remember(s, objects, votes) ==
  LET st == Voted(s, votes)
      message == [camera |-> camera[s], at |-> now, objects |-> objects]
      emits == should_emit_message(st, objects)
  IN /\ emit_state' = [emit_state EXCEPT ![s] =
          [st EXCEPT !.last_emit = IF emits THEN now ELSE @, !.had_detection = TRUE,
                     !.objects = objects]]
     /\ sent' = IF emits THEN [sent EXCEPT ![s] = message] ELSE sent
     /\ view' = [view EXCEPT ![s] = message]

(* should_emit_message, and the message when it says so. *)
Observe(s, objects, votes) ==
  LET st == Voted(s, votes)
      message == [camera |-> camera[s], at |-> now, objects |-> objects]
      emits == should_emit_message(st, objects)
  IN /\ emit_state' = [emit_state EXCEPT ![s] =
          IF emits THEN [last_emit |-> now, had_detection |-> TRUE, objects |-> objects,
                         label_votes |-> votes]
          ELSE st]
     /\ sent' = IF emits THEN [sent EXCEPT ![s] = message] ELSE sent
     /\ view' = [view EXCEPT ![s] = message]

(* on_buffer, for a frame with objects of interest. *)
Frame(s, frame) ==
  /\ DOMAIN collect_frame_objects(frame) # {}
  /\ LET objects == collect_frame_objects(frame)
         votes == apply_label_majority_vote(emit_state[s].label_votes, objects)
     IN Observe(s, Report(objects, votes), votes)
  /\ UNCHANGED <<now, camera>>

(* RuntimeStreamManager gives the slot to another camera.  Its tracker       *)
(* counts from 1 again, so object ids come back.                             *)
Replace(s) ==
  /\ \E c \in Cameras \ {camera[s]} : camera' = [camera EXCEPT ![s] = c]
  /\ view' = [view EXCEPT ![s] = NoMessage]
  /\ UNCHANGED <<now, emit_state, sent>>

Tick == /\ now < LastTime
        /\ now' = now + 1
        /\ UNCHANGED <<camera, emit_state, sent, view>>

Next == \/ Tick
        \/ \E s \in Slots : \/ Replace(s)
                            \/ \E f \in Scenes : EmptyFrame(s, f) \/ Frame(s, f)

Spec == Init /\ [][Next]_vars
-----------------------------------------------------------------------------
(* Properties *)

(* min_emit_gap_ms: two messages of a slot are never closer, not even when   *)
(* the view was empty, or the slot given away, in between.                   *)
EmitGap ==
  [][\A s \in Slots : (sent'[s] # sent[s] /\ sent[s] # NoMessage)
                        => sent'[s].at - sent[s].at >= MinGap]_vars

Outdated(m, v) ==
  \/ build_signature(m.objects) # build_signature(v.objects)
  \/ \E o \in DOMAIN v.objects :
       \/ m.objects[o].sig # v.objects[o].sig
       \/ Distance(m.objects[o].place, v.objects[o].place) >= Shift

Lags(m, v) == m.camera # v.camera \/ \E o \in DOMAIN v.objects :
                                         m.objects[o].label # v.objects[o].label

(* No change is lost to the gap: whenever a frame shows another object set,  *)
(* stable label or place than the last message told, that message is younger *)
(* than min_emit_gap_ms; and whenever the message names another camera or    *)
(* other provisional labels (which a slot given away keeps alive), it is     *)
(* younger than a heartbeat or the gap.                                      *)
ViewIsPublished ==
  \A s \in Slots :
    view[s] # NoMessage =>
      /\ sent[s] # NoMessage
      /\ Outdated(sent[s], view[s]) => view[s].at - sent[s].at < MinGap
      /\ (~Outdated(sent[s], view[s]) /\ Lags(sent[s], view[s]))
           => \/ view[s].at - sent[s].at < MinGap
              \/ view[s].at - sent[s].at < Heartbeat
=============================================================================
