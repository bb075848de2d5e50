-------------------------- MODULE ClassIdNamespace --------------------------
(***************************************************************************)
(* pipeline/src/probes/class_id_namespace_handler.cpp: a probe before the  *)
(* tracker moves the class ids of each detector into a range of its own, a *)
(* probe behind it moves them back.  What happens to one object on its way *)
(* through the pipeline: the tracker may copy it without misc_obj_info,    *)
(* and each probe may be attached more than once.                          *)
(***************************************************************************)
EXTENDS ProbeConfig

VARIABLES place,   \* "new", "offset" (seen by the offset probe), "tracked", "restored"
          object,  \* NvDsObjectMeta: class_id, uid (unique_component_id), info (misc_obj_info)
          made,    \* history: the object as its detector made it
          copied   \* history: the tracker has dropped misc_obj_info

vars == <<place, object, made, copied>>

NoInfo == <<0, 0, 0>>
Marker == 1        \* MAGIC_MARKER

TypeOK == /\ place \in {"new", "offset", "tracked", "restored"}
          /\ object.class_id \in Int /\ object.uid \in Int
          /\ object.info[1] \in {0, Marker}
          /\ made.class_id \in ClassIds /\ made.uid \in Detectors
          /\ copied \in BOOLEAN

Init == /\ place = "new"
        /\ \E c \in ClassIds, u \in Detectors :
             object = [class_id |-> c, uid |-> u, info |-> NoInfo]
        /\ made = object
        /\ copied = FALSE

Marked == object.info[1] = Marker

(* Mutant of process_offset: an object that is marked is offset again. *)
OffsetAgain ==
  /\ place \in {"new", "offset"}
  /\ place' = "offset"
  /\ object' = [class_id |-> object.class_id + compute_offset(object.uid), uid |-> object.uid,
                 info |-> <<Marker, object.class_id, object.uid>>]
  /\ UNCHANGED <<made, copied>>

process_offset ==
  /\ place \in {"new", "offset"}
  /\ place' = "offset"
  /\ object' = IF Marked THEN object
               ELSE [class_id |-> IF compute_offset(object.uid) > 0
                                  THEN compute_offset(object.uid) + object.class_id
                                  ELSE object.class_id,
                     uid |-> object.uid,
                     info |-> <<Marker, object.class_id, object.uid>>]
  /\ UNCHANGED <<made, copied>>

(* The tracker, which may hand on a copy. *)
Track ==
  /\ place = "offset"
  /\ place' = "tracked"
  /\ \/ UNCHANGED <<object, copied>>
     \/ object' = [class_id |-> object.class_id, uid |-> object.uid, info |-> NoInfo]
        /\ copied' = TRUE
  /\ UNCHANGED made

process_restore ==
  /\ place \in {"tracked", "restored"}
  /\ place' = "restored"
  /\ object' = IF Marked
               THEN [class_id |-> object.info[2], uid |-> object.info[3], info |-> NoInfo]
               ELSE IF compute_offset(object.uid) > 0 /\ object.class_id >= compute_offset(object.uid)
               THEN [class_id |-> object.class_id - compute_offset(object.uid),
                     uid |-> object.uid, info |-> object.info]
               ELSE object
  /\ UNCHANGED <<made, copied>>

Next == process_offset \/ Track \/ process_restore

Spec == Init /\ [][Next]_vars
-----------------------------------------------------------------------------
(* Properties *)

(* Behind the restore probes an object is what its detector made it, however *)
(* often either probe ran and whether or not the tracker kept the marker: by  *)
(* the range of NamespaceAssumption a class id that is back is not taken for *)
(* one that still carries its offset.                                        *)
ClassIdsRestored ==
  place = "restored" => object = made
=============================================================================
