-------------------------- MODULE SourceDirectory --------------------------
(***************************************************************************)
(* What the runtime source control promises its callers, whatever happens  *)
(* inside: a directory that assigns every active camera a multiplexer slot *)
(* of its own, and a reply per request that tells the truth about it.      *)
(* RuntimeStreamManager is shown to implement this specification.          *)
(***************************************************************************)
EXTENDS Integers, FiniteSets

CONSTANTS Cameras,     \* camera ids a caller may name
          MaxSources,  \* sources.mux.max_sources
          NoSlot,      \* "not active"
          NoReply      \* no request has been answered yet

VARIABLES slotOf,      \* the slot of every active camera
          reply        \* the last answer: camera and HTTP status

vars == <<slotOf, reply>>

Slots == 0 .. (MaxSources - 1)

Active == {c \in Cameras : slotOf[c] # NoSlot}

Answer(c, status) == reply' = [camera |-> c, status |-> status]

Init == /\ slotOf = [c \in Cameras |-> NoSlot]
        /\ reply = NoReply

(* An accepted camera gets a slot no other active camera has. *)
Added(c) ==
  /\ c \notin Active
  /\ \E s \in Slots :
       /\ \A d \in Active : slotOf[d] # s
       /\ slotOf' = [slotOf EXCEPT ![c] = s]
  /\ Answer(c, 201)

Duplicate(c) == /\ c \in Active
                /\ Answer(c, 409)
                /\ UNCHANGED slotOf

(* The directory is full exactly when every slot is taken. *)
Full(c) == /\ c \notin Active
           /\ \A s \in Slots : \E d \in Active : slotOf[d] = s
           /\ Answer(c, 507)
           /\ UNCHANGED slotOf

(* Building the source may fail; the directory is as before. *)
Failed(c) == /\ c \notin Active
             /\ \E s \in Slots : \A d \in Active : slotOf[d] # s
             /\ Answer(c, 500)
             /\ UNCHANGED slotOf

Invalid(c) == /\ Answer(c, 400)
              /\ UNCHANGED slotOf

Removed(c) == /\ c \in Active
              /\ slotOf' = [slotOf EXCEPT ![c] = NoSlot]
              /\ Answer(c, 200)

Missing(c) == /\ c \notin Active
              /\ Answer(c, 404)
              /\ UNCHANGED slotOf

Next == \E c \in Cameras : \/ Added(c) \/ Duplicate(c) \/ Full(c) \/ Failed(c)
                           \/ Invalid(c) \/ Removed(c) \/ Missing(c)

Spec == Init /\ [][Next]_vars
=============================================================================
