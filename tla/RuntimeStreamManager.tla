------------------------ MODULE RuntimeStreamManager ------------------------
(***************************************************************************)
(* pipeline/src/runtime_stream_manager.cpp: cameras are added to and       *)
(* removed from a running pipeline.  Every camera occupies one fixed slot  *)
(* in front of nvstreammux; the slot's input-selector shows the camera     *)
(* ("live"), a black placeholder, or nothing ("idle").                     *)
(*                                                                         *)
(* Threads: the GMainLoop thread runs add_stream_detailed,                 *)
(* remove_stream_detailed and the 500 ms health check; every source has a  *)
(* streaming thread that calls note_stream_activity from a buffer probe.   *)
(* All of them take mtx_.  remove_stream_detailed keeps mtx_ while it      *)
(* waits for the source to stop, so it is split at that wait; the other    *)
(* critical sections wait for nobody and are atomic.                       *)
(***************************************************************************)
EXTENDS Integers, FiniteSets

CONSTANTS Cameras,    \* camera ids, unequal as strings
          BinNames,   \* element names in the sources bin
          BinName,    \* make_source_bin_name: not injective, '-' and '_' collide
          MaxSources, \* sources.mux.max_sources, positive after parsing
          NoCamera, NoStream, NoIndex, NoReply

ASSUME ConfigAssumption ==
  /\ MaxSources \in Nat \ {0}
  /\ IsFiniteSet(Cameras)
  /\ BinName \in [Cameras -> BinNames]

Bag == INSTANCE BagsExt

StreamStates == {"warming_up", "active", "recovering"}

StreamSlot == [source_index : Nat, state : StreamStates,
               using_placeholder : BOOLEAN,
               recent : BOOLEAN]  \* a buffer within stream_stall_timeout_us

ASSUME NullAssumption == /\ NoCamera \notin Cameras
                         /\ NoIndex \notin Nat
                         /\ NoStream \notin StreamSlot

VARIABLES
  fixed_slots,          \* indexes whose slot bin exists; set once, in the constructor
  streams,              \* camera -> StreamSlot, or NoStream
  free_source_indexes,  \* a vector kept sorted: the bag of its elements
  next_source_index,
  selector,             \* active-pad of every slot's input-selector
  slot_link,            \* the source linked to the slot's sink
  source_bins,          \* names of the source bins in source_root
  registry,             \* SourceIdentityRegistry: slot index -> camera name
  mtx,                  \* the camera whose removal holds mtx_, or NoCamera
  probing,              \* slot index a source's buffer probe waits for mtx_ with
  delivered,            \* history: the camera's present source produced a buffer
  reply                 \* the last answer to a caller

managerVars == <<streams, free_source_indexes, next_source_index>>
gstVars == <<selector, slot_link, source_bins>>
vars == <<fixed_slots, managerVars, gstVars, registry, mtx, probing, delivered, reply>>

(* max_slots_from_config: the parser has made mux.max_sources positive. *)
max_slots_from_config == MaxSources

Slots == 0 .. (max_slots_from_config - 1)

Active == {c \in Cameras : streams[c] # NoStream}

SlotOf(c) == IF streams[c] = NoStream THEN NoIndex ELSE streams[c].source_index

TypeOK ==
  /\ fixed_slots \in SUBSET Slots
  /\ streams \in [Cameras -> StreamSlot \cup {NoStream}]
  /\ DOMAIN free_source_indexes \subseteq Nat
  /\ free_source_indexes \in [DOMAIN free_source_indexes -> Nat \ {0}]
  /\ next_source_index \in Nat
  /\ selector \in [Slots -> {"idle", "placeholder", "live"}]
  /\ slot_link \in [Slots -> Cameras \cup {NoCamera}]
  /\ source_bins \in SUBSET BinNames
  /\ registry \in [Slots -> Cameras \cup {NoCamera}]
  /\ mtx \in Active \cup {NoCamera}
  /\ probing \in [Cameras -> Nat \cup {NoIndex}]
  /\ delivered \in [Cameras -> BOOLEAN]
  /\ reply \in [camera : Cameras, status : {200, 201, 400, 404, 409, 500, 507}]
               \cup {NoReply}
-----------------------------------------------------------------------------
(* The constructor on an empty sources bin: the slots are created in order  *)
(* and the first that cannot be built ends ensure_fixed_slots; the          *)
(* constructor carries on.                                                  *)
ensure_fixed_slots ==
  \E built \in 0 .. max_slots_from_config : fixed_slots = 0 .. (built - 1)

(* No configured camera has a source bin yet: every slot is idled, unnamed   *)
(* and freed, also those that do not exist.                                  *)
seed_existing_streams ==
  /\ streams = [c \in Cameras |-> NoStream]
  /\ selector = [i \in Slots |-> "idle"]
  /\ registry = [i \in Slots |-> NoCamera]
  /\ free_source_indexes = [i \in Slots |-> 1]
  /\ next_source_index = max_slots_from_config

Init ==
  /\ ensure_fixed_slots
  /\ seed_existing_streams
  /\ slot_link = [i \in Slots |-> NoCamera]
  /\ source_bins = {}
  /\ mtx = NoCamera
  /\ probing = [c \in Cameras |-> NoIndex]
  /\ delivered = [c \in Cameras |-> FALSE]
  /\ reply = NoReply

(* switch_slot_to_live and switch_slot_to_placeholder: the active-pad.       *)
switch_slot_to_live(i) == [selector EXCEPT ![i] = "live"]
switch_slot_to_placeholder(i) == [selector EXCEPT ![i] = "placeholder"]

(* source_identity_registry.cpp, the table the publish path reads.           *)
register_runtime_source_name(i, c) == registry' = [registry EXCEPT ![i] = c]
unregister_runtime_source_name(i) == registry' = [registry EXCEPT ![i] = NoCamera]

Answer(c, status) == reply' = [camera |-> c, status |-> status]

(* back() of the descending vector is its least index; an empty vector      *)
(* yields the next index never handed out.  One result is possible.         *)
allocate_source_index ==
  IF DOMAIN free_source_indexes # {}
  THEN {[index |-> i, free |-> Bag!BagRemove(free_source_indexes, i),
         next |-> next_source_index] :
          i \in {j \in DOMAIN free_source_indexes :
                  \A k \in DOMAIN free_source_indexes : j <= k}}
  ELSE {[index |-> next_source_index, free |-> free_source_indexes,
         next |-> next_source_index + 1]}

(* Mutant of release_source_index: the index is lost. *)
ForgetIndex(bag, i) == bag

(* push_back and sort. *)
release_source_index(bag, i) == Bag!BagAdd(bag, i)

(* Every failure after the allocation gives the index back; the source, if  *)
(* it was built, is unlinked and taken out of the bin again.                *)
cleanup_failed_add(c, a) ==
  /\ free_source_indexes' = release_source_index(a.free, a.index)
  /\ next_source_index' = a.next
  /\ Answer(c, 500)
  /\ UNCHANGED <<streams, gstVars, registry, delivered>>

CommitAdd(c, a) ==
  /\ streams' = [streams EXCEPT ![c] =
                   [source_index |-> a.index, state |-> "warming_up",
                    using_placeholder |-> TRUE, recent |-> TRUE]]
  /\ free_source_indexes' = a.free
  /\ next_source_index' = a.next
  /\ selector' = switch_slot_to_placeholder(a.index)
  /\ slot_link' = [slot_link EXCEPT ![a.index] = c]
  /\ source_bins' = source_bins \cup {BinName[c]}
  /\ register_runtime_source_name(a.index, c)
  /\ delivered' = [delivered EXCEPT ![c] = FALSE]
  /\ Answer(c, 201)

(* A bin refuses a second child of the same name, so the build fails when   *)
(* another camera id normalises to a name in use; it may fail anyway, as    *)
(* linking and synchronising may.  Linking needs the slot's sink unlinked.  *)
CanBuild(c, a) == /\ a.index \in fixed_slots
                  /\ BinName[c] \notin source_bins
                  /\ slot_link[a.index] = NoCamera

AddWithSlot(c) ==
  \E a \in allocate_source_index :
     \/ cleanup_failed_add(c, a)
     \/ CanBuild(c, a) /\ CommitAdd(c, a)

(* Mutant of AtCapacity: > for >=. *)
CapacityOffByOne == Cardinality(Active) > MaxSources

AtCapacity == Cardinality(Active) >= MaxSources

RejectAdd(c, status) == /\ Answer(c, status)
                        /\ UNCHANGED <<managerVars, gstVars, registry, delivered>>

(* add_stream_detailed *)
AddStream(c) ==
  /\ mtx = NoCamera
  /\ \/ RejectAdd(c, 400)      \* an empty id or uri
     \/ c \in Active /\ RejectAdd(c, 409)
     \/ c \notin Active /\ AtCapacity /\ RejectAdd(c, 507)
     \/ c \notin Active /\ ~AtCapacity /\ AddWithSlot(c)
  /\ UNCHANGED <<fixed_slots, mtx, probing>>

(* remove_stream_detailed of a camera that is not active. *)
RemoveMissing(c) ==
  /\ mtx = NoCamera
  /\ c \notin Active
  /\ Answer(c, 404)
  /\ UNCHANGED <<fixed_slots, managerVars, gstVars, registry, mtx, probing, delivered>>

(* remove_stream_detailed up to gst_element_set_state(READY): the selector  *)
(* shows the placeholder, the probe is detached, the source is unlinked.    *)
RemoveBegin(c) ==
  /\ mtx = NoCamera
  /\ c \in Active
  /\ SlotOf(c) \in fixed_slots
  /\ mtx' = c
  /\ selector' = switch_slot_to_placeholder(SlotOf(c))
  /\ slot_link' = [slot_link EXCEPT ![SlotOf(c)] = NoCamera]
  /\ UNCHANGED <<fixed_slots, managerVars, source_bins, registry, probing, delivered, reply>>

(* Mutant of SourceStopped: nobody waits for the streaming thread. *)
AnyThread(c) == TRUE

(* Going to READY deactivates the source's pads, which waits for a          *)
(* streaming thread that is inside the probe callback.                      *)
SourceStopped(c) == probing[c] = NoIndex

(* Mutant of RemoveFinish: the slot is read from the entry after its erase. *)
ReleaseAfterErase(c) ==
  /\ mtx = c
  /\ SourceStopped(c)
  /\ source_bins' = source_bins \ {BinName[c]}
  /\ unregister_runtime_source_name(SlotOf(c))
  /\ streams' = [streams EXCEPT ![c] = NoStream]
  /\ free_source_indexes' = release_source_index(free_source_indexes, SlotOf(c)')
  /\ mtx' = NoCamera
  /\ Answer(c, 200)
  /\ UNCHANGED <<fixed_slots, next_source_index, selector, slot_link, probing, delivered>>

(* The rest of remove_stream_detailed. *)
RemoveFinish(c) ==
  /\ mtx = c
  /\ SourceStopped(c)
  /\ source_bins' = source_bins \ {BinName[c]}
  /\ unregister_runtime_source_name(SlotOf(c))
  /\ free_source_indexes' = release_source_index(free_source_indexes, SlotOf(c))
  /\ streams' = [streams EXCEPT ![c] = NoStream]
  /\ mtx' = NoCamera
  /\ Answer(c, 200)
  /\ UNCHANGED <<fixed_slots, next_source_index, selector, slot_link, probing, delivered>>

(* A buffer reaches the probed pad; on_stream_buffer_probe blocks on mtx_.  *)
BufferArrives(c) ==
  /\ c \in Active
  /\ mtx # c            \* the probe is detached in RemoveBegin
  /\ probing[c] = NoIndex
  /\ probing' = [probing EXCEPT ![c] = SlotOf(c)]
  /\ delivered' = [delivered EXCEPT ![c] = TRUE]
  /\ UNCHANGED <<fixed_slots, managerVars, gstVars, registry, mtx, reply>>

(* Mutant of Restored: the listed state stays. *)
NotRestored(slot) == [slot EXCEPT !.recent = TRUE]

Restored(slot) == [slot EXCEPT !.recent = TRUE, !.using_placeholder = FALSE,
                               !.state = "active"]
Refreshed(slot) == [slot EXCEPT !.recent = TRUE]

(* note_stream_activity, called with the index the probe was attached with. *)
NoteStreamActivity(c) ==
  /\ mtx = NoCamera
  /\ probing[c] # NoIndex
  /\ probing' = [probing EXCEPT ![c] = NoIndex]
  /\ LET i == probing[c]
         owners == {d \in Active : SlotOf(d) = i}
         hidden == \E d \in owners : streams[d].using_placeholder
     IN /\ streams' = [d \in Cameras |->
                         IF d \notin owners THEN streams[d]
                         ELSE IF streams[d].using_placeholder /\ i \in fixed_slots
                              THEN Restored(streams[d]) ELSE Refreshed(streams[d])]
        /\ selector' = IF hidden /\ i \in fixed_slots
                       THEN switch_slot_to_live(i) ELSE selector
  /\ UNCHANGED <<fixed_slots, free_source_indexes, next_source_index, slot_link,
                 source_bins, registry, mtx, delivered, reply>>

Stalled(c) == c \in Active /\ ~streams[c].using_placeholder /\ ~streams[c].recent

(* Mutant of Isolated: using_placeholder is not set. *)
NotIsolated(slot) == [slot EXCEPT !.state = "recovering"]

Isolated(slot) == [slot EXCEPT !.using_placeholder = TRUE, !.state = "recovering"]

(* poll_stream_health: every stalled live source goes behind its placeholder. *)
PollStreamHealth ==
  /\ mtx = NoCamera
  /\ LET stalled == {c \in Cameras : Stalled(c) /\ SlotOf(c) \in fixed_slots}
     IN /\ streams' = [c \in Cameras |-> IF c \in stalled THEN Isolated(streams[c])
                                         ELSE streams[c]]
        /\ selector' = [i \in Slots |-> IF \E c \in stalled : SlotOf(c) = i
                                        THEN "placeholder" ELSE selector[i]]
  /\ UNCHANGED <<fixed_slots, free_source_indexes, next_source_index, slot_link,
                 source_bins, registry, mtx, probing, delivered, reply>>

Aged(slot) == [slot EXCEPT !.recent = FALSE]

(* Time passes: the camera's last buffer is older than the stall timeout.   *)
StallTimeout(c) ==
  /\ c \in Active
  /\ streams[c].recent
  /\ streams' = [streams EXCEPT ![c] = Aged(@)]
  /\ UNCHANGED <<fixed_slots, free_source_indexes, next_source_index, gstVars,
                 registry, mtx, probing, delivered, reply>>

Next ==
  \/ \E c \in Cameras :
       \/ AddStream(c) \/ RemoveMissing(c) \/ RemoveBegin(c) \/ RemoveFinish(c)
       \/ BufferArrives(c) \/ NoteStreamActivity(c) \/ StallTimeout(c)
  \/ PollStreamHealth

Spec == Init /\ [][Next]_vars

(* The 500 ms timer keeps firing while the main loop runs, a thread blocked *)
(* on mtx_ gets it once it stays free, and a source whose threads are out   *)
(* of the way reaches READY and NULL.                                       *)
Fairness ==
  /\ WF_vars(PollStreamHealth)
  /\ \A c \in Cameras : WF_vars(NoteStreamActivity(c)) /\ WF_vars(RemoveFinish(c))

FairSpec == Spec /\ Fairness
-----------------------------------------------------------------------------
(* Properties *)

(* allocate_source_index / release_source_index: every slot index is either  *)
(* in the free list, once, or held by exactly one active camera, and that    *)
(* slot exists.  In particular the "never handed out" branch of              *)
(* allocate_source_index is never taken, whatever adds fail half-way.        *)
SlotConservation ==
  /\ next_source_index = max_slots_from_config
  /\ \A i \in DOMAIN free_source_indexes : free_source_indexes[i] = 1
  /\ DOMAIN free_source_indexes \subseteq Slots
  /\ \A i \in Slots :
       (i \in DOMAIN free_source_indexes) <=> (\A c \in Active : SlotOf(c) # i)
  /\ \A c, d \in Active : SlotOf(c) = SlotOf(d) => c = d
  /\ \A c \in Active : SlotOf(c) \in fixed_slots

(* What the batch shows in slot i is what the publish path calls it: while a *)
(* slot is live its source is linked, is the one the identity registry       *)
(* names for the slot, and is listed as "active"; a slot nobody holds has no *)
(* name, no source and is not live (lookup_runtime_source_name callers).     *)
LiveSlotIsNamed ==
  \A i \in Slots :
    /\ selector[i] = "live" =>
         \E c \in Active : /\ SlotOf(c) = i /\ registry[i] = c /\ slot_link[i] = c
                           /\ streams[c].state = "active"
    /\ (\A c \in Active : SlotOf(c) # i) =>
         registry[i] = NoCamera /\ slot_link[i] = NoCamera

(* list_streams tells the truth: outside a removal a camera is listed as     *)
(* "active" exactly when its selector really shows it.                       *)
StateMatchesSelector ==
  \A c \in Active \ {mtx} :
    selector[SlotOf(c)] = IF streams[c].state = "active" THEN "live" ELSE "placeholder"

(* A camera is shown live only after its own source produced a buffer: a     *)
(* probe callback of a removed source never restores the slot's next owner   *)
(* (remove waits for the source's streaming thread before it frees the slot).*)
LiveAfterOwnBuffer ==
  \A c \in Active : ~streams[c].using_placeholder => delivered[c]

(* The inductive strengthening of the four invariants above: what is linked, *)
(* named and selected for the slot of every camera, the one whose removal    *)
(* holds mtx_ included, and where every probe callback in flight comes from. *)
SlotOwnership ==
  /\ \A c \in Active :
       /\ registry[SlotOf(c)] = c
       /\ slot_link[SlotOf(c)] = IF mtx = c THEN NoCamera ELSE c
       /\ selector[SlotOf(c)] = IF mtx = c \/ streams[c].using_placeholder
                                THEN "placeholder" ELSE "live"
       /\ (streams[c].state = "active") <=> ~streams[c].using_placeholder
       /\ ~streams[c].using_placeholder => delivered[c]
  /\ \A i \in DOMAIN free_source_indexes :
       registry[i] = NoCamera /\ slot_link[i] = NoCamera /\ selector[i] # "live"
  /\ \A c \in Cameras : probing[c] # NoIndex =>
       c \in Active /\ probing[c] = SlotOf(c) /\ delivered[c]

(* A stalled source does not keep its slot: it goes behind the placeholder,  *)
(* its buffers resume, or a removal holds mtx_, with which nothing moves     *)
(* (poll_stream_health, note_stream_activity).                               *)
StallIsolated ==
  \A c \in Cameras : Stalled(c) ~> (~Stalled(c) \/ mtx # NoCamera)

(* A source that produces a buffer is shown, unless a removal holds mtx_.    *)
BufferRestoresLive ==
  \A c \in Cameras : (probing[c] # NoIndex) ~>
     ((c \in Active /\ streams[c].state = "active") \/ mtx # NoCamera)

(* remove_stream_detailed comes back: the caller of a removal gets its reply *)
(* and mtx_ is released for everybody else.                                  *)
RemovalReturns ==
  \A c \in Cameras : (mtx = c) ~> (mtx = NoCamera)

(* The manager implements the directory its callers rely on.                 *)
Directory == INSTANCE SourceDirectory
             WITH slotOf <- [c \in Cameras |-> SlotOf(c)], NoSlot <- NoIndex

ImplementsDirectory == Directory!Spec
=============================================================================
