--------------------- MODULE RuntimeStreamManagerProofs ---------------------
(***************************************************************************)
(* Proofs, for every set of cameras, every bin naming and every capacity,  *)
(* of the invariants of RuntimeStreamManager and of its refinement of      *)
(* SourceDirectory.                                                        *)
(***************************************************************************)
EXTENDS RuntimeStreamManager, FiniteSetTheorems, TLAPS

(* A sorted index vector as a bag. *)
IndexBag(b) == DOMAIN b \subseteq Nat /\ b \in [DOMAIN b -> Nat \ {0}]

(* Putting an index into, and taking one out of, an index vector. *)
LEMMA BagTypes ==
  ASSUME NEW b, IndexBag(b), NEW i \in Nat
  PROVE  /\ IndexBag(Bag!BagAdd(b, i))
         /\ DOMAIN Bag!BagAdd(b, i) = DOMAIN b \cup {i}
         /\ IndexBag(Bag!BagRemove(b, i))
  BY DEF IndexBag, Bag!BagAdd, Bag!BagRemove

(* Overwriting one entry of a table keeps the table's type.                  *)
LEMMA ExceptType ==
  ASSUME NEW S, NEW T, NEW f \in [S -> T], NEW i, NEW v \in T
  PROVE  [f EXCEPT ![i] = v] \in [S -> T]
  OBVIOUS

(* What allocate_source_index returns in a type-correct state. *)
LEMMA AllocateType ==
  ASSUME TypeOK, NEW a \in allocate_source_index
  PROVE  a.index \in Nat /\ IndexBag(a.free) /\ a.next \in Nat
<1>1. CASE DOMAIN free_source_indexes # {}
  <2>1. PICK i \in DOMAIN free_source_indexes :
          a = [index |-> i, free |-> Bag!BagRemove(free_source_indexes, i),
               next |-> next_source_index]
    BY <1>1 DEF allocate_source_index
  <2>2. IndexBag(free_source_indexes) /\ next_source_index \in Nat
    BY DEF TypeOK, IndexBag
  <2>3. i \in Nat
    BY <2>2 DEF IndexBag
  <2>4. IndexBag(Bag!BagRemove(free_source_indexes, i))
    BY <2>2, <2>3, BagTypes
  <2>5. /\ a.index = i
        /\ a.free = Bag!BagRemove(free_source_indexes, i)
        /\ a.next = next_source_index
    BY <2>1
  <2> QED
    BY <2>2, <2>3, <2>4, <2>5
<1>2. CASE DOMAIN free_source_indexes = {}
  <2>1. a = [index |-> next_source_index, free |-> free_source_indexes,
             next |-> next_source_index + 1]
    BY <1>2 DEF allocate_source_index
  <2> QED
    BY <2>1 DEF TypeOK, IndexBag
<1> QED
  BY <1>1, <1>2

-----------------------------------------------------------------------------
(* Types *)

(* The types hold at the start. *)
LEMMA InitType == Init => TypeOK
<1> SUFFICES ASSUME Init PROVE TypeOK
  OBVIOUS
<1>1. max_slots_from_config \in Nat
  BY ConfigAssumption DEF max_slots_from_config
<1>2. fixed_slots \in SUBSET Slots
  BY <1>1 DEF Init, ensure_fixed_slots, seed_existing_streams, Slots
<1>3. DOMAIN free_source_indexes = Slots /\ Slots \subseteq Nat
  BY <1>1 DEF Init, ensure_fixed_slots, seed_existing_streams, Slots
<1> QED
  BY <1>1, <1>2, <1>3 DEF Init, ensure_fixed_slots, seed_existing_streams, TypeOK

(* add_stream keeps them, whichever way it ends. *)
LEMMA AddStreamType ==
  ASSUME TypeOK, NEW c \in Cameras, AddStream(c)
  PROVE  TypeOK'
<1>1. ASSUME NEW s \in {400, 409, 507}, RejectAdd(c, s),
             UNCHANGED <<fixed_slots, mtx, probing>>
      PROVE  TypeOK'
  BY <1>1 DEF TypeOK, RejectAdd, Answer, managerVars, gstVars, Slots, Active, max_slots_from_config
<1>2. CASE AddWithSlot(c)
  <2>0. PICK a \in allocate_source_index :
          cleanup_failed_add(c, a) \/ (CanBuild(c, a) /\ CommitAdd(c, a))
    BY <1>2 DEF AddWithSlot
  <2>1. a.index \in Nat /\ IndexBag(a.free) /\ a.next \in Nat
    BY AllocateType
  <2>2. CASE cleanup_failed_add(c, a)
    <3>1. IndexBag(free_source_indexes')
      BY <2>1, <2>2, BagTypes DEF cleanup_failed_add, release_source_index
    <3> QED
      BY <2>1, <2>2, <3>1 DEF AddStream, cleanup_failed_add, Answer, TypeOK, gstVars, IndexBag,
          Slots, max_slots_from_config
  <2>3. CASE CommitAdd(c, a)
    <3>1. streams' \in [Cameras -> StreamSlot \cup {NoStream}]
      BY <2>1, <2>3 DEF CommitAdd, TypeOK, StreamSlot, StreamStates
    <3>2. BinName[c] \in BinNames
      BY ConfigAssumption
    <3>3. UNCHANGED <<fixed_slots, mtx, probing>> /\ mtx = NoCamera
      BY DEF AddStream
    <3>a. /\ selector' = [selector EXCEPT ![a.index] = "placeholder"]
          /\ slot_link' = [slot_link EXCEPT ![a.index] = c]
          /\ registry' = [registry EXCEPT ![a.index] = c]
      BY <2>3, Zenon DEF CommitAdd, switch_slot_to_placeholder, register_runtime_source_name
    <3>b. /\ selector \in [Slots -> {"idle", "placeholder", "live"}]
          /\ slot_link \in [Slots -> Cameras \cup {NoCamera}]
          /\ registry \in [Slots -> Cameras \cup {NoCamera}]
      BY Zenon DEF TypeOK
    <3>c. "placeholder" \in {"idle", "placeholder", "live"} /\ c \in Cameras \cup {NoCamera}
      OBVIOUS
    <3>4. selector' \in [Slots -> {"idle", "placeholder", "live"}]
      BY <3>a, <3>b, <3>c, ExceptType
    <3>5. slot_link' \in [Slots -> Cameras \cup {NoCamera}]
      BY <3>a, <3>b, <3>c, ExceptType
    <3>6. registry' \in [Slots -> Cameras \cup {NoCamera}]
      BY <3>a, <3>b, <3>c, ExceptType
    <3>7. source_bins' \in SUBSET BinNames
      BY <2>3, <3>2 DEF CommitAdd, TypeOK
    <3>8. delivered' \in [Cameras -> BOOLEAN]
      BY <2>3 DEF CommitAdd, TypeOK
    <3>9. reply' \in [camera : Cameras, status : {200, 201, 400, 404, 409, 500, 507}] \cup {NoReply}
      BY <2>3 DEF CommitAdd, Answer
    <3>10. IndexBag(free_source_indexes') /\ next_source_index' \in Nat
      BY <2>1, <2>3 DEF CommitAdd
    <3>11. /\ DOMAIN free_source_indexes' \subseteq Nat
           /\ free_source_indexes' \in [DOMAIN free_source_indexes' -> Nat \ {0}]
      BY <3>10 DEF IndexBag
    <3>12. /\ fixed_slots' \in SUBSET Slots
           /\ probing' \in [Cameras -> Nat \cup {NoIndex}]
           /\ mtx' = NoCamera
      BY <3>3 DEF TypeOK
    <3>13. Slots' = Slots
      BY DEF Slots, max_slots_from_config
    <3> QED
      BY <3>1, <3>4, <3>5, <3>6, <3>7, <3>8, <3>9, <3>10, <3>11, <3>12, <3>13 DEF TypeOK
  <2> QED
    BY <2>0, <2>2, <2>3
<1> QED
  BY <1>1, <1>2 DEF AddStream

(* So does every step. *)
LEMMA StepType == TypeOK /\ [Next]_vars => TypeOK'
<1> SUFFICES ASSUME TypeOK, [Next]_vars PROVE TypeOK'
  OBVIOUS
<1>0. \A c \in Active : streams[c] \in StreamSlot /\ SlotOf(c) \in Nat
  BY DEF Active, TypeOK, SlotOf, StreamSlot
<1>a. NoStream \notin StreamSlot /\ NoIndex \notin Nat
  BY NullAssumption
<1>1. ASSUME NEW c \in Cameras, AddStream(c) PROVE TypeOK'
  BY <1>1, AddStreamType
<1>2. ASSUME NEW c \in Cameras, RemoveMissing(c) PROVE TypeOK'
  BY <1>2 DEF RemoveMissing, TypeOK, Answer, managerVars, gstVars, Slots, max_slots_from_config
<1>3. ASSUME NEW c \in Cameras, RemoveBegin(c) PROVE TypeOK'
  BY <1>3, ConfigAssumption DEF RemoveBegin, switch_slot_to_placeholder, TypeOK, managerVars,
      Slots, max_slots_from_config, Active
<1>4. ASSUME NEW c \in Cameras, RemoveFinish(c) PROVE TypeOK'
  <2>1. CASE SlotOf(c) \in Nat
    <3>1. IndexBag(free_source_indexes')
      <4>1. IndexBag(free_source_indexes)
        BY Zenon DEF TypeOK, IndexBag
      <4>2. free_source_indexes' = Bag!BagAdd(free_source_indexes, SlotOf(c))
        BY <1>4, Zenon DEF RemoveFinish, release_source_index
      <4> QED BY <2>1, <4>1, <4>2, BagTypes
    <3>2. /\ DOMAIN free_source_indexes' \subseteq Nat
          /\ free_source_indexes' \in [DOMAIN free_source_indexes' -> Nat \ {0}]
      BY <3>1 DEF IndexBag
    <3>3. streams' \in [Cameras -> StreamSlot \cup {NoStream}]
      BY <1>4 DEF RemoveFinish, TypeOK
    <3>4. registry' \in [Slots -> Cameras \cup {NoCamera}]
      <4>1. registry' = [registry EXCEPT ![SlotOf(c)] = NoCamera]
        BY <1>4, Zenon DEF RemoveFinish, unregister_runtime_source_name
      <4>2. registry \in [Slots -> Cameras \cup {NoCamera}] /\ NoCamera \in Cameras \cup {NoCamera}
        BY Zenon DEF TypeOK
      <4> QED BY <4>1, <4>2, ExceptType
    <3>5. source_bins' \in SUBSET BinNames
      BY <1>4 DEF RemoveFinish, TypeOK
    <3>6. reply' \in [camera : Cameras, status : {200, 201, 400, 404, 409, 500, 507}] \cup {NoReply}
      BY <1>4 DEF RemoveFinish, Answer
    <3>7. Slots' = Slots /\ mtx' = NoCamera
      BY <1>4 DEF Slots, max_slots_from_config, RemoveFinish
    <3>8. UNCHANGED <<fixed_slots, next_source_index, selector, slot_link, probing, delivered>>
      BY <1>4 DEF RemoveFinish
    <3> QED
      BY <3>2, <3>3, <3>4, <3>5, <3>6, <3>7, <3>8 DEF TypeOK
  <2> QED
    BY <1>0, <1>4, <2>1, NullAssumption DEF RemoveFinish, TypeOK
<1>5. ASSUME NEW c \in Cameras, BufferArrives(c) PROVE TypeOK'
  BY <1>0, <1>5 DEF BufferArrives, TypeOK, managerVars, gstVars, Slots, max_slots_from_config,
      Active
<1>6. ASSUME NEW c \in Cameras, NoteStreamActivity(c) PROVE TypeOK'
  <2>1. \A s \in StreamSlot : Restored(s) \in StreamSlot /\ Refreshed(s) \in StreamSlot
    BY DEF StreamSlot, StreamStates, Restored, Refreshed
  <2>2. streams' \in [Cameras -> StreamSlot \cup {NoStream}]
    BY <1>0, <1>6, <2>1 DEF NoteStreamActivity, TypeOK
  <2> QED
    BY <1>6, <2>2 DEF NoteStreamActivity, switch_slot_to_live, TypeOK, Slots, max_slots_from_config
<1>7. ASSUME NEW c \in Cameras, StallTimeout(c) PROVE TypeOK'
  <2>1. Aged(streams[c]) \in StreamSlot
    BY <1>0, <1>7 DEF StallTimeout, StreamSlot, Aged
  <2>2. streams' = [streams EXCEPT ![c] = Aged(streams[c])]
    BY <1>7 DEF StallTimeout
  <2>3. streams' \in [Cameras -> StreamSlot \cup {NoStream}]
    BY <2>1, <2>2 DEF TypeOK
  <2>4. Active' = Active
    BY <1>7, <1>a, <2>1, <2>2 DEF Active, StallTimeout, TypeOK
  <2> QED
    BY <1>7, <2>3, <2>4 DEF StallTimeout, TypeOK, gstVars, Slots, max_slots_from_config
<1>8. CASE PollStreamHealth
  <2>1. \A s \in StreamSlot : Isolated(s) \in StreamSlot
    BY DEF StreamSlot, StreamStates, Isolated
  <2>2. streams' \in [Cameras -> StreamSlot \cup {NoStream}]
    BY <1>0, <1>8, <2>1 DEF PollStreamHealth, TypeOK, Stalled
  <2> QED
    BY <1>8, <2>2 DEF PollStreamHealth, TypeOK, Slots, max_slots_from_config
<1>9. CASE UNCHANGED vars
  BY <1>9 DEF vars, TypeOK, managerVars, gstVars, Slots, max_slots_from_config, Active
<1> QED
  BY <1>1, <1>2, <1>3, <1>4, <1>5, <1>6, <1>7, <1>8, <1>9 DEF Next

(* Every variable keeps its type: in particular indexes stay natural         *)
(* numbers and a stream record stays well formed through every failed add.   *)
THEOREM TypeCorrect == Spec => []TypeOK
<1> QED
  BY InitType, StepType, PTL DEF Spec

-----------------------------------------------------------------------------
(* Slots *)

OneEach(b) == \A i \in DOMAIN b : b[i] = 1

(* Taking an index out of a vector without repetitions and putting it back. *)
LEMMA BagOnes ==
  ASSUME NEW b, IndexBag(b), OneEach(b), NEW i \in Nat
  PROVE  /\ i \in DOMAIN b => /\ DOMAIN Bag!BagRemove(b, i) = DOMAIN b \ {i}
                              /\ OneEach(Bag!BagRemove(b, i))
                              /\ Bag!BagAdd(Bag!BagRemove(b, i), i) = b
         /\ i \notin DOMAIN b => /\ DOMAIN Bag!BagAdd(b, i) = DOMAIN b \cup {i}
                                 /\ OneEach(Bag!BagAdd(b, i))
<1>1. CASE i \in DOMAIN b
  <2>1. Bag!BagRemove(b, i) = [e \in DOMAIN b \ {i} |-> b[e]]
    BY <1>1 DEF Bag!BagRemove, OneEach
  <2>2. Bag!BagAdd(Bag!BagRemove(b, i), i) =
          [e \in DOMAIN b |-> IF e = i THEN 1 ELSE Bag!BagRemove(b, i)[e]]
    BY <1>1, <2>1 DEF Bag!BagAdd
  <2>3. Bag!BagAdd(Bag!BagRemove(b, i), i) = b
    BY <1>1, <2>1, <2>2 DEF OneEach, IndexBag
  <2> QED
    BY <1>1, <2>1, <2>3 DEF OneEach
<1>2. CASE i \notin DOMAIN b
  BY <1>2 DEF Bag!BagAdd, OneEach
<1> QED
  BY <1>1, <1>2

(* A finite set is at least as large as one it can be mapped onto. *)
LEMMA OntoBound ==
  ASSUME NEW S, NEW T, IsFiniteSet(S), NEW f \in [S -> T],
         \A t \in T : \E s \in S : f[s] = t
  PROVE  Cardinality(T) <= Cardinality(S)
<1>1. f \in Surjection(S, T)
  BY DEF Surjection
<1> QED
  BY <1>1, FS_Surjection

(* The pigeonhole argument behind add_stream_detailed: below the capacity   *)
(* the free list is not empty, so no index beyond the slots is handed out.  *)
LEMMA FreeSlotLeft ==
  ASSUME TypeOK, SlotConservation, ~AtCapacity
  PROVE  DOMAIN free_source_indexes # {}
<1> SUFFICES ASSUME DOMAIN free_source_indexes = {} PROVE AtCapacity
  OBVIOUS
<1> DEFINE f == [c \in Active |-> SlotOf(c)]
<1>1. \A i \in Slots : \E c \in Active : SlotOf(c) = i
  BY DEF SlotConservation
<1>2. f \in [Active -> Slots] /\ \A i \in Slots : \E c \in Active : f[c] = i
  BY <1>1 DEF SlotConservation, TypeOK
<1>3. IsFiniteSet(Active)
  BY ConfigAssumption, FS_Subset DEF Active
<1>4. Cardinality(Slots) <= Cardinality(Active)
  <2> HIDE DEF f
  <2> QED
    BY <1>2, <1>3, OntoBound
<1>5. Cardinality(Slots) = MaxSources
  <2>1. MaxSources \in Nat \ {0} /\ Slots = 0 .. (MaxSources - 1)
    BY ConfigAssumption DEF Slots, max_slots_from_config
  <2> QED
    BY <2>1, FS_Interval
<1>6. Cardinality(Active) \in Nat
  BY <1>3, FS_CardinalityType
<1> QED
  BY <1>4, <1>5, <1>6, ConfigAssumption DEF AtCapacity

(* Below the capacity allocate_source_index takes a free, existing index. *)
LEMMA AllocateFree ==
  ASSUME TypeOK, SlotConservation, ~AtCapacity, NEW a \in allocate_source_index
  PROVE  /\ a.index \in DOMAIN free_source_indexes
         /\ a.free = Bag!BagRemove(free_source_indexes, a.index)
         /\ a.next = next_source_index
<1>1. DOMAIN free_source_indexes # {}
  BY FreeSlotLeft
<1>2. PICK i \in DOMAIN free_source_indexes :
        a = [index |-> i, free |-> Bag!BagRemove(free_source_indexes, i),
             next |-> next_source_index]
  BY <1>1 DEF allocate_source_index
<1> QED
  BY <1>2

-----------------------------------------------------------------------------
(* The inductive invariant *)

IInv == TypeOK /\ SlotConservation /\ SlotOwnership

(* What an active camera has. *)
LEMMA ActiveFacts ==
  ASSUME TypeOK, NEW c \in Active
  PROVE  /\ streams[c] \in StreamSlot /\ c \in Cameras
         /\ SlotOf(c) = streams[c].source_index /\ SlotOf(c) \in Nat
  BY DEF Active, TypeOK, SlotOf, StreamSlot

(* Steps that keep who holds which slot keep the slot bookkeeping. *)
LEMMA SameSlots ==
  ASSUME SlotConservation, Active' = Active, \A c \in Active : SlotOf(c)' = SlotOf(c),
         UNCHANGED <<fixed_slots, free_source_indexes, next_source_index>>
  PROVE  SlotConservation'
  BY DEF SlotConservation, Slots, max_slots_from_config

(* The invariant holds at the start. *)
LEMMA InitInv == Init => IInv
<1> SUFFICES ASSUME Init PROVE IInv
  OBVIOUS
<1>1. TypeOK
  BY InitType
<1>2. Active = {}
  BY DEF Init, seed_existing_streams, Active
<1>3. SlotConservation
  BY <1>2 DEF Init, seed_existing_streams, SlotConservation
<1>4. SlotOwnership
  BY <1>2 DEF Init, seed_existing_streams, SlotOwnership
<1> QED
  BY <1>1, <1>3, <1>4 DEF IInv

(* A failed add leaves the vector as it was; a committed one moves the index *)
(* from the vector to the new camera.                                        *)
LEMMA AddWithSlotInv ==
  ASSUME IInv, NEW c \in Cameras, mtx = NoCamera, c \notin Active, ~AtCapacity, AddWithSlot(c),
         UNCHANGED <<fixed_slots, mtx, probing>>
  PROVE  SlotConservation' /\ SlotOwnership'
<1> USE DEF IInv
<1>1. PICK a \in allocate_source_index :
        cleanup_failed_add(c, a) \/ (CanBuild(c, a) /\ CommitAdd(c, a))
  BY DEF AddWithSlot
<1>2. /\ a.index \in DOMAIN free_source_indexes
      /\ a.free = Bag!BagRemove(free_source_indexes, a.index)
      /\ a.next = next_source_index
  BY AllocateFree
<1>3. /\ IndexBag(free_source_indexes) /\ OneEach(free_source_indexes)
      /\ a.index \in Nat /\ a.index \in Slots
  BY <1>2 DEF TypeOK, IndexBag, OneEach, SlotConservation
<1>4. /\ DOMAIN a.free = DOMAIN free_source_indexes \ {a.index}
      /\ OneEach(a.free)
      /\ Bag!BagAdd(a.free, a.index) = free_source_indexes
  BY <1>2, <1>3, BagOnes
<1>5. CASE cleanup_failed_add(c, a)
  <2>1. /\ free_source_indexes' = free_source_indexes
        /\ next_source_index' = next_source_index
        /\ UNCHANGED <<streams, gstVars, registry, delivered>>
    BY <1>2, <1>4, <1>5 DEF cleanup_failed_add, release_source_index
  <2>2. Active' = Active /\ \A d \in Active : SlotOf(d)' = SlotOf(d)
    BY <2>1 DEF Active, SlotOf
  <2>3. SlotConservation'
    BY <2>1, <2>2, SameSlots
  <2>4. SlotOwnership'
    BY <2>1, <2>2 DEF SlotOwnership, gstVars, SlotOf
  <2> QED
    BY <2>3, <2>4
<1>6. CASE CanBuild(c, a) /\ CommitAdd(c, a)
  <2> DEFINE new == [source_index |-> a.index, state |-> "warming_up",
                     using_placeholder |-> TRUE, recent |-> TRUE]
  <2>1. new \in StreamSlot /\ new # NoStream
    <3>1. new \in StreamSlot
      BY <1>3 DEF StreamSlot, StreamStates
    <3> HIDE DEF new
    <3> QED
      BY <3>1, NullAssumption
  <2>2. streams' = [streams EXCEPT ![c] = new]
    BY <1>6 DEF CommitAdd
  <2>3. Active' = Active \cup {c}
    BY <2>1, <2>2 DEF Active, TypeOK
  <2>4. SlotOf(c)' = a.index /\ \A d \in Active : d # c /\ SlotOf(d)' = SlotOf(d)
    BY <2>1, <2>2 DEF SlotOf, TypeOK, Active
  <2>5. \A d \in Active : SlotOf(d) # a.index
    BY <1>2, <1>3 DEF SlotConservation
  <2>6. SlotConservation'
    <3>1. /\ free_source_indexes' = a.free /\ next_source_index' = next_source_index
          /\ fixed_slots' = fixed_slots /\ a.index \in fixed_slots
      BY <1>2, <1>6 DEF CommitAdd, CanBuild
    <3>2. \A i \in DOMAIN a.free : a.free[i] = 1
      BY <1>4 DEF OneEach
    <3> HIDE DEF new
    <3> QED
      BY <1>3, <1>4, <2>3, <2>4, <2>5, <3>1, <3>2
         DEF SlotConservation, Slots, max_slots_from_config
  <2>7. SlotOwnership'
    <3>0. /\ \A d \in Active : streams'[d] = streams[d] /\ SlotOf(d) \in Slots
          /\ streams'[c] = new
      BY <2>2, <2>4 DEF TypeOK, Active, SlotConservation
    <3>1. /\ selector' = [selector EXCEPT ![a.index] = "placeholder"]
          /\ slot_link' = [slot_link EXCEPT ![a.index] = c]
          /\ registry' = [registry EXCEPT ![a.index] = c]
          /\ delivered' = [delivered EXCEPT ![c] = FALSE]
          /\ free_source_indexes' = a.free
      BY <1>6 DEF CommitAdd, switch_slot_to_placeholder, register_runtime_source_name
    <3>2. ASSUME NEW d \in Active'
          PROVE  /\ registry'[SlotOf(d)'] = d
                 /\ slot_link'[SlotOf(d)'] = IF mtx' = d THEN NoCamera ELSE d
                 /\ selector'[SlotOf(d)'] = IF mtx' = d \/ streams'[d].using_placeholder
                                           THEN "placeholder" ELSE "live"
                 /\ (streams'[d].state = "active") <=> ~streams'[d].using_placeholder
                 /\ ~streams'[d].using_placeholder => delivered'[d]
      <4>1. CASE d = c
        BY <4>1, <1>3, <2>4, <3>0, <3>1, NullAssumption DEF TypeOK
      <4>2. CASE d # c
        BY <4>2, <1>3, <2>3, <2>4, <2>5, <3>0, <3>1 DEF TypeOK, SlotOwnership
      <4> QED
        BY <4>1, <4>2
    <3>3. ASSUME NEW i \in DOMAIN free_source_indexes'
          PROVE  registry'[i] = NoCamera /\ slot_link'[i] = NoCamera /\ selector'[i] # "live"
      BY <1>3, <1>4, <3>1 DEF TypeOK, SlotOwnership, SlotConservation
    <3>4. ASSUME NEW d \in Cameras, probing'[d] # NoIndex
          PROVE  d \in Active' /\ probing'[d] = SlotOf(d)' /\ delivered'[d]
      BY <2>3, <2>4, <3>1, <3>4 DEF TypeOK, SlotOwnership
    <3> QED
      BY <3>2, <3>3, <3>4 DEF SlotOwnership
  <2> QED
    BY <2>6, <2>7
<1> QED
  BY <1>1, <1>5, <1>6

(* add_stream keeps it, whichever way it ends. *)
LEMMA AddStreamInv ==
  ASSUME IInv, NEW c \in Cameras, AddStream(c)
  PROVE  SlotConservation' /\ SlotOwnership'
<1>1. ASSUME NEW s, RejectAdd(c, s), UNCHANGED <<fixed_slots, mtx, probing>>
      PROVE  SlotConservation' /\ SlotOwnership'
  <2>1. Active' = Active /\ \A d \in Active : SlotOf(d)' = SlotOf(d)
    BY <1>1 DEF RejectAdd, managerVars, Active, SlotOf
  <2>2. SlotConservation'
    BY <1>1, <2>1, SameSlots DEF IInv, RejectAdd, managerVars
  <2>3. SlotOwnership'
    BY <1>1, <2>1 DEF IInv, RejectAdd, managerVars, gstVars, SlotOwnership, SlotOf
  <2> QED
    BY <2>2, <2>3
<1> QED
  BY <1>1, AddWithSlotInv DEF AddStream

(* Between RemoveBegin and RemoveFinish the camera keeps its slot. *)
LEMMA RemoveBeginInv ==
  ASSUME IInv, NEW c \in Cameras, RemoveBegin(c)
  PROVE  SlotConservation' /\ SlotOwnership'
<1> USE DEF IInv
<1>1. Active' = Active /\ \A d \in Active : SlotOf(d)' = SlotOf(d)
  BY DEF RemoveBegin, managerVars, Active, SlotOf
<1>2. SlotConservation'
  BY <1>1, SameSlots DEF RemoveBegin, managerVars
<1>3. /\ c \in Active /\ SlotOf(c) \in Slots
      /\ \A d \in Active : SlotOf(d) = SlotOf(c) => d = c
      /\ \A d \in Active : SlotOf(d) \notin DOMAIN free_source_indexes
      /\ \A d \in Active : SlotOf(d) \in Slots
      /\ DOMAIN free_source_indexes \subseteq Slots
  BY DEF RemoveBegin, SlotConservation, TypeOK
<1>4. SlotOwnership'
  <2>1. /\ mtx = NoCamera /\ mtx' = c
        /\ selector' = [selector EXCEPT ![SlotOf(c)] = "placeholder"]
        /\ slot_link' = [slot_link EXCEPT ![SlotOf(c)] = NoCamera]
        /\ UNCHANGED <<streams, free_source_indexes, registry, probing, delivered>>
    BY DEF RemoveBegin, managerVars, switch_slot_to_placeholder
  <2>2. ASSUME NEW d \in Active
        PROVE  /\ registry'[SlotOf(d)] = d
               /\ slot_link'[SlotOf(d)] = IF mtx' = d THEN NoCamera ELSE d
               /\ selector'[SlotOf(d)] = IF mtx' = d \/ streams'[d].using_placeholder
                                        THEN "placeholder" ELSE "live"
               /\ (streams'[d].state = "active") <=> ~streams'[d].using_placeholder
               /\ ~streams'[d].using_placeholder => delivered'[d]
    <3>1. d \in Cameras /\ mtx # d
      BY <2>1, NullAssumption DEF Active
    <3> QED
      BY <1>3, <2>1, <3>1 DEF SlotOwnership, TypeOK
  <2>3. \A i \in DOMAIN free_source_indexes' :
           registry'[i] = NoCamera /\ slot_link'[i] = NoCamera /\ selector'[i] # "live"
    BY <1>3, <2>1 DEF SlotOwnership, TypeOK
  <2>4. \A d \in Cameras : probing'[d] # NoIndex =>
           d \in Active' /\ probing'[d] = SlotOf(d)' /\ delivered'[d]
    BY <1>1, <2>1 DEF SlotOwnership
  <2> QED
    BY <1>1, <2>2, <2>3, <2>4 DEF SlotOwnership
<1> QED
  BY <1>2, <1>4

(* The slot goes back to the vector, which did not hold it; nobody's probe   *)
(* callback is left behind.                                                  *)
LEMMA RemoveFinishInv ==
  ASSUME IInv, NEW c \in Cameras, RemoveFinish(c)
  PROVE  SlotConservation' /\ SlotOwnership'
<1> USE DEF IInv
<1>1. c \in Active
  BY NullAssumption DEF RemoveFinish, TypeOK
<1>2. /\ Active' = Active \ {c}
      /\ \A d \in Active \ {c} : streams'[d] = streams[d] /\ SlotOf(d)' = SlotOf(d)
  BY DEF RemoveFinish, Active, SlotOf, TypeOK
<1>3. /\ SlotOf(c) \in Nat /\ SlotOf(c) \in Slots
      /\ SlotOf(c) \notin DOMAIN free_source_indexes
      /\ \A d \in Active \ {c} : SlotOf(d) # SlotOf(c)
      /\ \A d \in Active : SlotOf(d) \in Slots
  BY <1>1, ActiveFacts DEF SlotConservation, TypeOK
<1>4. /\ DOMAIN free_source_indexes' = DOMAIN free_source_indexes \cup {SlotOf(c)}
      /\ OneEach(free_source_indexes')
  <2>1. IndexBag(free_source_indexes) /\ OneEach(free_source_indexes)
    BY DEF TypeOK, IndexBag, OneEach, SlotConservation
  <2>2. free_source_indexes' = Bag!BagAdd(free_source_indexes, SlotOf(c))
    BY DEF RemoveFinish, release_source_index
  <2> QED
    BY <1>3, <2>1, <2>2, BagOnes
<1>5. SlotConservation'
  <2>1. \A i \in DOMAIN free_source_indexes' : free_source_indexes'[i] = 1
    BY <1>4 DEF OneEach
  <2>2. fixed_slots' = fixed_slots /\ next_source_index' = next_source_index
    BY DEF RemoveFinish
  <2> QED
    BY <1>1, <1>2, <1>3, <1>4, <2>1, <2>2 DEF SlotConservation, Slots, max_slots_from_config
<1>6. SlotOwnership'
  <2>1. /\ registry' = [registry EXCEPT ![SlotOf(c)] = NoCamera]
        /\ mtx = c /\ mtx' = NoCamera /\ probing[c] = NoIndex
        /\ UNCHANGED <<selector, slot_link, probing, delivered>>
    BY DEF RemoveFinish, SourceStopped, unregister_runtime_source_name
  <2>2. \A d \in Active' :
           /\ registry'[SlotOf(d)'] = d
           /\ slot_link'[SlotOf(d)'] = IF mtx' = d THEN NoCamera ELSE d
           /\ selector'[SlotOf(d)'] = IF mtx' = d \/ streams'[d].using_placeholder
                                     THEN "placeholder" ELSE "live"
           /\ (streams'[d].state = "active") <=> ~streams'[d].using_placeholder
           /\ ~streams'[d].using_placeholder => delivered'[d]
    BY <1>2, <1>3, <2>1, NullAssumption DEF SlotOwnership, TypeOK, Active
  <2>3. \A i \in DOMAIN free_source_indexes' :
           registry'[i] = NoCamera /\ slot_link'[i] = NoCamera /\ selector'[i] # "live"
    BY <1>1, <1>3, <1>4, <2>1 DEF SlotOwnership, TypeOK, SlotConservation
  <2>4. \A d \in Cameras : probing'[d] # NoIndex =>
           d \in Active' /\ probing'[d] = SlotOf(d)' /\ delivered'[d]
    BY <1>2, <2>1 DEF SlotOwnership
  <2> QED
    BY <2>2, <2>3, <2>4 DEF SlotOwnership
<1> QED
  BY <1>5, <1>6

(* A probe callback carries the index of its own camera, which still holds   *)
(* it: nobody else is restored.                                              *)
LEMMA NoteStreamActivityInv ==
  ASSUME IInv, NEW c \in Cameras, NoteStreamActivity(c)
  PROVE  SlotConservation' /\ SlotOwnership'
<1> USE DEF IInv
<1> DEFINE i == probing[c]
           owners == {d \in Active : SlotOf(d) = i}
           s == streams[c]
<1>1. /\ c \in Active /\ i = SlotOf(c) /\ delivered[c] /\ i \in fixed_slots /\ i \in Slots
      /\ \A d \in Active : SlotOf(d) \in Slots
  BY DEF NoteStreamActivity, SlotOwnership, SlotConservation, TypeOK
<1>2. owners = {c}
  BY <1>1 DEF SlotConservation
<1>3. /\ s \in StreamSlot /\ s # NoStream
      /\ Restored(s) \in StreamSlot /\ Refreshed(s) \in StreamSlot
      /\ Restored(s) # NoStream /\ Refreshed(s) # NoStream
  <2>1. s \in StreamSlot
    BY <1>1, ActiveFacts
  <2>2. Restored(s) \in StreamSlot /\ Refreshed(s) \in StreamSlot
    BY <2>1 DEF StreamSlot, StreamStates, Restored, Refreshed
  <2> QED
    BY <2>1, <2>2, NullAssumption
<1>4. /\ streams' = [streams EXCEPT ![c] = IF s.using_placeholder THEN Restored(s)
                                           ELSE Refreshed(s)]
      /\ selector' = IF s.using_placeholder THEN [selector EXCEPT ![i] = "live"] ELSE selector
      /\ mtx = NoCamera /\ probing' = [probing EXCEPT ![c] = NoIndex]
      /\ UNCHANGED <<fixed_slots, free_source_indexes, next_source_index, slot_link,
                     registry, mtx, delivered>>
  BY <1>1, <1>2 DEF NoteStreamActivity, switch_slot_to_live, TypeOK
<1>5. /\ streams'[c] = IF s.using_placeholder THEN Restored(s) ELSE Refreshed(s)
      /\ \A d \in Cameras \ {c} : streams'[d] = streams[d]
  BY <1>4 DEF TypeOK
<1>6. /\ streams'[c] \in StreamSlot /\ streams'[c] # NoStream
      /\ streams'[c].source_index = s.source_index
      /\ ~streams'[c].using_placeholder
      /\ s.using_placeholder => streams'[c].state = "active"
      /\ ~s.using_placeholder => streams'[c].state = s.state
  BY <1>3, <1>5 DEF StreamSlot, Restored, Refreshed
<1>7. Active' = Active /\ \A d \in Active : SlotOf(d)' = SlotOf(d)
  BY <1>1, <1>3, <1>5, <1>6 DEF Active, SlotOf
<1>8. SlotConservation'
  BY <1>4, <1>7, SameSlots
<1> HIDE DEF i, s
<1>9. SlotOwnership'
  <2>1. \A d \in Active' :
           /\ registry'[SlotOf(d)'] = d
           /\ slot_link'[SlotOf(d)'] = IF mtx' = d THEN NoCamera ELSE d
           /\ selector'[SlotOf(d)'] = IF mtx' = d \/ streams'[d].using_placeholder
                                     THEN "placeholder" ELSE "live"
           /\ (streams'[d].state = "active") <=> ~streams'[d].using_placeholder
           /\ ~streams'[d].using_placeholder => delivered'[d]
    <3> SUFFICES ASSUME NEW d \in Active
                 PROVE  /\ registry'[SlotOf(d)] = d
                        /\ slot_link'[SlotOf(d)] = IF mtx' = d THEN NoCamera ELSE d
                        /\ selector'[SlotOf(d)] = IF mtx' = d \/ streams'[d].using_placeholder
                                                 THEN "placeholder" ELSE "live"
                        /\ (streams'[d].state = "active") <=> ~streams'[d].using_placeholder
                        /\ ~streams'[d].using_placeholder => delivered'[d]
      BY <1>7
    <3>1. d \in Cameras /\ mtx # d
      BY <1>4, NullAssumption DEF Active
    <3>2. CASE d = c
      BY <1>1, <1>4, <1>6, <3>1, <3>2 DEF SlotOwnership, TypeOK, i, s
    <3>3. CASE d # c
      <4>1. SlotOf(d) # i /\ streams'[d] = streams[d]
        BY <1>1, <1>5, <3>1, <3>3 DEF SlotConservation
      <4> QED
        BY <1>1, <1>4, <3>1, <4>1 DEF SlotOwnership, TypeOK
    <3> QED
      BY <3>2, <3>3
  <2>2. \A j \in DOMAIN free_source_indexes' :
           registry'[j] = NoCamera /\ slot_link'[j] = NoCamera /\ selector'[j] # "live"
    <3>1. i \notin DOMAIN free_source_indexes
      BY <1>1 DEF SlotConservation
    <3> QED
      BY <1>1, <1>4, <3>1 DEF SlotOwnership, TypeOK, SlotConservation
  <2>3. \A d \in Cameras : probing'[d] # NoIndex =>
           d \in Active' /\ probing'[d] = SlotOf(d)' /\ delivered'[d]
    BY <1>4, <1>7 DEF SlotOwnership, TypeOK
  <2> QED
    BY <2>1, <2>2, <2>3 DEF SlotOwnership
<1> QED
  BY <1>8, <1>9

(* A stalled source goes behind its placeholder with its slot. *)
LEMMA PollStreamHealthInv ==
  ASSUME IInv, PollStreamHealth
  PROVE  SlotConservation' /\ SlotOwnership'
<1> USE DEF IInv
<1> DEFINE stalled == {c \in Cameras : Stalled(c) /\ SlotOf(c) \in fixed_slots}
<1>1. /\ streams' = [c \in Cameras |-> IF c \in stalled THEN Isolated(streams[c]) ELSE streams[c]]
      /\ selector' = [i \in Slots |-> IF \E c \in stalled : SlotOf(c) = i
                                      THEN "placeholder" ELSE selector[i]]
      /\ mtx = NoCamera
      /\ UNCHANGED <<fixed_slots, free_source_indexes, next_source_index, slot_link,
                     registry, mtx, probing, delivered>>
  BY DEF PollStreamHealth
<1>2. stalled \subseteq Active /\ Active \subseteq Cameras
  BY DEF Stalled, Active
<1>3. \A c \in stalled : /\ streams'[c] \in StreamSlot /\ streams'[c] # NoStream
                         /\ streams'[c].source_index = streams[c].source_index
                         /\ streams'[c].using_placeholder
                         /\ streams'[c].state # "active"
  <2>1. \A s \in StreamSlot : /\ Isolated(s) \in StreamSlot
                              /\ Isolated(s).source_index = s.source_index
                              /\ Isolated(s).using_placeholder
                              /\ Isolated(s).state # "active"
    BY DEF StreamSlot, StreamStates, Isolated
  <2>2. \A c \in stalled : streams[c] \in StreamSlot /\ streams'[c] = Isolated(streams[c])
    BY <1>1, <1>2, ActiveFacts
  <2> QED
    BY <2>1, <2>2, NullAssumption
<1>4. \A c \in Cameras \ stalled : streams'[c] = streams[c]
  BY <1>1
<1> HIDE DEF stalled
<1>5. Active' = Active /\ \A c \in Active : SlotOf(c)' = SlotOf(c)
  BY <1>2, <1>3, <1>4 DEF Active, SlotOf
<1>6. SlotConservation'
  BY <1>1, <1>5, SameSlots
<1>7. \A c \in Active : SlotOf(c) \in Slots
  BY DEF SlotConservation, TypeOK
<1>8. ASSUME NEW c \in Active
      PROVE  /\ registry'[SlotOf(c)] = c
             /\ slot_link'[SlotOf(c)] = IF mtx' = c THEN NoCamera ELSE c
             /\ selector'[SlotOf(c)] = IF mtx' = c \/ streams'[c].using_placeholder
                                      THEN "placeholder" ELSE "live"
             /\ (streams'[c].state = "active") <=> ~streams'[c].using_placeholder
             /\ ~streams'[c].using_placeholder => delivered'[c]
  <2>1. c \in Cameras /\ mtx # c
    BY <1>1, NullAssumption DEF Active
  <2>2. CASE c \in stalled
    BY <1>1, <1>3, <1>7, <2>1, <2>2 DEF SlotOwnership
  <2>3. CASE c \notin stalled
    <3>1. \A d \in stalled : SlotOf(d) # SlotOf(c)
      BY <1>2, <2>3 DEF SlotConservation
    <3>2. selector'[SlotOf(c)] = selector[SlotOf(c)]
      BY <1>1, <1>7, <3>1
    <3> QED
      BY <1>1, <1>4, <2>1, <2>3, <3>2 DEF SlotOwnership
  <2> QED
    BY <2>2, <2>3
<1>9. \A i \in DOMAIN free_source_indexes' :
         registry'[i] = NoCamera /\ slot_link'[i] = NoCamera /\ selector'[i] # "live"
  BY <1>1 DEF SlotOwnership, SlotConservation
<1>10. \A c \in Cameras : probing'[c] # NoIndex =>
          c \in Active' /\ probing'[c] = SlotOf(c)' /\ delivered'[c]
  BY <1>1, <1>5 DEF SlotOwnership
<1>11. SlotOwnership'
  BY <1>5, <1>8, <1>9, <1>10 DEF SlotOwnership
<1> QED
  BY <1>6, <1>11

(* A stalled connection keeps it. *)
LEMMA StallTimeoutInv ==
  ASSUME IInv, NEW c \in Cameras, StallTimeout(c)
  PROVE  SlotConservation' /\ SlotOwnership'
<1> USE DEF IInv
<1>1. /\ streams' = [streams EXCEPT ![c] = Aged(streams[c])]
      /\ UNCHANGED <<fixed_slots, free_source_indexes, next_source_index, selector,
                     slot_link, registry, mtx, probing, delivered>>
  BY DEF StallTimeout, gstVars
<1>2. streams[c] \in StreamSlot
  BY ActiveFacts DEF StallTimeout
<1>3. /\ Aged(streams[c]) \in StreamSlot
      /\ Aged(streams[c]).source_index = streams[c].source_index
      /\ Aged(streams[c]).using_placeholder = streams[c].using_placeholder
      /\ Aged(streams[c]).state = streams[c].state
  BY <1>2 DEF Aged, StreamSlot
<1>4. \A d \in Cameras : (streams'[d] = NoStream) <=> (streams[d] = NoStream)
  BY <1>1, <1>2, <1>3, NullAssumption DEF TypeOK
<1>5. \A d \in Active : /\ streams'[d].source_index = streams[d].source_index
                        /\ streams'[d].using_placeholder = streams[d].using_placeholder
                        /\ streams'[d].state = streams[d].state
  BY <1>1, <1>3 DEF TypeOK, Active
<1>6. Active' = Active /\ \A d \in Active : SlotOf(d)' = SlotOf(d)
  BY <1>4, <1>5 DEF Active, SlotOf
<1>7. SlotConservation'
  BY <1>1, <1>6, SameSlots
<1>8. SlotOwnership'
  BY <1>1, <1>5, <1>6 DEF SlotOwnership
<1> QED
  BY <1>7, <1>8

(* So does a buffer that arrives. *)
LEMMA BufferArrivesInv ==
  ASSUME IInv, NEW c \in Cameras, BufferArrives(c)
  PROVE  SlotConservation' /\ SlotOwnership'
<1> USE DEF IInv
<1>1. Active' = Active /\ \A d \in Active : SlotOf(d)' = SlotOf(d)
  BY DEF BufferArrives, managerVars, Active, SlotOf
<1>2. SlotConservation'
  BY <1>1, SameSlots DEF BufferArrives, managerVars
<1>3. SlotOwnership'
  BY <1>1 DEF BufferArrives, managerVars, gstVars, SlotOwnership, TypeOK
<1> QED
  BY <1>2, <1>3

(* Every step keeps the invariant. *)
LEMMA StepInv == IInv /\ [Next]_vars => IInv'
<1> SUFFICES ASSUME IInv, [Next]_vars PROVE IInv'
  OBVIOUS
<1>1. TypeOK'
  BY StepType DEF IInv
<1>2. ASSUME NEW c \in Cameras, RemoveMissing(c) PROVE SlotConservation' /\ SlotOwnership'
  <2>1. Active' = Active /\ \A d \in Active : SlotOf(d)' = SlotOf(d)
    BY <1>2 DEF RemoveMissing, managerVars, Active, SlotOf
  <2> QED
    BY <1>2, <2>1, SameSlots DEF IInv, RemoveMissing, managerVars, gstVars, SlotOwnership
<1>3. CASE UNCHANGED vars
  <2>1. Active' = Active /\ \A d \in Active : SlotOf(d)' = SlotOf(d)
    BY <1>3 DEF vars, managerVars, Active, SlotOf
  <2> QED
    BY <1>1, <1>3, <2>1, SameSlots DEF IInv, vars, managerVars, gstVars, SlotOwnership
<1>4. CASE Next
  <2>1. SlotConservation' /\ SlotOwnership'
    BY <1>2, <1>4, AddStreamInv, RemoveBeginInv, RemoveFinishInv, BufferArrivesInv,
       NoteStreamActivityInv, StallTimeoutInv, PollStreamHealthInv, ConfigAssumption DEF Next
  <2> QED
    BY <1>1, <2>1 DEF IInv
<1> QED
  BY <1>3, <1>4

(* The inductive invariant holds for every set of cameras and every capacity. *)
LEMMA Invariant == Spec => []IInv
<1> QED
  BY InitInv, StepInv, PTL DEF Spec

(* No slot index is ever lost, duplicated or shared, and none beyond the     *)
(* configured slots is handed out, whatever adds fail and cameras leave.     *)
THEOREM SlotsConserved == Spec => []SlotConservation
<1>1. IInv => SlotConservation
  BY DEF IInv
<1> QED
  BY <1>1, Invariant, PTL

(* Linked source, registered name and selected pad of every slot agree with  *)
(* its owner, and probe callbacks belong to the owner.                       *)
THEOREM SlotsOwned == Spec => []SlotOwnership
<1>1. IInv => SlotOwnership
  BY DEF IInv
<1> QED
  BY <1>1, Invariant, PTL

(* What a live slot shows is what the identity registry calls it.            *)
THEOREM LiveSlotsNamed == Spec => []LiveSlotIsNamed
<1>1. IInv => LiveSlotIsNamed
  <2> SUFFICES ASSUME IInv, NEW i \in Slots
               PROVE  /\ selector[i] = "live" =>
                           \E c \in Active : /\ SlotOf(c) = i /\ registry[i] = c
                                             /\ slot_link[i] = c /\ streams[c].state = "active"
                      /\ (\A c \in Active : SlotOf(c) # i) =>
                           registry[i] = NoCamera /\ slot_link[i] = NoCamera
    BY DEF LiveSlotIsNamed
  <2>1. CASE i \in DOMAIN free_source_indexes
    BY <2>1 DEF IInv, SlotOwnership, SlotConservation
  <2>2. CASE i \notin DOMAIN free_source_indexes
    <3>1. PICK c \in Active : SlotOf(c) = i
      BY <2>2 DEF IInv, SlotConservation
    <3>2. streams[c] \in StreamSlot
      BY ActiveFacts DEF IInv
    <3> QED
      BY <3>1, <3>2 DEF IInv, SlotOwnership, StreamSlot
  <2> QED
    BY <2>1, <2>2
<1> QED
  BY <1>1, Invariant, PTL

(* list_streams tells the truth about what is shown. *)
THEOREM StatesMatchSelectors == Spec => []StateMatchesSelector
<1>1. IInv => StateMatchesSelector
  BY DEF IInv, SlotOwnership, StateMatchesSelector
<1> QED
  BY <1>1, Invariant, PTL

(* A camera is shown live only after its own source produced a buffer. *)
THEOREM NoForeignRestore == Spec => []LiveAfterOwnBuffer
<1>1. IInv => LiveAfterOwnBuffer
  BY DEF IInv, SlotOwnership, LiveAfterOwnBuffer
<1> QED
  BY <1>1, Invariant, PTL

-----------------------------------------------------------------------------
(* Refinement *)

(* The converse pigeonhole: at capacity every slot is taken. *)
LEMMA FullAtCapacity ==
  ASSUME IInv, AtCapacity, NEW i \in Slots
  PROVE  \E c \in Active : SlotOf(c) = i
<1> SUFFICES ASSUME \A c \in Active : SlotOf(c) # i PROVE FALSE
  OBVIOUS
<1> DEFINE f == [c \in Active |-> SlotOf(c)]
           T == Slots \ {i}
<1>1. f \in [Active -> T] /\ \A c, d \in Active : f[c] = f[d] => c = d
  BY DEF IInv, SlotConservation, TypeOK
<1>2. f \in Injection(Active, T)
  <2> HIDE DEF f, T
  <2> QED
    BY <1>1 DEF Injection, IsInjective
<1>3. MaxSources \in Nat \ {0} /\ Slots = 0 .. (MaxSources - 1)
  BY ConfigAssumption DEF Slots, max_slots_from_config
<1>4. IsFiniteSet(Slots) /\ Cardinality(Slots) = MaxSources
  BY <1>3, FS_Interval
<1>5. IsFiniteSet(T) /\ Cardinality(T) = MaxSources - 1
  BY <1>4, FS_RemoveElement
<1>6. IsFiniteSet(Active)
  BY ConfigAssumption, FS_Subset DEF Active
<1>7. Cardinality(Active) \in Nat
  BY <1>6, FS_CardinalityType
<1>8. Cardinality(Active) <= Cardinality(T)
  <2> HIDE DEF f, T
  <2> QED
    BY <1>2, <1>5, FS_Injection
<1> QED
  BY <1>3, <1>5, <1>7, <1>8 DEF AtCapacity

(* The active cameras are those with a slot in the directory. *)
LEMMA DirectoryActive ==
  ASSUME TypeOK
  PROVE  /\ Directory!Active = Active
         /\ Directory!Slots = Slots
  <1>1. \A c \in Cameras : SlotOf(c) # NoIndex <=> streams[c] # NoStream
    BY NullAssumption DEF SlotOf, TypeOK, StreamSlot
  <1> QED
    BY <1>1 DEF Directory!Active, Active, Directory!Slots, Slots, max_slots_from_config

(* An accepted, rejected or failed add is the directory's answer to it. *)
LEMMA AddRefines ==
  ASSUME IInv, IInv', NEW c \in Cameras, AddStream(c)
  PROVE  Directory!Next
<1> USE DEF IInv
<1> DEFINE dir == [d \in Cameras |-> SlotOf(d)]
<1>0. Directory!Active = Active /\ Directory!Slots = Slots
  BY DirectoryActive
<1>1. ASSUME NEW s, RejectAdd(c, s) PROVE dir' = dir /\ Directory!Answer(c, s)
  BY <1>1 DEF RejectAdd, Answer, Directory!Answer, managerVars, SlotOf
<1>2. CASE RejectAdd(c, 400)
  BY <1>1, <1>2 DEF Directory!Invalid, Directory!Next
<1>3. CASE c \in Active /\ RejectAdd(c, 409)
  BY <1>0, <1>1, <1>3 DEF Directory!Duplicate, Directory!Next
<1>4. CASE c \notin Active /\ AtCapacity /\ RejectAdd(c, 507)
  <2>1. \A s \in Slots : \E d \in Active : dir[d] = s
    BY <1>4, FullAtCapacity DEF Active
  <2> QED
    BY <1>0, <1>1, <1>4, <2>1 DEF Directory!Full, Directory!Next
<1>5. CASE c \notin Active /\ ~AtCapacity /\ AddWithSlot(c)
  <2>1. PICK a \in allocate_source_index :
          cleanup_failed_add(c, a) \/ (CanBuild(c, a) /\ CommitAdd(c, a))
    BY <1>5 DEF AddWithSlot
  <2>2. a.index \in DOMAIN free_source_indexes /\ a.index \in Slots /\ a.index \in Nat
    BY <1>5, AllocateFree DEF SlotConservation, TypeOK
  <2>3. \A d \in Active : dir[d] # a.index
    BY <2>2 DEF SlotConservation, Active
  <2>4. CASE cleanup_failed_add(c, a)
    <3>1. dir' = dir /\ Directory!Answer(c, 500)
      BY <2>4 DEF cleanup_failed_add, SlotOf, Answer, Directory!Answer
    <3>2. Directory!Failed(c)
      BY <1>0, <1>5, <2>2, <2>3, <3>1 DEF Directory!Failed
    <3> QED
      BY <3>2 DEF Directory!Next
  <2>5. CASE CommitAdd(c, a)
    <3> DEFINE new == [source_index |-> a.index, state |-> "warming_up",
                       using_placeholder |-> TRUE, recent |-> TRUE]
    <3>1. new \in StreamSlot /\ new.source_index = a.index
      BY <2>2 DEF StreamSlot, StreamStates
    <3>2. streams' = [streams EXCEPT ![c] = new] /\ Directory!Answer(c, 201)
      BY <2>5 DEF CommitAdd, Answer, Directory!Answer
    <3> HIDE DEF new
    <3>3. \A d \in Cameras : SlotOf(d)' = IF d = c THEN a.index ELSE SlotOf(d)
      BY <3>1, <3>2, NullAssumption DEF SlotOf, TypeOK
    <3>4. dir' = [dir EXCEPT ![c] = a.index]
      BY <3>3
    <3>5. Directory!Added(c)
      BY <1>0, <1>5, <2>2, <2>3, <3>2, <3>4 DEF Directory!Added
    <3> QED
      BY <3>5 DEF Directory!Next
  <2> QED
    BY <2>1, <2>4, <2>5
<1> QED
  BY <1>2, <1>3, <1>4, <1>5 DEF AddStream

(* Only the end of a removal takes a camera out of the directory. *)
LEMMA RemoveRefines ==
  ASSUME IInv, NEW c \in Cameras, RemoveFinish(c)
  PROVE  Directory!Next
<1> USE DEF IInv
<1> DEFINE dir == [d \in Cameras |-> SlotOf(d)]
<1>1. c \in Active
  BY NullAssumption DEF RemoveFinish, TypeOK
<1>2. \A d \in Cameras : SlotOf(d)' = IF d = c THEN NoIndex ELSE SlotOf(d)
  BY DEF RemoveFinish, SlotOf, TypeOK
<1>3. dir' = [dir EXCEPT ![c] = NoIndex]
  BY <1>2
<1>4. Directory!Active = Active /\ Directory!Answer(c, 200)
  BY DirectoryActive DEF RemoveFinish, Answer, Directory!Answer
<1> QED
  BY <1>1, <1>3, <1>4 DEF Directory!Removed, Directory!Next

(* Every other step leaves slots and replies alone. *)
LEMMA OtherStepsRefine ==
  ASSUME IInv, IInv', NEW c \in Cameras,
         \/ RemoveBegin(c) \/ BufferArrives(c) \/ NoteStreamActivity(c)
         \/ StallTimeout(c) \/ PollStreamHealth \/ UNCHANGED vars
  PROVE  UNCHANGED Directory!vars
<1>1. \A d \in Cameras : SlotOf(d)' = SlotOf(d)
  <2> SUFFICES ASSUME NEW d \in Cameras PROVE SlotOf(d)' = SlotOf(d)
    OBVIOUS
  <2>0. streams[d] \in StreamSlot \cup {NoStream} /\ NoStream \notin StreamSlot
    BY NullAssumption DEF IInv, TypeOK
  <2>1. \A s \in StreamSlot :
           /\ Restored(s) \in StreamSlot /\ Restored(s).source_index = s.source_index
           /\ Refreshed(s) \in StreamSlot /\ Refreshed(s).source_index = s.source_index
           /\ Isolated(s) \in StreamSlot /\ Isolated(s).source_index = s.source_index
           /\ Aged(s) \in StreamSlot /\ Aged(s).source_index = s.source_index
    BY DEF StreamSlot, StreamStates, Restored, Refreshed, Isolated, Aged
  <2>2. CASE streams'[d] = streams[d]
    BY <2>2 DEF SlotOf
  <2>3. CASE /\ streams[d] # NoStream
             /\ streams'[d] \in {Restored(streams[d]), Refreshed(streams[d]),
                                 Isolated(streams[d]), Aged(streams[d])}
    BY <2>0, <2>1, <2>3 DEF SlotOf
  <2>4. CASE RemoveBegin(c) \/ BufferArrives(c) \/ UNCHANGED vars
    BY <2>2, <2>4 DEF RemoveBegin, BufferArrives, vars, managerVars
  <2>5. CASE NoteStreamActivity(c)
    BY <2>2, <2>3, <2>5 DEF NoteStreamActivity, Active
  <2>6. CASE StallTimeout(c)
    BY <2>2, <2>3, <2>6 DEF StallTimeout, Active, IInv, TypeOK
  <2>7. CASE PollStreamHealth
    BY <2>2, <2>3, <2>7 DEF PollStreamHealth, Stalled, Active
  <2> QED
    BY <2>4, <2>5, <2>6, <2>7
<1>2. reply' = reply
  BY DEF RemoveBegin, BufferArrives, NoteStreamActivity, StallTimeout, PollStreamHealth, vars
<1> QED
  BY <1>1, <1>2 DEF Directory!vars

(* runtime_stream_manager.cpp implements the directory its callers rely on:  *)
(* a reply of 201 means a slot of one's own, 507 means every slot is taken,  *)
(* 500 leaves everything as before, 200 frees the slot.                      *)
THEOREM Refinement == Spec => ImplementsDirectory
<1>1. Init => Directory!Init
  BY DEF Init, seed_existing_streams, Directory!Init, SlotOf
<1>2. IInv /\ IInv' /\ [Next]_vars => [Directory!Next]_(Directory!vars)
  <2> SUFFICES ASSUME IInv, IInv', [Next]_vars PROVE [Directory!Next]_(Directory!vars)
    OBVIOUS
  <2>1. ASSUME NEW c \in Cameras, RemoveMissing(c) PROVE Directory!Next
    <3>1. Directory!Active = Active
      BY DirectoryActive DEF IInv
    <3>2. UNCHANGED [d \in Cameras |-> SlotOf(d)] /\ Directory!Answer(c, 404)
      BY <2>1 DEF RemoveMissing, managerVars, SlotOf, Answer, Directory!Answer
    <3> QED
      BY <2>1, <3>1, <3>2 DEF RemoveMissing, Directory!Missing, Directory!Next
  <2>2. CASE Cameras = {}
    <3>1. UNCHANGED reply
      BY <2>2, ConfigAssumption DEF Next, vars, PollStreamHealth
    <3> QED
      BY <2>2, <3>1 DEF Directory!vars
  <2>3. CASE Cameras # {}
    BY <2>1, <2>3, AddRefines, RemoveRefines, OtherStepsRefine, ConfigAssumption DEF Next
  <2> QED
    BY <2>2, <2>3
<1> QED
  BY <1>1, <1>2, Invariant, PTL DEF Spec, ImplementsDirectory, Directory!Spec
=============================================================================
