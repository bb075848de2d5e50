----------------------------- MODULE CropObject -----------------------------
(***************************************************************************)
(* pipeline/src/probes/crop_object_handler.cpp: the probe that writes      *)
(* crops of tracked objects and publishes them, first and then at an       *)
(* interval, with a token bucket for label changes in between.  Objects    *)
(* are handled in groups, a parent with its children, and the maps of      *)
(* their state are cleaned up every few batches.  A batch is one run of    *)
(* the streaming thread under mutex_, here a step per frame and per group. *)
(* Message ids, instance keys and heartbeat numbers are left out; an       *)
(* object_key is its presence.                                             *)
(***************************************************************************)
EXTENDS ProbeConfig, FiniteSets

Keys == Slots \X Ids           \* compose_key
None == -1                     \* GST_CLOCK_TIME_NONE
Pts == Nat \cup {None}
valid(p) == p # None

Never == [pts |-> None, kind |-> "none", gap |-> None, bypasses |-> 0, born |-> 0]

VARIABLES now,              \* the clock of the buffers
          frame_num,        \* slot -> number of its last frame, -1 before the first
          phase,            \* "idle", "batch" and "groups": where process_batch is
          batch,            \* slot -> scene: frames of the batch still to process
          batch_pts,
          frame_pts,        \* FrameProcessContext::frame_pts of the frame being processed
          groups,           \* groups of the frame being processed
          batch_counter,    \* batch_counter_ modulo check_interval_batches
          pub_state,        \* pub_state_
          last_capture_pts, \* last_capture_pts_
          object_last_seen, \* object_last_seen_
          object_keys,      \* the keys of object_keys_
          child_parent,     \* child_parent_oid_cache_
          full_frame_paths, \* full_frame_paths_this_batch_: frame number -> slot in the image
          full_frame_of,    \* history: slot -> slots in the images its messages named
          out               \* history: the last message of an object as parent of its group

maps == <<pub_state, last_capture_pts, object_last_seen, object_keys, child_parent>>
history == <<full_frame_of, out>>
vars == <<now, frame_num, phase, batch, batch_pts, frame_pts, groups, batch_counter, maps,
          full_frame_paths, history>>

(* ObjectPubState; counters are kept up to the value they are compared with. *)
Fresh == [seen |-> 0, on |-> 0, tokens |-> 0, refill |-> None, labels |-> NoSignature,
          pending |-> NoSignature, count |-> 0, hash |-> <<>>]

TypeOK ==
  /\ now \in Nat /\ frame_num \in [Slots -> Nat \cup {-1}]
  /\ phase \in {"idle", "batch", "groups"}
  /\ batch_pts \in Pts /\ frame_pts \in Pts /\ batch_counter \in Nat
  /\ DOMAIN pub_state \cup DOMAIN last_capture_pts \cup DOMAIN object_last_seen
       \cup DOMAIN child_parent \cup object_keys \subseteq Keys
  /\ \A k \in DOMAIN pub_state : /\ pub_state[k].tokens \in 0 .. BurstMax
                                 /\ pub_state[k].refill \in Pts /\ pub_state[k].seen \in Nat
                                 /\ pub_state[k].on \in 0 .. KOn
                                 /\ pub_state[k].count \in 0 .. KLabel
  /\ \A k \in DOMAIN last_capture_pts : last_capture_pts[k] \in Pts
  /\ \A k \in DOMAIN object_last_seen : object_last_seen[k] \in Pts
  /\ \A k \in DOMAIN child_parent : child_parent[k] \in Ids \ {Untracked}
  /\ DOMAIN batch \subseteq Slots
  /\ \A g \in groups : g.slot \in Slots /\ g.children \subseteq DOMAIN g.scene \ {Untracked}

Empty == [k \in {} |-> None]

Init ==
  /\ now = 1 /\ frame_num = [s \in Slots |-> -1] /\ phase = "idle"
  /\ batch = Empty /\ batch_pts = None /\ frame_pts = None /\ groups = {} /\ batch_counter = 0
  /\ pub_state = Empty /\ last_capture_pts = Empty /\ object_last_seen = Empty
  /\ object_keys = {} /\ child_parent = Empty
  /\ full_frame_paths = Empty
  /\ full_frame_of = [s \in Slots |-> {}] /\ out = [k \in Keys |-> Never]
-----------------------------------------------------------------------------
(* f with the keys of K set to v. *)
Put(f, K, v) == [k \in DOMAIN f \cup K |-> IF k \in K THEN v ELSE f[k]]

Without(f, K) == [k \in DOMAIN f \ K |-> f[k]]

(* build_object_groups.  An object without a parent is a child all the same  *)
(* if it was one before; a group whose parent is nowhere in the frame, not   *)
(* even behind a child's pointer, is left out by process_frame.              *)
Tracked(scene) == DOMAIN scene \ {Untracked}

Pointers(scene) == {o \in Tracked(scene) : scene[o].parent \notin {NoParent, Untracked}}

Group(s, scene, p) ==
  [slot |-> s, parent |-> p, scene |-> scene,
   children |-> {o \in Pointers(scene) : scene[o].parent = p}
                \cup {o \in Tracked(scene) :
                        /\ scene[o].parent = NoParent
                        /\ <<s, o>> \in DOMAIN child_parent
                        /\ child_parent[<<s, o>>] = p}]

build_object_groups(s, scene) ==
  {Group(s, scene, p) :
     p \in {scene[o].parent : o \in Pointers(scene)}
           \cup {o \in Tracked(scene) : /\ scene[o].parent = NoParent
                                        /\ <<s, o>> \notin DOMAIN child_parent}}

(* build_group_sgie_signature: the parent's labels and those of each child.  *)
build_group_sgie_signature(g) ==
  LET shown == {o \in g.children : g.scene[o].label # NoLabel}
      parent == g.scene[g.parent].label
  IN IF shown = {} /\ parent = NoLabel THEN NoSignature
     ELSE <<parent, [o \in shown |-> g.scene[o].label]>>

(* Mutant of refill_tokens: a token for every buffer that comes. *)
RefillEager(st, pts) ==
  IF valid(pts) THEN [st EXCEPT !.tokens = BurstMax, !.refill = pts] ELSE st

refill_tokens(st, pts) ==
  IF ~valid(pts) THEN st
  ELSE IF ~valid(st.refill) THEN [st EXCEPT !.refill = pts, !.tokens = BurstMax]
  ELSE IF pts <= st.refill \/ pts - st.refill < TokenRefill THEN st
  ELSE LET more == st.tokens + (pts - st.refill) \div TokenRefill
       IN [st EXCEPT !.tokens = IF more < BurstMax THEN more ELSE BurstMax,
                     !.refill = pts]

AtMost(n, m) == IF n < m THEN n ELSE m

(* The ON hysteresis at the top of decide_capture. *)
Sighted(st, num) ==
  [st EXCEPT !.seen = num,
             !.on = IF st.seen > 0 /\ num > st.seen /\ num - st.seen <= KOff
                    THEN AtMost(@ + 1, KOn) ELSE 1]

NoPending(st) == [st EXCEPT !.pending = NoSignature, !.count = 0]

Pending(st, sig) ==
  [st EXCEPT !.pending = sig,
             !.count = IF st.pending = sig THEN AtMost(@ + 1, KLabel) ELSE 1]

(* The rest of decide_capture within the capture interval: a changed         *)
(* signature that lasts takes a token.                                       *)
Within(st, elapsed, sig) ==
  IF elapsed < BypassMinGap THEN [st |-> st, decision |-> "none"]
  ELSE IF sig \in {NoSignature, st.labels} THEN [st |-> NoPending(st), decision |-> "none"]
  ELSE LET p == Pending(st, sig)
       IN IF p.count >= KLabel /\ p.tokens > 0
          THEN [st |-> [NoPending(p) EXCEPT !.tokens = @ - 1], decision |-> "bypass"]
          ELSE [st |-> p, decision |-> "none"]

State(k) == IF k \in DOMAIN pub_state THEN pub_state[k] ELSE Fresh

decide_capture(k, pts, sig) ==
  LET st == Sighted(State(k), frame_num[k[1]])
      last == last_capture_pts[k]
      elapsed == IF pts >= last THEN pts - last ELSE 0
  IN IF st.on < KOn THEN [st |-> st, decision |-> "none"]
     ELSE IF k \notin DOMAIN last_capture_pts
     THEN [st |-> [NoPending(st) EXCEPT !.tokens = BurstMax, !.labels = sig,
                                        !.refill = IF valid(pts) THEN pts ELSE @],
           decision |-> "first_seen"]
     ELSE IF CaptureInterval = 0 \/ ~valid(last) \/ ~valid(pts)
     THEN [st |-> st, decision |-> "heartbeat"]
     ELSE IF elapsed >= CaptureInterval
     THEN [st |-> NoPending(refill_tokens(st, pts)), decision |-> "heartbeat"]
     ELSE Within(refill_tokens(st, pts), elapsed, sig)

payload_hash(look) == <<look.kind, look.label, look.place>>

Passes(look) == LabelFilter = {} \/ look.kind \in LabelFilter
-----------------------------------------------------------------------------
(* process_batch begins, with at most one frame of a slot. *)
BeginBatch ==
  /\ phase = "idle"
  /\ \E S \in SUBSET {s \in Slots : frame_num[s] < LastFrameNum} :
       /\ S # {}
       /\ batch' \in [S -> Scenes]
       /\ frame_num' = [s \in Slots |-> IF s \in S THEN frame_num[s] + 1 ELSE frame_num[s]]
  /\ batch_pts' \in {now} \cup LostPts
  /\ phase' = "batch"
  /\ full_frame_paths' = Empty
  /\ UNCHANGED <<now, frame_pts, groups, batch_counter, maps, history>>

(* The loop of process_batch goes on to a frame, whose own PTS counts if it  *)
(* has one, and process_frame up to its loop.                                *)
BeginFrame(s) ==
  /\ phase = "batch" /\ s \in DOMAIN batch
  /\ frame_pts' \in {now, batch_pts}
  /\ groups' = build_object_groups(s, batch[s])
  /\ child_parent' = [k \in DOMAIN child_parent \cup ({s} \X Pointers(batch[s])) |->
                        IF k \in {s} \X Pointers(batch[s]) THEN batch[s][k[2]].parent
                        ELSE child_parent[k]]
  /\ batch' = Without(batch, {s})
  /\ phase' = "groups"
  /\ UNCHANGED <<now, frame_num, batch_pts, batch_counter, pub_state, last_capture_pts,
                 object_last_seen, object_keys, full_frame_paths, history>>

(* decide_capture says None, or process_object_for_publish refuses the       *)
(* parent: the children are not looked at.                                   *)
Undecided(g) ==
  LET k == <<g.slot, g.parent>>
      d == decide_capture(k, frame_pts, build_group_sgie_signature(g))
  IN /\ d.decision = "none"
     /\ pub_state' = Put(pub_state, {k}, d.st)
     /\ UNCHANGED <<last_capture_pts, object_last_seen, object_keys, full_frame_paths,
                    history>>

Suppressed(d, look) == d.decision = "heartbeat" /\ d.st.hash = payload_hash(look)

Refused(g) ==
  LET k == <<g.slot, g.parent>>
      look == g.scene[g.parent]
      d == decide_capture(k, frame_pts, build_group_sgie_signature(g))
  IN /\ d.decision # "none"
     /\ ~Passes(look) \/ Suppressed(d, look)
     /\ pub_state' = Put(pub_state, {k}, d.st)
     /\ object_last_seen' = Put(object_last_seen, {k}, frame_pts)
     /\ UNCHANGED <<last_capture_pts, object_keys, full_frame_paths, history>>

(* What the books say of an object that is published. *)
Published(st, look, sig) == [st EXCEPT !.hash = payload_hash(look), !.labels = sig]

ChildSignature(l) == IF l = NoLabel THEN NoSignature ELSE <<l>>

(* Where the refills of an object's life begin to count. *)
Since(st) == IF valid(st.refill) THEN st.refill ELSE now

Message(k, d) ==
  [pts |-> frame_pts, kind |-> d.decision,
   born |-> IF d.decision = "first_seen" THEN Since(d.st) ELSE out[k].born,
   bypasses |-> IF d.decision = "first_seen" THEN 0
                ELSE out[k].bypasses + (IF d.decision = "bypass" THEN 1 ELSE 0),
   gap |-> IF valid(frame_pts) /\ valid(out[k].pts) THEN frame_pts - out[k].pts ELSE None]

(* A child published with its parent: a life of its own begins if the books  *)
(* did not know it.                                                          *)
Accompanies(k) ==
  LET new == k \notin DOMAIN last_capture_pts
  IN [pts |-> IF valid(frame_pts) THEN out[k].pts ELSE None,
      kind |-> out[k].kind, gap |-> out[k].gap,
      bypasses |-> IF new THEN 0 ELSE out[k].bypasses,
      born |-> IF new THEN Since(State(k)) ELSE out[k].born]

(* The parent is published and with it, whatever they would decide for       *)
(* themselves, the children that pass the filter; all have been seen.  The   *)
(* full frame is taken from the batch if an object of a frame with that      *)
(* number has saved one; to encode it may fail.                              *)
Publish(g) ==
  LET p == <<g.slot, g.parent>>
      sig == build_group_sgie_signature(g)
      d == decide_capture(p, frame_pts, sig)
      look(k) == g.scene[k[2]]
      seen == {p} \cup ({g.slot} \X g.children)
      Pub == {k \in seen : Passes(look(k))}
      num == frame_num[g.slot]
  IN /\ d.decision # "none"
     /\ Passes(look(p)) /\ ~Suppressed(d, look(p))
     /\ pub_state' = [k \in DOMAIN pub_state \cup Pub |->
                        IF k = p THEN Published(d.st, look(p), sig)
                        ELSE IF k \in Pub
                        THEN Published(State(k), look(k), ChildSignature(look(k).label))
                        ELSE pub_state[k]]
     /\ last_capture_pts' = Put(last_capture_pts, Pub, frame_pts)
     /\ object_last_seen' = Put(object_last_seen, seen, frame_pts)
     /\ object_keys' = object_keys \cup Pub
     /\ \/ full_frame_paths' = full_frame_paths
        \/ /\ SaveFullFrame /\ num \notin DOMAIN full_frame_paths
           /\ full_frame_paths' = Put(full_frame_paths, {num}, g.slot)
     /\ full_frame_of' = [full_frame_of EXCEPT ![g.slot] =
                            @ \cup {full_frame_paths'[n] : n \in DOMAIN full_frame_paths' \cap {num}}]
     /\ out' = [k \in Keys |-> IF k = p THEN Message(p, d)
                               ELSE IF k \in Pub THEN Accompanies(k) ELSE out[k]]

(* One group of the frame; the order in the metadata is any. *)
HandleGroup(g) ==
  /\ phase = "groups" /\ g \in groups
  /\ Undecided(g) \/ Refused(g) \/ Publish(g)
  /\ groups' = groups \ {g}
  /\ UNCHANGED <<now, frame_num, phase, batch, batch_pts, frame_pts, batch_counter,
                 child_parent>>

EndFrame ==
  /\ phase = "groups" /\ groups = {}
  /\ phase' = "batch" /\ frame_pts' = None
  /\ UNCHANGED <<now, frame_num, batch, batch_pts, groups, batch_counter, maps,
                 full_frame_paths, history>>

Stale(t) ==
  {k \in DOMAIN object_last_seen :
     \/ ~valid(object_last_seen[k])
     \/ t > object_last_seen[k] /\ t - object_last_seen[k] > StaleTimeout}

(* Mutant of Forget: the object keys are kept. *)
ForgetButKeys(K) ==
  /\ last_capture_pts' = Without(last_capture_pts, K)
  /\ pub_state' = Without(pub_state, K)
  /\ child_parent' = Without(child_parent, K)
  /\ object_last_seen' = Without(object_last_seen, K)
  /\ UNCHANGED object_keys

Forget(K) ==
  /\ object_keys' = object_keys \ K
  /\ last_capture_pts' = Without(last_capture_pts, K)
  /\ pub_state' = Without(pub_state, K)
  /\ child_parent' = Without(child_parent, K)
  /\ object_last_seen' = Without(object_last_seen, K)

(* cleanup_stale_objects; its Exit messages are dropped by process_batch.    *)
(* More objects than MAX_TRACKED_OBJECTS left in a map clear them all.       *)
cleanup_stale_objects(t) ==
  IF StaleTimeout = 0 THEN UNCHANGED maps
  ELSE LET K == Stale(t)
           left(S) == Cardinality(S \ K)
           emergency == \E S \in {object_keys, DOMAIN object_last_seen,
                                  DOMAIN last_capture_pts, DOMAIN pub_state} :
                          left(S) > MaxTracked
       IN Forget(IF emergency THEN Keys ELSE K)

(* The end of process_batch: images are on disk, messages published. *)
EndBatch ==
  /\ phase = "batch" /\ batch = Empty
  /\ phase' = "idle"
  /\ batch_counter' = IF CheckInterval = 0 THEN 0 ELSE (batch_counter + 1) % CheckInterval
  /\ IF CheckInterval > 0 /\ (batch_counter + 1) % CheckInterval = 0
     THEN cleanup_stale_objects(IF valid(batch_pts) THEN batch_pts ELSE 0)
     ELSE UNCHANGED maps
  /\ UNCHANGED <<now, frame_num, batch, batch_pts, frame_pts, groups, full_frame_paths, history>>

Tick == /\ phase = "idle" /\ now < LastTime
        /\ now' = now + 1
        /\ UNCHANGED <<frame_num, phase, batch, batch_pts, frame_pts, groups, batch_counter, maps,
                       full_frame_paths, history>>

Next == \/ BeginBatch \/ EndFrame \/ EndBatch \/ Tick
        \/ \E s \in Slots : BeginFrame(s)
        \/ \E g \in groups : HandleGroup(g)

Spec == Init /\ [][Next]_vars
-----------------------------------------------------------------------------
(* Properties *)

(* The maps agree on who has been published, and every such object is on the *)
(* list the stale cleanup walks: none is left behind when objects expire, or *)
(* when the emergency limit clears the maps under objects still in view.     *)
BooksAgree ==
  /\ object_keys = DOMAIN last_capture_pts
  /\ object_keys \subseteq DOMAIN object_last_seen \cap DOMAIN pub_state

(* The cadence of an object that leads its group: a heartbeat comes a whole  *)
(* capture interval after its last message, a bypass not before the minimum  *)
(* gap, and the bypasses of its life, from its entry into the books to the   *)
(* clean-up, stay within the bucket and its refills.  Expiry, the emergency  *)
(* clear and messages as somebody's child included.                          *)
Cadence ==
  \A k \in Keys :
    /\ (out[k].kind = "heartbeat" /\ valid(out[k].gap)) => out[k].gap >= CaptureInterval
    /\ (out[k].kind = "bypass" /\ valid(out[k].gap)) => out[k].gap >= BypassMinGap
    /\ out[k].bypasses <= BurstMax + (now - out[k].born) \div TokenRefill

(* The full frame a message names shows the camera of the message. *)
FullFrameIsOwn == \A s \in Slots : full_frame_of[s] \subseteq {s}
=============================================================================
