------------------------- MODULE FrameEvidenceCache -------------------------
(***************************************************************************)
(* pipeline/src/evidence/frame_evidence_cache.cpp: snapshots of emitted    *)
(* frames, by frame key, with an arrival list per source that bounds their *)
(* number and age.  The frame-events probe handlers store, the evidence    *)
(* worker resolves; mutex_ makes an insertion and a resolution atomic, but *)
(* a handler reads the clock and clones the surface before it takes it.    *)
(***************************************************************************)
EXTENDS ProbeConfig, Sequences, FiniteSets

Time == 1 .. LastTime

Frames == 0 .. LastFrame

(* make_frame_key: source, frame number and wall-clock time. *)
Keys == [source : Slots, num : Frames, ts : Time]

(* A frame in a handler's hands and the time it is cached at, once read. *)
Entries == [key : Keys, cached_at : Time \cup {NoEntry}]

VARIABLES now,             \* now_epoch_ms
          entries,         \* entries_: frame key -> cached_at, NoEntry if absent
          source_entries,  \* source_entries_: source -> keys, oldest first
          captured,        \* what a handler is about to insert, or NoEntry
          next_frame       \* handler -> source -> least frame number still to pass the pad

vars == <<now, entries, source_entries, captured, next_frame>>

Cached == {k \in Keys : entries[k] # NoEntry}

(* A request names a route, a frame key and a time, which may be off. *)
Requests == [source : Slots, key : Keys, ts : Time]

TypeOK == /\ now \in Time
          /\ entries \in [Keys -> Time \cup {NoEntry}]
          /\ source_entries \in [Slots -> Seq(Keys)]
          /\ captured \in [Handlers -> Entries \cup {NoEntry}]
          /\ next_frame \in [Handlers -> [Slots -> 0 .. LastFrame + 1]]

Init == /\ now = 1
        /\ entries = [k \in Keys |-> NoEntry]
        /\ source_entries = [s \in Slots |-> <<>>]
        /\ captured = [h \in Handlers |-> NoEntry]
        /\ next_frame = [h \in Handlers |-> [s \in Slots |-> 0]]

Tick == /\ now < LastTime
        /\ now' = now + 1
        /\ UNCHANGED <<entries, source_entries, captured, next_frame>>

-----------------------------------------------------------------------------
(* The first n keys of a list erased, from entries_ and from the list. *)
Dropped(es, keys, n) ==
  [es   |-> [k \in DOMAIN es |-> IF \E i \in 1 .. n : keys[i] = k THEN NoEntry ELSE es[k]],
   keys |-> SubSeq(keys, n + 1, Len(keys))]

(* Mutant of Stays: the list is allowed one key too many. *)
StaysLate(es, keys, t) ==
  \/ keys = <<>>
  \/ /\ es[Head(keys)] # NoEntry
     /\ t - es[Head(keys)] <= Ttl
     /\ MaxFrames = 0 \/ Len(keys) <= MaxFrames + 1

(* Mutant of Stays: the age of the oldest entry is not looked at. *)
StaysStale(es, keys, t) ==
  \/ keys = <<>>
  \/ es[Head(keys)] # NoEntry /\ (MaxFrames = 0 \/ Len(keys) <= MaxFrames)

(* The loop of prune_locked ends here: nothing is left, or the oldest entry  *)
(* is cached, not expired, and the list not over the limit.                  *)
Stays(es, keys, t) ==
  \/ keys = <<>>
  \/ /\ es[Head(keys)] # NoEntry
     /\ t - es[Head(keys)] <= Ttl
     /\ MaxFrames = 0 \/ Len(keys) <= MaxFrames

(* prune_locked on one source's list: the fewest keys, oldest first. *)
prune_locked(es, keys, t) ==
  LET n == CHOOSE n \in 0 .. Len(keys) :
             /\ Stays(Dropped(es, keys, n).es, Dropped(es, keys, n).keys, t)
             /\ \A m \in 0 .. n - 1 : ~Stays(Dropped(es, keys, m).es, Dropped(es, keys, m).keys, t)
  IN Dropped(es, keys, n)

(* on_buffer: a frame that is to be published gets its key from the clock.   *)
(* A pad sees the frames of a source once each and in order; the ones        *)
(* should_emit_message rejects are passed over.                              *)
Emit(h, s, f) ==
  /\ captured[h] = NoEntry
  /\ f >= next_frame[h][s]
  /\ next_frame' = [next_frame EXCEPT ![h] = [@ EXCEPT ![s] = f + 1]]
  /\ captured' = [captured EXCEPT ![h] = [key |-> [source |-> s, num |-> f, ts |-> now],
                                          cached_at |-> NoEntry]]
  /\ UNCHANGED <<now, entries, source_entries>>

(* Mutant of Capture: the entry keeps no time of its own. *)
CaptureZero(h) ==
  /\ captured[h] # NoEntry /\ captured[h].cached_at = NoEntry
  /\ captured' = [captured EXCEPT ![h].cached_at = -1]
  /\ UNCHANGED <<now, entries, source_entries, next_frame>>

(* store_frame before mutex_: the clock is read, then the surface cloned. *)
Capture(h) ==
  /\ captured[h] # NoEntry /\ captured[h].cached_at = NoEntry
  /\ captured' = [captured EXCEPT ![h] = [key |-> @.key, cached_at |-> now]]
  /\ UNCHANGED <<now, entries, source_entries, next_frame>>

(* The clone fails: nothing is stored, the event is published all the same. *)
CloneFails(h) ==
  /\ captured[h] # NoEntry /\ captured[h].cached_at # NoEntry
  /\ captured' = [captured EXCEPT ![h] = NoEntry]
  /\ UNCHANGED <<now, entries, source_entries, next_frame>>

(* store_frame under mutex_; the prune compares with the entry's own time.  *)
Insert(h) ==
  /\ captured[h] # NoEntry /\ captured[h].cached_at # NoEntry
  /\ LET e == captured[h]
         s == e.key.source
         p == prune_locked([entries EXCEPT ![e.key] = e.cached_at],
                           Append(source_entries[s], e.key), e.cached_at)
     IN /\ entries' = p.es
        /\ source_entries' = [source_entries EXCEPT ![s] = p.keys]
  /\ captured' = [captured EXCEPT ![h] = NoEntry]
  /\ UNCHANGED <<now, next_frame>>

Gap(a, b) == IF a < b THEN b - a ELSE a - b

route_matches(k, s) == k.source = s

(* Mutant of Candidates: the list is not filtered by the gap. *)
AnyCandidate(es, keys, req) ==
  {i \in 1 .. Len(keys) : es[keys[i]] # NoEntry /\ route_matches(keys[i], req.source)}

(* Entries near enough to stand in for the frame asked for. *)
Candidates(es, keys, req) ==
  {i \in 1 .. Len(keys) : /\ es[keys[i]] # NoEntry
                          /\ route_matches(keys[i], req.source)
                          /\ Gap(keys[i].ts, req.ts) <= MaxGap}

(* The first of the nearest. *)
Best(keys, C, req) ==
  CHOOSE i \in C : \A j \in C : \/ Gap(keys[i].ts, req.ts) < Gap(keys[j].ts, req.ts)
                                \/ Gap(keys[i].ts, req.ts) = Gap(keys[j].ts, req.ts) /\ i <= j

(* resolve, with the clock read at t, before mutex_ is taken: prune the      *)
(* source, then the exact key, then the nearest in time.                     *)
resolve(req, t) ==
  LET p == prune_locked(entries, source_entries[req.source], t)
      C == Candidates(p.es, p.keys, req)
      exact == p.es[req.key] # NoEntry /\ route_matches(req.key, req.source)
  IN [es |-> p.es, keys |-> p.keys,
      res |-> IF exact THEN req.key
              ELSE IF C = {} THEN NoEntry ELSE p.keys[Best(p.keys, C, req)]]

(* The evidence worker resolves a frame of s: whichever it asks for, the     *)
(* cache changes by what the prune drops.                                    *)
Resolve(s, t) ==
  /\ t <= now
  /\ LET p == prune_locked(entries, source_entries[s], t)
     IN /\ entries' = p.es
        /\ source_entries' = [source_entries EXCEPT ![s] = p.keys]
  /\ UNCHANGED <<now, captured, next_frame>>

Next == \/ Tick
        \/ \E h \in Handlers, s \in Slots, f \in Frames : Emit(h, s, f)
        \/ \E h \in Handlers : Capture(h) \/ CloneFails(h) \/ Insert(h)
        \/ \E s \in Slots, t \in Time : Resolve(s, t)

Spec == Init /\ [][Next]_vars

-----------------------------------------------------------------------------
(* Properties *)

Listed(s) == {source_entries[s][i] : i \in 1 .. Len(source_entries[s])}

(* Every snapshot is on the list of its own source, and the list is within   *)
(* max_frames_per_source: none escapes pruning, also when two handlers store *)
(* the same frame under one key, and the surfaces held are bounded.          *)
NothingLeaks ==
  /\ \A k \in Cached : k \in Listed(k.source)
  /\ MaxFrames > 0 => \A s \in Slots : Len(source_entries[s]) <= MaxFrames

(* resolve against its definition, for whatever is asked next: the result is *)
(* a cached frame of the requested route, the exact frame if it is cached,   *)
(* and otherwise one within max_frame_gap_ms to which no cached frame of the *)
(* source is nearer; nothing is found only if there is none.                 *)
ResolveIsNearest ==
  \A req \in Requests, t \in 1 .. now :
    LET r == resolve(req, t)
        near == {k \in Keys : /\ r.es[k] # NoEntry /\ k.source = req.source
                              /\ Gap(k.ts, req.ts) <= MaxGap}
    IN IF req.key.source = req.source /\ r.es[req.key] # NoEntry THEN r.res = req.key
       ELSE IF near = {} THEN r.res = NoEntry
       ELSE r.res \in near /\ \A k \in near : Gap(r.res.ts, req.ts) <= Gap(k.ts, req.ts)

(* A frame past its TTL when resolve is called is returned only if a frame   *)
(* cached later stands before it in the list: another handler read the clock *)
(* after it and took mutex_ before it.  With one handler no expired frame is *)
(* ever returned, although the prune stops at the first fresh entry.         *)
ResolveIsFresh ==
  \A req \in Requests, t \in 1 .. now :
    LET r == resolve(req, t)
        age(k) == t - r.es[k]
    IN \/ r.res = NoEntry
       \/ age(r.res) <= Ttl
       \/ \E i, j \in 1 .. Len(r.keys) : /\ i < j /\ r.keys[j] = r.res
                                        /\ age(r.keys[i]) < age(r.keys[j])
=============================================================================
