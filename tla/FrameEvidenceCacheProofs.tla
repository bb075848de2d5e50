---------------------- MODULE FrameEvidenceCacheProofs ----------------------
(***************************************************************************)
(* What the frame evidence cache guarantees for any number of sources and  *)
(* handlers, any TTL, limit and gap: no snapshot escapes the prune, and    *)
(* resolve returns the nearest frame there is, an expired one only behind  *)
(* a younger.                                                              *)
(***************************************************************************)
EXTENDS Probes, WellFoundedInduction, TLAPS

(* A nonempty set of natural numbers has a least one. *)
LEMMA LeastNumber ==
  ASSUME NEW T, T \subseteq Nat, T # {}
  PROVE  \E n \in T : \A m \in T : n <= m
<1>1. \E n \in T : \A m \in T : ~(<<m, n>> \in OpToRel(<, Nat))
  BY NatLessThanWellFounded, WFMin, Zenon
<1>2. \A m, n \in Nat : m < n => <<m, n>> \in OpToRel(<, Nat)
  BY DEF OpToRel
<1>3. \E n \in T : \A m \in T : ~(m < n)
  BY <1>1, <1>2, Zenon
<1> QED BY <1>3

-----------------------------------------------------------------------------
(* prune_locked *)

(* Types: a map of snapshots and a list of keys. *)
Snapshots(es, keys) == es \in [Cache!Keys -> Cache!Time \cup {NoEntry}] /\ keys \in Seq(Cache!Keys)

(* Every snapshot of source s is on the list. *)
OnList(es, keys, s) ==
  \A k \in Cache!Keys : es[k] # NoEntry /\ k.source = s => \E i \in 1 .. Len(keys) : keys[i] = k

(* What is left of a list without its first n. *)
LEMMA RestOf ==
  ASSUME NEW S, NEW q \in Seq(S), NEW n \in 0 .. Len(q)
  PROVE  /\ SubSeq(q, n + 1, Len(q)) \in Seq(S)
         /\ Len(SubSeq(q, n + 1, Len(q))) = Len(q) - n
         /\ \A i \in 1 .. Len(q) - n : SubSeq(q, n + 1, Len(q))[i] = q[n + i]
  OBVIOUS

(* Dropping the first n keys of a list, and their snapshots. *)
LEMMA DroppedIs ==
  ASSUME NEW es, NEW keys, Snapshots(es, keys), NEW n \in 0 .. Len(keys)
  PROVE  LET d == Cache!Dropped(es, keys, n)
         IN /\ Snapshots(d.es, d.keys)
            /\ Len(d.keys) = Len(keys) - n
            /\ \A i \in 1 .. Len(keys) - n : d.keys[i] = keys[n + i]
            /\ \A k \in Cache!Keys :
                 d.es[k] = IF \E i \in 1 .. n : keys[i] = k THEN NoEntry ELSE es[k]
<1> DEFINE d == Cache!Dropped(es, keys, n)
<1>1. /\ d.es = [k \in DOMAIN es |-> IF \E i \in 1 .. n : keys[i] = k THEN NoEntry ELSE es[k]]
      /\ d.keys = SubSeq(keys, n + 1, Len(keys))
  BY DEF Cache!Dropped
<1>2. DOMAIN es = Cache!Keys /\ keys \in Seq(Cache!Keys)
  BY DEF Snapshots
<1>3. d.es \in [Cache!Keys -> Cache!Time \cup {NoEntry}]
  BY <1>1, <1>2 DEF Snapshots
<1>4. /\ d.keys \in Seq(Cache!Keys) /\ Len(d.keys) = Len(keys) - n
      /\ \A i \in 1 .. Len(keys) - n : d.keys[i] = keys[n + i]
  BY <1>1, <1>2, RestOf
<1>5. \A k \in Cache!Keys : d.es[k] = IF \E i \in 1 .. n : keys[i] = k THEN NoEntry ELSE es[k]
  BY <1>1, <1>2
<1> HIDE DEF d
<1>6. Snapshots(d.es, d.keys)
  BY <1>3, <1>4 DEF Snapshots
<1> QED BY <1>4, <1>5, <1>6 DEF d

(* The prune ends, where it should. *)
LEMMA PruneIs ==
  ASSUME NEW es, NEW keys, Snapshots(es, keys), NEW t
  PROVE  \E n \in 0 .. Len(keys) :
           LET d == Cache!Dropped(es, keys, n)
           IN Cache!prune_locked(es, keys, t) = d /\ Cache!Stays(d.es, d.keys, t)
<1> DEFINE K(n) == Cache!Stays(Cache!Dropped(es, keys, n).es, Cache!Dropped(es, keys, n).keys, t)
           Q(n) == K(n) /\ \A m \in 0 .. n - 1 : ~K(m)
           T == {n \in 0 .. Len(keys) : K(n)}
<1>0. Len(keys) \in Nat
  BY DEF Snapshots
<1>1. K(Len(keys))
  <2>1. Len(keys) \in 0 .. Len(keys)
    BY <1>0
  <2>2. /\ Cache!Dropped(es, keys, Len(keys)).keys \in Seq(Cache!Keys)
        /\ Len(Cache!Dropped(es, keys, Len(keys)).keys) = 0
    BY <1>0, <2>1, DroppedIs DEF Snapshots
  <2>3. Cache!Dropped(es, keys, Len(keys)).keys = <<>>
    BY <2>2
  <2> QED BY <2>3 DEF Cache!Stays
<1> HIDE DEF K
<1>2. T \subseteq Nat /\ T # {}
  BY <1>0, <1>1
<1>3. PICK n \in T : \A m \in T : n <= m
  BY <1>2, LeastNumber
<1>4. n \in 0 .. Len(keys) /\ Q(n)
  BY <1>0, <1>3
<1> DEFINE c == CHOOSE i \in 0 .. Len(keys) : Q(i)
<1>5. Cache!prune_locked(es, keys, t) = Cache!Dropped(es, keys, c)
  BY DEF Cache!prune_locked, K
<1>6. c \in 0 .. Len(keys) /\ Q(c)
  <2> HIDE DEF Q
  <2> QED BY <1>4
<1> HIDE DEF c
<1> QED BY <1>5, <1>6 DEF K

(* What prune_locked leaves: the types, every snapshot that was on the list  *)
(* and is left is on what is left of it, the list is within its limit, and   *)
(* its head is a fresh snapshot.                                             *)
LEMMA PruneLeaves ==
  ASSUME NEW es, NEW keys, Snapshots(es, keys), NEW t, NEW s, OnList(es, keys, s)
  PROVE  LET p == Cache!prune_locked(es, keys, t)
         IN /\ Snapshots(p.es, p.keys) /\ OnList(p.es, p.keys, s)
            /\ \A k \in Cache!Keys : p.es[k] # NoEntry => p.es[k] = es[k]
            /\ MaxFrames > 0 => Len(p.keys) <= MaxFrames
            /\ p.keys # <<>> => p.es[p.keys[1]] # NoEntry /\ t - p.es[p.keys[1]] <= Ttl
<1> DEFINE p == Cache!prune_locked(es, keys, t)
<1>1. PICK n \in 0 .. Len(keys) :
        p = Cache!Dropped(es, keys, n) /\ Cache!Stays(p.es, p.keys, t)
  BY PruneIs
<1>2. /\ Snapshots(p.es, p.keys) /\ Len(p.keys) = Len(keys) - n
      /\ \A i \in 1 .. Len(keys) - n : p.keys[i] = keys[n + i]
      /\ \A k \in Cache!Keys : p.es[k] = IF \E i \in 1 .. n : keys[i] = k THEN NoEntry ELSE es[k]
  <2> DEFINE d == Cache!Dropped(es, keys, n)
  <2>1. /\ Snapshots(d.es, d.keys) /\ Len(d.keys) = Len(keys) - n
        /\ \A i \in 1 .. Len(keys) - n : d.keys[i] = keys[n + i]
        /\ \A k \in Cache!Keys : d.es[k] = IF \E i \in 1 .. n : keys[i] = k THEN NoEntry ELSE es[k]
    BY DroppedIs
  <2>2. p = d
    BY <1>1
  <2> HIDE DEF p, d
  <2> QED BY <2>1, <2>2
<1> HIDE DEF p
<1>3. Len(keys) \in Nat
  BY DEF Snapshots
<1>4. ASSUME NEW k \in Cache!Keys, p.es[k] # NoEntry, k.source = s
      PROVE  \E i \in 1 .. Len(p.keys) : p.keys[i] = k
  <2>1. es[k] # NoEntry /\ ~\E i \in 1 .. n : keys[i] = k
    BY <1>2, <1>4
  <2>2. PICK j \in 1 .. Len(keys) : keys[j] = k
    BY <1>4, <2>1 DEF OnList
  <2>3. j \notin 1 .. n
    BY <2>1, <2>2
  <2>4. j - n \in 1 .. Len(keys) - n /\ n + (j - n) = j
    BY <1>3, <2>2, <2>3
  <2> QED BY <1>2, <2>2, <2>4
<1>5. OnList(p.es, p.keys, s)
  BY <1>4 DEF OnList
<1>6. \A k \in Cache!Keys : p.es[k] # NoEntry => p.es[k] = es[k]
  BY <1>2
<1>7. p.keys \in Seq(Cache!Keys)
  BY <1>2 DEF Snapshots
<1>8. MaxFrames > 0 => Len(p.keys) <= MaxFrames
  <2>1. CASE p.keys = <<>>
    BY <2>1, CacheAssumption
  <2>2. CASE p.keys # <<>>
    BY <1>1, <2>2, CacheAssumption DEF Cache!Stays
  <2> QED BY <2>1, <2>2
<1>9. p.keys # <<>> => p.es[p.keys[1]] # NoEntry /\ t - p.es[p.keys[1]] <= Ttl
  BY <1>1, <1>7 DEF Cache!Stays
<1> QED BY <1>2, <1>5, <1>6, <1>8, <1>9 DEF p

-----------------------------------------------------------------------------
(* The inductive invariant *)

CacheTypes ==
  /\ part = "evidence_cache" => now \in Cache!Time
  /\ entries \in [Cache!Keys -> Cache!Time \cup {NoEntry}]
  /\ source_entries \in [Slots -> Seq(Cache!Keys)]
  /\ captured \in [Handlers -> Cache!Entries \cup {NoEntry}]
  /\ next_frame \in [Handlers -> [Slots -> 0 .. LastFrame + 1]]

CacheInv == CacheTypes /\ NothingLeaks

(* NothingLeaks without the sets, and the same of the next state. *)
LEMMA LeaksIs ==
  NothingLeaks <=>
    /\ \A k \in Cache!Keys : entries[k] # NoEntry =>
         \E i \in 1 .. Len(source_entries[k.source]) : source_entries[k.source][i] = k
    /\ MaxFrames > 0 => \A s \in Slots : Len(source_entries[s]) <= MaxFrames
  BY DEF NothingLeaks, Cache!NothingLeaks, Cache!Cached, Cache!Listed

(* The primed form, for the steps. *)
LEMMA LeaksIsNext ==
  NothingLeaks' <=>
    /\ \A k \in Cache!Keys : entries'[k] # NoEntry =>
         \E i \in 1 .. Len(source_entries'[k.source]) : source_entries'[k.source][i] = k
    /\ MaxFrames > 0 => \A s \in Slots : Len(source_entries'[s]) <= MaxFrames
  BY DEF NothingLeaks, Cache!NothingLeaks, Cache!Cached, Cache!Listed

(* A key names its source. *)
LEMMA KeyOf == ASSUME NEW k \in Cache!Keys PROVE k.source \in Slots /\ k.ts \in Cache!Time
  BY DEF Cache!Keys

(* prune_locked of one source, run on maps no snapshot has escaped. *)
LEMMA PruneKeeps ==
  ASSUME CacheInv, NEW s \in Slots, NEW es, NEW keys, NEW t, Snapshots(es, keys),
         OnList(es, keys, s),
         \A k \in Cache!Keys : es[k] # NoEntry /\ k.source # s => entries[k] # NoEntry,
         entries' = Cache!prune_locked(es, keys, t).es,
         source_entries' = [source_entries EXCEPT ![s] = Cache!prune_locked(es, keys, t).keys]
  PROVE  /\ entries' \in [Cache!Keys -> Cache!Time \cup {NoEntry}]
         /\ source_entries' \in [Slots -> Seq(Cache!Keys)]
         /\ NothingLeaks'
<1> DEFINE p == Cache!prune_locked(es, keys, t)
<1>1. /\ Snapshots(p.es, p.keys) /\ OnList(p.es, p.keys, s)
      /\ \A k \in Cache!Keys : p.es[k] # NoEntry => p.es[k] = es[k]
      /\ MaxFrames > 0 => Len(p.keys) <= MaxFrames
  BY PruneLeaves
<1>2. entries' = p.es /\ source_entries' = [source_entries EXCEPT ![s] = p.keys]
  OBVIOUS
<1> HIDE DEF p
<1>3. /\ entries' \in [Cache!Keys -> Cache!Time \cup {NoEntry}] /\ p.keys \in Seq(Cache!Keys)
  BY <1>1, <1>2 DEF Snapshots
<1>4. source_entries \in [Slots -> Seq(Cache!Keys)]
  BY DEF CacheInv, CacheTypes
<1>5. /\ source_entries' \in [Slots -> Seq(Cache!Keys)] /\ source_entries'[s] = p.keys
      /\ \A u \in Slots : u # s => source_entries'[u] = source_entries[u]
  BY <1>2, <1>3, <1>4
<1>6. /\ \A k \in Cache!Keys : entries[k] # NoEntry =>
           \E i \in 1 .. Len(source_entries[k.source]) : source_entries[k.source][i] = k
      /\ MaxFrames > 0 => \A u \in Slots : Len(source_entries[u]) <= MaxFrames
  BY LeaksIs DEF CacheInv
<1>7. ASSUME NEW k \in Cache!Keys, entries'[k] # NoEntry
      PROVE  \E i \in 1 .. Len(source_entries'[k.source]) : source_entries'[k.source][i] = k
  <2>1. CASE k.source = s
    BY <1>1, <1>2, <1>5, <1>7, <2>1 DEF OnList
  <2>2. CASE k.source # s
    <3>1. entries[k] # NoEntry /\ k.source \in Slots
      BY <1>1, <1>2, <1>7, <2>2, KeyOf
    <3> QED BY <1>5, <1>6, <2>2, <3>1
  <2> QED BY <2>1, <2>2
<1>8. MaxFrames > 0 => \A u \in Slots : Len(source_entries'[u]) <= MaxFrames
  BY <1>1, <1>5, <1>6
<1> QED BY <1>3, <1>5, <1>7, <1>8, LeaksIsNext

(* resolve prunes. *)
LEMMA ResolveKeeps ==
  ASSUME CacheInv, NEW s \in Slots, NEW t, Cache!Resolve(s, t)
  PROVE  /\ entries' \in [Cache!Keys -> Cache!Time \cup {NoEntry}]
         /\ source_entries' \in [Slots -> Seq(Cache!Keys)] /\ NothingLeaks'
<1> DEFINE keys == source_entries[s]
<1>1. Snapshots(entries, keys)
  BY DEF CacheInv, CacheTypes, Snapshots
<1>2. OnList(entries, keys, s)
  BY LeaksIs DEF CacheInv, OnList
<1>3. /\ entries' = Cache!prune_locked(entries, keys, t).es
      /\ source_entries' = [source_entries EXCEPT ![s] = Cache!prune_locked(entries, keys, t).keys]
  BY DEF Cache!Resolve
<1> HIDE DEF keys
<1> QED BY <1>1, <1>2, <1>3, PruneKeeps

(* store_frame lists what it stores, and prunes; a key stored by two         *)
(* handlers is listed twice.                                                 *)
LEMMA InsertKeeps ==
  ASSUME CacheInv, NEW h \in Handlers, Cache!Insert(h)
  PROVE  /\ entries' \in [Cache!Keys -> Cache!Time \cup {NoEntry}]
         /\ source_entries' \in [Slots -> Seq(Cache!Keys)] /\ NothingLeaks'
<1> DEFINE e == captured[h]
           s == e.key.source
           es == [entries EXCEPT ![e.key] = e.cached_at]
           keys == Append(source_entries[s], e.key)
<1>1. e # NoEntry /\ e.cached_at # NoEntry
      /\ entries' = Cache!prune_locked(es, keys, e.cached_at).es
      /\ source_entries' = [source_entries EXCEPT ![s] = Cache!prune_locked(es, keys, e.cached_at).keys]
  BY DEF Cache!Insert
<1>2. e \in Cache!Entries
  BY <1>1 DEF CacheInv, CacheTypes
<1>3. e.key \in Cache!Keys /\ e.cached_at \in Cache!Time
  BY <1>1, <1>2 DEF Cache!Entries
<1>4. s \in Slots
  BY <1>3, KeyOf
<1> HIDE DEF e, s
<1>5. /\ entries \in [Cache!Keys -> Cache!Time \cup {NoEntry}]
      /\ source_entries[s] \in Seq(Cache!Keys)
  BY <1>4 DEF CacheInv, CacheTypes
<1>6. /\ es \in [Cache!Keys -> Cache!Time \cup {NoEntry}]
      /\ \A k \in Cache!Keys : k # e.key => es[k] = entries[k]
  BY <1>3, <1>5
<1>7. /\ keys \in Seq(Cache!Keys) /\ Len(keys) = Len(source_entries[s]) + 1
      /\ Len(source_entries[s]) \in Nat /\ keys[Len(keys)] = e.key
      /\ \A i \in 1 .. Len(source_entries[s]) : keys[i] = source_entries[s][i]
  BY <1>3, <1>5
<1> HIDE DEF es, keys
<1>8. Snapshots(es, keys)
  BY <1>6, <1>7 DEF Snapshots
<1>9. OnList(es, keys, s)
  <2> SUFFICES ASSUME NEW k \in Cache!Keys, es[k] # NoEntry, k.source = s
               PROVE  \E i \in 1 .. Len(keys) : keys[i] = k
    BY DEF OnList
  <2>1. CASE k = e.key
    <3>1. Len(keys) \in 1 .. Len(keys)
      BY <1>7
    <3> QED BY <1>7, <2>1, <3>1
  <2>2. CASE k # e.key
    <3>1. entries[k] # NoEntry
      BY <1>6, <2>2
    <3>2. PICK i \in 1 .. Len(source_entries[s]) : source_entries[s][i] = k
      BY <3>1, LeaksIs DEF CacheInv
    <3>3. i \in 1 .. Len(keys)
      BY <1>7, <3>2
    <3> QED BY <1>7, <3>2, <3>3
  <2> QED BY <2>1, <2>2
<1>10. \A k \in Cache!Keys : es[k] # NoEntry /\ k.source # s => entries[k] # NoEntry
  BY <1>6 DEF s
<1> QED BY <1>1, <1>4, <1>8, <1>9, <1>10, PruneKeeps

(* Every step of the cache keeps the invariant. *)
LEMMA CacheStepKeeps ==
  ASSUME CacheInv, part = "evidence_cache", part' = part, Cache!Next
  PROVE  CacheInv'
<1>0. now \in Cache!Time /\ CacheTypes
  BY DEF CacheInv, CacheTypes
<1>1. CASE Cache!Tick
  <2>1. now' = now + 1 /\ now < LastCacheTime /\ UNCHANGED <<entries, source_entries, captured, next_frame>>
    BY <1>1 DEF Cache!Tick
  <2>2. now' \in Cache!Time
    BY <1>0, <2>1, BoundsAssumption DEF Cache!Time
  <2>3. NothingLeaks'
    BY <2>1, LeaksIs, LeaksIsNext DEF CacheInv
  <2> QED BY <1>0, <2>1, <2>2, <2>3 DEF CacheInv, CacheTypes
<1>2. CASE \E h \in Handlers, s \in Slots, f \in Cache!Frames : Cache!Emit(h, s, f)
  <2>1. PICK h \in Handlers, s \in Slots, f \in Cache!Frames : Cache!Emit(h, s, f)
    BY <1>2
  <2> DEFINE e == [key |-> [source |-> s, num |-> f, ts |-> now], cached_at |-> NoEntry]
             nf == [next_frame[h] EXCEPT ![s] = f + 1]
  <2>2. /\ next_frame' = [next_frame EXCEPT ![h] = nf]
        /\ captured' = [captured EXCEPT ![h] = e]
        /\ UNCHANGED <<now, entries, source_entries>>
    BY <2>1 DEF Cache!Emit
  <2>3. e \in Cache!Entries
    BY <1>0 DEF Cache!Entries, Cache!Keys
  <2>4. nf \in [Slots -> 0 .. LastFrame + 1]
    <3>1. f + 1 \in 0 .. LastFrame + 1
      BY CacheAssumption DEF Cache!Frames
    <3>2. next_frame[h] \in [Slots -> 0 .. LastFrame + 1]
      BY <1>0 DEF CacheTypes
    <3> QED BY <3>1, <3>2
  <2>5. NothingLeaks'
    BY <2>2, LeaksIs, LeaksIsNext DEF CacheInv
  <2> HIDE DEF e, nf
  <2> QED BY <1>0, <2>2, <2>3, <2>4, <2>5 DEF CacheInv, CacheTypes
<1>3. CASE \E h \in Handlers : Cache!Capture(h) \/ Cache!CloneFails(h)
  <2>1. PICK h \in Handlers : Cache!Capture(h) \/ Cache!CloneFails(h)
    BY <1>3
  <2>2. /\ captured[h] # NoEntry /\ UNCHANGED <<now, entries, source_entries, next_frame>>
        /\ \/ captured' = [captured EXCEPT ![h] = [key |-> captured[h].key, cached_at |-> now]]
           \/ captured' = [captured EXCEPT ![h] = NoEntry]
    BY <2>1 DEF Cache!Capture, Cache!CloneFails
  <2>3. [key |-> captured[h].key, cached_at |-> now] \in Cache!Entries
    BY <1>0, <2>2 DEF CacheTypes, Cache!Entries
  <2>4. NothingLeaks'
    BY <2>2, LeaksIs, LeaksIsNext DEF CacheInv
  <2>5. captured' \in [Handlers -> Cache!Entries \cup {NoEntry}]
    BY <1>0, <2>2, <2>3 DEF CacheTypes
  <2> QED BY <1>0, <2>2, <2>4, <2>5 DEF CacheInv, CacheTypes
<1>4. CASE \E h \in Handlers : Cache!Insert(h)
  <2>1. PICK h \in Handlers : Cache!Insert(h)
    BY <1>4
  <2>2. captured' = [captured EXCEPT ![h] = NoEntry] /\ UNCHANGED <<now, next_frame>>
    BY <2>1 DEF Cache!Insert
  <2>3. captured' \in [Handlers -> Cache!Entries \cup {NoEntry}]
    BY <1>0, <2>2 DEF CacheTypes
  <2>4. /\ entries' \in [Cache!Keys -> Cache!Time \cup {NoEntry}]
        /\ source_entries' \in [Slots -> Seq(Cache!Keys)] /\ NothingLeaks'
    BY <2>1, InsertKeeps
  <2> QED BY <1>0, <2>2, <2>3, <2>4 DEF CacheInv, CacheTypes
<1>5. CASE \E s \in Slots, t \in Cache!Time : Cache!Resolve(s, t)
  <2>1. PICK s \in Slots, t \in Cache!Time : Cache!Resolve(s, t)
    BY <1>5
  <2>2. UNCHANGED <<now, captured, next_frame>>
    BY <2>1 DEF Cache!Resolve
  <2>3. /\ entries' \in [Cache!Keys -> Cache!Time \cup {NoEntry}]
        /\ source_entries' \in [Slots -> Seq(Cache!Keys)] /\ NothingLeaks'
    BY <2>1, ResolveKeeps
  <2> QED BY <1>0, <2>2, <2>3 DEF CacheInv, CacheTypes
<1> QED BY <1>1, <1>2, <1>3, <1>4, <1>5 DEF Cache!Next

(* The other parts of the probe system leave the cache alone. *)
LEMMA CacheElsewhere ==
  ASSUME [ProbesNext]_probeVars
  PROVE  /\ part' = part
         /\ \/ part = "evidence_cache" /\ Cache!Next
            \/ UNCHANGED cacheVars /\ (part = "evidence_cache" => now' = now)
<1>1. CASE UNCHANGED probeVars
  BY <1>1 DEF probeVars
<1>2. CASE ProbesNext
  BY <1>2 DEF ProbesNext, SmartRecordStep, CropStep, EventsStep, CallsStep, ClassIdStep, CacheStep
<1> QED BY <1>1, <1>2

(* The cache begins empty. *)
LEMMA CacheBegins == ProbesInit => CacheInv
<1> SUFFICES ASSUME ProbesInit PROVE CacheInv
  OBVIOUS
<1>1. Cache!Init
  BY DEF ProbesInit
<1>2. /\ now = 1 /\ entries = [k \in Cache!Keys |-> NoEntry] /\ source_entries = [s \in Slots |-> <<>>]
      /\ captured = [h \in Handlers |-> NoEntry]
      /\ next_frame = [h \in Handlers |-> [s \in Slots |-> 0]]
  BY <1>1 DEF Cache!Init
<1>3. 1 \in Cache!Time /\ 0 \in 0 .. LastFrame + 1
  BY BoundsAssumption, CacheAssumption DEF Cache!Time
<1>4. <<>> \in Seq(Cache!Keys) /\ Len(<<>>) = 0
  OBVIOUS
<1>5. CacheTypes
  BY <1>2, <1>3, <1>4 DEF CacheTypes
<1>6. NothingLeaks
  <2>1. MaxFrames > 0 => \A s \in Slots : Len(source_entries[s]) <= MaxFrames
    BY <1>2, <1>4, CacheAssumption
  <2> QED BY <1>2, <2>1, LeaksIs
<1> QED BY <1>5, <1>6 DEF CacheInv

(* The inductive invariant holds throughout. *)
LEMMA CacheInvariance == ProbesSpec => []CacheInv
<1>1. ASSUME CacheInv, [ProbesNext]_probeVars PROVE CacheInv'
  <2>1. CASE part = "evidence_cache" /\ Cache!Next
    BY <1>1, <2>1, CacheElsewhere, CacheStepKeeps
  <2>2. CASE UNCHANGED cacheVars /\ (part = "evidence_cache" => now' = now)
    <3>1. UNCHANGED <<entries, source_entries, captured, next_frame>> /\ part' = part
      BY <1>1, <2>2, CacheElsewhere DEF cacheVars
    <3>2. NothingLeaks'
      BY <1>1, <3>1, LeaksIs, LeaksIsNext DEF CacheInv
    <3> QED BY <1>1, <2>2, <3>1, <3>2 DEF CacheInv, CacheTypes
  <2> QED BY <1>1, <2>1, <2>2, CacheElsewhere
<1> QED BY <1>1, CacheBegins, PTL DEF ProbesSpec

(* entries_ and source_entries_ agree: every snapshot is on the list of its  *)
(* source, and no list is longer than max_frames_per_source.                 *)
THEOREM NoneEscapes == ProbesSpec => []NothingLeaks
<1>1. CacheInv => NothingLeaks
  BY DEF CacheInv
<1> QED BY <1>1, CacheInvariance, PTL

-----------------------------------------------------------------------------
(* resolve *)

(* A distance is a natural number. *)
LEMMA GapIsNat == ASSUME NEW a \in Cache!Time, NEW b \in Cache!Time PROVE Cache!Gap(a, b) \in Nat
  BY BoundsAssumption DEF Cache!Gap, Cache!Time

(* Of some indices there is a first of the least value, and it is chosen. *)
LEMMA FirstOfLeast ==
  ASSUME NEW C, C \subseteq Nat, C # {}, NEW g \in [C -> Nat]
  PROVE  \E i \in C : \A j \in C : g[i] < g[j] \/ (g[i] = g[j] /\ i <= j)
<1> DEFINE V == {g[i] : i \in C}
<1>1. V \subseteq Nat /\ V # {}
  OBVIOUS
<1>2. PICK v \in V : \A w \in V : v <= w
  BY <1>1, LeastNumber
<1> DEFINE L == {i \in C : g[i] = v}
<1>3. L \subseteq Nat /\ L # {}
  BY <1>2
<1>4. PICK i \in L : \A j \in L : i <= j
  BY <1>3, LeastNumber
<1>5. ASSUME NEW j \in C PROVE g[i] < g[j] \/ (g[i] = g[j] /\ i <= j)
  <2>1. g[i] = v /\ g[i] <= g[j] /\ g[j] \in Nat /\ g[i] \in Nat
    BY <1>2, <1>4
  <2>2. CASE g[j] = v
    BY <1>4, <2>1, <2>2
  <2>3. CASE g[j] # v
    <3>1. g[i] # g[j]
      BY <2>1, <2>3
    <3> QED BY <2>1, <3>1
  <2> QED BY <2>2, <2>3
<1> QED BY <1>4, <1>5

(* What resolve sees once it has pruned: every snapshot of the source is on  *)
(* the list, whose head is a fresh snapshot.                                 *)
LEMMA ResolveSees ==
  ASSUME CacheInv, part = "evidence_cache", NEW req \in Cache!Requests, NEW t \in 1 .. now
  PROVE  LET r == Cache!resolve(req, t)
             C == Cache!Candidates(r.es, r.keys, req)
         IN /\ Snapshots(r.es, r.keys) /\ OnList(r.es, r.keys, req.source)
            /\ r.keys # <<>> => r.es[r.keys[1]] # NoEntry /\ t - r.es[r.keys[1]] <= Ttl
            /\ r.res = IF r.es[req.key] # NoEntry /\ Cache!route_matches(req.key, req.source)
                       THEN req.key
                       ELSE IF C = {} THEN NoEntry ELSE r.keys[Cache!Best(r.keys, C, req)]
<1> DEFINE r == Cache!resolve(req, t)
           keys == source_entries[req.source]
           p == Cache!prune_locked(entries, keys, t)
<1>0. req.source \in Slots
  BY DEF Cache!Requests
<1>1. Snapshots(entries, keys) /\ OnList(entries, keys, req.source)
  <2>1. Snapshots(entries, keys)
    BY <1>0 DEF CacheInv, CacheTypes, Snapshots
  <2>2. OnList(entries, keys, req.source)
    BY LeaksIs DEF CacheInv, OnList
  <2> QED BY <2>1, <2>2
<1>2. r.es = p.es /\ r.keys = p.keys
      /\ r.res = IF p.es[req.key] # NoEntry /\ Cache!route_matches(req.key, req.source)
                 THEN req.key
                 ELSE IF Cache!Candidates(p.es, p.keys, req) = {} THEN NoEntry
                      ELSE p.keys[Cache!Best(p.keys, Cache!Candidates(p.es, p.keys, req), req)]
  BY DEF Cache!resolve
<1> HIDE DEF r, keys
<1>3. /\ Snapshots(p.es, p.keys) /\ OnList(p.es, p.keys, req.source)
      /\ p.keys # <<>> => p.es[p.keys[1]] # NoEntry /\ t - p.es[p.keys[1]] <= Ttl
  BY <1>1, PruneLeaves
<1> HIDE DEF p
<1> QED BY <1>2, <1>3 DEF r

(* The candidates are the places of the snapshots near enough. *)
LEMMA CandidatesAre ==
  ASSUME NEW es, NEW keys, NEW req \in Cache!Requests, Snapshots(es, keys),
         OnList(es, keys, req.source)
  PROVE  LET C == Cache!Candidates(es, keys, req)
             near == {k \in Cache!Keys : /\ es[k] # NoEntry /\ k.source = req.source
                                         /\ Cache!Gap(k.ts, req.ts) <= MaxGap}
         IN /\ C \subseteq 1 .. Len(keys) /\ C \subseteq Nat
            /\ \A i \in C : keys[i] \in near
            /\ \A k \in near : \E i \in C : keys[i] = k
<1> DEFINE C == Cache!Candidates(es, keys, req)
           near == {k \in Cache!Keys : /\ es[k] # NoEntry /\ k.source = req.source
                                       /\ Cache!Gap(k.ts, req.ts) <= MaxGap}
<1>1. keys \in Seq(Cache!Keys) /\ Len(keys) \in Nat
  BY DEF Snapshots
<1>2. C = {i \in 1 .. Len(keys) : /\ es[keys[i]] # NoEntry /\ keys[i].source = req.source
                                  /\ Cache!Gap(keys[i].ts, req.ts) <= MaxGap}
  BY DEF Cache!Candidates, Cache!route_matches
<1>3. C \subseteq 1 .. Len(keys)
  BY <1>2
<1>4. C \subseteq Nat
  BY <1>1, <1>3
<1>5. ASSUME NEW i \in C PROVE keys[i] \in near
  BY <1>1, <1>2
<1>6. ASSUME NEW k \in near PROVE \E i \in C : keys[i] = k
  <2>1. PICK i \in 1 .. Len(keys) : keys[i] = k
    BY DEF OnList
  <2> QED BY <1>2, <2>1
<1> QED BY <1>3, <1>4, <1>5, <1>6

(* Best chooses: a candidate to which none is nearer, nor as near before it. *)
LEMMA BestIsOne ==
  ASSUME NEW es, NEW keys, NEW req \in Cache!Requests, Snapshots(es, keys),
         OnList(es, keys, req.source), Cache!Candidates(es, keys, req) # {}
  PROVE  LET C == Cache!Candidates(es, keys, req)
             b == Cache!Best(keys, C, req)
         IN /\ b \in C
            /\ \A j \in C : Cache!Gap(keys[b].ts, req.ts) <= Cache!Gap(keys[j].ts, req.ts)
<1> DEFINE C == Cache!Candidates(es, keys, req)
           d(i) == Cache!Gap(keys[i].ts, req.ts)
           g == [i \in C |-> d(i)]
           b == Cache!Best(keys, C, req)
<1>1. C \subseteq Nat /\ \A i \in C : keys[i] \in Cache!Keys
  BY CandidatesAre
<1>2. req.ts \in Cache!Time
  BY DEF Cache!Requests
<1>3. g \in [C -> Nat]
  BY <1>1, <1>2, GapIsNat, KeyOf
<1>4. C # {} /\ \A i \in C : g[i] = d(i)
  OBVIOUS
<1> HIDE DEF C, g
<1>5. b = CHOOSE i \in C : \A j \in C : d(i) < d(j) \/ (d(i) = d(j) /\ i <= j)
  BY DEF Cache!Best
<1> HIDE DEF d, b
<1>6. \E i \in C : \A j \in C : g[i] < g[j] \/ (g[i] = g[j] /\ i <= j)
  BY <1>1, <1>3, <1>4, FirstOfLeast
<1>7. b \in C /\ \A j \in C : d(b) < d(j) \/ (d(b) = d(j) /\ b <= j)
  BY <1>4, <1>5, <1>6
<1>8. \A j \in C : d(b) <= d(j)
  BY <1>3, <1>4, <1>7
<1> QED BY <1>7, <1>8 DEF C, d, b

(* resolve returns the frame asked for if it is cached, and otherwise one of *)
(* the nearest of its source within max_frame_gap_ms, whatever is asked and  *)
(* however late the clock was read.                                          *)
THEOREM FindsNearest == ProbesSpec => []ResolveIsNearest
<1>1. CacheInv => ResolveIsNearest
  <2> SUFFICES ASSUME CacheInv, part = "evidence_cache",
                      NEW req \in Cache!Requests, NEW t \in 1 .. now
               PROVE  LET r == Cache!resolve(req, t)
                          near == {k \in Cache!Keys : /\ r.es[k] # NoEntry /\ k.source = req.source
                                                      /\ Cache!Gap(k.ts, req.ts) <= MaxGap}
                      IN IF req.key.source = req.source /\ r.es[req.key] # NoEntry
                         THEN r.res = req.key
                         ELSE IF near = {} THEN r.res = NoEntry
                         ELSE r.res \in near /\ \A k \in near :
                                Cache!Gap(r.res.ts, req.ts) <= Cache!Gap(k.ts, req.ts)
    BY DEF ResolveIsNearest, Cache!ResolveIsNearest
  <2> DEFINE r == Cache!resolve(req, t)
             es == r.es
             keys == r.keys
             C == Cache!Candidates(es, keys, req)
             near == {k \in Cache!Keys : /\ es[k] # NoEntry /\ k.source = req.source
                                         /\ Cache!Gap(k.ts, req.ts) <= MaxGap}
             g(i) == Cache!Gap(keys[i].ts, req.ts)
  <2>1. /\ Snapshots(es, keys) /\ OnList(es, keys, req.source)
        /\ r.res = IF es[req.key] # NoEntry /\ Cache!route_matches(req.key, req.source)
                   THEN req.key
                   ELSE IF C = {} THEN NoEntry ELSE keys[Cache!Best(keys, C, req)]
    BY ResolveSees
  <2> HIDE DEF r, es, keys
  <2>2. /\ C \subseteq 1 .. Len(keys) /\ C \subseteq Nat /\ \A i \in C : keys[i] \in near
        /\ \A k \in near : \E i \in C : keys[i] = k
    BY <2>1, CandidatesAre
  <2>3. ASSUME C # {}
        PROVE  LET b == Cache!Best(keys, C, req)
               IN b \in C /\ \A j \in C : g(b) <= g(j)
    BY <2>1, <2>3, BestIsOne
  <2> HIDE DEF C
  <2>4. CASE req.key.source = req.source /\ es[req.key] # NoEntry
    BY <2>1, <2>4 DEF Cache!route_matches, es, r
  <2>5. CASE ~(req.key.source = req.source /\ es[req.key] # NoEntry)
    <3>1. r.res = IF C = {} THEN NoEntry ELSE keys[Cache!Best(keys, C, req)]
      BY <2>1, <2>5 DEF Cache!route_matches
    <3>2. CASE near = {}
      <4>1. C = {}
        BY <2>2, <3>2
      <4> QED BY <2>5, <3>1, <3>2, <4>1 DEF es, r
    <3>3. CASE near # {}
      <4> DEFINE b == Cache!Best(keys, C, req)
      <4>1. C # {}
        BY <2>2, <3>3
      <4>2. r.res = keys[b] /\ b \in C /\ \A j \in C : g(b) <= g(j)
        BY <2>3, <3>1, <4>1
      <4> HIDE DEF b
      <4>3. r.res \in near
        BY <2>2, <4>2
      <4>4. ASSUME NEW k \in near
            PROVE  Cache!Gap(r.res.ts, req.ts) <= Cache!Gap(k.ts, req.ts)
        BY <2>2, <4>2
      <4> QED BY <2>5, <3>3, <4>3, <4>4 DEF es, r
    <3> QED BY <3>2, <3>3
  <2> QED BY <2>4, <2>5
<1> QED BY <1>1, CacheInvariance, PTL

(* resolve returns a frame past its TTL only if one cached later stands      *)
(* before it in the list: the list is in the order of mutex_, the ages in    *)
(* the order of the clock.                                                   *)
THEOREM FindsFresh == ProbesSpec => []ResolveIsFresh
<1>1. CacheInv => ResolveIsFresh
  <2> SUFFICES ASSUME CacheInv, part = "evidence_cache",
                      NEW req \in Cache!Requests, NEW t \in 1 .. now
               PROVE  LET r == Cache!resolve(req, t)
                          age(k) == t - r.es[k]
                      IN \/ r.res = NoEntry
                         \/ age(r.res) <= Ttl
                         \/ \E i, j \in 1 .. Len(r.keys) : /\ i < j /\ r.keys[j] = r.res
                                                           /\ age(r.keys[i]) < age(r.keys[j])
    BY DEF ResolveIsFresh, Cache!ResolveIsFresh
  <2> DEFINE r == Cache!resolve(req, t)
             es == r.es
             keys == r.keys
             C == Cache!Candidates(es, keys, req)
  <2>1. /\ Snapshots(es, keys) /\ OnList(es, keys, req.source)
        /\ keys # <<>> => es[keys[1]] # NoEntry /\ t - es[keys[1]] <= Ttl
        /\ r.res = IF es[req.key] # NoEntry /\ Cache!route_matches(req.key, req.source)
                   THEN req.key
                   ELSE IF C = {} THEN NoEntry ELSE keys[Cache!Best(keys, C, req)]
    BY ResolveSees
  <2> SUFFICES ASSUME r.res # NoEntry, ~(t - es[r.res] <= Ttl)
               PROVE  \E i, j \in 1 .. Len(keys) : /\ i < j /\ keys[j] = r.res
                                                   /\ t - es[keys[i]] < t - es[keys[j]]
    OBVIOUS
  <2>2. req.key \in Cache!Keys /\ req.ts \in Cache!Time
    BY DEF Cache!Requests
  <2> HIDE DEF r, es, keys
  <2>3. keys \in Seq(Cache!Keys) /\ Len(keys) \in Nat
        /\ es \in [Cache!Keys -> Cache!Time \cup {NoEntry}]
    BY <2>1 DEF Snapshots
  <2>4. PICK j \in 1 .. Len(keys) : keys[j] = r.res /\ es[keys[j]] # NoEntry
    <3>1. CASE es[req.key] # NoEntry /\ Cache!route_matches(req.key, req.source)
      BY <2>1, <2>2, <3>1 DEF OnList, Cache!route_matches
    <3>2. CASE ~(es[req.key] # NoEntry /\ Cache!route_matches(req.key, req.source))
      <4>1. C # {} /\ r.res = keys[Cache!Best(keys, C, req)]
        BY <2>1, <3>2
      <4>2. Cache!Best(keys, C, req) \in C
        BY <2>1, <4>1, BestIsOne
      <4>3. \A i \in C : i \in 1 .. Len(keys) /\ es[keys[i]] # NoEntry
        BY DEF Cache!Candidates
      <4> QED BY <4>1, <4>2, <4>3
    <3> QED BY <3>1, <3>2
  <2>5. keys # <<>> /\ 1 \in 1 .. Len(keys)
    BY <2>3, <2>4
  <2>6. es[keys[1]] # NoEntry /\ t - es[keys[1]] <= Ttl /\ keys[1] \in Cache!Keys
    BY <2>1, <2>3, <2>5
  <2>7. es[keys[1]] \in Int /\ es[keys[j]] \in Int
    BY <2>3, <2>4, <2>6 DEF Cache!Time
  <2>8. ~(t - es[keys[j]] <= Ttl)
    BY <2>4
  <2>9. t \in Int /\ Ttl \in Int
    BY CacheAssumption DEF CacheInv, CacheTypes, Cache!Time
  <2>10. 1 < j
    <3>1. j # 1
      BY <2>6, <2>8
    <3> QED BY <2>3, <2>4, <3>1
  <2>11. t - es[keys[1]] < t - es[keys[j]]
    BY <2>6, <2>7, <2>8, <2>9
  <2> QED BY <2>4, <2>5, <2>10, <2>11
<1> QED BY <1>1, CacheInvariance, PTL

=============================================================================
