-------------------- MODULE EvidenceRequestServiceProofs --------------------
(***************************************************************************)
(* Proofs, for every set of requests, frames and objects, every TTL and    *)
(* every limit of the ledger, of the safety properties of                  *)
(* EvidenceRequestService.                                                 *)
(***************************************************************************)
EXTENDS EvidenceRequestService, FiniteSetTheorems, WellFoundedInduction, TLAPS

(* A nonempty set of natural numbers has a least one.                        *)
LEMMA LeastNat ==
  ASSUME NEW T, T \subseteq Nat, T # {}
  PROVE  \E n \in T : \A m \in T : n <= m
<1>1. \E n \in T : \A m \in T : ~(<<m, n>> \in OpToRel(<, Nat))
  BY NatLessThanWellFounded, WFMin, Zenon
<1>2. \A m, n \in Nat : m < n => <<m, n>> \in OpToRel(<, Nat)
  BY DEF OpToRel
<1>3. \E n \in T : \A m \in T : ~(m < n)
  BY <1>1, <1>2, Zenon
<1> QED BY <1>3

-----------------------------------------------------------------------------
(* The ledger *)

LedgerType(rec, ord) == rec \in [RefKeys -> Time \cup {None}] /\ ord \in Seq(RefKeys)

(* What is left of a list of keys without its first n.                       *)
LEMMA Shortened ==
  ASSUME NEW S, NEW s \in Seq(S), NEW n \in 0 .. Len(s)
  PROVE  /\ SubSeq(s, n + 1, Len(s)) \in Seq(S)
         /\ Len(SubSeq(s, n + 1, Len(s))) = Len(s) - n
         /\ \A i \in 1 .. Len(s) - n : SubSeq(s, n + 1, Len(s))[i] = s[n + i]
  OBVIOUS

(* Forgetting the n oldest keys.                                             *)
LEMMA ForgottenIs ==
  ASSUME NEW rec, NEW ord, LedgerType(rec, ord), NEW n \in 0 .. Len(ord)
  PROVE  LET f == Forgotten(rec, ord, n)
         IN /\ LedgerType(f.rec, f.ord)
            /\ Len(f.ord) = Len(ord) - n
            /\ \A i \in 1 .. Len(ord) - n : f.ord[i] = ord[n + i]
            /\ \A k \in RefKeys : f.rec[k] = IF \E i \in 1 .. n : ord[i] = k THEN None ELSE rec[k]
<1> DEFINE f == Forgotten(rec, ord, n)
<1>1. f.rec = [k \in RefKeys |-> IF \E i \in 1 .. n : ord[i] = k THEN None ELSE rec[k]]
      /\ f.ord = SubSeq(ord, n + 1, Len(ord))
  BY DEF Forgotten
<1>2. f.rec \in [RefKeys -> Time \cup {None}]
  BY <1>1 DEF LedgerType
<1>3. ord \in Seq(RefKeys)
  BY DEF LedgerType
<1>4. /\ f.ord \in Seq(RefKeys) /\ Len(f.ord) = Len(ord) - n
      /\ \A i \in 1 .. Len(ord) - n : f.ord[i] = ord[n + i]
  BY <1>1, <1>3, Shortened
<1> QED BY <1>1, <1>2, <1>4 DEF LedgerType

(* prune_recently_encoded_locked ends: it forgets the least number of keys   *)
(* after which the oldest may stay.                                          *)
LEMMA PrunedIs ==
  ASSUME NEW rec, NEW ord, LedgerType(rec, ord), NEW t
  PROVE  \E n \in 0 .. Len(ord) :
           /\ Pruned(rec, ord, t) = Forgotten(rec, ord, n)
           /\ Keeps(Forgotten(rec, ord, n).rec, Forgotten(rec, ord, n).ord, t)
           /\ \A m \in 0 .. n - 1 :
                ~Keeps(Forgotten(rec, ord, m).rec, Forgotten(rec, ord, m).ord, t)
<1> DEFINE K(n) == Keeps(Forgotten(rec, ord, n).rec, Forgotten(rec, ord, n).ord, t)
           Q(n) == K(n) /\ \A m \in 0 .. n - 1 : ~K(m)
           T == {n \in 0 .. Len(ord) : K(n)}
<1>0. Len(ord) \in Nat
  BY DEF LedgerType
<1>1. K(Len(ord))
  <2>1. Len(ord) \in 0 .. Len(ord)
    BY <1>0
  <2>2. /\ Forgotten(rec, ord, Len(ord)).ord \in Seq(RefKeys)
        /\ Len(Forgotten(rec, ord, Len(ord)).ord) = 0
    BY <1>0, <2>1, ForgottenIs DEF LedgerType
  <2>3. Forgotten(rec, ord, Len(ord)).ord = <<>>
    BY <2>2
  <2> QED BY <2>3 DEF Keeps
<1> HIDE DEF K
<1>2. T \subseteq Nat /\ T # {}
  BY <1>0, <1>1
<1>3. PICK n \in T : \A m \in T : n <= m
  BY <1>2, LeastNat
<1>4. n \in 0 .. Len(ord) /\ Q(n)
  BY <1>0, <1>3
<1>5. Pruned(rec, ord, t) = Forgotten(rec, ord, CHOOSE i \in 0 .. Len(ord) : Q(i))
  BY DEF Pruned, K
<1> DEFINE c == CHOOSE i \in 0 .. Len(ord) : Q(i)
<1>6. c \in 0 .. Len(ord) /\ Q(c)
  <2> HIDE DEF Q
  <2> QED BY <1>4
<1> HIDE DEF c
<1>7. Pruned(rec, ord, t) = Forgotten(rec, ord, c)
  BY <1>5 DEF c
<1> QED BY <1>6, <1>7 DEF K

(* There are finitely many keys: the Cardinality of a ledger is a number.    *)
LEMMA RefKeysFinite == IsFiniteSet(RefKeys)
<1> DEFINE C == {CropRefs[n] : n \in DOMAIN CropRefs}
<1>1. IsFiniteSet(C)
  <2>1. CropRefs \in Seq(C)
    BY ObjectAssumption
  <2>2. \A c \in C : \E n \in 1 .. Len(CropRefs) : CropRefs[n] = c
    BY <2>1
  <2> QED BY <2>1, <2>2 DEF IsFiniteSet
<1>2. IsFiniteSet({OverviewRef} \cup C)
  BY <1>1, FS_Singleton, FS_Union
<1> QED BY <1>2, ObjectAssumption, FS_Product DEF RefKeys, Refs

(* The order of a ledger at time t: LedgerInOrder without the limit.         *)
Ordered(rec, ord, t) ==
  /\ {ord[n] : n \in DOMAIN ord} = Held(rec)
  /\ \A m, n \in DOMAIN ord : m < n => ord[m] # ord[n] /\ rec[ord[m]] <= rec[ord[n]]
  /\ \A k \in RefKeys : rec[k] # None => rec[k] <= t

(* The keys written no earlier than k, k itself left out.                    *)
Younger(rec, k) == {l \in RefKeys \ {k} : rec[l] # None /\ rec[l] >= rec[k]}

(* Forgetting the oldest keys leaves an ordered ledger.                      *)
LEMMA ForgottenOrdered ==
  ASSUME NEW rec, NEW ord, NEW t, LedgerType(rec, ord), Ordered(rec, ord, t),
         NEW n \in 0 .. Len(ord)
  PROVE  LET f == Forgotten(rec, ord, n)
         IN /\ Ordered(f.rec, f.ord, t)
            /\ \A i \in n + 1 .. Len(ord) : f.rec[ord[i]] = rec[ord[i]]
            /\ \A i \in 1 .. n : f.rec[ord[i]] = None
            /\ \A k \in RefKeys : f.rec[k] # None => f.rec[k] = rec[k]
<1> DEFINE f == Forgotten(rec, ord, n)
<1>0. ord \in Seq(RefKeys) /\ Len(ord) \in Nat /\ DOMAIN ord = 1 .. Len(ord)
      /\ \A i \in 1 .. Len(ord) : ord[i] \in RefKeys
  BY DEF LedgerType
<1>a. /\ LedgerType(f.rec, f.ord) /\ Len(f.ord) = Len(ord) - n
      /\ \A i \in 1 .. Len(ord) - n : f.ord[i] = ord[n + i]
      /\ \A k \in RefKeys : f.rec[k] = IF \E i \in 1 .. n : ord[i] = k THEN None ELSE rec[k]
  BY ForgottenIs
<1> HIDE DEF f
<1>1. /\ f.ord \in Seq(RefKeys) /\ Len(f.ord) = Len(ord) - n
      /\ \A i \in 1 .. Len(ord) - n : f.ord[i] = ord[n + i]
  BY <1>a DEF LedgerType
<1>2. \A i, j \in 1 .. Len(ord) : i # j => ord[i] # ord[j]
  BY <1>0 DEF Ordered
<1>3. ASSUME NEW i \in n + 1 .. Len(ord) PROVE f.rec[ord[i]] = rec[ord[i]]
  <2>1. i \in 1 .. Len(ord) /\ \A j \in 1 .. n : j \in 1 .. Len(ord) /\ j # i
    BY <1>0
  <2>2. ~\E j \in 1 .. n : ord[j] = ord[i]
    BY <1>2, <2>1
  <2> QED BY <1>0, <1>a, <2>1, <2>2
<1>4. ASSUME NEW i \in 1 .. n PROVE f.rec[ord[i]] = None
  <2>1. ord[i] \in RefKeys
    BY <1>0
  <2> QED BY <1>a, <2>1
<1>5. \A k \in RefKeys : f.rec[k] # None => f.rec[k] = rec[k]
  BY <1>a
<1>6. DOMAIN f.ord = 1 .. Len(ord) - n
  <2>1. DOMAIN f.ord = 1 .. Len(f.ord)
    BY <1>1
  <2> QED BY <1>1, <2>1
<1>7. {f.ord[i] : i \in DOMAIN f.ord} = Held(f.rec)
  <2>1. ASSUME NEW i \in 1 .. Len(ord) - n PROVE f.ord[i] \in Held(f.rec)
    <3>1. n + i \in n + 1 .. Len(ord) /\ n + i \in 1 .. Len(ord)
      BY <1>0
    <3>2. ord[n + i] \in Held(rec)
      BY <1>0, <3>1 DEF Ordered
    <3> QED BY <1>1, <1>3, <3>1, <3>2 DEF Held
  <2>2. ASSUME NEW k \in Held(f.rec) PROVE \E i \in 1 .. Len(ord) - n : f.ord[i] = k
    <3>1. k \in RefKeys /\ f.rec[k] # None /\ rec[k] # None
      BY <1>5 DEF Held
    <3>2. PICK j \in 1 .. Len(ord) : ord[j] = k
      BY <1>0, <3>1 DEF Ordered, Held
    <3>3. j \notin 1 .. n
      BY <1>4, <3>1, <3>2
    <3>4. j - n \in 1 .. Len(ord) - n /\ n + (j - n) = j
      BY <1>0, <3>3
    <3> QED BY <1>1, <3>2, <3>4
  <2> QED BY <1>6, <2>1, <2>2
<1>8. ASSUME NEW a \in DOMAIN f.ord, NEW b \in DOMAIN f.ord, a < b
      PROVE  f.ord[a] # f.ord[b] /\ f.rec[f.ord[a]] <= f.rec[f.ord[b]]
  <2>1. /\ n + a \in n + 1 .. Len(ord) /\ n + b \in n + 1 .. Len(ord) /\ n + a < n + b
        /\ n + a \in DOMAIN ord /\ n + b \in DOMAIN ord
    BY <1>0, <1>6, <1>8
  <2>2. f.ord[a] = ord[n + a] /\ f.ord[b] = ord[n + b]
    BY <1>1, <1>6
  <2> QED BY <1>3, <2>1, <2>2 DEF Ordered
<1>9. \A k \in RefKeys : f.rec[k] # None => f.rec[k] <= t
  BY <1>5 DEF Ordered
<1>10. Ordered(f.rec, f.ord, t)
  BY <1>7, <1>8, <1>9 DEF Ordered
<1> QED BY <1>3, <1>4, <1>5, <1>10 DEF f

(* What prune_recently_encoded_locked leaves of an ordered ledger: nothing   *)
(* expired, no more than the limit, and what it forgot was expired or has as *)
(* many younger keys as the limit allows.                                    *)
LEMMA PrunedOrdered ==
  ASSUME NEW rec, NEW ord, NEW t \in Nat, LedgerType(rec, ord), Ordered(rec, ord, t)
  PROVE  LET p == Pruned(rec, ord, t)
         IN /\ LedgerType(p.rec, p.ord) /\ Ordered(p.rec, p.ord, t)
            /\ \A k \in RefKeys : p.rec[k] # None => p.rec[k] = rec[k] /\ t - rec[k] <= Ttl
            /\ MaxRecent > 0 => Cardinality(Held(p.rec)) <= MaxRecent
            /\ \A k \in RefKeys : rec[k] # None /\ p.rec[k] = None =>
                 \/ t - rec[k] > Ttl
                 \/ MaxRecent > 0 /\ Cardinality(Younger(rec, k)) >= MaxRecent
<1> DEFINE p == Pruned(rec, ord, t)
           F(m) == Forgotten(rec, ord, m)
<1>0. /\ ord \in Seq(RefKeys) /\ Len(ord) \in Nat /\ DOMAIN ord = 1 .. Len(ord)
      /\ \A i \in 1 .. Len(ord) : ord[i] \in RefKeys
  BY DEF LedgerType
<1>1. PICK n \in 0 .. Len(ord) :
        /\ p = F(n) /\ Keeps(F(n).rec, F(n).ord, t)
        /\ \A m \in 0 .. n - 1 : ~Keeps(F(m).rec, F(m).ord, t)
  BY PrunedIs
<1>2. \A m \in 0 .. Len(ord) :
        /\ LedgerType(F(m).rec, F(m).ord) /\ Ordered(F(m).rec, F(m).ord, t)
        /\ Len(F(m).ord) = Len(ord) - m
        /\ \A i \in 1 .. Len(ord) - m : F(m).ord[i] = ord[m + i]
        /\ \A i \in m + 1 .. Len(ord) : F(m).rec[ord[i]] = rec[ord[i]]
        /\ \A i \in 1 .. m : F(m).rec[ord[i]] = None
        /\ \A k \in RefKeys : F(m).rec[k] # None => F(m).rec[k] = rec[k]
  BY ForgottenIs, ForgottenOrdered
<1> HIDE DEF p, F
<1>3. /\ LedgerType(p.rec, p.ord) /\ Ordered(p.rec, p.ord, t) /\ Keeps(p.rec, p.ord, t)
      /\ \A k \in RefKeys : p.rec[k] # None => p.rec[k] = rec[k]
  BY <1>1, <1>2
<1>4. /\ p.ord \in Seq(RefKeys) /\ DOMAIN p.ord = 1 .. Len(p.ord) /\ Len(p.ord) \in Nat
  BY <1>3 DEF LedgerType
<1>5. ASSUME NEW k \in RefKeys, p.rec[k] # None PROVE t - rec[k] <= Ttl
  <2>1. PICK i \in 1 .. Len(p.ord) : p.ord[i] = k
    BY <1>3, <1>4, <1>5 DEF Ordered, Held
  <2>2. p.ord # <<>> /\ Head(p.ord) = p.ord[1] /\ 1 \in 1 .. Len(p.ord)
    BY <1>4, <2>1
  <2>3. t - p.rec[p.ord[1]] <= Ttl
    BY <1>3, <2>2 DEF Keeps
  <2>4. p.rec[p.ord[1]] <= p.rec[k]
    <3>1. CASE i = 1
      <4>1. p.rec[k] \in Nat
        BY <1>3, <1>5, ServiceAssumption DEF LedgerType, Time
      <4> QED BY <2>1, <3>1, <4>1
    <3>2. CASE 1 < i
      BY <1>3, <1>4, <2>1, <2>2, <3>2 DEF Ordered
    <3> QED BY <2>1, <3>1, <3>2
  <2>5. p.rec[p.ord[1]] \in Nat /\ p.rec[k] \in Nat
    <3>1. p.ord[1] \in RefKeys /\ p.rec[p.ord[1]] # None
      BY <1>3, <1>4, <2>2 DEF Ordered, Held
    <3> QED BY <1>3, <1>5, <3>1, ServiceAssumption DEF LedgerType, Time
  <2>6. \A a, b \in Nat : t - a <= Ttl /\ a <= b => t - b <= Ttl
    BY ServiceAssumption
  <2>7. t - p.rec[k] <= Ttl
    BY <2>3, <2>4, <2>5, <2>6
  <2> QED BY <1>3, <1>5, <2>7
<1>6. ASSUME MaxRecent > 0 PROVE Cardinality(Held(p.rec)) <= MaxRecent
  <2>1. CASE p.ord = <<>>
    <3>1. Held(p.rec) = {}
      BY <1>3, <2>1 DEF Ordered
    <3> QED BY <1>6, <3>1, FS_EmptySet, ServiceAssumption
  <2>2. CASE p.ord # <<>>
    BY <1>3, <1>6, <2>2, ServiceAssumption DEF Keeps
  <2> QED BY <2>1, <2>2
<1>7. ASSUME NEW k \in RefKeys, rec[k] # None, p.rec[k] = None, ~(t - rec[k] > Ttl)
      PROVE  MaxRecent > 0 /\ Cardinality(Younger(rec, k)) >= MaxRecent
  <2>1. PICK i \in 1 .. Len(ord) : ord[i] = k
    BY <1>0, <1>7 DEF Ordered, Held
  <2>2. i \in 1 .. n
    <3>1. i \notin n + 1 .. Len(ord)
      BY <1>1, <1>2, <1>7, <2>1
    <3> QED BY <1>0, <2>1, <3>1
  <2>3. i - 1 \in 0 .. n - 1 /\ i - 1 \in 0 .. Len(ord) /\ (i - 1) + 1 = i
        /\ 1 \in 1 .. Len(ord) - (i - 1) /\ i \in (i - 1) + 1 .. Len(ord)
    BY <1>0, <2>1, <2>2
  <2> DEFINE g == F(i - 1)
  <2>4. ~Keeps(g.rec, g.ord, t)
    BY <1>1, <2>3
  <2>5. /\ g.ord \in Seq(RefKeys) /\ Len(g.ord) = Len(ord) - (i - 1)
        /\ g.ord[1] = k /\ g.rec[k] = rec[k]
        /\ \A a \in 1 .. i - 1 : g.rec[ord[a]] = None
        /\ \A l \in RefKeys : g.rec[l] # None => g.rec[l] = rec[l]
    <3>1. g.ord[1] = ord[(i - 1) + 1] /\ g.rec[ord[i]] = rec[ord[i]]
      BY <1>2, <2>3
    <3>2. /\ g.ord \in Seq(RefKeys) /\ Len(g.ord) = Len(ord) - (i - 1)
          /\ \A a \in 1 .. i - 1 : g.rec[ord[a]] = None
          /\ \A l \in RefKeys : g.rec[l] # None => g.rec[l] = rec[l]
      BY <1>2, <2>3 DEF LedgerType
    <3> QED BY <2>1, <2>3, <3>1, <3>2
  <2> HIDE DEF g
  <2>6. g.ord # <<>> /\ Head(g.ord) = k
    BY <1>0, <2>1, <2>5
  <2>7. MaxRecent # 0 /\ ~(Cardinality(Held(g.rec)) <= MaxRecent)
    <3>1. t - g.rec[k] <= Ttl
      <4>1. rec[k] \in Nat
        BY <1>7, ServiceAssumption DEF LedgerType, Time
      <4> QED BY <1>7, <2>5, <4>1, ServiceAssumption
    <3> QED BY <1>7, <2>4, <2>5, <2>6, <3>1 DEF Keeps
  <2>8. Held(g.rec) \subseteq Younger(rec, k) \cup {k}
    <3> SUFFICES ASSUME NEW l \in RefKeys, g.rec[l] # None, l # k
                 PROVE  rec[l] # None /\ rec[l] >= rec[k]
      BY DEF Held, Younger
    <3>1. rec[l] # None
      BY <2>5
    <3>2. PICK j \in 1 .. Len(ord) : ord[j] = l
      BY <1>0, <3>1 DEF Ordered, Held
    <3>3. j > i
      <4>1. j # i /\ j \notin 1 .. i - 1
        BY <2>1, <2>5, <3>2
      <4> QED BY <1>0, <2>1, <3>2, <4>1
    <3>4. rec[k] <= rec[l]
      BY <1>0, <2>1, <3>2, <3>3 DEF Ordered
    <3>5. rec[k] \in Nat /\ rec[l] \in Nat
      BY <1>7, <3>1, ServiceAssumption DEF LedgerType, Time
    <3> QED BY <3>1, <3>4, <3>5
  <2>9. IsFiniteSet(Younger(rec, k)) /\ IsFiniteSet(Held(g.rec))
    <3>1. Younger(rec, k) \in SUBSET RefKeys /\ Held(g.rec) \in SUBSET RefKeys
      BY DEF Younger, Held
    <3> QED BY <3>1, RefKeysFinite, FS_Subset
  <2>10. /\ IsFiniteSet(Younger(rec, k) \cup {k})
         /\ Cardinality(Younger(rec, k) \cup {k}) = Cardinality(Younger(rec, k)) + 1
    <3>1. k \notin Younger(rec, k)
      BY DEF Younger
    <3> QED BY <2>9, <3>1, FS_AddElement
  <2>11. Cardinality(Held(g.rec)) <= Cardinality(Younger(rec, k)) + 1
    BY <2>8, <2>10, FS_Subset
  <2>12. Cardinality(Held(g.rec)) \in Nat /\ Cardinality(Younger(rec, k)) \in Nat
    BY <2>9, FS_CardinalityType
  <2> QED BY <2>7, <2>11, <2>12, ServiceAssumption
<1> QED BY <1>3, <1>5, <1>6, <1>7 DEF p

-----------------------------------------------------------------------------
(* The inductive invariant *)

(* What the broker, the threads and the queue hold: requests of a client.    *)
Msgs == [id : Requests, job : JobSet]

Busy == worker \in {"check", "resolve", "overview", "crops"}

(* The evidence thread and the worker hold a message where they need one.    *)
Carries ==
  /\ stream \in Seq(Msgs) /\ jobs \in Seq(Msgs)
  /\ intake.msg \in Msgs \cup {None} /\ (intake.pc = "got" <=> intake.msg # None)
  /\ work.msg \in Msgs \cup {None} /\ (Busy <=> work.msg # None)

(* The ledger at time t against the files on disk: it knows no more than was *)
(* written, and what it does not know of is old or crowded out.              *)
Remembers(rec, w, t) ==
  /\ \A k \in RefKeys : rec[k] # None => rec[k] = w[k]
  /\ \A k \in RefKeys : w[k] # None =>
       \/ rec[k] = w[k]
       \/ t - w[k] > Ttl
       \/ MaxRecent > 0 /\ Cardinality(Younger(w, k)) >= MaxRecent

LedgerInv ==
  /\ Ordered(recent, order, now)
  /\ MaxRecent > 0 => Cardinality(Held(recent)) <= MaxRecent
  /\ \A k \in RefKeys : written[k] # None => written[k] <= now
  /\ Remembers(recent, written, now)

Ids(s) == {s[n].id : n \in DOMAIN s}

Distinct(s) == \A m, n \in DOMAIN s : s[m].id = s[n].id => m = n

IntakeIds == IF intake.msg = None THEN {} ELSE {intake.msg.id}
WorkIds == IF work.msg = None THEN {} ELSE {work.msg.id}

Answered == {r \in Requests : replies[r] # <<>>}

(* A request is in one place: not made yet, in the broker, in the hands of   *)
(* the evidence thread, queued, being worked on, or answered once.           *)
OnePlace ==
  /\ Distinct(stream) /\ Distinct(jobs)
  /\ unsent \cap (Ids(stream) \cup IntakeIds \cup Ids(jobs) \cup WorkIds \cup Answered) = {}
  /\ Ids(stream) \cap (IntakeIds \cup Ids(jobs) \cup WorkIds \cup Answered) = {}
  /\ IntakeIds \cap (Ids(jobs) \cup WorkIds \cup Answered) = {}
  /\ Ids(jobs) \cap (WorkIds \cup Answered) = {}
  /\ WorkIds \cap Answered = {}
  /\ \A r \in Requests : Len(replies[r]) <= 1

(* What was accepted before stop_ was set is queued, being worked on or      *)
(* answered; the worker leaves only when the first two are empty.            *)
Drains ==
  /\ before_stop \subseteq Ids(jobs) \cup WorkIds \cup Answered
  /\ worker = "exited" => stop /\ before_stop \subseteq Answered

IsWritten(j, ref) == written[<<j.frame, ref>>] # None

(* The reference the n-th object of a request stands for. *)
RefOf(j, n) == IF j.objects = <<>> \/ j.objects[n] = None THEN CropRefs[n] ELSE j.objects[n]

(* What process_job has collected is on disk, and nothing it has passed by   *)
(* is missing.                                                               *)
Collected ==
  /\ worker \in {"check", "resolve", "overview"} => work.next = 1
  /\ worker \in {"resolve", "overview", "crops"} =>
       /\ work.overview # None => work.overview = OverviewRef /\ IsWritten(job, OverviewRef)
       /\ \A n \in DOMAIN work.crops : IsWritten(job, work.crops[n])
       /\ worker = "crops" /\ needs_overview(job) => work.overview = OverviewRef
       /\ \A n \in DOMAIN request_objects : n < work.next =>
            \E i \in DOMAIN work.crops : work.crops[i] = RefOf(job, n)

(* The part that is about the queue. *)
QueueInv == Carries /\ OnePlace /\ Drains

IInv == TypeOK /\ QueueInv /\ LedgerInv /\ Collected

-----------------------------------------------------------------------------
(* The steps of the ledger *)

(* A time in the ledger is a number. *)
LEMMA TimeOf ==
  ASSUME NEW rec \in [RefKeys -> Time \cup {None}], NEW k \in RefKeys, rec[k] # None
  PROVE  rec[k] \in Time /\ rec[k] \in Nat
  BY ServiceAssumption DEF Time

(* A time is a number. *)
LEMMA TimeIsNat == ASSUME NEW t \in Time PROVE t \in Nat
  BY ServiceAssumption DEF Time

(* The keys written no earlier than k are finitely many, and more files only *)
(* make them more.                                                           *)
LEMMA YoungerGrows ==
  ASSUME NEW a, NEW b, NEW k, Younger(a, k) \subseteq Younger(b, k),
         Cardinality(Younger(a, k)) >= MaxRecent
  PROVE  Cardinality(Younger(b, k)) >= MaxRecent
<1>1. Younger(b, k) \in SUBSET RefKeys
  BY DEF Younger
<1>2. IsFiniteSet(Younger(b, k))
  BY <1>1, RefKeysFinite, FS_Subset
<1>3. IsFiniteSet(Younger(a, k)) /\ Cardinality(Younger(a, k)) <= Cardinality(Younger(b, k))
  BY <1>2, FS_Subset
<1>4. Cardinality(Younger(a, k)) \in Nat /\ Cardinality(Younger(b, k)) \in Nat
  BY <1>2, <1>3, FS_CardinalityType
<1> QED BY <1>3, <1>4, ServiceAssumption

(* A prune forgets nothing it should remember.                               *)
LEMMA PruneRemembers ==
  ASSUME NEW rec, NEW ord, NEW t \in Nat, NEW w, LedgerType(rec, ord), Ordered(rec, ord, t),
         Remembers(rec, w, t)
  PROVE  Remembers(Pruned(rec, ord, t).rec, w, t)
<1> DEFINE p == Pruned(rec, ord, t)
<1>1. /\ \A k \in RefKeys : p.rec[k] # None => p.rec[k] = rec[k] /\ t - rec[k] <= Ttl
      /\ \A k \in RefKeys : rec[k] # None /\ p.rec[k] = None =>
           \/ t - rec[k] > Ttl
           \/ MaxRecent > 0 /\ Cardinality(Younger(rec, k)) >= MaxRecent
  BY PrunedOrdered
<1> HIDE DEF p
<1>2. \A k \in RefKeys : p.rec[k] # None => p.rec[k] = w[k]
  BY <1>1 DEF Remembers
<1>3. ASSUME NEW k \in RefKeys, w[k] # None, p.rec[k] # w[k], ~(t - w[k] > Ttl)
      PROVE  MaxRecent > 0 /\ Cardinality(Younger(w, k)) >= MaxRecent
  <2>1. CASE rec[k] = w[k]
    <3>1. p.rec[k] = None
      BY <1>2, <1>3
    <3>2. MaxRecent > 0 /\ Cardinality(Younger(rec, k)) >= MaxRecent
      BY <1>1, <1>3, <2>1, <3>1
    <3>3. Younger(rec, k) \subseteq Younger(w, k)
      BY <2>1 DEF Younger, Remembers
    <3> QED BY <3>2, <3>3, YoungerGrows
  <2>2. CASE rec[k] # w[k]
    BY <1>3, <2>2 DEF Remembers
  <2> QED BY <2>1, <2>2
<1> QED BY <1>2, <1>3 DEF Remembers, p

(* A file written at time t enters a ledger that did not know it: at the end *)
(* of the order, so the order stays one of times.                            *)
LEMMA MarkOrdered ==
  ASSUME NEW rec, NEW ord, NEW t \in Time, NEW key \in RefKeys, LedgerType(rec, ord),
         Ordered(rec, ord, t), rec[key] = None
  PROVE  /\ LedgerType([rec EXCEPT ![key] = t], Append(ord, key))
         /\ Ordered([rec EXCEPT ![key] = t], Append(ord, key), t)
<1> DEFINE e == [rec EXCEPT ![key] = t]
           o == Append(ord, key)
<1>0. t # None /\ t \in Nat
  BY ObjectAssumption, TimeIsNat
<1>1. /\ e \in [RefKeys -> Time \cup {None}] /\ e[key] = t
      /\ \A k \in RefKeys : k # key => e[k] = rec[k]
  BY DEF LedgerType
<1>2. /\ o \in Seq(RefKeys) /\ DOMAIN ord = 1 .. Len(ord) /\ Len(ord) \in Nat
      /\ DOMAIN o = 1 .. Len(ord) + 1 /\ o[Len(ord) + 1] = key
      /\ \A i \in 1 .. Len(ord) : o[i] = ord[i] /\ ord[i] \in RefKeys
  BY DEF LedgerType
<1>3. \A i \in 1 .. Len(ord) : ord[i] # key /\ e[ord[i]] = rec[ord[i]] /\ rec[ord[i]] # None
  BY <1>1, <1>2 DEF Ordered, Held
<1> HIDE DEF e, o
<1>4. {o[n] : n \in DOMAIN o} = Held(e)
  <2>1. ASSUME NEW n \in 1 .. Len(ord) + 1 PROVE o[n] \in Held(e)
    <3>1. CASE n = Len(ord) + 1
      BY <1>0, <1>1, <1>2, <3>1 DEF Held
    <3>2. CASE n \in 1 .. Len(ord)
      BY <1>2, <1>3, <3>2 DEF Held
    <3> QED BY <1>2, <3>1, <3>2
  <2>2. ASSUME NEW k \in Held(e) PROVE \E n \in 1 .. Len(ord) + 1 : o[n] = k
    <3>1. CASE k = key
      <4>1. Len(ord) + 1 \in 1 .. Len(ord) + 1
        BY <1>2
      <4> QED BY <1>2, <3>1, <4>1
    <3>2. CASE k # key
      <4>1. k \in Held(rec)
        BY <1>1, <3>2 DEF Held
      <4>2. PICK n \in 1 .. Len(ord) : ord[n] = k
        BY <1>2, <4>1 DEF Ordered
      <4>3. n \in 1 .. Len(ord) + 1
        BY <1>2
      <4> QED BY <1>2, <4>2, <4>3
    <3> QED BY <3>1, <3>2
  <2> QED BY <1>2, <2>1, <2>2
<1>5. ASSUME NEW m \in DOMAIN o, NEW n \in DOMAIN o, m < n
      PROVE  o[m] # o[n] /\ e[o[m]] <= e[o[n]]
  <2>1. m \in 1 .. Len(ord) /\ (n \in 1 .. Len(ord) \/ n = Len(ord) + 1)
    BY <1>2, <1>5
  <2>2. CASE n = Len(ord) + 1
    BY <1>1, <1>2, <1>3, <2>1, <2>2 DEF Ordered
  <2>3. CASE n \in 1 .. Len(ord)
    BY <1>2, <1>3, <1>5, <2>1, <2>3 DEF Ordered
  <2> QED BY <2>1, <2>2, <2>3
<1>6. \A k \in RefKeys : e[k] # None => e[k] <= t
  BY <1>0, <1>1 DEF Ordered
<1> QED BY <1>1, <1>2, <1>4, <1>5, <1>6 DEF LedgerType, Ordered, e, o

(* The ledger and the disk after a file has been written. *)
LEMMA WriteRemembers ==
  ASSUME NEW rec \in [RefKeys -> Time \cup {None}], NEW w \in [RefKeys -> Time \cup {None}],
         NEW t \in Time, NEW key \in RefKeys, rec[key] = None,
         \A k \in RefKeys : w[k] # None => w[k] <= t,
         Remembers(rec, w, t)
  PROVE  /\ Remembers([rec EXCEPT ![key] = t], [w EXCEPT ![key] = t], t)
         /\ \A k \in RefKeys : [w EXCEPT ![key] = t][k] # None => [w EXCEPT ![key] = t][k] <= t
<1> DEFINE e == [rec EXCEPT ![key] = t]
           v == [w EXCEPT ![key] = t]
<1>0. t # None /\ t \in Nat
  BY ObjectAssumption, TimeIsNat
<1>1. /\ e[key] = t /\ \A k \in RefKeys : k # key => e[k] = rec[k]
      /\ v[key] = t /\ \A k \in RefKeys : k # key => v[k] = w[k]
  OBVIOUS
<1> HIDE DEF e, v
<1>2. \A k \in RefKeys : e[k] # None => e[k] = v[k]
  BY <1>1 DEF Remembers
<1>3. \A k \in RefKeys : v[k] # None => v[k] <= t
  BY <1>0, <1>1
<1>4. ASSUME NEW k \in RefKeys, v[k] # None, e[k] # v[k], ~(t - v[k] > Ttl)
      PROVE  MaxRecent > 0 /\ Cardinality(Younger(v, k)) >= MaxRecent
  <2>1. k # key
    BY <1>1, <1>4
  <2>2. v[k] = w[k] /\ e[k] = rec[k]
    BY <1>1, <2>1
  <2>3. MaxRecent > 0 /\ Cardinality(Younger(w, k)) >= MaxRecent
    BY <1>4, <2>2 DEF Remembers
  <2>4. Younger(w, k) \subseteq Younger(v, k)
    <3> SUFFICES ASSUME NEW l \in RefKeys, l # k, w[l] # None, w[l] >= w[k]
                 PROVE  v[l] # None /\ v[l] >= v[k]
      BY DEF Younger
    <3>1. CASE l = key
      <4>1. w[k] <= t /\ w[k] \in Nat
        BY <1>4, <2>2, TimeOf
      <4> QED BY <1>0, <1>1, <2>2, <3>1, <4>1
    <3>2. CASE l # key
      BY <1>1, <2>2, <3>2
    <3> QED BY <3>1, <3>2
  <2> QED BY <2>3, <2>4, YoungerGrows
<1> QED BY <1>2, <1>3, <1>4 DEF Remembers, e, v

(* A look at the ledger, and the writing of a file. *)
Looks == \E p \in PrunedNow : recent' = p.rec /\ order' = p.ord /\ UNCHANGED written

Writes(key) == \E p \in PrunedNow : ~was_recently_encoded(p.rec, key) /\ Materialize(key, p)

LedgerTypes == LedgerType(recent, order) /\ written \in [RefKeys -> Time \cup {None}] /\ now \in Time

(* A look at the ledger keeps it in order and in agreement with the disk.    *)
LEMMA LooksKeeps ==
  ASSUME LedgerTypes, LedgerInv, Looks, now' = now
  PROVE  LedgerTypes' /\ LedgerInv'
<1>1. PICK p : p = Pruned(recent, order, now) /\ recent' = p.rec /\ order' = p.ord /\ written' = written
  BY DEF Looks, PrunedNow
<1>0. now \in Nat /\ LedgerType(recent, order) /\ Ordered(recent, order, now)
      /\ Remembers(recent, written, now)
  BY TimeIsNat DEF LedgerTypes, LedgerInv
<1>2. /\ LedgerType(p.rec, p.ord) /\ Ordered(p.rec, p.ord, now)
      /\ MaxRecent > 0 => Cardinality(Held(p.rec)) <= MaxRecent
  BY <1>0, <1>1, PrunedOrdered
<1>3. Remembers(p.rec, written, now)
  BY <1>0, <1>1, PruneRemembers
<1> QED BY <1>1, <1>2, <1>3 DEF LedgerTypes, LedgerInv

(* A key the worker is about to write is not in the pruned ledger: a prune   *)
(* leaves nothing that was_recently_encoded does not count.                  *)
LEMMA WritesIs ==
  ASSUME LedgerTypes, LedgerInv, NEW key \in RefKeys, Writes(key)
  PROVE  LET p == Pruned(recent, order, now)
             m == Pruned([p.rec EXCEPT ![key] = now], Append(p.ord, key), now)
         IN /\ p.rec[key] = None
            /\ recent' = m.rec /\ order' = m.ord
            /\ written' = [written EXCEPT ![key] = now]
<1> DEFINE p == Pruned(recent, order, now)
<1>1. /\ ~was_recently_encoded(p.rec, key)
      /\ written' = [written EXCEPT ![key] = now]
      /\ recent' = mark_recently_encoded(p.rec, p.ord, key).rec
      /\ order' = mark_recently_encoded(p.rec, p.ord, key).ord
  BY DEF Writes, PrunedNow, Materialize
<1>0. now \in Nat /\ LedgerType(recent, order) /\ Ordered(recent, order, now)
  BY TimeIsNat DEF LedgerTypes, LedgerInv
<1>2. \A k \in RefKeys : p.rec[k] # None => p.rec[k] = recent[k] /\ now - recent[k] <= Ttl
  BY <1>0, PrunedOrdered
<1> HIDE DEF p
<1>3. p.rec[key] = None
  BY <1>1, <1>2 DEF was_recently_encoded
<1>4. mark_recently_encoded(p.rec, p.ord, key)
        = Pruned([p.rec EXCEPT ![key] = now], Append(p.ord, key), now)
  BY <1>3 DEF mark_recently_encoded
<1> QED BY <1>1, <1>3, <1>4 DEF p

(* So does the writing of a file. *)
LEMMA WritesKeeps ==
  ASSUME LedgerTypes, LedgerInv, NEW key \in RefKeys, Writes(key), now' = now
  PROVE  LedgerTypes' /\ LedgerInv'
<1> DEFINE p == Pruned(recent, order, now)
           e == [p.rec EXCEPT ![key] = now]
           o == Append(p.ord, key)
           w == [written EXCEPT ![key] = now]
           m == Pruned(e, o, now)
<1>1. p.rec[key] = None /\ recent' = m.rec /\ order' = m.ord /\ written' = w
  BY WritesIs
<1>0. /\ now \in Nat /\ now \in Time /\ LedgerType(recent, order) /\ Ordered(recent, order, now)
      /\ Remembers(recent, written, now) /\ written \in [RefKeys -> Time \cup {None}]
      /\ \A k \in RefKeys : written[k] # None => written[k] <= now
  BY TimeIsNat DEF LedgerTypes, LedgerInv
<1>2. LedgerType(p.rec, p.ord) /\ Ordered(p.rec, p.ord, now)
  BY <1>0, PrunedOrdered
<1>3. Remembers(p.rec, written, now)
  BY <1>0, PruneRemembers
<1>4. w \in [RefKeys -> Time \cup {None}]
  BY <1>0
<1> HIDE DEF p
<1>5. LedgerType(e, o) /\ Ordered(e, o, now)
  BY <1>0, <1>1, <1>2, MarkOrdered
<1>6. p.rec \in [RefKeys -> Time \cup {None}]
  BY <1>2 DEF LedgerType
<1>7. Remembers(e, w, now) /\ \A k \in RefKeys : w[k] # None => w[k] <= now
  BY <1>0, <1>1, <1>3, <1>6, WriteRemembers
<1> HIDE DEF e, o, w
<1>8. /\ LedgerType(m.rec, m.ord) /\ Ordered(m.rec, m.ord, now)
      /\ MaxRecent > 0 => Cardinality(Held(m.rec)) <= MaxRecent
  BY <1>0, <1>5, PrunedOrdered
<1>9. Remembers(m.rec, w, now)
  BY <1>0, <1>5, <1>7, PruneRemembers
<1> HIDE DEF m
<1> QED BY <1>0, <1>1, <1>4, <1>7, <1>8, <1>9 DEF LedgerTypes, LedgerInv

(* And the passing of time. *)
LEMMA TickKeeps ==
  ASSUME LedgerTypes, LedgerInv, Tick
  PROVE  LedgerTypes' /\ LedgerInv'
<1>1. now' = now + 1 /\ now < MaxTime /\ UNCHANGED <<recent, order, written>>
  BY DEF Tick, ledger
<1>2. now \in Nat /\ now' \in Nat /\ now' \in Time
  BY <1>1, ServiceAssumption DEF LedgerTypes, Time
<1>3. \A k \in RefKeys : written[k] # None => written[k] \in Nat
  BY TimeOf DEF LedgerTypes
<1>4. \A k \in RefKeys : recent[k] # None => recent[k] \in Nat
  BY TimeOf DEF LedgerTypes, LedgerType
<1>5. \A a \in Nat : (a <= now => a <= now') /\ (now - a > Ttl => now' - a > Ttl)
  BY <1>1, <1>2, ServiceAssumption
<1>6. Ordered(recent, order, now')
  <2>1. \A k \in RefKeys : recent[k] # None => recent[k] <= now'
    BY <1>4, <1>5 DEF LedgerInv, Ordered
  <2> QED BY <2>1 DEF LedgerInv, Ordered
<1>7. \A k \in RefKeys : written[k] # None => written[k] <= now'
  BY <1>3, <1>5 DEF LedgerInv
<1>8. Remembers(recent, written, now')
  <2>1. /\ \A k \in RefKeys : recent[k] # None => recent[k] = written[k]
        /\ \A k \in RefKeys : written[k] # None =>
             \/ recent[k] = written[k]
             \/ now - written[k] > Ttl
             \/ MaxRecent > 0 /\ Cardinality(Younger(written, k)) >= MaxRecent
    BY DEF LedgerInv, Remembers
  <2>2. \A k \in RefKeys : written[k] # None /\ now - written[k] > Ttl => now' - written[k] > Ttl
    BY <1>3, <1>5
  <2> QED BY <2>1, <2>2 DEF Remembers
<1> QED BY <1>1, <1>2, <1>6, <1>7, <1>8 DEF LedgerTypes, LedgerInv

(* A file the ledger has no record of is written; one written again is old,  *)
(* or crowded out.                                                           *)
LEMMA WritesRightly ==
  ASSUME LedgerTypes, LedgerInv, NEW key \in RefKeys, Writes(key)
  PROVE  \A k \in RefKeys : written'[k] # written[k] /\ written[k] # None =>
           \/ now - written[k] > Ttl
           \/ MaxRecent > 0 /\ Cardinality(Younger(written, k)) >= MaxRecent
<1> DEFINE p == Pruned(recent, order, now)
<1>1. p.rec[key] = None /\ written' = [written EXCEPT ![key] = now]
  BY WritesIs
<1>0. /\ now \in Nat /\ LedgerType(recent, order) /\ Ordered(recent, order, now)
      /\ Remembers(recent, written, now) /\ written \in [RefKeys -> Time \cup {None}]
  BY TimeIsNat DEF LedgerTypes, LedgerInv
<1>2. Remembers(p.rec, written, now)
  BY <1>0, PruneRemembers
<1>3. ASSUME NEW k \in RefKeys, written'[k] # written[k] PROVE k = key
  BY <1>0, <1>1, <1>3
<1> HIDE DEF p
<1> QED BY <1>1, <1>2, <1>3 DEF Remembers

-----------------------------------------------------------------------------
(* Requests in their places *)

(* A message goes to the end of a list. *)
LEMMA Appended ==
  ASSUME NEW s \in Seq(Msgs), NEW m \in Msgs
  PROVE  /\ Append(s, m) \in Seq(Msgs)
         /\ Ids(Append(s, m)) = Ids(s) \cup {m.id}
         /\ Distinct(s) /\ m.id \notin Ids(s) => Distinct(Append(s, m))
<1> DEFINE a == Append(s, m)
<1>1. /\ a \in Seq(Msgs) /\ DOMAIN s = 1 .. Len(s) /\ Len(s) \in Nat
      /\ DOMAIN a = 1 .. Len(s) + 1 /\ a[Len(s) + 1] = m
      /\ \A i \in 1 .. Len(s) : a[i] = s[i]
  OBVIOUS
<1> HIDE DEF a
<1>2. \A n \in DOMAIN a : n = Len(s) + 1 \/ n \in DOMAIN s
  BY <1>1
<1>3. Len(s) + 1 \in DOMAIN a /\ \A n \in DOMAIN s : n \in DOMAIN a /\ a[n] = s[n]
  BY <1>1
<1>4. Ids(a) = Ids(s) \cup {m.id}
  BY <1>1, <1>2, <1>3 DEF Ids
<1>5. ASSUME Distinct(s), m.id \notin Ids(s), NEW i \in DOMAIN a, NEW j \in DOMAIN a,
             a[i].id = a[j].id
      PROVE  i = j
  <2>1. \A n \in DOMAIN s : s[n].id # m.id
    BY <1>5 DEF Ids
  <2> QED BY <1>1, <1>2, <1>3, <1>5, <2>1 DEF Distinct
<1> QED BY <1>1, <1>4, <1>5 DEF Distinct, a

(* The first message of a list is taken out. *)
LEMMA TakenOut ==
  ASSUME NEW s \in Seq(Msgs), s # <<>>
  PROVE  /\ Head(s) \in Msgs /\ Tail(s) \in Seq(Msgs)
         /\ Ids(s) = Ids(Tail(s)) \cup {Head(s).id}
         /\ Distinct(s) => Distinct(Tail(s)) /\ Head(s).id \notin Ids(Tail(s))
<1> DEFINE t == Tail(s)
<1>1. /\ t \in Seq(Msgs) /\ DOMAIN s = 1 .. Len(s) /\ Len(s) \in Nat /\ Len(s) > 0
      /\ DOMAIN t = 1 .. Len(s) - 1 /\ Head(s) = s[1] /\ Head(s) \in Msgs
      /\ \A i \in 1 .. Len(s) - 1 : t[i] = s[i + 1]
  OBVIOUS
<1> HIDE DEF t
<1>2. 1 \in DOMAIN s /\ \A n \in DOMAIN t : n + 1 \in DOMAIN s /\ t[n] = s[n + 1] /\ n + 1 # 1
  BY <1>1
<1>3. \A n \in DOMAIN s : n = 1 \/ \E i \in DOMAIN t : i + 1 = n
  <2> TAKE n \in DOMAIN s
  <2>1. n # 1 => n - 1 \in DOMAIN t /\ (n - 1) + 1 = n
    BY <1>1
  <2> QED BY <2>1
<1>4. Ids(s) = Ids(t) \cup {s[1].id}
  BY <1>2, <1>3 DEF Ids
<1>5. ASSUME Distinct(s) PROVE Distinct(t) /\ s[1].id \notin Ids(t)
  <2>1. ASSUME NEW i \in DOMAIN t, NEW j \in DOMAIN t, t[i].id = t[j].id PROVE i = j
    <3>1. i + 1 = j + 1
      BY <1>2, <1>5, <2>1 DEF Distinct
    <3>2. i \in Int /\ j \in Int
      BY <1>1
    <3> QED BY <3>1, <3>2
  <2>2. s[1].id \notin Ids(t)
    BY <1>2, <1>5 DEF Distinct, Ids
  <2> QED BY <2>1, <2>2 DEF Distinct
<1> QED BY <1>1, <1>4, <1>5 DEF t

(* A message carries a request and its job. *)
LEMMA MsgIsMessage ==
  ASSUME NEW m \in Msgs
  PROVE  m \in Messages /\ m # None /\ m.id \in Requests /\ m.job \in JobSet /\ m.job \in Jobs
  BY ServiceAssumption, ObjectAssumption DEF Msgs, Messages

(* The stream holds messages. *)
LEMMA MsgsAreMessages == ASSUME NEW s \in Seq(Msgs) PROVE s \in Seq(Messages)
<1>1. \A i \in 1 .. Len(s) : s[i] \in Messages
  BY MsgIsMessage
<1> QED BY <1>1

(* The shapes of the records that the threads hold. *)
IntakeType == [pc : {"top", "poll", "got", "done"}, msg : Messages \cup {None},
               link : {"$", "id", "lost"}]
WorkType == [msg : Messages \cup {None}, overview : Refs \cup {None}, crops : Seq(Refs),
             next : Nat \ {0}, encoded : BOOLEAN]

Labels == {"start", "lock", "checked", "waiting", "check", "resolve",
           "overview", "crops", "exited", "failed"}

(* The parts of the type invariant. *)
Types ==
  /\ LedgerTypes
  /\ unsent \subseteq Requests /\ stream \in Seq(Messages) /\ jobs \in Seq(Messages)
  /\ intake \in IntakeType /\ worker \in Labels /\ work \in WorkType
  /\ stopper \in {"running", "stop", "notify", "join", "join_intake", "done"}
  /\ stop \in BOOLEAN /\ stop_evidence \in BOOLEAN
  /\ before_stop \subseteq Requests
  /\ replies \in [Requests -> Seq(Replies)]

(* TypeOK in the parts the steps disturb. *)
LEMMA TypeParts == (TypeOK <=> Types) /\ (TypeOK' <=> Types')
<1>1. TypeOK <=> Types
  BY Zenon DEF TypeOK, Types, LedgerTypes, LedgerType, IntakeType, WorkType, Labels
<1>2. TypeOK' <=> Types'
  BY Zenon DEF TypeOK, Types, LedgerTypes, LedgerType, IntakeType, WorkType, Labels
<1> QED BY <1>1, <1>2

(* A step that moves no message and takes the worker from one place where it *)
(* holds none to another.                                                    *)
LEMMA NothingMoves ==
  ASSUME TypeOK, QueueInv, UNCHANGED <<unsent, jobs, before_stop, work, replies>>,
         stream' = stream \/ stream' = <<>>,
         intake'.msg = intake.msg, intake'.pc = "got" <=> intake.pc = "got",
         worker' = worker \/ ({worker, worker'} \cap {"check", "resolve", "overview", "crops", "exited"} = {}),
         stop => stop'
  PROVE  QueueInv'
<1>1. Carries'
  <2>1. stream' \in Seq(Msgs) /\ jobs' \in Seq(Msgs)
    <3>1. <<>> \in Seq(Msgs) /\ stream \in Seq(Msgs) /\ jobs \in Seq(Msgs)
      BY DEF QueueInv, Carries
    <3> QED BY <3>1
  <2> QED BY <2>1 DEF QueueInv, Carries, Busy
<1>2. OnePlace'
  <2>1. IntakeIds' = IntakeIds /\ WorkIds' = WorkIds /\ Answered' = Answered
    BY DEF IntakeIds, WorkIds, Answered
  <2> QED BY <2>1 DEF QueueInv, OnePlace, Ids, Distinct
<1>3. Drains'
  <2>1. WorkIds' = WorkIds /\ Answered' = Answered
    BY DEF WorkIds, Answered
  <2> QED BY <2>1 DEF QueueInv, Drains, Ids
<1> QED BY <1>1, <1>2, <1>3 DEF QueueInv

(* Publish: from the client to the broker. *)
LEMMA PublishMoves ==
  ASSUME TypeOK, QueueInv, NEW r \in Requests, NEW j \in JobSet, Publish(r, j)
  PROVE  unsent' \subseteq Requests /\ stream' \in Seq(Messages) /\ QueueInv'
<1> DEFINE m == [id |-> r, job |-> j]
<1>1. /\ r \in unsent /\ unsent' = unsent \ {r} /\ stream' = Append(stream, m)
      /\ UNCHANGED <<intake, jobs, before_stop, worker, work, replies, stop>>
  BY DEF Publish, control
<1>2. m \in Msgs /\ m.id = r
  BY DEF Msgs
<1> HIDE DEF m
<1>3. stream \in Seq(Msgs) /\ Distinct(stream) /\ r \notin Ids(stream)
  BY <1>1 DEF QueueInv, Carries, OnePlace
<1>4. stream' \in Seq(Msgs) /\ Ids(stream)' = Ids(stream) \cup {r} /\ Distinct(stream)'
  <2>1. /\ Append(stream, m) \in Seq(Msgs) /\ Ids(Append(stream, m)) = Ids(stream) \cup {r}
        /\ Distinct(Append(stream, m))
    BY <1>2, <1>3, Appended
  <2> QED BY <1>1, <2>1 DEF Ids, Distinct
<1>5. Ids(jobs)' = Ids(jobs) /\ Distinct(jobs)' = Distinct(jobs) /\ IntakeIds' = IntakeIds
      /\ WorkIds' = WorkIds /\ Answered' = Answered
  BY <1>1 DEF Ids, Distinct, IntakeIds, WorkIds, Answered
<1>6. Carries'
  BY <1>1, <1>4 DEF QueueInv, Carries, Busy
<1>7. OnePlace'
  BY <1>1, <1>4, <1>5 DEF QueueInv, OnePlace
<1>8. Drains'
  BY <1>1, <1>5 DEF QueueInv, Drains
<1>9. unsent' \subseteq Requests /\ stream' \in Seq(Messages)
  BY <1>1, <1>4, MsgsAreMessages DEF TypeOK
<1> QED BY <1>6, <1>7, <1>8, <1>9 DEF QueueInv

(* PollReturns: from the broker to the evidence thread. *)
LEMMA PollMoves ==
  ASSUME TypeOK, QueueInv, PollReturns
  PROVE  intake' \in IntakeType /\ stream' \in Seq(Messages) /\ QueueInv'
<1>1. intake.pc = "poll" /\ UNCHANGED <<unsent, jobs, before_stop, worker, work, replies, stop>>
  BY DEF PollReturns, control
<1>2. intake \in IntakeType
  BY TypeParts DEF Types
<1>3. CASE /\ stream # <<>> /\ stream' = Tail(stream)
           /\ intake' = [pc |-> "got", msg |-> Head(stream), link |-> "id"]
  <2>1. stream \in Seq(Msgs) /\ Distinct(stream) /\ intake.msg = None
    BY <1>1 DEF QueueInv, Carries, OnePlace
  <2>2. /\ Head(stream) \in Msgs /\ Tail(stream) \in Seq(Msgs)
        /\ Ids(stream) = Ids(Tail(stream)) \cup {Head(stream).id}
        /\ Distinct(Tail(stream)) /\ Head(stream).id \notin Ids(Tail(stream))
    BY <1>3, <2>1, TakenOut
  <2> DEFINE m == Head(stream)
             t == Tail(stream)
  <2> HIDE DEF m, t
  <2>3. /\ m \in Msgs /\ t \in Seq(Msgs) /\ stream' = t
        /\ intake' = [pc |-> "got", msg |-> m, link |-> "id"]
        /\ Ids(stream) = Ids(t) \cup {m.id} /\ Distinct(t) /\ m.id \notin Ids(t)
    BY <1>3, <2>2 DEF m, t
  <2>4. m \in Messages /\ m # None
    BY <2>3, MsgIsMessage
  <2>5. /\ intake'.pc = "got" /\ intake'.msg = m /\ intake' \in IntakeType
    BY <2>3, <2>4 DEF IntakeType
  <2>6. Ids(stream)' = Ids(t) /\ Distinct(stream)' /\ IntakeIds' = {m.id} /\ IntakeIds = {}
    BY <2>1, <2>3, <2>4, <2>5 DEF Ids, Distinct, IntakeIds
  <2>7. Ids(jobs)' = Ids(jobs) /\ Distinct(jobs)' = Distinct(jobs)
        /\ WorkIds' = WorkIds /\ Answered' = Answered
    BY <1>1 DEF Ids, Distinct, WorkIds, Answered
  <2>8. Carries'
    BY <1>1, <2>3, <2>4, <2>5 DEF QueueInv, Carries, Busy
  <2>9. OnePlace'
    BY <1>1, <2>3, <2>6, <2>7 DEF QueueInv, OnePlace
  <2>10. Drains'
    BY <1>1, <2>7 DEF QueueInv, Drains
  <2>11. stream' \in Seq(Messages)
    BY <2>3, MsgsAreMessages
  <2> QED BY <2>5, <2>8, <2>9, <2>10, <2>11 DEF QueueInv
<1>4. CASE /\ stream' = stream
           /\ \/ intake' = [intake EXCEPT !.pc = "top"]
              \/ intake' = [intake EXCEPT !.pc = "top", !.link = "lost"]
  <2>1. intake' \in IntakeType /\ intake'.pc = "top" /\ intake'.msg = intake.msg
    BY <1>2, <1>4 DEF IntakeType
  <2>2. QueueInv'
    BY <1>1, <1>4, <2>1, NothingMoves
  <2>3. stream' \in Seq(Messages)
    BY <1>4 DEF TypeOK
  <2> QED BY <2>1, <2>2, <2>3
<1> QED BY <1>3, <1>4 DEF PollReturns

(* Enqueue: from the evidence thread to the queue; a request that does not   *)
(* parse is dropped.                                                         *)
LEMMA EnqueueMoves ==
  ASSUME TypeOK, QueueInv, Enqueue
  PROVE  /\ intake' \in IntakeType /\ jobs' \in Seq(Messages) /\ before_stop' \subseteq Requests
         /\ QueueInv'
<1> DEFINE m == intake.msg
<1>1. /\ intake.pc = "got" /\ worker # "checked" /\ intake' = [intake EXCEPT !.pc = "top", !.msg = None]
      /\ UNCHANGED <<unsent, stream, work, replies, stop>>
  BY DEF Enqueue, QueueMutexFree, control
<1>2. m \in Msgs /\ m # None /\ m.id \in Requests /\ IntakeIds = {m.id}
  <2>1. m \in Msgs /\ m # None
    BY <1>1 DEF QueueInv, Carries
  <2> QED BY <2>1, MsgIsMessage DEF IntakeIds
<1>3. intake' \in IntakeType /\ intake'.pc = "top" /\ intake'.msg = None /\ IntakeIds' = {}
  BY <1>1, TypeParts DEF Types, IntakeType, IntakeIds
<1>4. Ids(stream)' = Ids(stream) /\ Distinct(stream)' = Distinct(stream)
      /\ WorkIds' = WorkIds /\ Answered' = Answered
  BY <1>1 DEF Ids, Distinct, WorkIds, Answered
<1>5. CASE m.job.valid
  <2>1. /\ jobs' = Append(jobs, m) /\ worker' = (IF worker = "waiting" THEN "lock" ELSE worker)
        /\ before_stop' = IF stop THEN before_stop ELSE before_stop \cup {m.id}
    BY <1>5 DEF Enqueue
  <2>2. jobs \in Seq(Msgs) /\ Distinct(jobs) /\ m.id \notin Ids(jobs)
    BY <1>2 DEF QueueInv, Carries, OnePlace
  <2>3. jobs' \in Seq(Msgs) /\ Ids(jobs)' = Ids(jobs) \cup {m.id} /\ Distinct(jobs)'
    <3>1. /\ Append(jobs, m) \in Seq(Msgs) /\ Ids(Append(jobs, m)) = Ids(jobs) \cup {m.id}
          /\ Distinct(Append(jobs, m))
      BY <1>2, <2>2, Appended
    <3> QED BY <2>1, <3>1 DEF Ids, Distinct
  <2> HIDE DEF m
  <2>4. Carries'
    BY <1>1, <1>3, <2>1, <2>3 DEF QueueInv, Carries, Busy
  <2>5. OnePlace'
    BY <1>1, <1>2, <1>3, <1>4, <2>3 DEF QueueInv, OnePlace
  <2>6. Drains'
    BY <1>1, <1>4, <2>1, <2>3 DEF QueueInv, Drains
  <2>7. jobs' \in Seq(Messages)
    BY <2>3, MsgsAreMessages
  <2>8. before_stop' \subseteq Requests
    BY <1>2, <2>1 DEF TypeOK
  <2> QED BY <1>3, <2>4, <2>5, <2>6, <2>7, <2>8 DEF QueueInv
<1>6. CASE ~m.job.valid
  <2>1. UNCHANGED <<jobs, worker, before_stop>>
    BY <1>6 DEF Enqueue
  <2>2. Ids(jobs)' = Ids(jobs) /\ Distinct(jobs)' = Distinct(jobs)
    BY <2>1 DEF Ids, Distinct
  <2>3. Carries'
    BY <1>1, <1>3, <2>1 DEF QueueInv, Carries, Busy
  <2>4. OnePlace'
    BY <1>1, <1>2, <1>3, <1>4, <2>2 DEF QueueInv, OnePlace
  <2>5. Drains'
    BY <1>1, <1>4, <2>1, <2>2 DEF QueueInv, Drains
  <2>6. jobs' \in Seq(Messages) /\ before_stop' \subseteq Requests
    BY <2>1 DEF TypeOK
  <2> QED BY <1>3, <2>3, <2>4, <2>5, <2>6 DEF QueueInv
<1> QED BY <1>5, <1>6

(* NoWork has the shape of the locals. *)
LEMMA NoWorkType == NoWork \in WorkType /\ NoWork.msg = None
<1>1. <<>> \in Seq(Refs)
  OBVIOUS
<1> QED BY <1>1 DEF NoWork, WorkType

(* TakeJob: from the queue to the worker, or the worker goes. *)
LEMMA TakeMoves ==
  ASSUME TypeOK, QueueInv, TakeJob
  PROVE  /\ work' \in WorkType /\ jobs' \in Seq(Messages) /\ QueueInv'
         /\ worker' \in {"check", "checked", "exited"}
         /\ worker' = "check" => work'.next = 1
<1>1. worker = "lock" /\ UNCHANGED <<unsent, stream, intake, before_stop, replies, stop>>
  BY DEF TakeJob, control
<1>2. work.msg = None /\ WorkIds = {}
  BY <1>1 DEF QueueInv, Carries, Busy, WorkIds
<1>3. work \in WorkType /\ jobs \in Seq(Messages)
  BY TypeParts DEF Types
<1>4. Ids(stream)' = Ids(stream) /\ Distinct(stream)' = Distinct(stream)
      /\ IntakeIds' = IntakeIds /\ Answered' = Answered
  BY <1>1 DEF Ids, Distinct, IntakeIds, Answered
<1>5. CASE stop /\ jobs = <<>> /\ worker' = "exited" /\ UNCHANGED <<jobs, work>>
  <2>1. /\ Ids(jobs)' = Ids(jobs) /\ Distinct(jobs)' = Distinct(jobs) /\ WorkIds' = WorkIds
        /\ Ids(jobs) = {}
    BY <1>5 DEF Ids, Distinct, WorkIds
  <2>2. Carries'
    BY <1>1, <1>2, <1>5 DEF QueueInv, Carries, Busy
  <2>3. OnePlace'
    BY <1>1, <1>4, <2>1 DEF QueueInv, OnePlace
  <2>4. Drains'
    BY <1>1, <1>2, <1>4, <1>5, <2>1 DEF QueueInv, Drains
  <2> QED BY <1>3, <1>5, <2>2, <2>3, <2>4 DEF QueueInv
<1>6. CASE /\ jobs # <<>> /\ worker' = "check"
           /\ work' = [NoWork EXCEPT !.msg = Head(jobs)] /\ jobs' = Tail(jobs)
  <2>1. jobs \in Seq(Msgs) /\ Distinct(jobs)
    BY DEF QueueInv, Carries, OnePlace
  <2>2. /\ Head(jobs) \in Msgs /\ Tail(jobs) \in Seq(Msgs)
        /\ Ids(jobs) = Ids(Tail(jobs)) \cup {Head(jobs).id}
        /\ Distinct(Tail(jobs)) /\ Head(jobs).id \notin Ids(Tail(jobs))
    BY <1>6, <2>1, TakenOut
  <2> DEFINE m == Head(jobs)
             t == Tail(jobs)
  <2> HIDE DEF m, t
  <2>3. /\ m \in Msgs /\ t \in Seq(Msgs) /\ jobs' = t /\ work' = [NoWork EXCEPT !.msg = m]
        /\ Ids(jobs) = Ids(t) \cup {m.id} /\ Distinct(t) /\ m.id \notin Ids(t)
    BY <1>6, <2>2 DEF m, t
  <2>4. m \in Messages /\ m # None
    BY <2>3, MsgIsMessage
  <2>5. work' \in WorkType /\ work'.msg = m /\ work'.next = 1
    <3>1. NoWork \in WorkType /\ NoWork.next = 1
      BY NoWorkType DEF NoWork
    <3> QED BY <2>3, <2>4, <3>1 DEF WorkType
  <2>6. Ids(jobs)' = Ids(t) /\ Distinct(jobs)' /\ WorkIds' = {m.id}
    BY <2>3, <2>4, <2>5 DEF Ids, Distinct, WorkIds
  <2>7. Carries'
    BY <1>1, <1>6, <2>3, <2>4, <2>5 DEF QueueInv, Carries, Busy
  <2>8. OnePlace'
    BY <1>1, <1>2, <1>4, <2>3, <2>6 DEF QueueInv, OnePlace
  <2>9. Drains'
    BY <1>1, <1>2, <1>4, <1>6, <2>3, <2>6 DEF QueueInv, Drains
  <2>10. jobs' \in Seq(Messages)
    BY <2>3, MsgsAreMessages
  <2> QED BY <1>6, <2>5, <2>7, <2>8, <2>9, <2>10 DEF QueueInv
<1>7. CASE worker' = "checked" /\ UNCHANGED <<jobs, work>>
  <2>1. QueueInv'
    BY <1>1, <1>7, NothingMoves
  <2> QED BY <1>3, <1>7, <2>1
<1> QED BY <1>5, <1>6, <1>7 DEF TakeJob

-----------------------------------------------------------------------------
(* process_job *)

(* OkMeansWritten of one step. *)
OkStep ==
  \A r \in Requests : Len(replies'[r]) > Len(replies[r]) =>
    LET rep == replies'[r][Len(replies'[r])]
    IN rep.status = "ok" => /\ Owed(job) \subseteq Named(rep)
                            /\ \A ref \in Named(rep) : written'[<<job.frame, ref>>] # None

(* A step that answers nobody. *)
LEMMA NobodyAnswered == ASSUME TypeOK, UNCHANGED replies PROVE OkStep
<1>1. \A r \in Requests : Len(replies[r]) \in Nat
  BY DEF TypeOK
<1> QED BY <1>1 DEF OkStep

(* What a step answers with: the references it names. *)
Names(ov, cr) == ({ov} \ {None}) \cup {cr[n] : n \in DOMAIN cr}

(* The answer to the request the worker holds, which had none before. *)
LEMMA AnswerMoves ==
  ASSUME TypeOK, QueueInv, Busy, UNCHANGED <<queue, stop>>,
         NEW st \in {"ok", "error", "not_found"}, NEW ov \in Refs \cup {None},
         NEW cr \in Seq(Refs), NEW re \in {"encoded", "already_encoded", None},
         publish_ready(st, ov, cr, re),
         st = "ok" => /\ Owed(job) \subseteq Names(ov, cr)
                      /\ \A ref \in Names(ov, cr) : written'[<<job.frame, ref>>] # None
  PROVE  /\ QueueInv' /\ replies' \in [Requests -> Seq(Replies)] /\ work' \in WorkType
         /\ worker' = "lock" /\ OkStep
<1> DEFINE x == work.msg.id
<1>0. PICK sent \in BOOLEAN :
        replies' = [replies EXCEPT ![x] = Append(@, [status |-> st, overview |-> ov, crops |-> cr,
                                                     reason |-> re, sent |-> sent])]
  BY DEF publish_ready
<1> DEFINE rep == [status |-> st, overview |-> ov, crops |-> cr, reason |-> re, sent |-> sent]
<1>1. /\ replies' = [replies EXCEPT ![x] = Append(replies[x], rep)]
      /\ worker' = "lock" /\ work' = NoWork
  BY <1>0 DEF publish_ready
<1>2. UNCHANGED <<unsent, stream, intake, jobs, before_stop, stop>>
  BY DEF queue
<1>3. work.msg \in Msgs /\ work.msg # None /\ x \in Requests /\ WorkIds = {x}
  <2>1. work.msg \in Msgs /\ work.msg # None
    BY DEF QueueInv, Carries
  <2> QED BY <2>1, MsgIsMessage DEF WorkIds
<1>4. replies \in [Requests -> Seq(Replies)] /\ rep \in Replies
  BY DEF TypeOK, Replies
<1>5. rep.status = st /\ Named(rep) = Names(ov, cr)
  BY DEF Named, Names
<1> HIDE DEF x, rep
<1>6. replies[x] = <<>>
  BY <1>3 DEF QueueInv, OnePlace, Answered
<1>7. /\ replies' \in [Requests -> Seq(Replies)] /\ replies'[x] = <<rep>>
      /\ \A r \in Requests : r # x => replies'[r] = replies[r]
  <2>1. Append(replies[x], rep) = <<rep>> /\ <<rep>> \in Seq(Replies)
    BY <1>4, <1>6
  <2> QED BY <1>1, <1>3, <1>4, <2>1
<1>8. Answered' = Answered \cup {x}
  <2>1. <<rep>> # <<>>
    OBVIOUS
  <2> QED BY <1>3, <1>7, <2>1 DEF Answered
<1>9. work' \in WorkType /\ work'.msg = None /\ WorkIds' = {}
  BY <1>1, NoWorkType DEF WorkIds
<1>10. Carries'
  BY <1>1, <1>2, <1>9 DEF QueueInv, Carries, Busy
<1>11. OnePlace'
  <2>1. /\ Ids(stream)' = Ids(stream) /\ Distinct(stream)' = Distinct(stream)
        /\ Ids(jobs)' = Ids(jobs) /\ Distinct(jobs)' = Distinct(jobs) /\ IntakeIds' = IntakeIds
    BY <1>2 DEF Ids, Distinct, IntakeIds
  <2>2. Len(<<rep>>) <= 1
    OBVIOUS
  <2>3. \A r \in Requests : Len(replies'[r]) <= 1
    <3> TAKE r \in Requests
    <3>1. Len(replies[r]) <= 1
      BY DEF QueueInv, OnePlace
    <3>2. CASE r = x
      <4>1. replies'[r] = <<rep>>
        BY <1>7, <3>2
      <4> QED BY <2>2, <4>1
    <3>3. CASE r # x
      BY <1>7, <3>1, <3>3
    <3> QED BY <3>2, <3>3
  <2> QED BY <1>2, <1>3, <1>8, <1>9, <2>1, <2>3 DEF QueueInv, OnePlace
<1>12. Drains'
  <2>1. Ids(jobs)' = Ids(jobs)
    BY <1>2 DEF Ids
  <2> QED BY <1>1, <1>2, <1>3, <1>8, <1>9, <2>1 DEF QueueInv, Drains
<1>13. OkStep
  <2> SUFFICES ASSUME NEW r \in Requests, Len(replies'[r]) > Len(replies[r]),
                      replies'[r][Len(replies'[r])].status = "ok"
               PROVE  LET a == replies'[r][Len(replies'[r])]
                      IN /\ Owed(job) \subseteq Named(a)
                         /\ \A ref \in Named(a) : written'[<<job.frame, ref>>] # None
    BY DEF OkStep
  <2>1. r = x
    <3>1. Len(replies[r]) \in Nat
      BY <1>4
    <3> QED BY <1>7, <3>1
  <2>2. replies'[r][Len(replies'[r])] = rep
    BY <1>7, <2>1
  <2> QED BY <1>5, <2>2
<1> QED BY <1>1, <1>7, <1>9, <1>10, <1>11, <1>12, <1>13 DEF QueueInv

(* The worker goes on with the request it holds. *)
LEMMA WorkGoesOn ==
  ASSUME TypeOK, QueueInv, Busy, UNCHANGED <<queue, stop, replies>>, work'.msg = work.msg,
         worker' \in {"resolve", "overview", "crops"}
  PROVE  QueueInv' /\ OkStep
<1>1. UNCHANGED <<unsent, stream, intake, jobs, before_stop, stop, replies>>
  BY DEF queue
<1>2. Carries'
  BY <1>1 DEF QueueInv, Carries, Busy
<1>3. OnePlace'
  <2>1. IntakeIds' = IntakeIds /\ WorkIds' = WorkIds /\ Answered' = Answered
    BY <1>1 DEF IntakeIds, WorkIds, Answered
  <2> QED BY <1>1, <2>1 DEF QueueInv, OnePlace, Ids, Distinct
<1>4. Drains'
  <2>1. WorkIds' = WorkIds /\ Answered' = Answered
    BY <1>1 DEF WorkIds, Answered
  <2> QED BY <1>1, <2>1 DEF QueueInv, Drains, Ids
<1> QED BY <1>1, <1>2, <1>3, <1>4, NobodyAnswered DEF QueueInv

(* What the worker holds is a request of a client. *)
LEMMA JobIs ==
  ASSUME TypeOK, QueueInv, Busy
  PROVE  /\ job \in JobSet /\ job.frame \in Frames /\ job.overview \in {OverviewRef, None}
         /\ job.objects \in Seq({CropRefs[n] : n \in DOMAIN CropRefs} \cup {None})
         /\ \A ref \in Refs : <<job.frame, ref>> \in RefKeys
         /\ OverviewRef \in Refs /\ None \notin Refs
<1>1. work.msg \in Msgs
  BY DEF QueueInv, Carries
<1>2. job \in JobSet /\ job \in Jobs
  BY <1>1, MsgIsMessage DEF job
<1>3. /\ job.frame \in Frames /\ job.overview \in {OverviewRef, None}
      /\ job.objects \in Seq({CropRefs[n] : n \in DOMAIN CropRefs} \cup {None})
  BY <1>2 DEF Jobs
<1> QED BY <1>2, <1>3, ObjectAssumption DEF RefKeys, Refs

(* The reference the worker stands at. *)
LEMMA OutputRefIs ==
  ASSUME TypeOK, QueueInv, Busy, MoreCrops
  PROVE  /\ work.next \in DOMAIN request_objects
         /\ output_ref \in Refs /\ output_ref = RefOf(job, work.next)
<1> DEFINE C == {CropRefs[n] : n \in DOMAIN CropRefs}
<1>1. CropRefs \in Seq(C) /\ None \notin Refs /\ C \subseteq Refs
  BY ObjectAssumption DEF Refs
<1>2. job \in JobSet /\ job.objects \in Seq(C \cup {None})
  BY JobIs
<1>3. work.next \in Nat \ {0} /\ work.next <= Len(request_objects)
  BY DEF TypeOK, MoreCrops
<1>4. \A n \in DOMAIN CropRefs : CropRefs[n] \in C /\ CropRefs[n] \in Refs /\ CropRefs[n] # None
  BY <1>1
<1> HIDE DEF C
<1>5. CASE job.objects = <<>>
  <2>1. request_objects = CropRefs /\ work.next \in DOMAIN CropRefs
    BY <1>1, <1>3, <1>5 DEF request_objects
  <2> QED BY <1>4, <1>5, <2>1 DEF output_ref, RefOf
<1>6. CASE job.objects # <<>>
  <2>1. request_objects = job.objects /\ work.next \in DOMAIN job.objects
    BY <1>2, <1>3, <1>6 DEF request_objects
  <2>2. CASE job.objects[work.next] = None
    <3>1. work.next \in DOMAIN CropRefs
      BY <1>2, <2>1, <2>2, ObjectAssumption
    <3> QED BY <1>4, <2>1, <2>2, <3>1 DEF output_ref, RefOf
  <2>3. CASE job.objects[work.next] # None
    <3>1. job.objects[work.next] \in C
      BY <1>2, <2>1, <2>3
    <3> QED BY <1>1, <1>6, <2>1, <2>3, <3>1 DEF output_ref, RefOf
  <2> QED BY <2>2, <2>3
<1> QED BY <1>5, <1>6

(* A file on disk stays there. *)
LEMMA WrittenStays ==
  ASSUME LedgerTypes, written' = written \/ \E key \in RefKeys : written' = [written EXCEPT ![key] = now]
  PROVE  \A k \in RefKeys : written[k] # None => written'[k] # None
<1>1. now # None
  BY ObjectAssumption DEF LedgerTypes
<1> QED BY <1>1 DEF LedgerTypes

(* The parts of the type invariant a step of process_job leaves alone. *)
LEMMA ProcessTypes ==
  ASSUME TypeOK, UNCHANGED <<queue, control>>, LedgerTypes', worker' \in Labels, work' \in WorkType,
         replies' \in [Requests -> Seq(Replies)]
  PROVE  TypeOK'
  BY TypeParts DEF Types, queue, control

(* NoReencode of one step. *)
RewriteStep ==
  \A k \in RefKeys : written'[k] # written[k] /\ written[k] # None =>
    \/ now - written[k] > Ttl
    \/ MaxRecent > 0 /\ Cardinality(Younger(written, k)) >= MaxRecent

(* A reference comes from the ledger or is written: either way it is on disk *)
(* afterwards.                                                               *)
LEMMA ProvideIs ==
  ASSUME LedgerTypes, LedgerInv, NEW key \in RefKeys, now' = now,
         Provide(key, Pruned(recent, order, now))
  PROVE  /\ LedgerTypes' /\ LedgerInv' /\ RewriteStep
         /\ written'[key] # None
         /\ \A k \in RefKeys : written[k] # None => written'[k] # None
<1> DEFINE p == Pruned(recent, order, now)
<1>0. p \in PrunedNow
  BY DEF PrunedNow
<1> HIDE DEF p
<1>1. CASE was_recently_encoded(p.rec, key)
  <2>1. recent' = p.rec /\ order' = p.ord /\ written' = written
    BY <1>1 DEF Provide, p
  <2>2. LedgerTypes' /\ LedgerInv'
    BY <1>0, <2>1, LooksKeeps DEF Looks
  <2>3. recent'[key] # None
    BY <1>1, <2>1 DEF was_recently_encoded
  <2>4. written'[key] # None
    BY <2>2, <2>3 DEF LedgerInv, Remembers
  <2> QED BY <2>1, <2>2, <2>4 DEF RewriteStep
<1>2. CASE ~was_recently_encoded(p.rec, key)
  <2>1. Materialize(key, p)
    BY <1>2 DEF Provide, p
  <2>2. Writes(key)
    BY <1>0, <1>2, <2>1 DEF Writes
  <2>3. LedgerTypes' /\ LedgerInv' /\ RewriteStep
    BY <2>2, WritesKeeps, WritesRightly DEF RewriteStep
  <2>4. written' = [written EXCEPT ![key] = now]
    BY <2>1 DEF Materialize
  <2>5. \A k \in RefKeys : written[k] # None => written'[k] # None
    BY <2>4, WrittenStays
  <2>6. written'[key] # None
    BY <2>4, ObjectAssumption DEF LedgerTypes
  <2> QED BY <2>3, <2>5, <2>6
<1> QED BY <1>1, <1>2

(* A look at the ledger, or none. *)
LEMMA LookIs ==
  ASSUME LedgerTypes, LedgerInv, UNCHANGED <<now, written>>, UNCHANGED ledger \/ Looks
  PROVE  LedgerTypes' /\ LedgerInv' /\ RewriteStep
<1>1. CASE Looks
  BY <1>1, LooksKeeps DEF RewriteStep
<1>2. CASE UNCHANGED ledger
  BY <1>2 DEF ledger, LedgerTypes, LedgerInv, RewriteStep
<1> QED BY <1>1, <1>2

StepOK == IInv' /\ OkStep /\ RewriteStep

(* A step of process_job that ends in an answer. *)
LEMMA AnswerIs ==
  ASSUME IInv, Busy, UNCHANGED <<now, queue, control, written>>, UNCHANGED ledger \/ Looks,
         NEW st \in {"ok", "error", "not_found"}, NEW ov \in Refs \cup {None},
         NEW cr \in Seq(Refs), NEW re \in {"encoded", "already_encoded", None},
         publish_ready(st, ov, cr, re),
         st = "ok" => /\ Owed(job) \subseteq Names(ov, cr)
                      /\ \A ref \in Names(ov, cr) : written'[<<job.frame, ref>>] # None
  PROVE  StepOK
<1>1. TypeOK /\ QueueInv /\ LedgerInv /\ LedgerTypes
  BY TypeParts DEF IInv, Types
<1>2. LedgerTypes' /\ LedgerInv' /\ RewriteStep
  BY <1>1, LookIs
<1>3. UNCHANGED <<queue, stop, control>>
  BY DEF control
<1>4. /\ QueueInv' /\ replies' \in [Requests -> Seq(Replies)] /\ work' \in WorkType
      /\ worker' = "lock" /\ OkStep
  BY <1>1, <1>3, AnswerMoves
<1>5. TypeOK'
  BY <1>1, <1>2, <1>3, <1>4, ProcessTypes DEF Labels
<1>6. Collected'
  BY <1>4 DEF Collected
<1> QED BY <1>2, <1>4, <1>5, <1>6 DEF StepOK, IInv

(* A step of process_job that goes on. *)
LEMMA GoesOnIs ==
  ASSUME IInv, Busy, UNCHANGED <<queue, control, replies>>, LedgerTypes', LedgerInv', RewriteStep,
         work' \in WorkType, work'.msg = work.msg, worker' \in {"resolve", "overview", "crops"},
         Collected'
  PROVE  StepOK
<1>1. TypeOK /\ QueueInv
  BY DEF IInv
<1>2. UNCHANGED <<queue, stop, replies, control>>
  BY DEF control
<1>3. QueueInv' /\ OkStep
  BY <1>1, <1>2, WorkGoesOn
<1>4. TypeOK'
  <2>1. replies' \in [Requests -> Seq(Replies)]
    BY <1>1, <1>2 DEF TypeOK
  <2> QED BY <1>1, <1>2, <2>1, ProcessTypes DEF Labels
<1> QED BY <1>3, <1>4 DEF StepOK, IInv

(* What the worker knows of the request before a step. *)
LEMMA BusyFacts ==
  ASSUME IInv, Busy
  PROVE  /\ TypeOK /\ QueueInv /\ LedgerInv /\ Collected /\ LedgerTypes /\ work \in WorkType
         /\ job \in JobSet /\ job.overview \in {OverviewRef, None}
         /\ job.objects \in Seq({CropRefs[n] : n \in DOMAIN CropRefs} \cup {None})
         /\ \A ref \in Refs : <<job.frame, ref>> \in RefKeys
         /\ OverviewRef \in Refs /\ None \notin Refs
<1>1. TypeOK /\ QueueInv /\ LedgerInv /\ Collected /\ LedgerTypes /\ work \in WorkType
  BY TypeParts DEF IInv, Types
<1> QED BY <1>1, JobIs

(* The references of the first look, as the ledger p has them. *)
Known(p, ref) == ref # None /\ was_recently_encoded(p.rec, <<job.frame, ref>>)
AllCrops(p) == job.objects # <<>> /\ \A n \in DOMAIN job.objects : Known(p, job.objects[n])
FoundOverview(p) == IF needs_overview(job) /\ Known(p, job.overview) THEN job.overview ELSE None
FoundCrops(p) == IF needs_crops(job) /\ AllCrops(p) THEN job.objects ELSE <<>>

(* The first look at the ledger: what it finds is on disk, and it answers    *)
(* only when it has found everything.                                        *)
LEMMA CheckLedgerStep == ASSUME IInv, CheckLedger PROVE StepOK
<1>0. worker = "check" /\ Busy /\ UNCHANGED <<now, queue, control, written>>
  BY DEF CheckLedger, Busy
<1>1. PICK p \in PrunedNow \cup {[rec |-> recent, ord |-> order]} :
        /\ recent' = p.rec /\ order' = p.ord
        /\ IF (needs_overview(job) => FoundOverview(p) # None) /\ (needs_crops(job) => AllCrops(p))
           THEN publish_ready("ok", FoundOverview(p), FoundCrops(p), "already_encoded")
           ELSE /\ worker' = "resolve"
                /\ work' = [work EXCEPT !.overview = FoundOverview(p), !.crops = FoundCrops(p)]
                /\ UNCHANGED replies
  BY DEF CheckLedger, FoundOverview, FoundCrops, AllCrops, Known
<1>2. /\ TypeOK /\ QueueInv /\ LedgerInv /\ Collected /\ LedgerTypes /\ work \in WorkType
      /\ job \in JobSet /\ job.overview \in {OverviewRef, None}
      /\ job.objects \in Seq({CropRefs[n] : n \in DOMAIN CropRefs} \cup {None})
      /\ \A ref \in Refs : <<job.frame, ref>> \in RefKeys
      /\ OverviewRef \in Refs /\ None \notin Refs
  BY <1>0, BusyFacts
<1>3. UNCHANGED ledger \/ Looks
  BY <1>0, <1>1 DEF ledger, Looks
<1>4. LedgerTypes' /\ LedgerInv' /\ RewriteStep
  BY <1>0, <1>2, <1>3, LookIs
<1>5. \A ref \in Refs : Known(p, ref) => written[<<job.frame, ref>>] # None
  <2> TAKE ref \in Refs
  <2> HAVE Known(p, ref)
  <2>1. recent'[<<job.frame, ref>>] # None /\ <<job.frame, ref>> \in RefKeys
    BY <1>1, <1>2 DEF Known, was_recently_encoded
  <2>2. recent'[<<job.frame, ref>>] = written'[<<job.frame, ref>>]
    BY <1>4, <2>1 DEF LedgerInv, Remembers
  <2> QED BY <1>0, <2>1, <2>2
<1>6. /\ FoundOverview(p) \in {OverviewRef, None}
      /\ FoundOverview(p) # None => written[<<job.frame, OverviewRef>>] # None
  BY <1>2, <1>5 DEF FoundOverview
<1>7. /\ FoundCrops(p) \in Seq(Refs)
      /\ \A n \in DOMAIN FoundCrops(p) : written[<<job.frame, FoundCrops(p)[n]>>] # None
  <2>1. CASE needs_crops(job) /\ AllCrops(p)
    <3>1. FoundCrops(p) = job.objects
      BY <2>1 DEF FoundCrops
    <3>2. \A n \in DOMAIN job.objects : job.objects[n] \in Refs /\ Known(p, job.objects[n])
      <4> DEFINE C == {CropRefs[i] : i \in DOMAIN CropRefs}
      <4>1. C \subseteq Refs
        BY DEF Refs
      <4> HIDE DEF C
      <4>2. \A n \in DOMAIN job.objects : job.objects[n] \in C \cup {None}
        BY <1>2 DEF C
      <4> QED BY <2>1, <4>1, <4>2 DEF AllCrops, Known
    <3>3. job.objects \in Seq(Refs)
      BY <1>2, <3>2
    <3> QED BY <1>5, <3>1, <3>2, <3>3
  <2>2. CASE ~(needs_crops(job) /\ AllCrops(p))
    <3>1. FoundCrops(p) = <<>>
      BY <2>2 DEF FoundCrops
    <3> QED BY <3>1
  <2> QED BY <2>1, <2>2
<1>8. CASE /\ (needs_overview(job) => FoundOverview(p) # None) /\ (needs_crops(job) => AllCrops(p))
           /\ publish_ready("ok", FoundOverview(p), FoundCrops(p), "already_encoded")
  <2> DEFINE ov == FoundOverview(p)
             cr == FoundCrops(p)
  <2>1. needs_overview(job) => OverviewRef \in Names(ov, cr)
    BY <1>2, <1>6, <1>8 DEF Names
  <2>2. ASSUME needs_crops(job), NEW n \in DOMAIN job.objects
        PROVE  job.objects[n] # None /\ job.objects[n] \in Names(ov, cr)
    <3>1. AllCrops(p) /\ FoundCrops(p) = job.objects
      BY <1>8, <2>2 DEF FoundCrops
    <3> QED BY <2>2, <3>1 DEF AllCrops, Known, Names
  <2>3. Owed(job) \subseteq Names(ov, cr)
    BY <2>1, <2>2 DEF Owed
  <2>4. \A ref \in Names(ov, cr) : written'[<<job.frame, ref>>] # None
    BY <1>0, <1>6, <1>7 DEF Names
  <2>5. ov \in Refs \cup {None} /\ cr \in Seq(Refs)
    BY <1>2, <1>6, <1>7
  <2> QED BY <1>0, <1>3, <1>8, <2>3, <2>4, <2>5, AnswerIs
<1>9. CASE /\ worker' = "resolve" /\ UNCHANGED replies
           /\ work' = [work EXCEPT !.overview = FoundOverview(p), !.crops = FoundCrops(p)]
  <2>1. FoundOverview(p) \in Refs \cup {None}
    BY <1>2, <1>6
  <2>2. /\ work' \in WorkType /\ work'.msg = work.msg /\ work'.overview = FoundOverview(p)
        /\ work'.crops = FoundCrops(p) /\ work'.next = work.next
    BY <1>2, <1>7, <1>9, <2>1 DEF WorkType
  <2>3. job' = job
    BY <2>2 DEF job
  <2>4. work.next = 1
    BY <1>0 DEF IInv, Collected
  <2>5. Collected'
    <3>1. request_objects' = request_objects /\ \A n \in DOMAIN request_objects : ~(n < 1)
      <4>1. request_objects' = request_objects
        BY <2>3 DEF request_objects
      <4>2. CropRefs \in Seq({CropRefs[n] : n \in DOMAIN CropRefs})
        BY ObjectAssumption
      <4>3. DOMAIN CropRefs \subseteq Nat \ {0} /\ DOMAIN job.objects \subseteq Nat \ {0}
        BY <1>2, <4>2
      <4> QED BY <4>1, <4>3 DEF request_objects
    <3> QED BY <1>0, <1>6, <1>7, <1>9, <2>2, <2>3, <2>4, <3>1 DEF Collected, IsWritten
  <2> QED BY <1>0, <1>4, <1>9, <2>2, <2>5, GoesOnIs
<1> QED BY <1>1, <1>8, <1>9

(* The objects of a request are numbered from 1. *)
LEMMA ObjectsIndex ==
  ASSUME IInv, Busy
  PROVE  Len(request_objects) \in Nat /\ DOMAIN request_objects = 1 .. Len(request_objects)
<1>1. CropRefs \in Seq({CropRefs[n] : n \in DOMAIN CropRefs})
  BY ObjectAssumption
<1>2. job.objects \in Seq({CropRefs[n] : n \in DOMAIN CropRefs} \cup {None})
  BY BusyFacts
<1> QED BY <1>1, <1>2 DEF request_objects

(* The frame is not there, or the work begins. *)
LEMMA ResolveFrameStep == ASSUME IInv, ResolveFrame PROVE StepOK
<1>0. worker = "resolve" /\ Busy /\ UNCHANGED <<now, queue, ledger, control, written>>
  BY DEF ResolveFrame, Busy
<1>1. /\ TypeOK /\ QueueInv /\ LedgerInv /\ Collected /\ LedgerTypes /\ work \in WorkType
  BY <1>0, BusyFacts
<1>2. CASE publish_ready("not_found", None, <<>>, None)
  <2>1. <<>> \in Seq(Refs)
    OBVIOUS
  <2> QED BY <1>0, <1>2, <2>1, AnswerIs
<1>3. CASE worker' = (IF needs_overview(job) THEN "overview" ELSE "crops") /\ UNCHANGED <<work, replies>>
  <2>1. LedgerTypes' /\ LedgerInv' /\ RewriteStep
    BY <1>0, <1>1, LookIs
  <2>2. job' = job /\ request_objects' = request_objects
    BY <1>3 DEF job, request_objects
  <2>3. Collected'
    BY <1>0, <1>1, <1>3, <2>2 DEF Collected, IsWritten
  <2> QED BY <1>0, <1>1, <1>3, <2>1, <2>3, GoesOnIs
<1> QED BY <1>2, <1>3 DEF ResolveFrame

(* The overview is on disk, from now or from before. *)
LEMMA EncodeOverviewStep == ASSUME IInv, EncodeOverview PROVE StepOK
<1> DEFINE key == <<job.frame, OverviewRef>>
           p == Pruned(recent, order, now)
<1>0. worker = "overview" /\ Busy /\ UNCHANGED <<now, queue, control, replies>> /\ worker' = "crops"
  BY DEF EncodeOverview, Busy
<1>1. /\ TypeOK /\ QueueInv /\ LedgerInv /\ Collected /\ LedgerTypes /\ work \in WorkType
      /\ \A ref \in Refs : <<job.frame, ref>> \in RefKeys
      /\ OverviewRef \in Refs /\ None \notin Refs
  BY <1>0, BusyFacts
<1>2. /\ Provide(key, p)
      /\ work' = [work EXCEPT !.overview = OverviewRef,
                              !.encoded = work.encoded \/ ~was_recently_encoded(p.rec, key)]
  BY DEF EncodeOverview, PrunedNow
<1> HIDE DEF p
<1>3. /\ LedgerTypes' /\ LedgerInv' /\ RewriteStep /\ written'[key] # None
      /\ \A k \in RefKeys : written[k] # None => written'[k] # None
  BY <1>0, <1>1, <1>2, ProvideIs DEF p
<1>4. /\ work' \in WorkType /\ work'.msg = work.msg /\ work'.overview = OverviewRef
      /\ work'.crops = work.crops /\ work'.next = work.next
  <2> DEFINE e == work.encoded \/ ~was_recently_encoded(p.rec, key)
  <2>1. e \in BOOLEAN
    OBVIOUS
  <2>2. work' = [work EXCEPT !.overview = OverviewRef, !.encoded = e]
    BY <1>2
  <2> HIDE DEF e
  <2> QED BY <1>1, <2>1, <2>2 DEF WorkType
<1>5. job' = job /\ request_objects' = request_objects
  BY <1>4 DEF job, request_objects
<1>6. \A n \in DOMAIN work.crops : work.crops[n] \in Refs /\ <<job.frame, work.crops[n]>> \in RefKeys
  BY <1>1 DEF WorkType
<1>7. Collected'
  BY <1>0, <1>1, <1>3, <1>4, <1>5, <1>6 DEF Collected, IsWritten
<1> QED BY <1>0, <1>3, <1>4, <1>7, GoesOnIs

(* A look at the ledger that found nothing, or none. *)
LEMMA FailLooks ==
  ASSUME NEW key,
         \/ UNCHANGED ledger
         \/ \E p \in PrunedNow : /\ ~was_recently_encoded(p.rec, key)
                                /\ recent' = p.rec /\ order' = p.ord,
         UNCHANGED written
  PROVE  UNCHANGED ledger \/ Looks
  BY DEF Looks

(* The overview cannot be written: the job fails. *)
LEMMA EncodeOverviewFailsStep == ASSUME IInv, EncodeOverviewFails PROVE StepOK
<1>0. /\ worker = "overview" /\ Busy /\ UNCHANGED <<now, queue, control, written>>
      /\ publish_ready("error", None, <<>>, None)
  BY DEF EncodeOverviewFails, Busy
<1>1. UNCHANGED ledger \/ Looks
  BY <1>0, FailLooks DEF EncodeOverviewFails
<1>2. <<>> \in Seq(Refs)
  OBVIOUS
<1> QED BY <1>0, <1>1, <1>2, AnswerIs

(* The next crop is on disk. *)
LEMMA EncodeCropStep == ASSUME IInv, EncodeCrop PROVE StepOK
<1> DEFINE ref == output_ref
           key == <<job.frame, ref>>
           p == Pruned(recent, order, now)
<1>0. /\ worker = "crops" /\ MoreCrops /\ Busy /\ UNCHANGED <<now, queue, worker, control, replies>>
  BY DEF EncodeCrop, Busy
<1>1. /\ TypeOK /\ QueueInv /\ LedgerInv /\ Collected /\ LedgerTypes /\ work \in WorkType
      /\ \A r \in Refs : <<job.frame, r>> \in RefKeys
      /\ OverviewRef \in Refs /\ None \notin Refs
  BY <1>0, BusyFacts
<1>2. /\ Provide(key, p)
      /\ work' = [work EXCEPT !.crops = Append(work.crops, ref), !.next = work.next + 1,
                              !.encoded = work.encoded \/ ~was_recently_encoded(p.rec, key)]
  BY DEF EncodeCrop, PrunedNow
<1>3. work.next \in DOMAIN request_objects /\ ref \in Refs /\ ref = RefOf(job, work.next)
  BY <1>0, <1>1, OutputRefIs
<1> HIDE DEF p, ref
<1>4. /\ LedgerTypes' /\ LedgerInv' /\ RewriteStep /\ written'[key] # None
      /\ \A k \in RefKeys : written[k] # None => written'[k] # None
  BY <1>0, <1>1, <1>2, <1>3, ProvideIs DEF p
<1>5. /\ work' \in WorkType /\ work'.msg = work.msg /\ work'.overview = work.overview
      /\ work'.crops = Append(work.crops, ref) /\ work'.next = work.next + 1
  <2> DEFINE e == work.encoded \/ ~was_recently_encoded(p.rec, key)
             cr == Append(work.crops, ref)
             nx == work.next + 1
  <2>1. e \in BOOLEAN /\ cr \in Seq(Refs) /\ nx \in Nat \ {0}
    BY <1>1, <1>3 DEF WorkType
  <2>2. work' = [work EXCEPT !.crops = cr, !.next = nx, !.encoded = e]
    BY <1>2
  <2> HIDE DEF e, cr, nx
  <2>3. /\ work' \in WorkType /\ work'.msg = work.msg /\ work'.overview = work.overview
        /\ work'.crops = cr /\ work'.next = nx
    BY <1>1, <2>1, <2>2 DEF WorkType
  <2> QED BY <2>3 DEF cr, nx
<1>6. job' = job /\ request_objects' = request_objects
  BY <1>5 DEF job, request_objects
<1>7. /\ work.crops \in Seq(Refs) /\ work.next \in Nat \ {0}
      /\ \A n \in DOMAIN work.crops : <<job.frame, work.crops[n]>> \in RefKeys
  BY <1>1 DEF WorkType
<1> DEFINE c == work'.crops
<1>8. /\ DOMAIN c = DOMAIN work.crops \cup {Len(work.crops) + 1} /\ c[Len(work.crops) + 1] = ref
      /\ \A n \in DOMAIN work.crops : c[n] = work.crops[n]
  BY <1>3, <1>5, <1>7
<1> HIDE DEF c
<1>9. \A n \in DOMAIN c : written'[<<job.frame, c[n]>>] # None
  BY <1>0, <1>1, <1>4, <1>7, <1>8 DEF Collected, IsWritten
<1>10. ASSUME NEW n \in DOMAIN request_objects, n < work.next + 1
       PROVE  \E i \in DOMAIN c : c[i] = RefOf(job, n)
  <2>1. n = work.next \/ n < work.next
    BY <1>0, <1>7, <1>10, ObjectsIndex
  <2>2. CASE n = work.next
    BY <1>3, <1>8, <2>2
  <2>3. CASE n < work.next
    BY <1>0, <1>1, <1>8, <2>3 DEF Collected
  <2> QED BY <2>1, <2>2, <2>3
<1>11. Collected'
  <2>1. work.overview # None => work.overview = OverviewRef /\ written'[<<job.frame, OverviewRef>>] # None
    BY <1>0, <1>1, <1>4 DEF Collected, IsWritten
  <2>2. needs_overview(job) => work.overview = OverviewRef
    BY <1>0, <1>1 DEF Collected
  <2> QED BY <1>0, <1>5, <1>6, <1>9, <1>10, <2>1, <2>2 DEF Collected, IsWritten, c
<1> QED BY <1>0, <1>4, <1>5, <1>11, GoesOnIs

(* A crop cannot be written: the job fails. *)
LEMMA EncodeCropFailsStep == ASSUME IInv, EncodeCropFails PROVE StepOK
<1>0. /\ worker = "crops" /\ Busy /\ UNCHANGED <<now, queue, control, written>>
      /\ publish_ready("error", work.overview, <<>>, None)
  BY DEF EncodeCropFails, Busy
<1>1. UNCHANGED ledger \/ Looks
  BY <1>0, FailLooks DEF EncodeCropFails
<1>2. <<>> \in Seq(Refs) /\ work.overview \in Refs \cup {None}
  BY <1>0, BusyFacts DEF WorkType
<1> QED BY <1>0, <1>1, <1>2, AnswerIs

(* The answer "ok" after the last crop. *)
LEMMA FinishStep == ASSUME IInv, Finish PROVE StepOK
<1> DEFINE re == IF work.encoded THEN "encoded" ELSE "already_encoded"
<1>0. /\ worker = "crops" /\ ~MoreCrops /\ Busy /\ UNCHANGED <<now, queue, ledger, control, written>>
      /\ publish_ready("ok", work.overview, work.crops, re)
  BY DEF Finish, Busy
<1>1. /\ TypeOK /\ QueueInv /\ LedgerInv /\ Collected /\ LedgerTypes /\ work \in WorkType
      /\ job.objects \in Seq({CropRefs[n] : n \in DOMAIN CropRefs} \cup {None})
      /\ OverviewRef \in Refs /\ None \notin Refs
  BY <1>0, BusyFacts
<1>2. work.overview \in Refs \cup {None} /\ work.crops \in Seq(Refs) /\ work.next \in Nat
  BY <1>1 DEF WorkType
<1>3. re \in {"encoded", "already_encoded", None}
  OBVIOUS
<1> HIDE DEF re
<1>4. needs_overview(job) => OverviewRef \in Names(work.overview, work.crops)
  BY <1>0, <1>1 DEF Collected, Names
<1>5. ASSUME needs_crops(job), NEW n \in DOMAIN job.objects
      PROVE  (IF job.objects[n] = None THEN CropRefs[n] ELSE job.objects[n])
               \in Names(work.overview, work.crops)
  <2>1. job.objects # <<>> /\ request_objects = job.objects
    BY <1>1 DEF request_objects
  <2>2. n < work.next
    <3>1. ~(work.next <= Len(request_objects))
      BY <1>0, <1>5 DEF MoreCrops
    <3>2. Len(request_objects) \in Nat /\ n \in 1 .. Len(request_objects)
      BY <1>0, <2>1, ObjectsIndex
    <3> QED BY <1>2, <3>1, <3>2
  <2>3. PICK i \in DOMAIN work.crops : work.crops[i] = RefOf(job, n)
    BY <1>0, <1>1, <2>1, <2>2 DEF Collected
  <2>4. RefOf(job, n) = IF job.objects[n] = None THEN CropRefs[n] ELSE job.objects[n]
    BY <2>1 DEF RefOf
  <2> QED BY <2>3, <2>4 DEF Names
<1>6. Owed(job) \subseteq Names(work.overview, work.crops)
  BY <1>4, <1>5 DEF Owed
<1>7. \A ref \in Names(work.overview, work.crops) : written'[<<job.frame, ref>>] # None
  <2>1. work.overview # None => written[<<job.frame, work.overview>>] # None
    BY <1>0, <1>1 DEF Collected, IsWritten
  <2>2. \A n \in DOMAIN work.crops : written[<<job.frame, work.crops[n]>>] # None
    BY <1>0, <1>1 DEF Collected, IsWritten
  <2> QED BY <1>0, <2>1, <2>2 DEF Names
<1> QED BY <1>0, <1>2, <1>3, <1>6, <1>7, AnswerIs

-----------------------------------------------------------------------------
(* The other steps, and the theorems *)

(* A step that leaves the files, the ledger and the answers alone. *)
LEMMA ElsewhereIs ==
  ASSUME IInv, TypeOK', QueueInv', UNCHANGED <<ledger, written, replies>>,
         now' = now \/ Tick,
         \/ UNCHANGED <<worker, work>>
         \/ worker' \notin {"check", "resolve", "overview", "crops"}
         \/ worker' = "check" /\ work'.next = 1
  PROVE  StepOK
<1>1. TypeOK /\ LedgerInv /\ LedgerTypes /\ Collected
  BY TypeParts DEF IInv, Types
<1>2. OkStep
  BY <1>1, NobodyAnswered
<1>3. RewriteStep
  BY DEF RewriteStep
<1>4. LedgerInv'
  <2>1. CASE now' = now
    BY <1>1, <2>1 DEF LedgerInv, ledger
  <2>2. CASE Tick
    BY <1>1, <2>2, TickKeeps
  <2> QED BY <2>1, <2>2
<1>5. Collected'
  <2>1. CASE UNCHANGED <<worker, work>>
    <3>1. job' = job /\ request_objects' = request_objects
      BY <2>1 DEF job, request_objects
    <3> QED BY <1>1, <2>1, <3>1 DEF Collected, IsWritten
  <2>2. CASE worker' \notin {"check", "resolve", "overview", "crops"}
    BY <2>2 DEF Collected
  <2>3. CASE worker' = "check" /\ work'.next = 1
    BY <2>3 DEF Collected
  <2> QED BY <2>1, <2>2, <2>3
<1> QED BY <1>2, <1>3, <1>4, <1>5 DEF StepOK, IInv

(* The invariant holds when the service starts. *)
LEMMA InvInit == ASSUME Init PROVE IInv
<1>1. /\ now = 0 /\ unsent = Requests /\ stream = <<>> /\ jobs = <<>> /\ before_stop = {}
      /\ intake = [pc |-> "top", msg |-> None, link |-> "$"] /\ worker = "start" /\ work = NoWork
      /\ recent = [k \in RefKeys |-> None] /\ order = <<>>
      /\ stopper = "running" /\ stop = FALSE /\ stop_evidence = FALSE
      /\ written = [k \in RefKeys |-> None] /\ replies = [r \in Requests |-> <<>>]
  BY DEF Init
<1>2. stop \in BOOLEAN /\ stop_evidence \in BOOLEAN
  BY <1>1, Zenon
<1>3. LedgerTypes
  BY <1>1, ServiceAssumption DEF LedgerTypes, LedgerType, Time
<1>4. /\ intake \in IntakeType /\ worker \in Labels /\ work \in WorkType
      /\ intake.msg = None /\ intake.pc = "top" /\ work.msg = None
  BY <1>1, NoWorkType DEF IntakeType, Labels
<1>5. replies \in [Requests -> Seq(Replies)] /\ \A r \in Requests : replies[r] = <<>>
  <2>1. <<>> \in Seq(Replies)
    OBVIOUS
  <2> QED BY <1>1, <2>1
<1>6. TypeOK
  BY <1>1, <1>2, <1>3, <1>4, <1>5, TypeParts DEF Types
<1>7. Carries
  BY <1>1, <1>4 DEF Carries, Busy
<1>8. /\ Ids(stream) = {} /\ Ids(jobs) = {} /\ Distinct(stream) /\ Distinct(jobs)
      /\ IntakeIds = {} /\ WorkIds = {} /\ Answered = {}
  BY <1>1, <1>4, <1>5 DEF Ids, Distinct, IntakeIds, WorkIds, Answered
<1>9. OnePlace
  <2>1. Len(<<>>) <= 1
    OBVIOUS
  <2>2. \A r \in Requests : Len(replies[r]) <= 1
    BY <1>5, <2>1
  <2> QED BY <1>8, <2>2 DEF OnePlace
<1>10. Drains
  BY <1>1 DEF Drains
<1>11. LedgerInv
  <2>1. \A k \in RefKeys : recent[k] = None /\ written[k] = None
    BY <1>1
  <2>2. Held(recent) = {}
    BY <2>1 DEF Held
  <2>3. Ordered(recent, order, now)
    BY <1>1, <2>1, <2>2 DEF Ordered
  <2>4. MaxRecent > 0 => Cardinality(Held(recent)) <= MaxRecent
    BY <2>2, FS_EmptySet, ServiceAssumption
  <2>5. Remembers(recent, written, now)
    BY <2>1 DEF Remembers
  <2> QED BY <2>1, <2>3, <2>4, <2>5 DEF LedgerInv
<1>12. Collected
  BY <1>1 DEF Collected
<1> QED BY <1>6, <1>7, <1>9, <1>10, <1>11, <1>12 DEF IInv, QueueInv

(* Requests on their way. *)
LEMMA IntakeStep ==
  ASSUME IInv, Intake \/ \E r \in Requests, j \in JobSet : Publish(r, j)
  PROVE  StepOK
<1>0. TypeOK /\ QueueInv /\ Types
  BY TypeParts DEF IInv
<1>1. CASE LoopTop
  <2>1. /\ intake.pc = "top" /\ intake' = [intake EXCEPT !.pc = IF stop_evidence THEN "done" ELSE "poll"]
        /\ stream' = stream \/ stream' = <<>>
        /\ UNCHANGED <<now, unsent, jobs, before_stop, worker, work, ledger, control, written, replies>>
    BY <1>1 DEF LoopTop
  <2>2. UNCHANGED <<stopper, stop, stop_evidence, recent, order>>
    BY <2>1 DEF control, ledger
  <2>3. /\ intake' \in IntakeType /\ intake'.msg = intake.msg
        /\ intake'.pc = IF stop_evidence THEN "done" ELSE "poll"
    BY <1>0, <2>1 DEF Types, IntakeType
  <2>4. QueueInv'
    BY <1>0, <2>1, <2>2, <2>3, NothingMoves
  <2>5. stream' \in Seq(Messages)
    <3>1. <<>> \in Seq(Messages) /\ stream \in Seq(Messages)
      BY <1>0 DEF Types
    <3> QED BY <2>1, <3>1
  <2>6. TypeOK'
    BY <1>0, <2>1, <2>2, <2>3, <2>5, TypeParts DEF Types, LedgerTypes
  <2> QED BY <2>1, <2>4, <2>6, ElsewhereIs
<1>2. CASE PollReturns
  <2>1. UNCHANGED <<now, unsent, jobs, before_stop, worker, work, ledger, control, written, replies>>
    BY <1>2 DEF PollReturns
  <2>2. UNCHANGED <<stopper, stop, stop_evidence, recent, order>>
    BY <2>1 DEF control, ledger
  <2>3. intake' \in IntakeType /\ stream' \in Seq(Messages) /\ QueueInv'
    BY <1>0, <1>2, PollMoves
  <2>4. TypeOK'
    BY <1>0, <2>1, <2>2, <2>3, TypeParts DEF Types, LedgerTypes
  <2> QED BY <2>1, <2>3, <2>4, ElsewhereIs
<1>3. CASE Enqueue
  <2>1. /\ UNCHANGED <<now, unsent, stream, work, ledger, control, written, replies>>
        /\ worker' = worker \/ worker' = "lock"
    BY <1>3 DEF Enqueue
  <2>2. UNCHANGED <<stopper, stop, stop_evidence, recent, order>>
    BY <2>1 DEF control, ledger
  <2>3. intake' \in IntakeType /\ jobs' \in Seq(Messages) /\ before_stop' \subseteq Requests /\ QueueInv'
    BY <1>0, <1>3, EnqueueMoves
  <2>4. TypeOK'
    BY <1>0, <2>1, <2>2, <2>3, TypeParts DEF Types, LedgerTypes, Labels
  <2> QED BY <2>1, <2>3, <2>4, ElsewhereIs
<1>4. ASSUME NEW r \in Requests, NEW j \in JobSet, Publish(r, j) PROVE StepOK
  <2>1. UNCHANGED <<now, intake, jobs, before_stop, worker, work, ledger, control, written, replies>>
    BY <1>4 DEF Publish
  <2>2. UNCHANGED <<stopper, stop, stop_evidence, recent, order>>
    BY <2>1 DEF control, ledger
  <2>3. unsent' \subseteq Requests /\ stream' \in Seq(Messages) /\ QueueInv'
    BY <1>0, <1>4, PublishMoves
  <2>4. TypeOK'
    BY <1>0, <2>1, <2>2, <2>3, TypeParts DEF Types, LedgerTypes
  <2> QED BY <2>1, <2>3, <2>4, ElsewhereIs
<1> QED BY <1>1, <1>2, <1>3, <1>4 DEF Intake

(* The worker outside process_job. *)
LEMMA WorkerLoopStep == ASSUME IInv, CreateContext \/ TakeJob \/ Wait PROVE StepOK
<1>0. TypeOK /\ QueueInv /\ Types
  BY TypeParts DEF IInv
<1>1. CASE CreateContext \/ Wait
  <2>1. /\ worker \in {"start", "checked"} /\ worker' \in {"lock", "failed", "waiting"}
        /\ UNCHANGED <<now, queue, work, ledger, control, written, replies>>
    BY <1>1 DEF CreateContext, Wait
  <2>2. UNCHANGED <<stopper, stop, stop_evidence, recent, order, unsent, stream, intake, jobs, before_stop>>
    BY <2>1 DEF control, ledger, queue
  <2>3. QueueInv'
    BY <1>0, <2>1, <2>2, NothingMoves
  <2>4. TypeOK'
    BY <1>0, <2>1, <2>2, TypeParts DEF Types, LedgerTypes, Labels
  <2> QED BY <2>1, <2>3, <2>4, ElsewhereIs
<1>2. CASE TakeJob
  <2>1. UNCHANGED <<now, unsent, stream, intake, before_stop, ledger, control, written, replies>>
    BY <1>2 DEF TakeJob
  <2>2. UNCHANGED <<stopper, stop, stop_evidence, recent, order>>
    BY <2>1 DEF control, ledger
  <2>3. /\ work' \in WorkType /\ jobs' \in Seq(Messages) /\ QueueInv'
        /\ worker' \in {"check", "checked", "exited"}
        /\ worker' = "check" => work'.next = 1
    BY <1>0, <1>2, TakeMoves
  <2>4. TypeOK'
    BY <1>0, <2>1, <2>2, <2>3, TypeParts DEF Types, LedgerTypes, Labels
  <2> QED BY <2>1, <2>3, <2>4, ElsewhereIs
<1> QED BY <1>1, <1>2

(* The clock and the thread that stops the service. *)
LEMMA StopperStep == ASSUME IInv, Stopper PROVE StepOK
<1>0. TypeOK /\ QueueInv /\ Types
  BY TypeParts DEF IInv
<1>1. /\ UNCHANGED <<now, queue, work, ledger, written, replies>>
      /\ worker' = worker \/ (worker = "waiting" /\ worker' = "lock")
      /\ stopper' \in {"running", "stop", "notify", "join", "join_intake", "done"}
  BY DEF Stopper, StopEvidence, SetStop, NotifyAll, JoinWorker, JoinIntake
<1>2. (stop' = stop \/ stop' = TRUE) /\ (stop_evidence' = stop_evidence \/ stop_evidence' = TRUE)
  BY Zenon DEF Stopper, StopEvidence, SetStop, NotifyAll, JoinWorker, JoinIntake
<1>3. stop' \in BOOLEAN /\ stop_evidence' \in BOOLEAN
  BY <1>0, <1>2, Zenon DEF Types
<1>4. stop => stop'
  BY <1>2
<1>5. UNCHANGED <<recent, order, unsent, stream, intake, jobs, before_stop>>
  BY <1>1 DEF ledger, queue
<1>6. QueueInv'
  BY <1>0, <1>1, <1>4, <1>5, NothingMoves
<1>7. TypeOK'
  BY <1>0, <1>1, <1>3, <1>5, TypeParts DEF Types, LedgerTypes, Labels
<1> QED BY <1>1, <1>6, <1>7, ElsewhereIs

(* Time passes. *)
LEMMA TickStep == ASSUME IInv, Tick PROVE StepOK
<1>0. TypeOK /\ QueueInv /\ Types /\ LedgerTypes /\ LedgerInv
  BY TypeParts DEF IInv, Types
<1>1. UNCHANGED <<queue, worker, work, ledger, control, written, replies>>
  BY DEF Tick
<1>2. UNCHANGED <<stopper, stop, stop_evidence, recent, order, unsent, stream, intake, jobs, before_stop>>
  BY <1>1 DEF control, ledger, queue
<1>3. LedgerTypes'
  BY <1>0, TickKeeps
<1>4. TypeOK'
  BY <1>0, <1>1, <1>2, <1>3, TypeParts DEF Types
<1>5. QueueInv'
  BY <1>0, <1>1, <1>2, NothingMoves
<1> QED BY <1>1, <1>4, <1>5, ElsewhereIs

(* Every step keeps the invariant, answers rightly and rewrites rightly.     *)
LEMMA InvStep == ASSUME IInv, [Next]_vars PROVE StepOK
<1>1. CASE Tick
  BY <1>1, TickStep
<1>2. CASE Intake \/ \E r \in Requests, j \in JobSet : Publish(r, j)
  BY <1>2, IntakeStep
<1>3. CASE CreateContext \/ TakeJob \/ Wait
  BY <1>3, WorkerLoopStep
<1>4. CASE Process
  BY <1>4, CheckLedgerStep, ResolveFrameStep, EncodeOverviewStep, EncodeOverviewFailsStep,
     EncodeCropStep, EncodeCropFailsStep, FinishStep DEF Process
<1>5. CASE Stopper
  BY <1>5, StopperStep
<1>6. CASE UNCHANGED vars
  <2>1. UNCHANGED <<now, queue, worker, work, ledger, control, written, replies>>
    BY <1>6 DEF vars
  <2>2. UNCHANGED <<stopper, stop, stop_evidence, recent, order, unsent, stream, intake, jobs, before_stop>>
    BY <2>1 DEF control, ledger, queue
  <2>0. TypeOK /\ QueueInv /\ Types
    BY TypeParts DEF IInv
  <2>3. QueueInv'
    BY <2>0, <2>1, <2>2, NothingMoves
  <2>4. TypeOK'
    BY <2>0, <2>1, <2>2, TypeParts DEF Types, LedgerTypes
  <2> QED BY <2>1, <2>3, <2>4, ElsewhereIs
<1> QED BY <1>1, <1>2, <1>3, <1>4, <1>5, <1>6 DEF Next, Worker

(* The invariant holds throughout. *)
LEMMA Invariance == Spec => []IInv
<1>1. IInv /\ [Next]_vars => IInv'
  BY InvStep DEF StepOK
<1> QED BY <1>1, InvInit, PTL DEF Spec

(* Every variable of the service keeps its type: the threads hold a message, *)
(* the ledger a time, the history an answer, wherever the code reads one.    *)
THEOREM ServiceTypeCorrect == Spec => []TypeOK
<1>1. IInv => TypeOK
  BY DEF IInv
<1> QED BY <1>1, Invariance, PTL

(* recent_ref_order_ lists the keys of recent_encoded_refs_, each once and   *)
(* oldest first, and never more than max_recent_encoded_refs of them.        *)
THEOREM LedgerOrdered == Spec => []LedgerInOrder
<1>1. IInv => LedgerInOrder
  BY DEF IInv, LedgerInv, Ordered, LedgerInOrder
<1> QED BY <1>1, Invariance, PTL

(* worker_loop leaves with everything answered that was enqueued before      *)
(* stop_ was set, and nobody is answered twice.                              *)
THEOREM AnswersBeforeExit == Spec => []DrainsBeforeExit
<1>1. ASSUME IInv PROVE DrainsBeforeExit
  <2>1. \A r \in Requests : Len(replies[r]) <= 1
    BY <1>1 DEF IInv, QueueInv, OnePlace
  <2>2. ASSUME worker = "exited", NEW r \in before_stop PROVE Len(replies[r]) = 1
    <3>1. r \in Requests /\ replies[r] # <<>> /\ replies[r] \in Seq(Replies)
      BY <1>1, <2>2 DEF IInv, TypeOK, QueueInv, Drains, Answered
    <3>2. Len(replies[r]) # 0 /\ Len(replies[r]) \in Nat
      BY <3>1
    <3>3. Len(replies[r]) <= 1
      BY <2>1, <3>1
    <3>4. \A n \in Nat : n # 0 /\ n <= 1 => n = 1
      OBVIOUS
    <3> QED BY <3>2, <3>3, <3>4
  <2> QED BY <2>1, <2>2 DEF DrainsBeforeExit
<1> QED BY <1>1, Invariance, PTL

(* A file is written again only when its last writing is older than          *)
(* encode_dedupe_ttl_ms, or max_recent_encoded_refs others came after it.    *)
THEOREM WritesOnce == Spec => NoReencode
<1>1. IInv /\ [Next]_vars => [RewriteStep]_vars
  BY InvStep DEF StepOK
<1>2. RewriteStep =>
        \A k \in RefKeys : written'[k] # written[k] /\ written[k] # None =>
          \/ now - written[k] > Ttl
          \/ /\ MaxRecent > 0
             /\ Cardinality({l \in RefKeys \ {k} : written[l] # None /\ written[l] >= written[k]})
                  >= MaxRecent
  BY DEF RewriteStep, Younger
<1> QED BY <1>1, <1>2, Invariance, PTL DEF Spec, NoReencode

(* evidence_ready "ok" names every reference the request asked for and only  *)
(* references whose file has been written.                                   *)
THEOREM OkIsTrue == Spec => OkMeansWritten
<1>1. IInv /\ [Next]_vars => [OkStep]_vars
  BY InvStep DEF StepOK
<1> QED BY <1>1, Invariance, PTL DEF Spec, OkMeansWritten, OkStep
=============================================================================
