--------------------------- MODULE SmartRecordProofs --------------------------
(***************************************************************************)
(* For any number of sources, any configuration and any number of camera   *)
(* swaps: a clip under way is the one its source's session stands for, and *)
(* so the cap on sessions is a cap on clips.                               *)
(***************************************************************************)
EXTENDS SmartRecord, FiniteSetTheorems, TLAPS

\* Why no session expires under its clip: it is at most the batch's lag older.
SessionNotMuchOlder ==
    \A e \in Elements : clip[e].st # "none" /\ Active(e[1]) =>
        session[e[1]].age <= clip[e].age + MaxLag

\* Between the two locks of start_recording the source has no session.
StoringIsFree == pc = "store" => ~Active(storing.source)

ClipInv == ClipHasItsSession /\ SessionNotMuchOlder /\ StoringIsFree

\* What the numbers of the configuration are.
LEMMA Numbers ==
    /\ PreEvent \in Nat /\ PostEvent \in Nat /\ MinInterval \in Nat /\ Grace \in Nat
    /\ Finish \in Nat /\ MaxLag \in Nat /\ MaxConcurrent \in Nat \ {0}
    /\ MaxGeneration \in Nat \ {0}
    /\ Duration \in Nat /\ MaxSessionAge \in Nat /\ MaxRecordAge \in Nat
    /\ MaxLag <= MaxSessionAge /\ MaxLag + PreEvent <= MaxRecordAge
    /\ Finish + MaxLag <= Duration + Grace
BY SmartRecordAssumption, SMT DEF SmartRecordAssumption, Duration, MaxSessionAge, MaxRecordAge

\* Growing older never leaves the range.
LEMMA OlderTyped ==
    ASSUME NEW max \in Nat, NEW age \in -1 .. max
    PROVE  Older(age, max) \in -1 .. max /\ (age < 0 <=> Older(age, max) < 0)
                                         /\ Older(age, max) <= age + 1
BY SMT DEF Older

\* The types hold at the start.
LEMMA InitTyped == Init => TypeOK
<1> SUFFICES ASSUME Init PROVE TypeOK
    OBVIOUS
<1> USE Numbers
<1>1. /\ None \in 0 .. MaxGeneration /\ 0 \in 0 .. Finish /\ 0 \in 0 .. MaxLag
      /\ -1 \in -1 .. MaxSessionAge /\ -1 \in -1 .. MaxRecordAge
    BY SMT DEF None
<1>2. NoSession \in [of : 0 .. MaxGeneration, age : -1 .. MaxSessionAge]
    BY <1>1 DEF NoSession
<1>3. NoClip \in [st : {"none", "running", "done"}, age : 0 .. Finish]
    BY <1>1 DEF NoClip
<1>4. storing \in [source : Sources, of : 0 .. MaxGeneration]
    BY <1>1, SMT DEF Init
<1>5. /\ present \subseteq Sources /\ frames \subseteq Sources
      /\ lag \in 0 .. MaxLag /\ pc \in {"idle", "batch", "store"} /\ down \in BOOLEAN
    BY <1>1, Zenon DEF Init
<1>6. /\ generation \in [Sources -> 0 .. MaxGeneration]
      /\ cached \in [Sources -> 0 .. MaxGeneration]
      /\ handler \in [Sources -> 0 .. MaxGeneration]
      /\ lastRecord \in [Sources -> -1 .. MaxRecordAge]
    BY <1>1, SMT DEF Init
<1>7. /\ session \in [Sources -> [of : 0 .. MaxGeneration, age : -1 .. MaxSessionAge]]
      /\ clip \in [Elements -> [st : {"none", "running", "done"}, age : 0 .. Finish]]
    BY <1>2, <1>3, SMT DEF Init
<1> QED
    BY <1>4, <1>5, <1>6, <1>7, Zenon DEF TypeOK

\* Every step keeps them.
LEMMA StepTyped == TypeOK /\ [Next]_vars => TypeOK'
<1> SUFFICES ASSUME TypeOK, [Next]_vars PROVE TypeOK'
    OBVIOUS
<1> USE Numbers
<1> DEFINE Session == [of : 0 .. MaxGeneration, age : -1 .. MaxSessionAge]
           Clip == [st : {"none", "running", "done"}, age : 0 .. Finish]
<1>n. NoSession \in Session /\ NoClip \in Clip /\ None \in 0 .. MaxGeneration
    BY SMT DEF NoSession, NoClip, None
<1>1. ASSUME NEW s \in Sources, AddCamera(s) PROVE TypeOK'
  <2>1. generation[s] + 1 \in 0 .. MaxGeneration
    BY <1>1, SMT DEF AddCamera, TypeOK
  <2> QED
    BY <1>1, <2>1, Zenon DEF AddCamera, TypeOK, books, probe
<1>2. ASSUME NEW s \in Sources, RemoveCamera(s) PROVE TypeOK'
    BY <1>2, Zenon DEF RemoveCamera, TypeOK, books, probe
<1>3. CASE BeginBatch
  <2>1. session' \in [Sources -> Session]
    BY <1>3, <1>n, Zenon DEF BeginBatch, cleanup_expired_sessions, TypeOK
  <2> QED
    BY <1>3, <2>1, Zenon DEF BeginBatch, TypeOK, world
<1>4. ASSUME NEW s \in Sources, SkipFrame(s) PROVE TypeOK'
  <2>1. cached' \in [Sources -> 0 .. MaxGeneration]
    BY <1>4, <1>n, Zenon DEF SkipFrame, TypeOK
  <2> QED
    BY <1>4, <2>1, Zenon DEF SkipFrame, TypeOK, world, books
<1>5. ASSUME NEW s \in Sources, EmitStart(s) PROVE TypeOK'
  <2>1. [st |-> "running", age |-> 0] \in Clip
    BY SMT
  <2>2. generation[s] \in 0 .. MaxGeneration
    BY DEF TypeOK
  <2>3. clip' \in [Elements -> Clip]
    BY <1>5, <2>1, Zenon DEF EmitStart, TypeOK
  <2>4. storing' \in [source : Sources, of : 0 .. MaxGeneration]
    BY <1>5, <1>n, <2>2, SMT DEF EmitStart, Failed
  <2>5. cached' \in [Sources -> 0 .. MaxGeneration] /\ handler' \in [Sources -> 0 .. MaxGeneration]
    BY <1>5, <2>2, SMT DEF EmitStart, find_nvurisrcbin, TypeOK
  <2> QED
    BY <1>5, <2>3, <2>4, <2>5, Zenon DEF EmitStart, TypeOK, world, books
<1>6. CASE StoreSession
  <2>1. /\ [of |-> storing.of, age |-> lag] \in Session
        /\ lag + PreEvent \in -1 .. MaxRecordAge
        /\ storing' \in [source : Sources, of : 0 .. MaxGeneration]
    BY <1>6, <1>n, SMT DEF StoreSession, TypeOK
  <2>2. session' \in [Sources -> Session] /\ lastRecord' \in [Sources -> -1 .. MaxRecordAge]
    BY <1>6, <2>1, Zenon DEF StoreSession, TypeOK
  <2> QED
    BY <1>6, <2>1, <2>2, Zenon DEF StoreSession, TypeOK, world
<1>7. CASE EndBatch
  <2>1. 0 \in 0 .. MaxLag
    BY SMT
  <2> QED
    BY <1>7, <2>1, Zenon DEF EndBatch, TypeOK, world, books
<1>8. CASE Destroy
  <2>1. handler' \in [Sources -> 0 .. MaxGeneration] /\ cached' \in [Sources -> 0 .. MaxGeneration]
    BY <1>8, <1>n, Zenon DEF Destroy, disconnect_all_signals, TypeOK
  <2> QED
    BY <1>8, <2>1, Zenon DEF Destroy, TypeOK, world, books, probe
<1>9. ASSUME NEW e \in Elements, ClipEnds(e) PROVE TypeOK'
  <2>1. [clip[e] EXCEPT !.st = "done"] \in Clip
    BY SMT DEF TypeOK
  <2>2. clip' \in [Elements -> Clip]
    BY <1>9, <1>n, <2>1, Zenon DEF ClipEnds, TypeOK
  <2> QED
    BY <1>9, <2>2, Zenon DEF ClipEnds, TypeOK, world, books, probe
<1>10. ASSUME NEW e \in Elements, ClipLost(e) PROVE TypeOK'
    BY <1>10, <1>n, Zenon DEF ClipLost, TypeOK, world, books, probe
<1>11. ASSUME NEW e \in Elements, on_recording_done(e) PROVE TypeOK'
  <2>1. session' \in [Sources -> Session]
    BY <1>11, <1>n, Zenon DEF on_recording_done, TypeOK
  <2> QED
    BY <1>11, <1>n, <2>1, Zenon DEF on_recording_done, TypeOK, world, probe
<1>12. CASE Tick
  <2>1. clip' \in [Elements -> Clip]
    BY <1>12, <1>n, SMT DEF Tick, TypeOK
  <2>2. session' \in [Sources -> Session]
    <3>1. \A s \in Sources : Older(session[s].age, MaxSessionAge) \in -1 .. MaxSessionAge
        BY OlderTyped DEF TypeOK
    <3>2. \A s \in Sources : [session[s] EXCEPT !.age = Older(@, MaxSessionAge)] \in Session
        BY <3>1, SMT DEF TypeOK
    <3> QED
        BY <1>12, <3>2, Zenon DEF Tick
  <2>3. lastRecord' \in [Sources -> -1 .. MaxRecordAge]
    <3>1. \A s \in Sources : Older(lastRecord[s], MaxRecordAge) \in -1 .. MaxRecordAge
        BY OlderTyped DEF TypeOK
    <3> QED
        BY <1>12, <3>1, Zenon DEF Tick
  <2>4. lag' \in 0 .. MaxLag
    BY <1>12, SMT DEF Tick, TypeOK
  <2> QED
    BY <1>12, <2>1, <2>2, <2>3, <2>4, Zenon DEF Tick, TypeOK, world
<1>13. CASE UNCHANGED vars
    BY <1>13, Zenon DEF vars, TypeOK
<1> QED
    BY <1>1, <1>2, <1>3, <1>4, <1>5, <1>6, <1>7, <1>8, <1>9, <1>10, <1>11, <1>12, <1>13, Zenon
    DEF Next

\* The types above, for every behaviour.
THEOREM SmartRecordTypeCorrect == Spec => []TypeOK
BY InitTyped, StepTyped, PTL DEF Spec

\* Before the first camera there is no clip.
LEMMA InitClips == Init => ClipInv
BY SMT DEF Init, ClipInv, ClipHasItsSession, SessionNotMuchOlder, StoringIsFree, NoClip

\* An element is the pair of its slot and its generation.
LEMMA Pairs ==
    \A e \in Elements : e[1] \in Sources /\ e[2] \in Generations /\ e = <<e[1], e[2]>>
BY SMT DEF Elements

\* Every step keeps the sessions of the clips.
LEMMA StepClips == TypeOK /\ ClipInv /\ [Next]_vars => ClipInv'
<1> SUFFICES ASSUME TypeOK, ClipInv, [Next]_vars PROVE ClipInv'
    OBVIOUS
<1> USE Numbers, Pairs DEF ClipInv, Active
<1>1. ASSUME NEW s \in Sources, AddCamera(s) PROVE ClipInv'
    BY <1>1 DEF AddCamera, ClipHasItsSession, SessionNotMuchOlder, StoringIsFree, books, probe
<1>2. ASSUME NEW s \in Sources, RemoveCamera(s) PROVE ClipInv'
    BY <1>2 DEF RemoveCamera, ClipHasItsSession, SessionNotMuchOlder, StoringIsFree, books, probe
<1>3. CASE BeginBatch
  <2>1. ASSUME NEW e \in Elements, clip[e].st # "none"
        PROVE  session[e[1]].age >= 0 /\ ~Expired(e[1])
    <3>1. session[e[1]].age >= 0 /\ session[e[1]].age <= clip[e].age + MaxLag
        BY <1>3, <2>1, SMT DEF BeginBatch, ClipHasItsSession, SessionNotMuchOlder
    <3>2. /\ clip[e].age \in 0 .. Finish /\ lag \in 0 .. MaxLag
          /\ session[e[1]].age \in -1 .. MaxSessionAge
        BY SMT DEF TypeOK
    <3> QED
        BY <3>1, <3>2, SMT DEF Expired
  <2>2. ASSUME NEW e \in Elements, clip[e].st # "none"
        PROVE  session'[e[1]] = session[e[1]]
    BY <1>3, <2>1, <2>2, Zenon DEF BeginBatch, cleanup_expired_sessions
  <2>3. UNCHANGED clip /\ pc = "idle" /\ pc' = "batch"
    BY <1>3 DEF BeginBatch
  <2> QED
    BY <2>2, <2>3, SMT DEF ClipHasItsSession, SessionNotMuchOlder, StoringIsFree
<1>4. ASSUME NEW s \in Sources, SkipFrame(s) PROVE ClipInv'
    BY <1>4 DEF SkipFrame, ClipHasItsSession, SessionNotMuchOlder, StoringIsFree, books
<1>5. ASSUME NEW s \in Sources, EmitStart(s) PROVE ClipInv'
  <2>1. session[s].age < 0 /\ pc = "batch" /\ pc' = "store" /\ UNCHANGED session
    <3>1. session[s].age \in -1 .. MaxSessionAge
        BY DEF TypeOK
    <3> QED
        BY <1>5, <3>1 DEF EmitStart, can_start_recording, books
  <2>2. \A e \in Elements : e[1] = s => clip[e].st = "none"
    BY <2>1, SMT DEF ClipHasItsSession, TypeOK
  <2>3. storing' \in [source : {s}, of : {generation[s], Failed}]
    BY <1>5, SMT DEF EmitStart
  <2>4. \A e \in Elements : e[1] # s => clip'[e] = clip[e]
    BY <1>5, SMT DEF EmitStart, TypeOK
  <2>5. \A e \in Elements : e[1] = s /\ clip'[e].st # "none" =>
            storing' = [source |-> s, of |-> generation[s]] /\ e[2] = generation[s]
    BY <1>5, <2>2, SMT DEF EmitStart, TypeOK
  <2>6. ClipHasItsSession'
    BY <2>1, <2>4, <2>5, SMT DEF ClipHasItsSession
  <2>7. SessionNotMuchOlder'
    <3>1. \A x \in Sources : session[x].age \in -1 .. MaxSessionAge
        BY DEF TypeOK
    <3> QED
        BY <3>1, <2>1, <2>4, SMT DEF SessionNotMuchOlder
  <2>8. StoringIsFree'
    BY <2>1, <2>3, SMT DEF StoringIsFree, TypeOK
  <2> QED
    BY <2>6, <2>7, <2>8
<1>6. CASE StoreSession
  <2> DEFINE t == storing.source
  <2>1. t \in Sources /\ storing.of \in 0 .. MaxGeneration /\ lag \in 0 .. MaxLag
    BY DEF TypeOK
  <2>2. /\ session'[t] = [of |-> storing.of, age |-> lag]
        /\ \A s \in Sources : s # t => session'[s] = session[s]
    BY <1>6, <2>1, SMT DEF StoreSession, TypeOK
  <2>3. UNCHANGED clip /\ pc = "store" /\ pc' = "batch"
    BY <1>6 DEF StoreSession
  <2>4. session[t].age < 0
    BY <2>1, <2>3, SMT DEF StoringIsFree, TypeOK
  <2>5. ASSUME NEW e \in Elements, clip[e].st # "none", e[1] = t
        PROVE  storing.of = e[2]
    BY <2>1, <2>4, <2>5, SMT DEF ClipHasItsSession, TypeOK
  <2>6. ASSUME NEW e \in Elements, clip[e].st # "none", e[1] # t
        PROVE  session[e[1]].age >= 0 /\ session[e[1]].of = e[2]
    BY <2>6, SMT DEF ClipHasItsSession
  <2>7. ClipHasItsSession'
    BY <2>1, <2>2, <2>3, <2>5, <2>6, SMT DEF ClipHasItsSession
  <2>8. SessionNotMuchOlder'
    <3>1. \A e \in Elements : clip[e].age \in 0 .. Finish
        BY DEF TypeOK
    <3> QED
        BY <3>1, <2>1, <2>2, <2>3, SMT DEF SessionNotMuchOlder
  <2> QED
    BY <2>3, <2>7, <2>8, Zenon DEF StoringIsFree
<1>7. CASE EndBatch
    BY <1>7, SMT DEF EndBatch, ClipHasItsSession, SessionNotMuchOlder, StoringIsFree, books
<1>8. CASE Destroy
    BY <1>8, SMT DEF Destroy, ClipHasItsSession, SessionNotMuchOlder, StoringIsFree, books, probe
<1>9. ASSUME NEW e \in Elements, ClipEnds(e) PROVE ClipInv'
  <2>1. /\ clip[e].st # "none"
        /\ clip'[e].st # "none" => clip'[e].age = clip[e].age
        /\ \A x \in Elements : x # e => clip'[x] = clip[x]
    <3>1. [clip[e] EXCEPT !.st = "done"].age = clip[e].age /\ NoClip.st = "none"
        BY SMT DEF TypeOK, NoClip
    <3>2. clip'[e] \in {[clip[e] EXCEPT !.st = "done"], NoClip}
        BY <1>9, Zenon DEF ClipEnds, TypeOK
    <3> QED
        BY <1>9, <3>1, <3>2 DEF ClipEnds, TypeOK
  <2> QED
    BY <1>9, <2>1, SMT DEF ClipEnds, ClipHasItsSession, SessionNotMuchOlder, StoringIsFree, books,
        probe
<1>10. ASSUME NEW e \in Elements, ClipLost(e) PROVE ClipInv'
  <2>1. clip'[e].st = "none" /\ \A x \in Elements : x # e => clip'[x] = clip[x]
    BY <1>10, SMT DEF ClipLost, TypeOK, NoClip
  <2> QED
    BY <1>10, <2>1, SMT DEF ClipLost, ClipHasItsSession, SessionNotMuchOlder, StoringIsFree,
        books, probe
<1>11. ASSUME NEW e \in Elements, on_recording_done(e) PROVE ClipInv'
  <2>1. /\ clip[e].st # "none" /\ clip'[e].st = "none"
        /\ \A x \in Elements : x # e => clip'[x] = clip[x]
    BY <1>11, SMT DEF on_recording_done, TypeOK, NoClip
  <2>2. \A s \in Sources : s # e[1] => session'[s] = session[s]
    BY <1>11, SMT DEF on_recording_done, TypeOK
  <2>3. session'[e[1]] \in {session[e[1]], NoSession}
    BY <1>11, SMT DEF on_recording_done, TypeOK
  <2>4. NoSession.age = -1 /\ \A s \in Sources : session[s].age \in -1 .. MaxSessionAge
    BY SMT DEF NoSession, TypeOK
  <2>5. UNCHANGED <<pc, storing>>
    BY <1>11 DEF on_recording_done, probe
  <2>6. ASSUME NEW x \in Elements, clip[x].st # "none", x[1] = e[1], x # e
        PROVE  pc = "store" /\ storing = [source |-> x[1], of |-> x[2]]
    BY <2>1, <2>6, SMT DEF ClipHasItsSession, StoringIsFree, TypeOK
  <2>7. ClipHasItsSession'
    <3> SUFFICES ASSUME NEW x \in Elements, clip'[x].st # "none"
                 PROVE  \/ session'[x[1]].age >= 0 /\ session'[x[1]].of = x[2]
                        \/ pc' = "store" /\ storing' = [source |-> x[1], of |-> x[2]]
        BY Zenon DEF ClipHasItsSession
    <3>1. x # e /\ clip[x].st # "none"
        BY <2>1
    <3>2. CASE x[1] = e[1]
        BY <2>5, <2>6, <3>1, <3>2
    <3>3. CASE x[1] # e[1]
      <4>1. session'[x[1]] = session[x[1]]
        BY <2>2, <3>3
      <4> QED
        BY <2>5, <3>1, <4>1, Zenon DEF ClipHasItsSession
    <3> QED
        BY <3>2, <3>3
  <2>8. SessionNotMuchOlder'
    <3> SUFFICES ASSUME NEW x \in Elements, clip'[x].st # "none", session'[x[1]].age >= 0
                 PROVE  session'[x[1]].age <= clip'[x].age + MaxLag
        BY Zenon DEF SessionNotMuchOlder
    <3>1. clip'[x] = clip[x]
        BY <2>1
    <3>2. session'[x[1]] = session[x[1]]
        BY <2>2, <2>3, <2>4, SMT
    <3> QED
        BY <3>1, <3>2, Zenon DEF SessionNotMuchOlder
  <2>9. StoringIsFree'
    <3> SUFFICES ASSUME pc' = "store" PROVE ~(session'[storing'.source].age >= 0)
        BY Zenon DEF StoringIsFree
    <3>1. storing' = storing /\ storing.source \in Sources /\ ~(session[storing.source].age >= 0)
        BY <2>5 DEF StoringIsFree, TypeOK
    <3> QED
        BY <3>1, <2>2, <2>3, <2>4, SMT
  <2> QED
    BY <2>7, <2>8, <2>9
<1>12. CASE Tick
  <2>1. UNCHANGED <<pc, storing>>
    BY <1>12 DEF Tick
  <2>2. ASSUME NEW s \in Sources
        PROVE  /\ session'[s].of = session[s].of
               /\ session[s].age \in -1 .. MaxSessionAge /\ session'[s].age \in -1 .. MaxSessionAge
               /\ session[s].age < 0 <=> session'[s].age < 0
               /\ session'[s].age <= session[s].age + 1
    <3>1. session[s] \in [of : 0 .. MaxGeneration, age : -1 .. MaxSessionAge]
        BY DEF TypeOK
    <3>2. session'[s] = [session[s] EXCEPT !.age = Older(@, MaxSessionAge)]
        BY <1>12, Zenon DEF Tick
    <3>3. session'[s].of = session[s].of /\ session'[s].age = Older(session[s].age, MaxSessionAge)
        BY <3>1, <3>2, SMT
    <3> QED
        BY <3>1, <3>3, OlderTyped
  <2>3. ASSUME NEW e \in Elements, clip'[e].st # "none"
        PROVE  clip[e].st # "none" /\ clip[e].age \in 0 .. Finish /\ clip'[e].age = clip[e].age + 1
    <3>1. clip[e] \in [st : {"none", "running", "done"}, age : 0 .. Finish]
        BY DEF TypeOK
    <3>2. clip'[e] = IF clip[e].st = "none" THEN NoClip ELSE [clip[e] EXCEPT !.age = @ + 1]
        BY <1>12, Zenon DEF Tick
    <3> QED
        BY <2>3, <3>1, <3>2, SMT DEF NoClip
  <2>4. ClipHasItsSession'
    BY <2>1, <2>2, <2>3, SMT DEF ClipHasItsSession
  <2>5. SessionNotMuchOlder'
    BY <2>2, <2>3, SMT DEF SessionNotMuchOlder
  <2>6. StoringIsFree'
    BY <2>1, <2>2, SMT DEF StoringIsFree, TypeOK
  <2> QED
    BY <2>4, <2>5, <2>6
<1>13. CASE UNCHANGED vars
    BY <1>13, SMT DEF vars, ClipHasItsSession, SessionNotMuchOlder, StoringIsFree
<1> QED
    BY <1>1, <1>2, <1>3, <1>4, <1>5, <1>6, <1>7, <1>8, <1>9, <1>10, <1>11, <1>12, <1>13, Zenon
    DEF Next

\* A clip under way is always the one its source's session stands for (or the
\* one being stored), for every number of sources and cameras and every timing
\* within the assumption: the handler neither forgets nor mistakes a clip.
THEOREM ClipsKeepTheirSession == Spec => []ClipHasItsSession
<1>1. Init => TypeOK /\ ClipInv
    BY InitTyped, InitClips
<1>2. TypeOK /\ ClipInv /\ [Next]_vars => (TypeOK /\ ClipInv)'
    BY StepTyped, StepClips
<1>3. TypeOK /\ ClipInv => ClipHasItsSession
    BY DEF ClipInv
<1> QED
    BY <1>1, <1>2, <1>3, PTL DEF Spec
\* The sources that hold one of the MaxConcurrent places.
Busy == {s \in Sources : Active(s) \/ (pc = "store" /\ storing.source = s)}

BusyWithinCap == Cardinality(Busy) <= MaxConcurrent

\* Cameras are finitely many, and so are the busy ones.
LEMMA BusyFinite == IsFiniteSet(Busy) /\ Cardinality(Busy) \in Nat
<1>1. Busy \in SUBSET Sources
    BY DEF Busy
<1> QED
    BY <1>1, SmartRecordAssumption, FS_Subset, FS_CardinalityType DEF SmartRecordAssumption

\* At the start none is busy.
LEMMA InitBusy == Init => BusyWithinCap
<1> SUFFICES ASSUME Init PROVE BusyWithinCap
    OBVIOUS
<1>1. Busy = {}
    BY SMT DEF Init, Busy, Active, NoSession
<1> QED
    BY <1>1, FS_EmptySet, Numbers DEF BusyWithinCap

\* Only EmitStart takes a place, and it does so when one is free.
LEMMA StepBusy == TypeOK /\ BusyWithinCap /\ [Next]_vars => BusyWithinCap'
<1> SUFFICES ASSUME TypeOK, BusyWithinCap, [Next]_vars PROVE BusyWithinCap'
    OBVIOUS
<1> USE Numbers DEF Active
<1>t. \A s \in Sources : session[s].age \in -1 .. MaxSessionAge
    BY DEF TypeOK
<1>1. ASSUME NEW s \in Sources, EmitStart(s) PROVE BusyWithinCap'
  <2>1. Busy = {x \in Sources : Active(x)}
    BY <1>1, Zenon DEF EmitStart, Busy
  <2>2. Cardinality(Busy) < MaxConcurrent
    BY <1>1, <2>1, Zenon DEF EmitStart, can_start_recording, count_active_recordings
  <2>3. Busy' = Busy \cup {s}
    <3>1. storing'.source = s /\ pc' = "store" /\ UNCHANGED session
        BY <1>1, SMT DEF EmitStart, books
    <3> QED
        BY <2>1, <3>1, Zenon DEF Busy
  <2>4. Cardinality(Busy') <= Cardinality(Busy) + 1
    BY <2>3, BusyFinite, FS_AddElement, SMT
  <2> QED
    BY <2>2, <2>3, <2>4, BusyFinite, FS_AddElement, SMT DEF BusyWithinCap
<1>2. ASSUME ~(\E s \in Sources : EmitStart(s)) PROVE Busy' \subseteq Busy
  <2>1. CASE BeginBatch
    <3>1. pc' = "batch" /\ \A s \in Sources : session'[s] \in {session[s], NoSession}
        BY <2>1, Zenon DEF BeginBatch, cleanup_expired_sessions
    <3> QED
        BY <3>1, SMT DEF Busy, NoSession
  <2>2. CASE StoreSession
    <3>1. pc = "store" /\ pc' = "batch"
          /\ \A s \in Sources : s # storing.source => session'[s] = session[s]
        BY <2>2, SMT DEF StoreSession, TypeOK
    <3> QED
        BY <3>1, SMT DEF Busy
  <2>3. CASE Tick
    <3>1. ASSUME NEW s \in Sources PROVE session'[s].age >= 0 => session[s].age >= 0
      <4>1. session[s] \in [of : 0 .. MaxGeneration, age : -1 .. MaxSessionAge]
        BY DEF TypeOK
      <4>2. session'[s] = [session[s] EXCEPT !.age = Older(@, MaxSessionAge)]
        BY <2>3, Zenon DEF Tick
      <4>3. session'[s].age = Older(session[s].age, MaxSessionAge)
        BY <4>1, <4>2, SMT
      <4> QED
        BY <4>1, <4>3, SMT DEF Older
    <3> QED
        BY <2>3, <3>1, Zenon DEF Tick, Busy
  <2>4. ASSUME NEW e \in Elements, on_recording_done(e) PROVE Busy' \subseteq Busy
    <3>1. UNCHANGED <<pc, storing>> /\ \A s \in Sources : session'[s] \in {session[s], NoSession}
        BY <2>4, SMT DEF on_recording_done, probe, TypeOK
    <3> QED
        BY <3>1, SMT DEF Busy, NoSession
  <2>5. CASE EndBatch
    BY <2>5, SMT DEF EndBatch, Busy, books
  <2>6. CASE Destroy
    BY <2>6, SMT DEF Destroy, Busy, books, probe
  <2>7. ASSUME NEW s \in Sources, AddCamera(s) \/ RemoveCamera(s) \/ SkipFrame(s)
        PROVE  Busy' \subseteq Busy
    BY <2>7, SMT DEF AddCamera, RemoveCamera, SkipFrame, Busy, books, probe
  <2>8. ASSUME NEW e \in Elements, ClipEnds(e) \/ ClipLost(e) PROVE Busy' \subseteq Busy
    BY <2>8, SMT DEF ClipEnds, ClipLost, Busy, books, probe
  <2>9. CASE UNCHANGED vars
    BY <2>9, SMT DEF vars, Busy
  <2> QED
    BY <1>2, <2>1, <2>2, <2>3, <2>4, <2>5, <2>6, <2>7, <2>8, <2>9, Zenon DEF Next
<1>3. ASSUME Busy' \subseteq Busy PROVE BusyWithinCap'
  <2>1. Busy' \in SUBSET Busy
    BY <1>3
  <2>2. Cardinality(Busy') <= Cardinality(Busy) /\ Cardinality(Busy') \in Nat
    BY <2>1, BusyFinite, FS_Subset, FS_CardinalityType
  <2> QED
    BY <2>2, BusyFinite, SMT DEF BusyWithinCap
<1> QED
    BY <1>1, <1>2, <1>3, Zenon

\* Different clips belong to different busy sources.
LEMMA ClipsAreFew ==
    ASSUME TypeOK, ClipInv, BusyWithinCap
    PROVE  ClipsWithinCap
<1> DEFINE S == {e \in Elements : clip[e].st # "none"}
           f == [e \in S |-> e[1]]
<1> USE Pairs
<1>1. \A e \in S : e[1] \in Busy
    BY SMT DEF ClipInv, ClipHasItsSession, Busy, Active
<1>2. ASSUME NEW a \in S, NEW b \in S, a[1] = b[1] PROVE a = b
  <2>1. a[2] = b[2]
    BY <1>2, SMT DEF ClipInv, ClipHasItsSession, StoringIsFree, Active
  <2> QED
    BY <1>2, <2>1, Zenon
<1>3. f \in Injection(S, Busy)
    BY <1>1, <1>2, Zenon DEF Injection, IsInjective
<1>4. Cardinality(S) <= Cardinality(Busy) /\ Cardinality(S) \in Nat
  <2> HIDE DEF f, S
  <2> QED
    BY <1>3, BusyFinite, FS_Injection, FS_CardinalityType
<1> QED
    BY <1>4, BusyFinite, Numbers, SMT DEF BusyWithinCap, ClipsWithinCap

\* max_concurrent_recordings bounds the clips being written: the handler's count
\* of its sessions never falls behind what the elements do.
THEOREM ClipsCapped == Spec => []ClipsWithinCap
<1>1. Init => TypeOK /\ ClipInv /\ BusyWithinCap
    BY InitTyped, InitClips, InitBusy
<1>2. TypeOK /\ ClipInv /\ BusyWithinCap /\ [Next]_vars => (TypeOK /\ ClipInv /\ BusyWithinCap)'
    BY StepTyped, StepClips, StepBusy
<1>3. TypeOK /\ ClipInv /\ BusyWithinCap => ClipsWithinCap
    BY ClipsAreFew
<1> QED
    BY <1>1, <1>2, <1>3, PTL DEF Spec
=============================================================================
