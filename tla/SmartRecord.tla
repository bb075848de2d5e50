----------------------------- MODULE SmartRecord -----------------------------
(***************************************************************************)
(* SmartRecordProbeHandler: a pad probe that, on a detection, asks the     *)
(* nvurisrcbin of the camera (start-sr) to write a clip, keeps one session *)
(* per source until the element reports the end (sr-done, on a thread of   *)
(* its own), and forgets sessions whose report never came.                 *)
(*                                                                         *)
(* Cameras come and go under the handler (RuntimeStreamManager): a slot    *)
(* has a sequence of elements, one generation after the other, and the     *)
(* element of a removed camera lives on while it finishes its clip.        *)
(*                                                                         *)
(* Time is counted in seconds and kept as ages, so nothing bounds how long *)
(* the system runs.  A batch reads the clock once; lag is how far that     *)
(* reading is behind.                                                      *)
(***************************************************************************)
EXTENDS Integers, FiniteSets

CONSTANTS Sources,        \* the source ids 0, 1, ...
          PreEvent, PostEvent, MinInterval, MaxConcurrent,  \* the configuration
          Grace,          \* kSessionGracePeriodNs
          Finish,         \* by this age of a clip nvurisrcbin has reported its end
          MaxLag,         \* bound: a batch takes no longer than this
          MaxGeneration   \* bound: cameras per slot

Duration == PreEvent + PostEvent

\* The cap is a number of sources (0 in the configuration switches it off: any
\* MaxConcurrent of at least the number of sources).  The grace period covers
\* what the element needs to finish a clip and what the clock reading lags.
ASSUME SmartRecordAssumption ==
    /\ Sources \subseteq Nat /\ IsFiniteSet(Sources)
    /\ {PreEvent, PostEvent, MinInterval, Grace, Finish, MaxLag} \subseteq Nat
    /\ {MaxConcurrent, MaxGeneration} \subseteq Nat \ {0}
    /\ Finish + MaxLag <= Duration + Grace

Generations == 1 .. MaxGeneration
None == 0                             \* no element
Elements == Sources \X Generations
NoClip == [st |-> "none", age |-> 0]
NoSession == [of |-> None, age |-> -1]
Failed == None                        \* the id start-sr returns on failure

VARIABLES
    generation,   \* the newest element the source bin was given for a slot
    present,      \* slots whose newest element is still in the bin
    cached,       \* source_bins_
    handler,      \* signal_handler_id: the element it was connected on, or None
    session,      \* active_session: its clip's element and the age of start_time
    lastRecord,   \* the age of last_record_time, -1 before the first
    clip,         \* external: what each element is recording
    frames,       \* the sources of the batch with a matching object, yet to come
    storing,      \* the session start_recording has asked for and not stored yet
    lag,          \* the age of the batch's clock reading
    pc,           \* "idle", "batch" or "store": the probe
    down          \* the handler has been deleted

vars == <<generation, present, cached, handler, session, lastRecord, clip,
          frames, storing, lag, pc, down>>
world == <<generation, present>>
books == <<session, lastRecord>>
probe == <<frames, storing, lag, pc>>

\* Ages beyond which nothing changes any more.
MaxSessionAge == Duration + Grace + MaxLag + 1
MaxRecordAge == MinInterval + PreEvent + MaxLag + 1

TypeOK ==
    /\ generation \in [Sources -> 0 .. MaxGeneration]
    /\ present \subseteq Sources
    /\ cached \in [Sources -> 0 .. MaxGeneration]
    /\ handler \in [Sources -> 0 .. MaxGeneration]
    /\ session \in [Sources -> [of : 0 .. MaxGeneration, age : -1 .. MaxSessionAge]]
    /\ lastRecord \in [Sources -> -1 .. MaxRecordAge]
    /\ clip \in [Elements -> [st : {"none", "running", "done"}, age : 0 .. Finish]]
    /\ frames \subseteq Sources
    /\ storing \in [source : Sources, of : 0 .. MaxGeneration]
    /\ lag \in 0 .. MaxLag
    /\ pc \in {"idle", "batch", "store"}
    /\ down \in BOOLEAN

Init ==
    /\ generation = [s \in Sources |-> None]
    /\ present = {}
    /\ cached = [s \in Sources |-> None]
    /\ handler = [s \in Sources |-> None]
    /\ session = [s \in Sources |-> NoSession]
    /\ lastRecord = [s \in Sources |-> -1]
    /\ clip = [e \in Elements |-> NoClip]
    /\ frames = {}
    /\ \E s \in Sources : storing = [source |-> s, of |-> None]
    /\ lag = 0
    /\ pc = "idle"
    /\ down = FALSE

------------------------------------------------------------------------------
(* The source bin, as RuntimeStreamManager changes it.                     *)

AddCamera(s) ==
    /\ s \notin present /\ generation[s] < MaxGeneration
    /\ generation' = [generation EXCEPT ![s] = @ + 1]
    /\ present' = present \cup {s}
    /\ UNCHANGED <<cached, handler, books, clip, probe, down>>

RemoveCamera(s) ==
    /\ s \in present
    /\ present' = present \ {s}
    /\ UNCHANGED <<generation, cached, handler, books, clip, probe, down>>

------------------------------------------------------------------------------
(* The probe.                                                              *)

Active(s) == session[s].age >= 0

\* Mutant: neither the pre-event part nor the grace period is allowed for.
ExpiredEarly(s) == session[s].age - lag > PostEvent
\* Mutant: a session with id 0 is taken for one without a start time.
ExpiredKnown(s) == session[s].age - lag > Duration + Grace /\ session[s].of # Failed
\* now > start_time + duration_sec + grace, with now as the batch has read it.
Expired(s) == session[s].age - lag > Duration + Grace

cleanup_expired_sessions ==
    session' = [s \in Sources |-> IF Active(s) /\ Expired(s) THEN NoSession ELSE session[s]]

\* on_buffer reads the clock (lag is 0 between batches); process_batch expires
\* sessions and goes through the frames; seen are those with a matching label.
BeginBatch ==
    /\ pc = "idle" /\ ~down
    /\ cleanup_expired_sessions
    /\ \E seen \in SUBSET Sources : frames' = seen
    /\ pc' = "batch"
    /\ UNCHANGED <<world, cached, handler, lastRecord, clip, storing, lag, down>>

count_active_recordings == Cardinality({s \in Sources : Active(s)})

\* Mutant: the cap is off by one.
can_start_one_more(s) ==
    /\ ~Active(s)
    /\ count_active_recordings <= MaxConcurrent
    /\ lastRecord[s] >= 0 => lastRecord[s] - lag >= MinInterval
\* No session of its own, room under the cap, and the interval has passed.
can_start_recording(s) ==
    /\ ~Active(s)
    /\ count_active_recordings < MaxConcurrent
    /\ lastRecord[s] >= 0 => lastRecord[s] - lag >= MinInterval

\* What the lookup of the source's element by name finds.
in_bin(s) == s \in present

\* A frame that starts nothing: can_start_recording refuses, or the element is
\* not in the bin (a stale entry of the cache is evicted all the same).
SkipFrame(s) ==
    /\ pc = "batch" /\ s \in frames
    /\ \/ ~can_start_recording(s) /\ UNCHANGED cached
       \/ /\ can_start_recording(s) /\ ~in_bin(s)
          /\ cached' = [cached EXCEPT ![s] = None]
    /\ frames' = frames \ {s}
    /\ UNCHANGED <<world, handler, books, clip, storing, lag, pc, down>>

\* find_nvurisrcbin: a cached element that is no longer the one in the bin is
\* replaced; sr-done is connected once per source, not once per element.
find_nvurisrcbin(s) ==
    /\ cached' = [cached EXCEPT ![s] = generation[s]]
    /\ handler' = [handler EXCEPT ![s] = IF @ = None THEN generation[s] ELSE @]

\* start_recording up to its second lock: the element starts a clip or refuses.
EmitStart(s) ==
    /\ pc = "batch" /\ s \in frames
    /\ can_start_recording(s) /\ in_bin(s)
    /\ find_nvurisrcbin(s)
    /\ \/ /\ clip' = [clip EXCEPT ![<<s, generation[s]>>] = [st |-> "running", age |-> 0]]
          /\ storing' = [source |-> s, of |-> generation[s]]
       \/ /\ UNCHANGED clip
          /\ storing' = [source |-> s, of |-> Failed]
    /\ frames' = frames \ {s}
    /\ pc' = "store"
    /\ UNCHANGED <<world, books, lag, down>>

\* A session is stored whatever start-sr has returned; last_record_time is the
\* start of the pre-event part (the clock has run for longer than that).
StoreSession ==
    /\ pc = "store"
    /\ session' = [session EXCEPT ![storing.source] = [of |-> storing.of, age |-> lag]]
    /\ lastRecord' = [lastRecord EXCEPT ![storing.source] = lag + PreEvent]
    /\ storing' = [storing EXCEPT !.of = None]
    /\ pc' = "batch"
    /\ UNCHANGED <<world, cached, handler, clip, frames, lag, down>>

EndBatch ==
    /\ pc = "batch" /\ frames = {}
    /\ pc' = "idle"
    /\ lag' = 0
    /\ UNCHANGED <<world, cached, handler, books, clip, frames, storing, down>>

\* Each handler id is disconnected from the element that is cached now; on
\* another element the id means nothing, and the connection stays.
disconnect_all_signals ==
    handler' = [s \in Sources |-> IF handler[s] = cached[s] THEN None ELSE handler[s]]

\* ~SmartRecordProbeHandler, when the pipeline removes the probe.
Destroy ==
    /\ pc = "idle" /\ ~down
    /\ down' = TRUE
    /\ disconnect_all_signals
    /\ cached' = [s \in Sources |-> None]
    /\ UNCHANGED <<world, books, clip, probe>>

------------------------------------------------------------------------------
(* nvurisrcbin (external) and its callback.                                *)

\* A clip ends by itself, early when the camera ends; whoever is connected to
\* sr-done is called.
ClipEnds(e) ==
    /\ clip[e].st = "running"
    /\ clip' = [clip EXCEPT ![e] = IF handler[e[1]] = e[2] THEN [@ EXCEPT !.st = "done"]
                                   ELSE NoClip]
    /\ UNCHANGED <<world, cached, handler, books, probe, down>>

\* The camera or the element is lost and nothing is ever reported.
ClipLost(e) ==
    /\ clip[e].st = "running"
    /\ clip' = [clip EXCEPT ![e] = NoClip]
    /\ UNCHANGED <<world, cached, handler, books, probe, down>>

\* The source id is read from the element's qdata; for source 0 that reads as
\* absent and the cache is searched instead.
knows_source(e) == e[1] # 0 \/ cached[0] = e[2]

\* on_recording_done clears whatever session the source has.
on_recording_done(e) ==
    /\ clip[e].st = "done"
    /\ clip' = [clip EXCEPT ![e] = NoClip]
    /\ session' = IF knows_source(e) /\ ~down
                  THEN [session EXCEPT ![e[1]] = NoSession]
                  ELSE session
    /\ UNCHANGED <<world, cached, handler, lastRecord, probe, down>>

Older(age, max) == IF age < 0 \/ age = max THEN age ELSE age + 1

\* A second passes; clips do not outlive Finish, nor a batch MaxLag.
Tick ==
    /\ \A e \in Elements : clip[e].st # "none" => clip[e].age < Finish
    /\ pc # "idle" => lag < MaxLag
    /\ clip' = [e \in Elements |-> IF clip[e].st = "none" THEN NoClip
                                   ELSE [clip[e] EXCEPT !.age = @ + 1]]
    /\ session' = [s \in Sources |-> [session[s] EXCEPT !.age = Older(@, MaxSessionAge)]]
    /\ lastRecord' = [s \in Sources |-> Older(lastRecord[s], MaxRecordAge)]
    /\ lag' = IF pc = "idle" THEN 0 ELSE lag + 1
    /\ UNCHANGED <<world, cached, handler, frames, storing, pc, down>>

Next ==
    \/ BeginBatch \/ StoreSession \/ EndBatch \/ Destroy \/ Tick
    \/ \E s \in Sources : AddCamera(s) \/ RemoveCamera(s) \/ SkipFrame(s) \/ EmitStart(s)
    \/ \E e \in Elements : ClipEnds(e) \/ ClipLost(e) \/ on_recording_done(e)

Spec == Init /\ [][Next]_vars

\* Buffers keep coming until the handler is deleted, a batch is finished, time
\* passes, clips end and signals are delivered.
FairSpec ==
    /\ Spec
    /\ WF_vars(BeginBatch) /\ WF_vars(StoreSession) /\ WF_vars(EndBatch) /\ WF_vars(Tick)
    /\ WF_vars(\E s \in Sources : SkipFrame(s) \/ EmitStart(s))
    /\ WF_vars(\E e \in Elements : ClipEnds(e) \/ on_recording_done(e))

------------------------------------------------------------------------------
(* Properties.                                                             *)

\* A clip that is being written, or whose end is being reported, is the one its
\* source's session stands for, or the one start_recording is about to store: a
\* session is neither expired nor cleared by an older clip's sr-done under a
\* running clip, through camera swaps, late reports and failed starts.
ClipHasItsSession ==
    \A e \in Elements : clip[e].st # "none" =>
        \/ Active(e[1]) /\ session[e[1]].of = e[2]
        \/ pc = "store" /\ storing = [source |-> e[1], of |-> e[2]]

\* max_concurrent_recordings is a cap on the clips being written, not only on
\* the handler's own count of them.
ClipsWithinCap ==
    Cardinality({e \in Elements : clip[e].st # "none"}) <= MaxConcurrent

\* No source is blocked for ever by a session: start-sr may fail, the camera may
\* be replaced before it reports, the report may be lost.
SessionsEnd == \A s \in Sources : Active(s) ~> (~Active(s) \/ down)

\* What find_nvurisrcbin's re-discovery is for: an element that is asked for a
\* clip has sr-done connected, so that record_done follows.
EndIsReported ==
    \A e \in Elements : clip[e].st = "running" /\ ~down => handler[e[1]] = e[2]
=============================================================================
