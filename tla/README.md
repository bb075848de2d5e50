# A TLA+ model of vms-engine

vms-engine is a C++ video analytics engine on GStreamer and DeepStream: cameras
come in, frames are batched and analysed, detections are published over Redis
streams or Kafka, pictures of a detection are delivered on request, clips are
recorded, and cameras and parameters can be changed while it runs.

This directory models the parts of it whose correctness lies in control: threads
that share a mutex, a condition variable or nothing at all; callbacks that arrive
late; connections that fail; elements that are replaced under their users. TLC
checks the models on small instances, TLAPS proves the central results for every
value of the constants. `PROJECT.json` maps each definition to the source lines it
translates, and lists runs, mutants, findings, hazards and theorems.

## 1. Inventory

| Component | State it keeps | Operations | What is hard about it |
| --- | --- | --- | --- |
| `RuntimeStreamManager`, `SourceIdentityRegistry` | streams by camera, free slot indexes, fixed slots with their selectors, slot names | add, remove, list, buffer probe, 500 ms health check | streaming threads and the main loop share `mtx_`; an add can fail at every step; callbacks carry an old slot index |
| `PipelineManager` life cycle, `main` | `state_`, main loop and its thread, evidence threads, owned services | initialize, start, stop, bus messages, cleanup, signals, watchdog | two threads run the shutdown; `state_` is a plain variable; joins and deletions must be in order on every way out |
| `FrameEvidenceCache` | frames with GPU surfaces, list per source | `store_frame`, `resolve`, prune | probes of several handlers overtake each other between clock, clone and lock |
| `EvidenceRequestService` and the evidence loop | job queue, ledger of references already encoded | enqueue, process, publish, stop | worker, intake and shutdown; TTL and bound of the ledger; a condition variable notified without its mutex |
| `RedisStreamProducer` | context, `connected_`, `reconnect_needed_`, reconnection thread | connect, publish, reconnect, disconnect | publishers on any thread, a broker that fails, lost wake-ups |
| `RedisStreamConsumer` | context, cursor | connect, subscribe, poll | `$` is evaluated anew by each read; no reconnection |
| `SmartRecordProbeHandler` | session, interval and signal handler per source, cached elements | on_buffer, sr-done callback, destructor | the element writes the clip and reports it from its own thread; cameras are swapped under the handler |
| Source and parameter requests, control handler, control messaging, HTTP API | pending callbacks with promises, element properties | add/remove source, set/get property | the caller times out while the main loop still carries the request out; the HTTP server runs on that loop itself |
| `FrameEventsProbeHandler` | last emitted objects and label votes per source | on_buffer | what counts as a change, gap and heartbeat on the wall clock |
| `CropObjectHandler` | six maps per tracked object, token bucket, message chain | on_buffer, stale clean-up, publish | long sequences of frames; limits of the maps |
| External processors | throttle table, OSD overrides, encoder context | process_object, detached HTTP threads | threads that outlive their service and the producer |
| `ClassIdNamespaceHandler` | marker in the object meta | offset, restore | a marker that other elements drop |
| Kafka adapters, storage, builders, parser and validator, plugins, utilities | – | – | no control of their own (section 8) |

How they interact. The probes run on GStreamer streaming threads, in the order of
the handlers in the configuration. `FrameEventsProbeHandler` stores the frame in
`FrameEvidenceCache` before it publishes the frame's key; a client sends that key
back in a request; the evidence loop of `PipelineManager` polls it from the
consumer and hands it to `EvidenceRequestService`, whose worker resolves the frame
in the cache, writes JPEGs and publishes the answer. All publishing goes through
one producer. Control requests come from the HTTP server (on the main loop) or
from a control message thread, and become calls of `RuntimeStreamManager` on the
main loop; the registry it maintains names the cameras for every probe.
`PipelineManager` owns all of this and `main` ends it.

The properties that make each part correct are the ones the runs below check.
Section 8 says what is left out.

## 2. Modules

| Module | Models | Composes or extends |
| --- | --- | --- |
| `RuntimeStreamManager` | the stream manager and the registry | refines `SourceDirectory` |
| `SourceDirectory` | what callers of add and remove may rely on: an abstract directory of cameras and slots | – |
| `SourceControl` | control handler, control messages, HTTP server, and the calls of `PipelineManager` they make on the main loop | uses the actions of `SourceDirectory` as what an add or a removal does |
| `PipelineLifecycle` | `start()` to the end of `main`, the control and evidence threads | – |
| `ProbeConfig` | the probes' configuration as constants with their assumptions | extended by the probes' modules |
| `FrameEvents` | the emit decision of `frame_events` | – |
| `CropObject` | the publish decision of `crop_objects`, its maps and their clean-up | – |
| `ExternalProcessors` | the two services that call an HTTP endpoint per object | – |
| `ClassIdNamespace` | the two class id probes and the tracker between them | – |
| `FrameEvidenceCache` | the frame cache | – |
| `EvidenceRequestService` | evidence loop, queue, worker, ledger, stop | – |
| `RedisStreamProducer`, `RedisStreamConsumer` | the Redis adapters | – |
| `RedisMessaging` | a producer and a consumer on one broker | extends the producer, instantiates the consumer on the same `server` |
| `SmartRecord` | the recording probe, its callback and the elements | – |
| `Probes` | what `attach_probes` attaches, and the services behind it | extends `SmartRecord`, instantiates `FrameEvents`, `CropObject`, `ExternalProcessors`, `ClassIdNamespace`, `FrameEvidenceCache` |
| `…Proofs` | theorems about `RuntimeStreamManager`, `PipelineLifecycle`, `EvidenceRequestService`, `RedisMessaging`, `SmartRecord`, `SourceControl`, `Probes`; those about the cache, which is one of the probes' parts, are in `FrameEvidenceCacheProofs` | extend the module they prove about; `ProbesProofs` extends `FrameEvidenceCacheProofs` and `SmartRecordProofs` |
| `MC…` | definitions for constants (names that collide, kinds of requests, symmetry) | extend the module they check |

Definitions that begin with "Mutant" in their comment are plausible mistakes. They
are not part of any specification; replacing the definition they belong to by them
must make TLC report the property `PROJECT.json` names for them.

## 3. State and actions against the code

**RuntimeStreamManager.** `streams`, `free_source_indexes` (a vector that is always
sorted, so the bag of its elements), `next_source_index` are the members of that
name; `selector` is the active pad of each slot's input-selector, `slot_link` and
`source_bins` the GStreamer side, `registry` the identity registry. Everything
runs under `mtx_` and is one step, with one exception: `remove_stream_detailed`
waits for the source to reach READY while it holds `mtx_`, so a removal is
`RemoveBegin` and `RemoveFinish` with `mtx` held between. A buffer callback is
`BufferArrives` (it waits for `mtx_`, with the slot index it was attached with) and
`NoteStreamActivity`. An add can fail wherever the code can; `BinName` is the
normalisation of camera ids to element names, which is not injective. Slots may
fail to be built at start-up. The clock is reduced to whether a stream's last
buffer is older than the stall timeout.

**PipelineLifecycle.** The main thread and the loop thread advance statement by
statement wherever a statement touches something shared (`state_`, the
`std::thread` members, the stop flags): none of it is locked. A second `join`, the
destruction of a joinable `std::thread`, and an exception that leaves a thread end
in `aborted`. Of the evidence worker the model keeps what decides whether `stop()`
can join it: its predicate and its sleep are two steps (`WorkerChecks`,
`WorkerSleeps`), `stop_` and `notify_all` are two more, so the notification can fall
between and be lost; a request may wake it later (`RequestWakes`). The thread that
consumes control messages is one more user of the manager, stopped and joined by
`main` before it frees anything. That thread and the loop thread may get stuck for
ever in a camera removal (`RemovalHangs`, the hang that `stream_removal` shows).
`Destroy` frees the probes and the stream manager before the evidence threads are
stopped, `Free` and `Release` the rest after it, as `cleanup()` and `main` do.
`initialize()` is taken as done, and `pause()` and `resume()` have no caller.

**SourceControl.** Two front ends. Message commands are handled on a thread of
their own; the HTTP server is a `GSocketService` of the default main context, so
reading a connection (`Incoming`, `ReadRequest`) and answering it occupy the loop
thread. A request is the list of calls it makes (`todo`): one for a source or a
property, a set and a get per item for `set_properties`, `list_sources` for a list.
`list_sources` does not go through the loop: it takes `mtx_` on the caller's thread.
A removal may hold `mtx_` for ever (`RemovalHangs`); `stuck` names the thread it is
on, which takes no further step, and whoever needs `mtx_` then waits (`StreamsFree`).
A text a client sends is converted to a setting (`Conversion`: several texts may mean
the same setting, some mean none). A call is first tested
against the allowed parameters (`Forbidden`), then tests whether the loop runs
(`Check`) and is made on the spot (`Direct`, `InvokeHere`, `CallHere`) or queued
(`InvokeQueued`) and waited for. `TimesOut` abandons the callback and leaves it in
the queue; `Iterate` and `Dispatch` are one iteration of the main context. The loop
starts, is held up and quits at any moment. `belief` records what the message
client may conclude from its answers; a change somebody asks for makes it unknown.
`Answer` hands the reply to the producer, whose refusal the code only logs: a client
that misses a reply concludes less than `belief`, so `BeliefHolds` covers it.

**Probes.** The handlers share no state (each has its own maps under its own mutex;
the cache has a mutex of its own), so a behaviour of `Probes` follows one of them:
`part` names it. This puts all of them under one specification and one run, and
the proofs about it.

**FrameEvents.** One action per frame, empty or not, per slot; the functions keep
the names of the code. The vote of labels, the comparison with the last message,
`min_emit_gap_ms` and the heartbeat are as in the code; class and type of an object
are one value, its box a place on a line, intersection over union a distance.
`Replace` gives the slot to another camera, whose tracker reuses ids.

**CropObject.** A batch is split into frames and groups (a parent with its
children, found by pointer or from `child_parent_oid_cache_`). `decide_capture`
is hysteresis, first sight, interval, and the token bucket for label changes;
`HandleGroup` is publishing or not, with the maps each outcome touches;
`EndBatch` includes the periodic clean-up with its emergency clear. The batch
buffer and each of its frames may come without a time stamp; a frame without one
takes the batch's (`frame_pts`), the clean-up always uses the batch's. Frames are
numbered from 0, which the hysteresis cannot tell from "never seen". Counters stop
where they are no longer compared. The history `out` remembers an object's last message and counts the bypasses of a life,
which begins when the books take the object in, alone or in its parent's company:
an emergency clear forgets the object and ends it.

**ExternalProcessors.** The throttle of the crop service, the detached threads of
both, the overlay texts of the frame service with their retention. A thread is in its
HTTP request, which the timeout ends, and then, if an answer came, at work on it
(`stage`): publishing has no time limit. Parsing the answer, which comes before a text
is stored, takes no time in the model. Threads outlive `Stop`. A text
is kept under slot and tracker id, and applied if its label and the object's are
equal or one of them is empty (`Compatible`). Who is behind the id is not known to
the code; the history `sight` records when an id was last seen and when its present
life began, that is, when it came back after more than the retention and a request's
timeout together, and `shown` the texts put on screen with both times.

**ClassIdNamespace.** One object from its detector through any number of offset
probes, a tracker that may drop `misc_obj_info`, and any number of restore probes.

**FrameEvidenceCache.** `store_frame` is split where the code is: the clock is read
and the surface cloned before the mutex is taken. `resolve` and `prune_locked` are
the code's rules on keys, time distance and age. A snapshot is its key, its time
stamp and its age.

**EvidenceRequestService.** The intake thread, the worker and the stopping thread,
with the queue's mutex and condition variable at the grain at which a wake-up can
be lost; `process_job` is followed from reference to reference. A write succeeds
or fails; a lookup finds the frame or does not. A poll delivers, returns nothing, or
loses its link for good, and until its first delivery skips what was there before
it (`intake.link`, the consumer's `$`). `publish_ready` publishes or is refused, which
nobody notices (`sent`).

**RedisStreamProducer, RedisStreamConsumer.** `ctx_`, `connected_`, `stop_` and
`reconnect_needed_` as in the code; the reconnection thread with its predicate,
its sleep and its back-off; each publisher's unlocked read of `connected_` is a
step of its own. The broker fails and returns, a connection made before a failure
stays broken. The consumer's stream is a growing number of entries and a cursor; a
read delivers, times out, is refused with an error reply, or loses the connection.

**SmartRecord.** A slot has one element after the other (generations); `session`,
`lastRecord`, `handler` and `cached` are the handler's maps, `clip` what each
element does. `start_recording` is split between the emission of start-sr and the
second lock, because sr-done may arrive between. Times are ages, so no clock is
bounded; `lag` is how far the reading a batch made of the clock is behind.

## 4. Runs

| Run | Distinct states | What it shows |
| --- | --- | --- |
| `stream_slots` | 30 958 | Slot bookkeeping, links, names and selectors stay consistent under every interleaving, failed adds included; the manager implements `SourceDirectory`; stalled cameras leave the screen, cameras that deliver are shown |
| `stream_removal` | violation | A removal waits for a streaming thread that waits for the removal's mutex |
| `lifecycle` | 23 237 | No evidence or control thread uses what was freed, nor the loop thread unless it handled a fatal message; a normal return is clean; a shutdown by signal or after a failed start never aborts; it ends, unless the worker misses its wake-up or a removal hangs, and nothing else holds it up; an error on the bus ends the program even then, through the watchdog |
| `lifecycle_eos` | violation | After end of stream `stop()` does nothing and the process aborts |
| `evidence_service` | 522 607 | The ledger is ordered and bounded, `ok` covers what was asked, nothing is encoded twice within the TTL, a worker that has stopped has made the answer to everything accepted before the stop; a request accepted before the stop comes to its `evidence_ready`, whatever fails in encoding, if the worker has its encoder context. Requests that the poll skips and messages that the producer refuses are outside it |
| `evidence_service_stop` | violation | `stop()` can miss the sleeping worker and wait for ever |
| `redis_messaging` | 461 359 | `connected_` never promises a freed context, the producer recovers from any fault, the consumer skips and repeats nothing after its first entry, through error replies and broken connections |
| `redis_consumer_dollar` | violation | Entries between two reads with `$` are never delivered |
| `source_control` | 797 399 | What the message client was told last of a camera or a property stays true, whatever calls it gave up on before; every command is handled to the end, also when the loop is held up or quits, unless it comes to stand behind a removal that never returns; properties only take values that texts convert to |
| `probes` | 923 274 | Evidence: surfaces held are bounded, nothing leaks from the lists, `resolve` returns the nearest frame, and one past its TTL only where handlers overtook each other. Recording: a clip keeps its session, the cap holds for clips, no session blocks its source for ever. Frame events: the gap holds, no change is withheld beyond it. Crops: the maps of published objects agree through every clean-up (`child_parent_oid_cache_` and objects never published are not in it); interval, minimum gap and bucket govern the messages. External processors: the requests of `crop_objects`, whose service is the throttled one, are bounded at an endpoint that hangs (those of `frame_events` are not throttled); no old overlay text stands over a tracker id that is used again. Class ids come back |
| `smart_record_swap` | violation | After a swap the new element's sr-done is not connected |
| `crop_full_frame` | violation | Frames of two cameras with the same number in one batch: the second one's messages name the first one's picture |

A run that ends in a violation states what a comment, a log line or a document of
the repository says; the finding in `PROJECT.json` quotes it.

## 5. Bounds

* `stream_slots`: three cameras, two of which share an element name, and two
  slots: more cameras than slots reaches the capacity test, and a slot is reused
  by a camera other than its first. Histories are not bounded.
* `lifecycle`: one process, all bus messages, at most one hanging removal per thread,
  unbounded.
* `evidence_service`: two requests of every kind over one frame with an overview
  and two crops, time to 2 with a TTL of 1: the second request meets the ledger
  fresh, at its edge, expired and evicted. About 3 min.
* `redis_messaging`: two publishers, two faults, three entries, back-off 5 to 12:
  the second fault falls anywhere into the recovery of the first, and the back-off
  reaches its cap.
* `source_control`: one camera and one slot (sources of different cameras meet only
  in `SourceDirectory`, which `stream_slots` covers), two properties of which one is
  allowed, four texts for two settings, one of which cannot be converted; a command is taken while at most one
  abandoned callback is queued, and may leave more behind.
* `probes`, about 3 min; by part:
  * `smart_record` (184 954 states): two sources, one place, two cameras per source.
    `Finish` and `MaxLag` are at the edge of what `SmartRecordAssumption` allows.
  * `frame_events` (236 000): one slot (slots share nothing), two cameras, two
    tracked ids and the untracked one, five scenes, time to 4 with a gap of 2, a
    heartbeat of 3 and a window of 3: a label wins and loses the window, a gap and
    a heartbeat end, the slot is given away at any point.
  * `crop_objects` (356 000): five scenes with a child that loses its parent's
    pointer and a parent that is filtered out, frames 0 to 5, an interval of 3, a
    bucket of 1, a clean-up every second batch, a limit of one object: expiry and
    the emergency clear both happen, also to objects in view.
  * `ext_proc` (128 000): one tracker id and the untracked one under three labels, one
    of them empty, three threads, time to 5 with an interval and a timeout of 2 and a
    retention of 1: the bound on calls is reached, and an id leaves and comes back
    within and beyond the time its texts may last. That time is exact: TLC refutes
    `TextOfThisLife` when it is taken one shorter.
  * `evidence_cache` (17 500): two handlers, two frames of one source, two entries
    per source, time to 4 with a TTL of 1: two stores overtake each other, expiry
    and eviction by number happen at once.
  * `class_id`: three detectors (without, with computed, with explicit offset), two
    class ids: all states, nothing is bounded.
* `crop_full_frame`: two slots, one frame each.

## 6. Fairness

Fairness is weak and only on what the code or its surroundings keep doing.

* `stream_slots`: the 500 ms timer fires while the loop runs; a thread blocked on a
  mutex that stays free gets it; an element whose threads are out of the way
  changes state. None on adds, removals, buffers.
* `lifecycle`: threads that can run do, the worker included as long as it is not
  asleep; the evidence poll returns within its 250 ms; the kernel delivers the
  watchdog's alarm. None on signals, bus messages, or the requests that would wake a
  worker that missed its notification.
* `evidence_service`, `evidence_service_stop`: intake, worker and the stopping thread
  run; none on clients, nor on the poll delivering.
* `redis_messaging`: the threads run, publishers keep publishing (a producer nobody
  uses does not notice a fault), a failed broker comes back. None on the consumer, of
  which only safety is claimed.
* `source_control`: the thread of the control messages runs and its waits run out
  (`wait_for`), except where it is stuck in a removal or waits for `mtx_`. Nothing is
  asked of the loop or of HTTP clients.
* `probes`: only where smart recording is followed: buffers keep coming until the
  handler is deleted (the pipeline plays), time passes, elements end their clips and
  deliver their signals. None on detections, swaps, or the success of start-sr.

## 7. Proofs

All are invariance or step-simulation proofs with an inductive invariant, each
checked by TLC first. Every safety property a passing run checks, invariant or
action property, is stated by a theorem: the run shows it on an instance, the
theorem for every value of the constants that satisfies the named assumptions.

**RuntimeStreamManagerProofs** (`ConfigAssumption`, `NullAssumption`: a positive
capacity, finitely many cameras, null values that are no cameras or slots). The
inductive invariant is `TypeOK`, `SlotConservation` and `SlotOwnership`.
Conservation alone is not inductive: that an add finds its slot unlinked, that a
buffer callback finds its own camera, and that a finished removal frees an index
nobody else holds needs to know who is linked, named and selected in each slot,
also for the camera whose removal holds `mtx_`, and where every callback in flight
comes from. `SlotsConserved`, `SlotsOwned`, `LiveSlotsNamed`,
`StatesMatchSelectors`, `NoForeignRestore` follow from it. `Refinement` maps every
step to a step or a stutter of `SourceDirectory`; it needs conservation to show
that an accepted camera gets a free slot and that 507 is answered only when full.

**PipelineLifecycleProofs** (`LifecycleAssumption`). `NeverUsesFreed` and
`ExitsClean` follow from where the main thread stands. `Returns` says what the
return address of `stop()` and of `stop_evidence_loop()` tells about it (both are
called from several places), `Joins` which threads are joined by when, `Frees` what
is freed when, and that no evidence or control thread is left by then,
`PipelineState` that a `stop()` which returns early because the state is `Stopped`
leaves a playing pipeline behind only together with its loop thread.
`ShutsDownQuietly` is an action property and needs `Watched`: while the bus watch
is installed, the loop thread has handled nothing, so it has not joined what `main`
will join.

**EvidenceRequestServiceProofs** (`ServiceAssumption`, `ObjectAssumption`: finitely
many frames, and an object named by its place only is one the frame has). The invariant has three parts. Of the queue:
each thread carries a message exactly where it needs one, a request is in one place
(`OnePlace`), and what was accepted before `stop_` is queued, being worked on or
answered (`Drains`). Of the ledger: it is ordered by time (`Ordered`), so that a
prune which stops at the first entry it keeps has seen all expired ones, and what
it does not remember of the files on disk is older than the TTL or crowded out by
as many younger ones as the limit allows (`Remembers`). Of the job under way: what
it has collected is on disk and nothing it passed by is missing (`Collected`).
`LedgerOrdered` and `AnswersBeforeExit` are parts of it; the action properties
`WritesOnce` and `OkIsTrue` follow from `Remembers` and `Collected`.

**RedisMessagingProofs** (`ProducerAssumption`, `EntriesAssumption`). Of the
producer, `ContextAgrees` needs `ThreadGone`: once the reconnection thread has been
joined it does nothing more, so that nobody reconnects after `disconnect()` has
released the context. Of the consumer, `DeliversInOrder` needs `ReadPosition`: where
the cursor, a read under way and the subscription stand to what was delivered, or
nothing says which entry comes next. Both are proved of the parts alone and of the
composition, whose steps are steps of one part or of the broker.

**SmartRecordProofs** (`SmartRecordAssumption`). The assumption that matters is
`Finish + MaxLag <= Duration + Grace`: the grace period covers what nvurisrcbin
needs beyond the clip's length to report it and what the clock reading lags. The
invariant adds to `ClipHasItsSession` that a session is at most `MaxLag` older
than its clip (so it cannot expire first) and that the source whose session is
being stored has none (so no sr-done of another clip clears it). `ClipsCapped`
then maps clips one to one to busy sources, whose number only `EmitStart` raises,
when a place is free.

**SourceControlProofs** (`ControlAssumption`). `BeliefHolds` alone is not
inductive: an abandoned callback could run behind an answer that was given later.
`ControlInv` says why none does. The message thread waits for the newest callback
of the queue or for none (`WaitsForNewest`), so that an answer means that all
earlier callbacks have run; nothing queued changes what is believed (`Settled`); a
change that is about to be queued has cleared the belief (`Cleared`); and a call
that was found to need no loop meets an empty queue, should the loop start under it
(`DirectIsAlone`). `ExecuteTells` is the lemma on `SourceDirectory`: the statuses
tell what the directory now holds. `ControlTypeCorrect` needs `Ranges`: where each
front end can stand, that what is queued and what is still to be called are calls
of the control API, and that an iteration of the loop counts no more callbacks than
are queued.

**FrameEvidenceCacheProofs** (`CacheAssumption`, `BoundsAssumption`). `NoneEscapes`
holds for any number of handlers that overtake each other between clock, clone and
lock: the invariant is the types with `NothingLeaks`, and a prune removes from the
list of a source what it removes from the cache. `prune_locked` and `Best` choose
an element that is least by some measure; that there is one follows from the
well-foundedness of the natural numbers, without induction. `FindsNearest` and
`FindsFresh` are about every state of the cache in which nothing leaks.

**ProbesProofs** (the assumptions of `ProbeConfig` and `Probes`), all of
`ProbesSpec`. `PartsStep` reduces a step to one of a part.

* Class ids: `IdsComeBack` follows an object along its way (`Journey`); offsets must
  be wider than the class ids they are added to, or the fallback of a restore
  mistakes one for the other.
* Frame events: `GapKept` rests on `LastEmitIsSent`: the gap is measured from the
  last message of the slot, and neither an empty view nor a new camera makes it
  forget. `ViewsPublished` (`MessageAssumption`) adds that the state compared with
  is what that message told, and takes the three flags for objects, labels and
  motion to be in `emit_on`: a change nobody asked for may be withheld.
* External processors: `OldTextsGo` (no text of an earlier life of a tracker id is
  shown) rests on `LifeInv`: a request under way was made in the present life of its
  id and while the id was in sight; a text was touched at most `ApiTimeout` after the
  id was last in sight, and is of the present life or older than the retention. So
  when an id has been away for more than both times together, all its texts are stale
  and no request for it is under way. An id that comes back sooner, a new camera's
  included, may show the old text: the code cannot tell. `ThreadsFew`, about the
  throttled crop service, rests on three facts: requests of an object are younger
  than `ApiTimeout`, none started after the throttle's last entry, and any two are
  `ApiInterval` apart; so their ages, divided by the interval, are all different.
* Crops: `BooksKept` is inductive as it stands. `CadenceKept` needs more: that the
  book's time of capture is that of the object's last message (`Lives`), and the
  account of the token bucket (`Bucket`): bypasses of this life plus tokens left are
  at most the bucket and the refills since the life began. `Decided` is the lemma
  that sums up `decide_capture`.
* `ProbesTyped` for all parts, and `RecordsAmongProbes`: what `SmartRecordProofs`
  shows of the handler alone holds of it among the others.

The proof of `Cadence` corrected the model: the history had counted the bypasses of
an object across an emergency clear, after which the code starts with a full bucket.
The instance then checked had too small a refill to show it; with a refill of four,
a check every second batch and no object allowed, TLC does. A life now begins with
the object's entry into the books, which is what the limit is about.

Only model-checked: liveness under fairness, which is out of the prover's reach
(`StallIsolated`, `BufferRestoresLive`, `ShutdownEnds`, `ErrorEndsProgram`,
`AcceptedIsServed`, `Recovers`, `MessageHandled`, `SessionsEnd`),
and the violations of section 4.

## 8. Not modelled

* Kafka adapters: one handle behind a mutex; what is hard is inside librdkafka.
* Builders: straight-line construction before anything runs.
* Parser and validator: functions without state. What they guarantee (a positive
  `mux.max_sources`, TTLs, limits) appears as assumptions on constants.
* Storage managers: no caller. Plugins: numeric post-processing. Logging, UUIDs.
* The picture path (`FrameImageMaterializer`, encoders): success or failure only.
* Of `crop_objects`: the daily directories and their removal, and message ids with
  the chain from one message of an object to the next. File names and JSON of all
  messages.
* `ProbeHandlerManager`: parsing of triggers and the search for pads.
* A malformed `Content-Length`: `std::stoul` throws in a GLib callback, which ends the
  process (`pistache_server.cpp:140`). `ReadRequest` answers such a request.
* Of `crop_objects`, frames of one batch whose own time stamps differ: a frame has the
  time of the clock or none.
* The ends of detached threads after `main` returned, and the HTTP server object's
  own end (section 10).

## 9. Plan

Models, in this order:

1. `CropObject`: daily directories (a failed creation that the next call takes for
   success) and the chain of message ids through expiry and the emergency clear.
2. `PipelineLifecycle`: detached threads of the external processors and the HTTP
   server among the users of what `main` frees.
3. The composition of `FrameEvents` with `FrameEvidenceCache`: every key that is
   published was stored.

Proofs, as these models appear:

1. The chain of message ids: what `BooksAgree` and `Lives` say of the maps, of the
   ids too.
2. `NoUseAfterFree` restricted to what the shutdown really joins, with the detached
   threads among the users (it does not hold of them).
3. Every published key was stored, from `NothingLeaks` and the order of the two
   calls in the probe.

## 10. Observations

Met while modelling, beyond the findings:

* A freed slot keeps its selector on the placeholder and goes on feeding black
  frames into the batch (`runtime_stream_manager.cpp:694`); only the start-up code
  idles a slot.
* After an error on the bus the loop thread and `main` may both join the evidence
  threads (`pipeline_manager.cpp:866`, `:895`), and `start()` may overwrite
  `Error` with `Playing` at its end (`:579`).
* Frames of a source that has gone silent are never pruned: `prune_locked` runs
  only for a source that is stored to or asked for (`frame_evidence_cache.cpp:189`).
* A request whose crops are known and whose overview is not lists its crops twice
  (`evidence_request_service.cpp:310`). Without an encoder context requests are
  accepted, acknowledged and never answered (`:250`), while
  `docs/architecture/runtime_components/evidence_workflow.md:306` has
  `evidence_ready(status=error)` for a failing encoder; `AcceptedIsServed` excepts
  that worker and nothing else. An `evidence_ready` the producer refuses is
  lost, and `publish_json`'s result ignored (`:604`); a repeated request is then
  answered from the ledger.
* The producer's first connection attempt is not retried until a message was
  dropped (`redis_stream_producer.cpp:44`); `disconnect()` notifies without the
  mutex (`:143`); a consumer that lost its connection never reconnects
  (`redis_stream_consumer.cpp:140`).
* `min_interval_sec` is measured from the start of the pre-event part, which makes
  the gap between two triggers shorter by `pre_event_sec`; a failed start-sr
  occupies its source until the session expires; sr-done of source 0 always takes
  the fallback, as its id reads as a null pointer; after a swap the destructor
  disconnects the old handler id from the new element, so the old one keeps a
  callback into the deleted handler
  (`smart_record_probe_handler.cpp:261`, `:325`, `:405`, `:549`).
* One HTTP connection that is opened and says nothing blocks the main loop:
  `read_http_request` has no timeout (`pistache_server.cpp:93`). `main` may free
  the server while the loop thread is in `on_incoming` (`main.cpp:635`).
* Detached threads of the external processors publish through a raw pointer to the
  producer, which `main` may have freed (`ext_proc_svc.cpp:245`); the comment at
  line 62 calls this safe. Their throttle table is never pruned. Answers of the
  frame service that arrive out of order may replace a newer text of the same
  object by an older one.
* `emit_empty_frames` is logged and otherwise unused
  (`frame_events_probe_handler.cpp:204`). Once the majority of a window has no label
  the message shows the provisional one. A wall clock that is set back silences a
  source until it has caught up. Emit state survives a camera swap, and so do overlay
  texts within their retention.
* Exit messages are built and dropped (`crop_object_handler.cpp:252`). Children of
  groups that are not published stay in `child_parent_oid_cache_`, which no limit
  counts; `pub_state_` of objects never published is cleared only by the emergency
  clear. A parent that the label filter leaves out takes its children with it, and
  the deduplication of heartbeats looks at the parent only. A directory that could
  not be created is not tried again that day.
