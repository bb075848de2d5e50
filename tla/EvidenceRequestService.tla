----------------------- MODULE EvidenceRequestService -----------------------
(***************************************************************************)
(* pipeline/src/evidence/evidence_request_service.cpp: requests for images *)
(* of an emitted frame.  The evidence thread of PipelineManager polls them *)
(* from the broker and enqueues them; the worker thread materializes them, *)
(* remembers in a ledger which references it has written lately, and       *)
(* publishes one evidence_ready per request; stop() comes from the thread  *)
(* that shuts the engine down.                                             *)
(***************************************************************************)
EXTENDS Integers, Sequences, FiniteSets

CONSTANTS Requests,      \* request ids
          Frames,        \* routes and frame keys
          OverviewRef,   \* reference of a frame's overview
          CropRefs,      \* references of the objects on a frame, in its order
          JobSet,        \* contents a client may put into a request
          Ttl,           \* encode_dedupe_ttl_ms
          MaxRecent,     \* max_recent_encoded_refs, 0 for no bound
          MaxTime,       \* bound of the clock
          None

Refs == {OverviewRef} \cup {CropRefs[n] : n \in DOMAIN CropRefs}

(* What a request asks for; a reference left out is None, a payload that     *)
(* does not parse is invalid.                                                *)
Jobs == [frame : Frames, types : SUBSET {"overview", "crop"}, overview : {OverviewRef, None},
         objects : Seq({CropRefs[n] : n \in DOMAIN CropRefs} \cup {None}), valid : BOOLEAN]

ASSUME ServiceAssumption ==
  /\ JobSet \subseteq Jobs
  /\ Ttl \in Nat \ {0} /\ MaxRecent \in Nat /\ MaxTime \in Nat

Time == 0 .. MaxTime

(* A reference left out stands for the object at its place on the frame; one *)
(* the frame does not have fails to be cropped.                              *)
ASSUME ObjectAssumption ==
  /\ IsFiniteSet(Frames)
  /\ CropRefs \in Seq({CropRefs[n] : n \in DOMAIN CropRefs})
  /\ \A j \in JobSet : \A n \in DOMAIN j.objects : j.objects[n] = None => n \in DOMAIN CropRefs
  /\ None \notin Refs /\ None \notin Time /\ None \notin [id : Requests, job : JobSet]

(* build_recent_ref_key *)
RefKeys == Frames \X Refs

VARIABLES now,
          unsent,     \* requests no client has made yet
          stream,     \* requests in the broker, oldest first
          intake,     \* evidence_loop: pc, the message it holds, and how its consumer reads:
                      \* from "$", after an "id", or no more ("lost")
          jobs,       \* jobs_
          worker,     \* worker_loop: where it stands
          work,       \* locals of process_job
          recent,     \* recent_encoded_refs_: key -> encoded_at_ms, None if absent
          order,      \* recent_ref_order_
          stopper,    \* the thread in stop_evidence_loop
          stop,       \* stop_
          stop_evidence,  \* stop_evidence_
          written,    \* history: key -> when its file was last written, or None
          before_stop,    \* history: requests enqueued before stop_ was set
          replies     \* history: request -> evidence_ready messages, sent or not

queue == <<unsent, stream, intake, jobs, before_stop>>
ledger == <<recent, order>>
control == <<stopper, stop, stop_evidence>>
vars == <<now, queue, worker, work, ledger, control, written, replies>>

Messages == [id : Requests, job : Jobs]
Replies == [status : {"ok", "error", "not_found"}, overview : Refs \cup {None},
            crops : Seq(Refs), reason : {"encoded", "already_encoded", None}, sent : BOOLEAN]
NoWork == [msg |-> None, overview |-> None, crops |-> <<>>, next |-> 1, encoded |-> FALSE]

TypeOK ==
  /\ now \in Time
  /\ unsent \subseteq Requests /\ stream \in Seq(Messages) /\ jobs \in Seq(Messages)
  /\ intake \in [pc : {"top", "poll", "got", "done"}, msg : Messages \cup {None},
                 link : {"$", "id", "lost"}]
  /\ worker \in {"start", "lock", "checked", "waiting", "check", "resolve",
                 "overview", "crops", "exited", "failed"}
  /\ work \in [msg : Messages \cup {None}, overview : Refs \cup {None}, crops : Seq(Refs),
               next : Nat \ {0}, encoded : BOOLEAN]
  /\ recent \in [RefKeys -> Time \cup {None}] /\ order \in Seq(RefKeys)
  /\ stopper \in {"running", "stop", "notify", "join", "join_intake", "done"}
  /\ stop \in BOOLEAN /\ stop_evidence \in BOOLEAN
  /\ written \in [RefKeys -> Time \cup {None}]
  /\ before_stop \subseteq Requests
  /\ replies \in [Requests -> Seq(Replies)]

Init == /\ now = 0
        /\ unsent = Requests /\ stream = <<>> /\ jobs = <<>> /\ before_stop = {}
        /\ intake = [pc |-> "top", msg |-> None, link |-> "$"]
        /\ worker = "start" /\ work = NoWork
        /\ recent = [k \in RefKeys |-> None] /\ order = <<>>
        /\ stopper = "running" /\ stop = FALSE /\ stop_evidence = FALSE
        /\ written = [k \in RefKeys |-> None]
        /\ replies = [r \in Requests |-> <<>>]

Tick == /\ now < MaxTime
        /\ now' = now + 1
        /\ UNCHANGED <<queue, worker, work, ledger, control, written, replies>>

-----------------------------------------------------------------------------
(* The ledger of references written lately. *)

Held(rec) == {k \in RefKeys : rec[k] # None}

(* prune_recently_encoded_locked stops here. *)
Keeps(rec, ord, t) ==
  \/ ord = <<>>
  \/ /\ rec[Head(ord)] # None
     /\ t - rec[Head(ord)] <= Ttl
     /\ MaxRecent = 0 \/ Cardinality(Held(rec)) <= MaxRecent

Forgotten(rec, ord, n) ==
  [rec |-> [k \in RefKeys |-> IF \E i \in 1 .. n : ord[i] = k THEN None ELSE rec[k]],
   ord |-> SubSeq(ord, n + 1, Len(ord))]

(* prune_recently_encoded_locked: drop the oldest until one may stay. *)
Pruned(rec, ord, t) ==
  LET at(n) == Forgotten(rec, ord, n)
  IN at(CHOOSE n \in 0 .. Len(ord) : /\ Keeps(at(n).rec, at(n).ord, t)
                                     /\ \A m \in 0 .. n - 1 : ~Keeps(at(m).rec, at(m).ord, t))

(* The ledger as a look at it leaves it: one value. *)
PrunedNow == {Pruned(recent, order, now)}

(* was_recently_encoded, its answer; the prune is the caller's to apply. *)
was_recently_encoded(rec, key) == rec[key] # None /\ now - rec[key] <= Ttl

(* Mutant of mark_recently_encoded: a new key goes to the front. *)
MarkInFront(rec, ord, key) ==
  Pruned([rec EXCEPT ![key] = now], IF rec[key] = None THEN <<key>> \o ord ELSE ord, now)

(* mark_recently_encoded on a pruned ledger: a new key goes to the end of    *)
(* the order, a known one only gets a new time.                              *)
mark_recently_encoded(rec, ord, key) ==
  Pruned([rec EXCEPT ![key] = now], IF rec[key] = None THEN Append(ord, key) ELSE ord, now)

-----------------------------------------------------------------------------
(* Requests on their way to the queue. *)

(* A client publishes a request. *)
Publish(r, j) ==
  /\ r \in unsent
  /\ unsent' = unsent \ {r}
  /\ stream' = Append(stream, [id |-> r, job |-> j])
  /\ UNCHANGED <<now, intake, jobs, before_stop, worker, work, ledger, control, written, replies>>

(* The head of evidence_loop, and the start of the poll: a consumer that has *)
(* delivered nothing yet asks for what comes after this moment.              *)
LoopTop ==
  /\ intake.pc = "top"
  /\ intake' = [intake EXCEPT !.pc = IF stop_evidence THEN "done" ELSE "poll"]
  /\ stream' = IF ~stop_evidence /\ intake.link = "$" THEN <<>> ELSE stream
  /\ UNCHANGED <<now, unsent, jobs, before_stop, worker, work, ledger, control, written, replies>>

(* poll returns a message; or nothing, after its timeout, an error reply or  *)
(* a broken link before; or its link breaks, and nobody restores it.         *)
PollReturns ==
  /\ intake.pc = "poll"
  /\ \/ /\ stream # <<>> /\ intake.link # "lost"
        /\ intake' = [pc |-> "got", msg |-> Head(stream), link |-> "id"]
        /\ stream' = Tail(stream)
     \/ /\ intake' = [intake EXCEPT !.pc = "top"]
        /\ UNCHANGED stream
     \/ /\ intake' = [intake EXCEPT !.pc = "top", !.link = "lost"]
        /\ UNCHANGED stream
  /\ UNCHANGED <<now, unsent, jobs, before_stop, worker, work, ledger, control, written, replies>>

(* queue_mutex_ is held by the worker between its check and its wait. *)
QueueMutexFree == worker # "checked"

(* Mutant of Enqueue: a sleeping worker is not told. *)
EnqueueSilently ==
  /\ intake.pc = "got" /\ QueueMutexFree
  /\ intake' = [intake EXCEPT !.pc = "top", !.msg = None]
  /\ IF intake.msg.job.valid
     THEN /\ jobs' = Append(jobs, intake.msg)
          /\ before_stop' = IF stop THEN before_stop ELSE before_stop \cup {intake.msg.id}
     ELSE UNCHANGED <<jobs, before_stop>>
  /\ UNCHANGED <<now, unsent, stream, worker, work, ledger, control, written, replies>>

(* enqueue_request, its notify_one, and the ack: the message is gone whether *)
(* or not it was accepted.                                                   *)
Enqueue ==
  /\ intake.pc = "got" /\ QueueMutexFree
  /\ intake' = [intake EXCEPT !.pc = "top", !.msg = None]
  /\ IF intake.msg.job.valid
     THEN /\ jobs' = Append(jobs, intake.msg)
          /\ worker' = IF worker = "waiting" THEN "lock" ELSE worker
          /\ before_stop' = IF stop THEN before_stop ELSE before_stop \cup {intake.msg.id}
     ELSE UNCHANGED <<jobs, worker, before_stop>>
  /\ UNCHANGED <<now, unsent, stream, work, ledger, control, written, replies>>

-----------------------------------------------------------------------------
(* worker_loop *)

CreateContext ==
  /\ worker = "start"
  /\ worker' \in {"lock", "failed"}
  /\ UNCHANGED <<now, queue, work, ledger, control, written, replies>>

(* Mutant of TakeJob: a stopped worker leaves whatever is queued. *)
TakeJobNoDrain ==
  /\ worker = "lock"
  /\ \/ /\ stop /\ worker' = "exited"
        /\ UNCHANGED <<jobs, work>>
     \/ /\ ~stop /\ jobs # <<>>
        /\ worker' = "check"
        /\ work' = [NoWork EXCEPT !.msg = Head(jobs)]
        /\ jobs' = Tail(jobs)
     \/ /\ ~stop /\ jobs = <<>>
        /\ worker' = "checked"
        /\ UNCHANGED <<jobs, work>>
  /\ UNCHANGED <<now, unsent, stream, intake, before_stop, ledger, control, written, replies>>

(* The predicate of cv_.wait, and what follows if it holds. *)
TakeJob ==
  /\ worker = "lock"
  /\ \/ /\ stop /\ jobs = <<>>
        /\ worker' = "exited"
        /\ UNCHANGED <<jobs, work>>
     \/ /\ jobs # <<>>
        /\ worker' = "check"
        /\ work' = [NoWork EXCEPT !.msg = Head(jobs)]
        /\ jobs' = Tail(jobs)
     \/ /\ ~stop /\ jobs = <<>>
        /\ worker' = "checked"
        /\ UNCHANGED <<jobs, work>>
  /\ UNCHANGED <<now, unsent, stream, intake, before_stop, ledger, control, written, replies>>

(* cv_.wait releases the mutex and sleeps. *)
Wait ==
  /\ worker = "checked"
  /\ worker' = "waiting"
  /\ UNCHANGED <<now, queue, work, ledger, control, written, replies>>

-----------------------------------------------------------------------------
(* process_job *)

needs_overview(j) == "overview" \in j.types
needs_crops(j) == "crop" \in j.types

job == work.msg.job

(* publish_ready, then back to the queue.  There may be no ready channel, or *)
(* the producer may refuse the message: nobody looks at what came of it.     *)
publish_ready(status, overview, crops, reason) ==
  /\ \E sent \in BOOLEAN :
       replies' = [replies EXCEPT ![work.msg.id] =
                     Append(@, [status |-> status, overview |-> overview, crops |-> crops,
                                reason |-> reason, sent |-> sent])]
  /\ worker' = "lock"
  /\ work' = NoWork

(* The first look at the ledger.  References found there are collected, and  *)
(* if nothing is missing the request is answered from the ledger alone.      *)
CheckLedger ==
  LET consults == \/ needs_overview(job) /\ job.overview # None
                  \/ needs_crops(job) /\ job.objects # <<>> /\ Head(job.objects) # None
  IN /\ worker = "check"
     /\ \E p \in IF consults THEN PrunedNow ELSE {[rec |-> recent, ord |-> order]} :
          LET known(ref) == ref # None /\ was_recently_encoded(p.rec, <<job.frame, ref>>)
              overview == IF needs_overview(job) /\ known(job.overview) THEN job.overview ELSE None
              all_crops == /\ job.objects # <<>>
                           /\ \A n \in DOMAIN job.objects : known(job.objects[n])
              crops == IF needs_crops(job) /\ all_crops THEN job.objects ELSE <<>>
          IN /\ recent' = p.rec /\ order' = p.ord
             /\ IF (needs_overview(job) => overview # None) /\ (needs_crops(job) => all_crops)
                THEN publish_ready("ok", overview, crops, "already_encoded")
                ELSE /\ worker' = "resolve"
                     /\ work' = [work EXCEPT !.overview = overview, !.crops = crops]
                     /\ UNCHANGED replies
     /\ UNCHANGED <<now, queue, control, written>>

(* FrameEvidenceCache::resolve finds a frame or nothing. *)
ResolveFrame ==
  /\ worker = "resolve"
  /\ \/ publish_ready("not_found", None, <<>>, None)
     \/ /\ worker' = IF needs_overview(job) THEN "overview" ELSE "crops"
        /\ UNCHANGED <<work, replies>>
  /\ UNCHANGED <<now, queue, ledger, control, written>>

(* Mutant of Materialize: the ledger is not told. *)
MaterializeUnmarked(key, p) ==
  /\ written' = [written EXCEPT ![key] = now]
  /\ recent' = p.rec /\ order' = p.ord

(* The file is written and its key enters the ledger p. *)
Materialize(key, p) ==
  /\ written' = [written EXCEPT ![key] = now]
  /\ \E m \in {mark_recently_encoded(p.rec, p.ord, key)} : recent' = m.rec /\ order' = m.ord

(* What a reference comes to: found in the ledger p, or written. *)
Provide(key, p) ==
  IF was_recently_encoded(p.rec, key)
  THEN recent' = p.rec /\ order' = p.ord /\ UNCHANGED written
  ELSE Materialize(key, p)

(* encode_overview *)
EncodeOverview ==
  LET key == <<job.frame, OverviewRef>>
  IN /\ worker = "overview"
     /\ \E p \in PrunedNow :
          /\ Provide(key, p)
          /\ work' = [work EXCEPT !.overview = OverviewRef,
                                  !.encoded = @ \/ ~was_recently_encoded(p.rec, key)]
     /\ worker' = "crops"
     /\ UNCHANGED <<now, queue, control, replies>>

(* The output directory or the encoder fails. *)
EncodeOverviewFails ==
  /\ worker = "overview"
  /\ \/ UNCHANGED ledger
     \/ \E p \in PrunedNow : /\ ~was_recently_encoded(p.rec, <<job.frame, OverviewRef>>)
                            /\ recent' = p.rec /\ order' = p.ord
  /\ publish_ready("error", None, <<>>, None)
  /\ UNCHANGED <<now, queue, control, written>>

(* The objects to crop: those asked for, or all on the frame. *)
request_objects == IF job.objects = <<>> THEN CropRefs ELSE job.objects

MoreCrops == needs_crops(job) /\ work.next <= Len(request_objects)

(* A reference left out is the one the cached object has. *)
output_ref == IF request_objects[work.next] = None THEN CropRefs[work.next]
              ELSE request_objects[work.next]

(* Mutant of EncodeCrop: a crop found in the ledger is not reported. *)
EncodeCropSilent ==
  LET key == <<job.frame, output_ref>>
  IN /\ worker = "crops" /\ MoreCrops
     /\ \E p \in PrunedNow :
          LET encode == ~was_recently_encoded(p.rec, key)
          IN /\ Provide(key, p)
             /\ work' = [work EXCEPT !.crops = IF encode THEN Append(@, output_ref) ELSE @,
                                     !.next = @ + 1, !.encoded = @ \/ encode]
     /\ UNCHANGED <<now, queue, worker, control, replies>>

(* Mutant of EncodeCrop: the reference is reported as it was asked for. *)
EncodeCropRaw ==
  LET key == <<job.frame, output_ref>>
  IN /\ worker = "crops" /\ MoreCrops
     /\ \E p \in PrunedNow :
          LET encode == ~was_recently_encoded(p.rec, key)
          IN /\ Provide(key, p)
             /\ work' = [work EXCEPT !.crops = Append(@, request_objects[work.next]),
                                     !.next = @ + 1, !.encoded = @ \/ encode]
     /\ UNCHANGED <<now, queue, worker, control, replies>>

(* One round of encode_crops. *)
EncodeCrop ==
  LET key == <<job.frame, output_ref>>
  IN /\ worker = "crops" /\ MoreCrops
     /\ \E p \in PrunedNow :
          LET encode == ~was_recently_encoded(p.rec, key)
          IN /\ Provide(key, p)
             /\ work' = [work EXCEPT !.crops = Append(@, output_ref),
                                     !.next = @ + 1, !.encoded = @ \/ encode]
     /\ UNCHANGED <<now, queue, worker, control, replies>>

(* The object is not on the frame, its directory cannot be made, or the      *)
(* encoder fails; for a reference that was given the ledger is asked first.  *)
EncodeCropFails ==
  /\ worker = "crops" /\ MoreCrops
  /\ \/ request_objects[work.next] = None /\ UNCHANGED ledger
     \/ \E p \in PrunedNow : /\ ~was_recently_encoded(p.rec, <<job.frame, output_ref>>)
                            /\ recent' = p.rec /\ order' = p.ord
  /\ publish_ready("error", work.overview, <<>>, None)
  /\ UNCHANGED <<now, queue, control, written>>

(* The end of process_job. *)
Finish ==
  /\ worker = "crops" /\ ~MoreCrops
  /\ publish_ready("ok", work.overview, work.crops,
                   IF work.encoded THEN "encoded" ELSE "already_encoded")
  /\ UNCHANGED <<now, queue, ledger, control, written>>

-----------------------------------------------------------------------------
(* stop_evidence_loop and EvidenceRequestService::stop *)

StopEvidence ==
  /\ stopper = "running"
  /\ stop_evidence' = TRUE
  /\ stopper' = "stop"
  /\ UNCHANGED <<now, queue, worker, work, ledger, stop, written, replies>>

(* stop_ is set without queue_mutex_. *)
SetStop ==
  /\ stopper = "stop"
  /\ stop' = TRUE
  /\ stopper' = "notify"
  /\ UNCHANGED <<now, queue, worker, work, ledger, stop_evidence, written, replies>>

(* notify_all reaches the worker only if it is asleep already. *)
NotifyAll ==
  /\ stopper = "notify"
  /\ worker' = IF worker = "waiting" THEN "lock" ELSE worker
  /\ stopper' = "join"
  /\ UNCHANGED <<now, queue, work, ledger, stop, stop_evidence, written, replies>>

JoinWorker ==
  /\ stopper = "join" /\ worker \in {"exited", "failed"}
  /\ stopper' = "join_intake"
  /\ UNCHANGED <<now, queue, worker, work, ledger, stop, stop_evidence, written, replies>>

JoinIntake ==
  /\ stopper = "join_intake" /\ intake.pc = "done"
  /\ stopper' = "done"
  /\ UNCHANGED <<now, queue, worker, work, ledger, stop, stop_evidence, written, replies>>

-----------------------------------------------------------------------------
Intake == LoopTop \/ PollReturns \/ Enqueue

Process == CheckLedger \/ ResolveFrame \/ EncodeOverview \/ EncodeOverviewFails
             \/ EncodeCrop \/ EncodeCropFails \/ Finish

Worker == CreateContext \/ TakeJob \/ Wait \/ Process

Stopper == StopEvidence \/ SetStop \/ NotifyAll \/ JoinWorker \/ JoinIntake

Next == Tick \/ (\E r \in Requests, j \in JobSet : Publish(r, j)) \/ Intake \/ Worker \/ Stopper

Spec == Init /\ [][Next]_vars

(* Threads that can run do; no client has to ask, and nobody has to stop the *)
(* engine.                                                                   *)
FairSpec == /\ Spec
            /\ WF_vars(Intake) /\ WF_vars(Worker)
            /\ WF_vars(SetStop \/ NotifyAll \/ JoinWorker \/ JoinIntake)
-----------------------------------------------------------------------------
(* Properties *)

Times(rec) == [n \in DOMAIN order |-> rec[order[n]]]

(* The order lists the keys of the ledger, each once and oldest first: what  *)
(* lets the prune stop at the first entry it keeps, and true only because a  *)
(* key is marked again no earlier than it has been forgotten.  They are no   *)
(* more than max_recent_encoded_refs.                                        *)
LedgerInOrder ==
  /\ {order[n] : n \in DOMAIN order} = Held(recent)
  /\ \A m, n \in DOMAIN order : m < n => /\ order[m] # order[n]
                                       /\ recent[order[m]] <= recent[order[n]]
  /\ MaxRecent > 0 => Cardinality(Held(recent)) <= MaxRecent

(* A file is written again only when its last writing is older than the TTL  *)
(* or when max_recent_encoded_refs others have been written since.           *)
NoReencode ==
  [][\A k \in RefKeys : written'[k] # written[k] /\ written[k] # None =>
       \/ now - written[k] > Ttl
       \/ /\ MaxRecent > 0
          /\ Cardinality({l \in RefKeys \ {k} : written[l] # None /\ written[l] >= written[k]})
               >= MaxRecent]_vars

(* The references an answer "ok" owes to a request. *)
Owed(j) == (IF needs_overview(j) THEN {OverviewRef} ELSE {})
             \cup (IF needs_crops(j)
                   THEN {IF j.objects[n] = None THEN CropRefs[n] ELSE j.objects[n] : n \in DOMAIN j.objects}
                   ELSE {})

Named(rep) == ({rep.overview} \ {None}) \cup {rep.crops[n] : n \in DOMAIN rep.crops}

(* An answer "ok" names every reference the request asked for, and nothing   *)
(* that was not written; answered from the ledger or by fresh encoding.      *)
OkMeansWritten ==
  [][\A r \in Requests : Len(replies'[r]) > Len(replies[r]) =>
       LET rep == replies'[r][Len(replies'[r])]
       IN rep.status = "ok" => /\ Owed(job) \subseteq Named(rep)
                               /\ \A ref \in Named(rep) : written'[<<job.frame, ref>>] # None]_vars

(* A worker that leaves because of stop() has put together the answer to     *)
(* everything that was accepted before, and no answer is made twice.         *)
DrainsBeforeExit ==
  /\ worker = "exited" => \A r \in before_stop : Len(replies[r]) = 1
  /\ \A r \in Requests : Len(replies[r]) <= 1

(* A request that enqueue_request accepted before stop_ was set comes to its *)
(* evidence_ready, whatever process_job meets on the way and although a      *)
(* shutdown overtakes it; only a worker without an encoder context serves    *)
(* nothing.  Whether the producer takes the message is another matter.       *)
AcceptedIsServed ==
  \A r \in Requests : r \in before_stop ~> (replies[r] # <<>> \/ worker = "failed")

(* docs/architecture/deepstream/06_runtime_lifecycle.md, graceful shutdown:  *)
(* a shutdown that has begun ends, the worker can be joined.                 *)
StopEnds == stopper = "stop" ~> stopper = "done"
=============================================================================
