------------------------- MODULE PipelineLifecycle -------------------------
(***************************************************************************)
(* From PipelineManager::start() to the end of main(): the main thread     *)
(* starts, polls and tears down; the loop thread runs the GMainLoop and    *)
(* handles bus messages; with evidence enabled there are an intake thread  *)
(* (evidence_loop) and an encoding worker (EvidenceRequestService), with   *)
(* control messaging a thread that consumes commands (SourceControl).      *)
(* Every shared variable is read and written without a lock, so each       *)
(* statement that touches one is a step.                                   *)
(***************************************************************************)
CONSTANTS EvidenceEnabled,  \* evidence is configured, with producer and consumer
          BusMessages       \* fatal messages the pipeline may post: "eos", "error"

ASSUME LifecycleAssumption == /\ EvidenceEnabled \in BOOLEAN
                              /\ BusMessages \subseteq {"eos", "error"}

VARIABLES
  pc,              \* where the main and the loop thread are
  afterStop,       \* where main goes on after stop()
  afterEvidence,   \* where each goes on after stop_evidence_loop()
  state,           \* state_
  pipeline,        \* the GStreamer state last requested
  loop_running,    \* g_main_loop_is_running
  watch,           \* the bus watch is installed
  thread,          \* std::thread members and what they run
  worker,          \* where worker_loop stands
  hung,            \* threads inside a removal, or behind its mutex, that never returns
  stop_worker,     \* EvidenceRequestService::stop_
  stop_evidence,   \* stop_evidence_
  stop_control,    \* RuntimeControlMessageConsumer::stop_requested_
  stop_requested,  \* g_stop_requested
  alarm,           \* the cleanup watchdog is armed
  rc,              \* return_code
  freed            \* objects destroyed so far

returnVars == <<afterStop, afterEvidence>>
gstVars == <<pipeline, loop_running, watch>>
flagVars == <<worker, hung, stop_worker, stop_evidence, stop_control, stop_requested>>
exitVars == <<alarm, rc, freed>>
vars == <<pc, returnVars, state, gstVars, thread, flagVars, exitVars>>

States == {"Uninitialized", "Ready", "Playing", "Stopped", "Error"}

SharedSteps == {"sel_flag", "sel_worker", "worker_notify", "worker_test", "worker_join",
                "sel_evidence", "evidence_join"}

MainSteps == SharedSteps \cup
  {"start", "spawn_loop", "subscribe", "clear_stop_worker", "spawn_worker", "clear_stop",
   "spawn_evidence", "playing", "poll", "exit_code", "end_control", "control_join", "cleanup",
   "early_control", "early_join", "early_return",
   "stop", "quit_loop", "join_loop", "loop_join", "set_null",
   "destroy", "cleanup_stop", "free", "release", "exited", "aborted", "killed"}

LoopSteps == SharedSteps \cup {"none", "starting", "running", "quit", "done"}

Ended == {"exited", "aborted", "killed"}

Threads == {"loop", "evidence", "worker", "control"}

Objects == {"probes", "streams", "service", "cache", "messaging", "manager"}

At(t, l) == pc[t] = l
Goto(t, l) == pc' = [pc EXCEPT ![t] = l]

TypeOK ==
  /\ pc \in [{"main", "loop"} -> MainSteps \cup LoopSteps]
  /\ pc["main"] \in MainSteps /\ pc["loop"] \in LoopSteps
  /\ afterStop \in {"exit_code", "destroy", "free"}
  /\ afterEvidence \in [{"main", "loop"} -> {"quit_loop", "cleanup_stop", "quit"}]
  /\ state \in States
  /\ pipeline \in {"READY", "PLAYING", "NULL"}
  /\ thread \in [Threads -> {"none", "running", "ended", "joined"}]
  /\ (thread["loop"] = "none") <=> At("loop", "none")
  /\ (thread["loop"] \in {"ended", "joined"}) <=> At("loop", "done")
  /\ worker \in {"starting", "busy", "checked", "asleep"} /\ hung \subseteq {"loop", "control"}
  /\ rc \in {"success", "failure"}
  /\ freed \subseteq Objects
  /\ loop_running \in BOOLEAN /\ watch \in BOOLEAN /\ stop_worker \in BOOLEAN
  /\ stop_evidence \in BOOLEAN /\ stop_control \in BOOLEAN
  /\ stop_requested \in BOOLEAN /\ alarm \in BOOLEAN

(* initialize() has succeeded, control messaging runs if it is configured,   *)
(* and the signal handlers are installed.                                    *)
Init ==
  /\ pc = [t \in {"main", "loop"} |-> IF t = "main" THEN "start" ELSE "none"]
  /\ afterStop = "exit_code"
  /\ afterEvidence = [t \in {"main", "loop"} |-> IF t = "main" THEN "quit_loop" ELSE "quit"]
  /\ state = "Ready"
  /\ pipeline = "READY"
  /\ loop_running = FALSE
  /\ watch = TRUE
  /\ \E c \in {"none", "running"} :
       thread = [t \in Threads |-> IF t = "control" THEN c ELSE "none"]
  /\ worker = "starting" /\ hung = {}
  /\ stop_worker = FALSE
  /\ stop_evidence = FALSE
  /\ stop_control = FALSE
  /\ stop_requested = FALSE
  /\ alarm = FALSE
  /\ rc = "success"
  /\ freed = {}

Joinable(x) == thread[x] \in {"running", "ended"}
-----------------------------------------------------------------------------
(* PipelineManager::start() *)

Start ==
  /\ At("main", "start")
  /\ \/ pipeline' = "PLAYING" /\ Goto("main", "spawn_loop") /\ UNCHANGED <<state, rc>>
     \/ \* gst_element_set_state fails: main returns EXIT_FAILURE at once
        state' = "Error" /\ Goto("main", "early_control") /\ rc' = "failure"
        /\ UNCHANGED pipeline
  /\ UNCHANGED <<returnVars, loop_running, watch, thread, flagVars, alarm, freed>>

(* Mutant of SpawnLoop: the thread is detached, not kept. *)
DetachLoop ==
  /\ At("main", "spawn_loop")
  /\ pc' = [pc EXCEPT !["main"] = IF EvidenceEnabled THEN "subscribe" ELSE "playing",
                      !["loop"] = "starting"]
  /\ UNCHANGED <<returnVars, state, gstVars, thread, flagVars, exitVars>>

SpawnLoop ==
  /\ At("main", "spawn_loop")
  /\ thread' = [thread EXCEPT !["loop"] = "running"]
  /\ pc' = [pc EXCEPT !["main"] = IF EvidenceEnabled THEN "subscribe" ELSE "playing",
                      !["loop"] = "starting"]
  /\ UNCHANGED <<returnVars, state, gstVars, flagVars, exitVars>>

Subscribe ==
  /\ At("main", "subscribe")
  /\ \E ok \in BOOLEAN : Goto("main", IF ok THEN "clear_stop_worker" ELSE "playing")
  /\ UNCHANGED <<returnVars, state, gstVars, thread, flagVars, exitVars>>

(* EvidenceRequestService::start(), then the intake thread: each clears its *)
(* stop flag and creates its thread.                                        *)
ClearStopWorker ==
  /\ At("main", "clear_stop_worker")
  /\ stop_worker' = FALSE
  /\ Goto("main", "spawn_worker")
  /\ UNCHANGED <<returnVars, state, gstVars, thread, worker, hung, stop_evidence, stop_control,
                 stop_requested, exitVars>>

ClearStop ==
  /\ At("main", "clear_stop")
  /\ stop_evidence' = FALSE
  /\ Goto("main", "spawn_evidence")
  /\ UNCHANGED <<returnVars, state, gstVars, thread, worker, hung, stop_worker, stop_control,
                 stop_requested, exitVars>>

Spawn(label, x, next) ==
  /\ At("main", label)
  /\ thread' = [thread EXCEPT ![x] = "running"]
  /\ Goto("main", next)
  /\ UNCHANGED <<returnVars, state, gstVars, flagVars, exitVars>>

SpawnWorker == Spawn("spawn_worker", "worker", "clear_stop")
SpawnEvidence == Spawn("spawn_evidence", "evidence", "playing")

SetPlaying ==
  /\ At("main", "playing")
  /\ state' = "Playing"
  /\ Goto("main", "poll")
  /\ UNCHANGED <<returnVars, gstVars, thread, flagVars, exitVars>>
-----------------------------------------------------------------------------
(* stop_evidence_loop(), called by main and by the loop thread *)

SetStopFlags(t) ==
  /\ At(t, "sel_flag")
  /\ stop_evidence' = TRUE
  /\ Goto(t, "sel_worker")
  /\ UNCHANGED <<returnVars, state, gstVars, thread, worker, hung, stop_worker, stop_control,
                 stop_requested, exitVars>>

Other(t) == IF t = "main" THEN "loop" ELSE "main"

(* A second join of a thread fails with a system_error: caught only in      *)
(* main's try block, where stop() is called because of a signal.            *)
JoinFails(t) ==
  IF t = "main" /\ afterStop = "exit_code"
  THEN Goto("main", "end_control") /\ rc' = "failure"
  ELSE Goto("main", "aborted") /\ UNCHANGED rc

(* Test joinable() and call join(); l is the label of the wait.             *)
CallJoin(t, x, l, next) ==
  \/ ~Joinable(x) /\ Goto(t, next) /\ UNCHANGED rc
  \/ Joinable(x) /\ ~At(Other(t), l) /\ Goto(t, l) /\ UNCHANGED rc
  \/ Joinable(x) /\ At(Other(t), l) /\ JoinFails(t)

(* EvidenceRequestService::stop(), statement by statement *)
SetStopWorker(t) ==
  /\ At(t, "sel_worker")
  /\ IF EvidenceEnabled
     THEN stop_worker' = TRUE /\ Goto(t, "worker_notify")
     ELSE UNCHANGED stop_worker /\ Goto(t, "sel_evidence")
  /\ UNCHANGED <<returnVars, state, gstVars, thread, worker, hung, stop_evidence, stop_control,
                 stop_requested, exitVars>>

(* notify_all reaches only a worker that is asleep. *)
NotifyWorker(t) ==
  /\ At(t, "worker_notify")
  /\ worker' = IF worker = "asleep" THEN "busy" ELSE worker
  /\ Goto(t, "worker_test")
  /\ UNCHANGED <<returnVars, state, gstVars, thread, hung, stop_worker, stop_evidence,
                 stop_control, stop_requested, exitVars>>

JoinWorker(t) ==
  /\ At(t, "worker_test")
  /\ CallJoin(t, "worker", "worker_join", "sel_evidence")
  /\ UNCHANGED <<returnVars, state, gstVars, thread, flagVars, alarm, freed>>

JoinEvidence(t) ==
  /\ At(t, "sel_evidence")
  /\ CallJoin(t, "evidence", "evidence_join", afterEvidence[t])
  /\ UNCHANGED <<returnVars, state, gstVars, thread, flagVars, alarm, freed>>

Joined(t, label, x, next) ==
  /\ At(t, label)
  /\ thread[x] = "ended"
  /\ thread' = [thread EXCEPT ![x] = "joined"]
  /\ Goto(t, next)
  /\ UNCHANGED <<returnVars, state, gstVars, flagVars, exitVars>>

WorkerJoined(t) == Joined(t, "worker_join", "worker", "sel_evidence")
EvidenceJoined(t) == Joined(t, "evidence_join", "evidence", afterEvidence[t])
-----------------------------------------------------------------------------
(* The loop thread *)

(* g_main_loop_run *)
LoopEnter ==
  /\ At("loop", "starting")
  /\ loop_running' = TRUE
  /\ Goto("loop", "running")
  /\ UNCHANGED <<returnVars, state, pipeline, watch, thread, flagVars, exitVars>>

LoopExit ==
  /\ At("loop", "running") /\ "loop" \notin hung
  /\ ~loop_running
  /\ Goto("loop", "done")
  /\ thread' = [thread EXCEPT !["loop"] = "ended"]
  /\ UNCHANGED <<returnVars, state, gstVars, flagVars, exitVars>>

(* on_bus_message removes its watch after either; it may be dispatched in   *)
(* the iteration during which main quits the loop.                          *)
HandleEos ==
  /\ At("loop", "running") /\ "loop" \notin hung
  /\ watch /\ "eos" \in BusMessages
  /\ watch' = FALSE
  /\ state' = "Stopped"
  /\ Goto("loop", "quit")
  /\ UNCHANGED <<returnVars, pipeline, loop_running, thread, flagVars, exitVars>>

HandleError ==
  /\ At("loop", "running") /\ "loop" \notin hung
  /\ watch /\ "error" \in BusMessages
  /\ watch' = FALSE
  /\ state' = "Error"
  /\ Goto("loop", "sel_flag")
  /\ UNCHANGED <<returnVars, pipeline, loop_running, thread, flagVars, exitVars>>

LoopQuit ==
  /\ At("loop", "quit")
  /\ loop_running' = FALSE
  /\ Goto("loop", "running")
  /\ UNCHANGED <<returnVars, state, pipeline, watch, thread, flagVars, exitVars>>
-----------------------------------------------------------------------------
(* The evidence and control threads end once they see their stop flag; a    *)
(* call the control thread posts to the loop times out at the latest.       *)

ThreadEnds(x, flag) ==
  /\ thread[x] = "running"
  /\ flag
  /\ thread' = [thread EXCEPT ![x] = "ended"]
  /\ UNCHANGED <<pc, returnVars, state, gstVars, flagVars, exitVars>>

EvidenceLoopEnds == ThreadEnds("evidence", stop_evidence)
ControlEnds == ThreadEnds("control", stop_control /\ "control" \notin hung)

(* A removal on the loop or the control thread waits under mtx_ for a        *)
(* streaming thread that waits for mtx_ (RuntimeStreamManager); it never     *)
(* returns, nor does a call behind it.                                       *)
RemovalHangs(x) ==
  /\ pipeline = "PLAYING" /\ thread[x] = "running"
  /\ x = "loop" => At("loop", "running")
  /\ hung' = hung \cup {x}
  /\ UNCHANGED <<pc, returnVars, state, gstVars, thread, worker, stop_worker, stop_evidence,
                 stop_control, stop_requested, exitVars>>

(* The worker serves requests, tests stop_ under its mutex, and sleeps until *)
(* it is notified; between the test and the sleep a notification is lost.    *)
WorkerMoves(from, to) ==
  /\ thread["worker"] = "running" /\ worker = from
  /\ worker' = to
  /\ UNCHANGED <<pc, returnVars, state, gstVars, thread, hung, stop_worker, stop_evidence,
                 stop_control, stop_requested, exitVars>>

WorkerStarts == WorkerMoves("starting", "busy")
WorkerChecks == ~stop_worker /\ WorkerMoves("busy", "checked")
WorkerSleeps == WorkerMoves("checked", "asleep")

(* It leaves when it sees stop_, or has no encoder context to begin with. *)
WorkerEnds == ThreadEnds("worker", worker = "busy" /\ stop_worker)
NoContext == ThreadEnds("worker", worker = "starting")

(* enqueue_request's notify_one *)
RequestWakes == thread["evidence"] = "running" /\ WorkerMoves("asleep", "busy")

WorkerStep == WorkerStarts \/ NoContext \/ WorkerChecks \/ WorkerSleeps \/ WorkerEnds
-----------------------------------------------------------------------------
(* main(): signals, the polling loop, stop(), cleanup *)

HandleSignal ==
  /\ pc["main"] \notin Ended
  /\ stop_requested' = TRUE
  /\ UNCHANGED <<pc, returnVars, state, gstVars, thread, worker, hung, stop_worker, stop_evidence,
                 stop_control, exitVars>>

(* Mutant of Poll: only Stopped ends the loop. *)
PollIgnoresError ==
  /\ At("main", "poll")
  /\ \/ state = "Stopped" /\ Goto("main", "exit_code") /\ UNCHANGED afterStop
     \/ /\ state # "Stopped" /\ stop_requested
        /\ Goto("main", "stop") /\ afterStop' = "exit_code"
  /\ UNCHANGED <<afterEvidence, state, gstVars, thread, flagVars, exitVars>>

Poll ==
  /\ At("main", "poll")
  /\ \/ /\ state \in {"Stopped", "Error"}
        /\ Goto("main", "exit_code") /\ UNCHANGED afterStop
     \/ /\ state \notin {"Stopped", "Error"} /\ stop_requested
        /\ Goto("main", "stop") /\ afterStop' = "exit_code"
  /\ UNCHANGED <<afterEvidence, state, gstVars, thread, flagVars, exitVars>>

(* PipelineManager::stop() *)
Stop ==
  /\ At("main", "stop")
  /\ IF state \in {"Stopped", "Uninitialized"}
     THEN Goto("main", afterStop) /\ UNCHANGED afterEvidence
     ELSE /\ Goto("main", "sel_flag")
          /\ afterEvidence' = [afterEvidence EXCEPT !["main"] = "quit_loop"]
  /\ UNCHANGED <<afterStop, state, gstVars, thread, flagVars, exitVars>>

(* Mutant of QuitLoop: the loop is not asked to quit. *)
ForgetQuit ==
  /\ At("main", "quit_loop")
  /\ Goto("main", "join_loop")
  /\ UNCHANGED <<returnVars, state, gstVars, thread, flagVars, exitVars>>

(* Nothing to quit when the thread has not entered g_main_loop_run yet. *)
QuitLoop ==
  /\ At("main", "quit_loop")
  /\ loop_running' = FALSE
  /\ Goto("main", "join_loop")
  /\ UNCHANGED <<returnVars, state, pipeline, watch, thread, flagVars, exitVars>>

(* Mutant of JoinLoop: the loop thread is not joined. *)
ForgetJoin ==
  /\ At("main", "join_loop")
  /\ Goto("main", "set_null")
  /\ UNCHANGED <<returnVars, state, gstVars, thread, flagVars, exitVars>>

JoinLoop ==
  /\ At("main", "join_loop")
  /\ Goto("main", IF Joinable("loop") THEN "loop_join" ELSE "set_null")
  /\ UNCHANGED <<returnVars, state, gstVars, thread, flagVars, exitVars>>

LoopJoined == Joined("main", "loop_join", "loop", "set_null")

(* Mutant of SetNull: the pipeline is left as it is. *)
ForgetNull ==
  /\ At("main", "set_null")
  /\ state' = "Stopped"
  /\ Goto("main", afterStop)
  /\ UNCHANGED <<returnVars, gstVars, thread, flagVars, exitVars>>

(* set_state(NULL) waits for the streaming threads, one of which a removal   *)
(* that hangs has stopped.                                                   *)
SetNull ==
  /\ At("main", "set_null") /\ hung = {}
  /\ pipeline' = "NULL"
  /\ state' = "Stopped"
  /\ Goto("main", afterStop)
  /\ UNCHANGED <<returnVars, loop_running, watch, thread, flagVars, exitVars>>

(* The exit code, and the watchdog if the pipeline is in Error. *)
ExitCode ==
  /\ At("main", "exit_code")
  /\ rc' = IF state = "Error" THEN "failure" ELSE "success"
  /\ alarm' = (state = "Error")
  /\ Goto("main", "end_control")
  /\ UNCHANGED <<returnVars, state, gstVars, thread, flagVars, freed>>

WatchdogFires ==
  /\ alarm /\ pc["main"] \notin Ended
  /\ Goto("main", "killed")
  /\ UNCHANGED <<returnVars, state, gstVars, thread, flagVars, exitVars>>

(* Mutant of StopControl: the thread is told to end, not waited for. *)
StopControlOnly(label, wait, next) ==
  /\ At("main", label)
  /\ stop_control' = TRUE
  /\ Goto("main", next)
  /\ UNCHANGED <<returnVars, state, gstVars, thread, worker, hung, stop_worker, stop_evidence,
                 stop_requested, exitVars>>

(* RuntimeControlMessageConsumer::stop(): called in the clean-up, and by the *)
(* destructor of main's local on an early return.                            *)
StopControl(label, wait, next) ==
  /\ At("main", label)
  /\ stop_control' = TRUE
  /\ Goto("main", IF Joinable("control") THEN wait ELSE next)
  /\ UNCHANGED <<returnVars, state, gstVars, thread, worker, hung, stop_worker, stop_evidence,
                 stop_requested, exitVars>>

EndControl == \/ StopControl("end_control", "control_join", "cleanup")
              \/ Joined("main", "control_join", "control", "cleanup")
EarlyControl == \/ StopControl("early_control", "early_join", "early_return")
                \/ Joined("main", "early_join", "control", "early_return")

Cleanup ==
  /\ At("main", "cleanup")
  /\ Goto("main", IF state \in {"Stopped", "Uninitialized"} THEN "destroy" ELSE "stop")
  /\ afterStop' = "destroy"
  /\ UNCHANGED <<afterEvidence, state, gstVars, thread, flagVars, exitVars>>

(* return EXIT_FAILURE: main's own objects go before the global manager. *)
EarlyReturn ==
  /\ At("main", "early_return")
  /\ freed' = freed \cup {"messaging"}
  /\ Goto("main", "destroy")
  /\ UNCHANGED <<returnVars, state, gstVars, thread, flagVars, alarm, rc>>

(* Mutant of Destroy: the objects go before their threads. *)
ResetBeforeJoin ==
  /\ At("main", "destroy")
  /\ afterStop' = "free"
  /\ afterEvidence' = [afterEvidence EXCEPT !["main"] = "cleanup_stop"]
  /\ freed' = freed \cup {"probes", "streams", "service", "cache"}
  /\ Goto("main", "sel_flag")
  /\ UNCHANGED <<state, gstVars, thread, flagVars, alarm, rc>>

(* ~PipelineManager: cleanup() up to stop_evidence_loop(), with the probes   *)
(* detached and the stream manager reset; up to stop(); and what is left,    *)
(* then the members are destroyed.                                           *)
Destroy ==
  /\ At("main", "destroy")
  /\ afterStop' = "free"
  /\ afterEvidence' = [afterEvidence EXCEPT !["main"] = "cleanup_stop"]
  /\ freed' = freed \cup {"probes", "streams"}
  /\ Goto("main", "sel_flag")
  /\ UNCHANGED <<state, gstVars, thread, flagVars, alarm, rc>>

CleanupStop ==
  /\ At("main", "cleanup_stop")
  /\ Goto("main", "stop")
  /\ UNCHANGED <<returnVars, state, gstVars, thread, flagVars, exitVars>>

(* ~std::thread of a joinable thread calls std::terminate. *)
Free ==
  /\ At("main", "free")
  /\ freed' = freed \cup {"service", "cache", "manager"}
  /\ watch' = FALSE
  /\ state' = "Uninitialized"
  /\ Goto("main", IF Joinable("loop") \/ Joinable("evidence") THEN "aborted" ELSE "release")
  /\ UNCHANGED <<returnVars, pipeline, loop_running, thread, flagVars, alarm, rc>>

Release ==
  /\ At("main", "release")
  /\ freed' = freed \cup {"messaging"}
  /\ alarm' = FALSE
  /\ Goto("main", "exited")
  /\ UNCHANGED <<returnVars, state, gstVars, thread, flagVars, rc>>
-----------------------------------------------------------------------------
StopEvidenceLoop(t) == \/ SetStopFlags(t) \/ SetStopWorker(t) \/ NotifyWorker(t) \/ JoinWorker(t)
                       \/ WorkerJoined(t) \/ JoinEvidence(t) \/ EvidenceJoined(t)

MainStep ==
  \/ Start \/ SpawnLoop \/ Subscribe \/ ClearStopWorker \/ SpawnWorker \/ ClearStop
  \/ SpawnEvidence \/ SetPlaying \/ Poll \/ ExitCode \/ EndControl \/ Cleanup
  \/ EarlyControl \/ EarlyReturn
  \/ Stop \/ QuitLoop \/ JoinLoop \/ LoopJoined \/ SetNull
  \/ Destroy \/ CleanupStop \/ Free \/ Release
  \/ StopEvidenceLoop("main")

LoopRun == LoopEnter \/ LoopExit \/ LoopQuit \/ StopEvidenceLoop("loop")

(* Nothing runs once the process is gone. *)
Alive == pc["main"] \notin Ended

Next == /\ Alive
        /\ \/ MainStep \/ LoopRun \/ HandleEos \/ HandleError
           \/ EvidenceLoopEnds \/ WorkerStep \/ RequestWakes \/ ControlEnds
           \/ \E x \in {"loop", "control"} : RemovalHangs(x)
           \/ HandleSignal \/ WatchdogFires

Spec == Init /\ [][Next]_vars

(* Every thread that can run is scheduled, consumer_->poll(250) returns so   *)
(* that evidence_loop sees its flag, and an armed alarm goes off.  Messages, *)
(* signals and requests need not come.                                       *)
Fairness == /\ WF_vars(Alive /\ MainStep) /\ WF_vars(Alive /\ LoopRun)
            /\ WF_vars(Alive /\ EvidenceLoopEnds) /\ WF_vars(Alive /\ WorkerStep)
            /\ WF_vars(Alive /\ ControlEnds) /\ WF_vars(Alive /\ WatchdogFires)

FairSpec == Spec /\ Fairness
-----------------------------------------------------------------------------
(* Properties *)

(* A running evidence or control thread finds the objects it works with:     *)
(* cleanup() joins the former before it resets the service and the cache,    *)
(* main joins the latter before it releases the manager, and keeps the       *)
(* messaging adapters until then, on every path out of main.  The loop       *)
(* thread outlives the stream manager, whose timer it runs, and the probes   *)
(* only when it has handled a fatal message.                                 *)
NoUseAfterFree ==
  Alive => /\ (Joinable("worker") \/ Joinable("evidence")) =>
                freed \cap {"service", "cache", "messaging"} = {}
           /\ Joinable("control") => freed \cap {"manager", "messaging", "streams"} = {}
           /\ Joinable("loop") /\ watch => freed \cap {"probes", "streams", "manager"} = {}

(* When main returns, every thread was joined and the pipeline is NULL.      *)
CleanExit ==
  At("main", "exited") => /\ \A x \in Threads : ~Joinable(x)
                          /\ pipeline = "NULL"
                          /\ freed = Objects

(* The process does not end in std::terminate.                               *)
NoAbort == ~At("main", "aborted")

(* As long as the loop thread has handled no end of stream and no error, no  *)
(* step ends in std::terminate: a signal, at whatever moment, and a pipeline *)
(* that fails to start leave no thread joinable and join none twice.         *)
QuietShutdown == [][watch => ~At("main", "aborted")']_vars

(* notify_all fell between the worker's test and its sleep: whoever joins    *)
(* the worker waits for it.                                                  *)
MissedWakeUp ==
  /\ stop_worker /\ thread["worker"] = "running" /\ worker = "asleep"
  /\ \E t \in {"main", "loop"} : At(t, "worker_join")

(* main waits for a thread, or for the pipeline, behind a removal that hangs. *)
BehindRemoval == hung # {} /\ pc["main"] \in {"loop_join", "control_join", "set_null"}

(* A stop() that finds the loop thread inside g_main_loop_run (or finds no   *)
(* loop thread) ends the program, whatever the loop thread is handling; only *)
(* the worker's lost wake-up and a removal that hangs hold it up for ever.   *)
ShutdownEnds ==
  (At("main", "stop") /\ ~At("loop", "starting")) ~>
    (pc["main"] \in Ended \/ [](MissedWakeUp \/ BehindRemoval))

(* An error handled while main polls ends the program.                       *)
ErrorEndsProgram ==
  (At("main", "poll") /\ state = "Error") ~> (pc["main"] \in Ended)
=============================================================================
