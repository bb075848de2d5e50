---------------------- MODULE PipelineLifecycleProofs ----------------------
(***************************************************************************)
(* Proofs, with and without evidence and for every set of fatal messages,  *)
(* of the safety properties of PipelineLifecycle: no thread outlives what  *)
(* it works with, main leaves nothing behind, and only a handled end of    *)
(* stream or error can lead to std::terminate.                             *)
(***************************************************************************)
EXTENDS PipelineLifecycle, TLAPS

(* Before PipelineManager is destroyed, outside stop().                      *)
EarlySteps ==
  {"start", "spawn_loop", "subscribe", "clear_stop_worker", "spawn_worker", "clear_stop",
   "spawn_evidence", "playing", "poll", "exit_code", "end_control", "control_join", "cleanup",
   "early_control", "early_join", "early_return"}

(* Nothing has been started, or nothing could be.                            *)
NoWorkerYet == {"start", "spawn_loop", "subscribe", "clear_stop_worker", "spawn_worker",
                "early_control", "early_join", "early_return"}

(* stop_evidence_loop() has returned in main and no thread was added since.  *)
EvidenceStopped == {"quit_loop", "join_loop", "loop_join", "set_null", "cleanup_stop", "free",
                    "release", "exited"}

Gone(x) == thread[x] \in {"none", "joined"}

(* Where stop() and stop_evidence_loop() return to says how far main got.    *)
Returns ==
  /\ afterEvidence["loop"] = "quit"
  /\ afterEvidence["main"] \in {"quit_loop", "cleanup_stop"}
  /\ afterStop # "free" => afterEvidence["main"] = "quit_loop"
  /\ pc["main"] \in EarlySteps => afterStop = "exit_code"
  /\ pc["main"] \in {"cleanup_stop", "free", "release", "exited"} => afterStop = "free"

(* Which threads are joined by when.                                         *)
Joins ==
  /\ pc["main"] \in NoWorkerYet => thread["worker"] = "none"
  /\ pc["main"] \in NoWorkerYet \cup {"clear_stop", "spawn_evidence"} => thread["evidence"] = "none"
  /\ ~EvidenceEnabled => thread["worker"] = "none"
  /\ pc["main"] \in {"subscribe", "clear_stop_worker", "spawn_worker", "clear_stop",
                     "spawn_evidence"} => EvidenceEnabled
  /\ pc["main"] \in {"sel_evidence", "evidence_join"} \cup EvidenceStopped => Gone("worker")
  /\ pc["main"] \in EvidenceStopped => Gone("evidence")
  /\ pc["main"] = "stop" /\ afterStop = "free" => Gone("worker") /\ Gone("evidence")
  /\ pc["main"] \in {"cleanup", "early_return", "destroy"} \/ afterStop \in {"destroy", "free"} =>
       Gone("control")
  /\ pc["main"] \in {"set_null", "release", "exited"} => Gone("loop")

(* What is freed when, and that nothing freed has a thread left.             *)
Frees ==
  /\ afterStop = "exit_code" /\ pc["main"] \notin {"destroy"} \cup Ended => freed = {}
  /\ freed # {} => Gone("control")
  /\ freed \cap {"service", "cache", "messaging", "manager"} # {} => Gone("worker") /\ Gone("evidence")
  /\ afterStop = "free" => {"probes", "streams"} \subseteq freed
  /\ afterStop # "free" => freed \cap {"probes", "streams", "manager"} = {}
  /\ pc["main"] \in {"release", "exited"} => {"service", "cache", "manager"} \subseteq freed
  /\ pc["main"] = "exited" => freed = Objects

(* state_ and the requested GStreamer state: a stop() that returns early     *)
(* because of Stopped leaves a pipeline behind only with its loop thread.    *)
PipelineState ==
  /\ pc["main"] \in {"start", "spawn_loop"} => state = "Ready"
  /\ pc["main"] \in {"start", "spawn_loop", "early_control", "early_join", "early_return"} =>
       thread["loop"] = "none"
  /\ state = "Uninitialized" => pc["main"] \in {"release"} \cup Ended
  /\ state = "Stopped" /\ Gone("loop") /\ pc["main"] \notin {"set_null"} \cup Ended =>
       pipeline = "NULL"
  /\ pc["main"] = "free" => ~Gone("loop") \/ pipeline = "NULL"
  /\ pc["main"] \in {"release", "exited"} => pipeline = "NULL"

(* While the bus watch is installed the loop thread has handled nothing, and *)
(* main does not reach the destructors with that thread unjoined.            *)
Watched ==
  watch => /\ pc["loop"] \notin SharedSteps \cup {"quit"}
           /\ state = "Stopped" => Gone("loop")
           /\ pc["main"] = "destroy" \/ afterStop = "free" => Gone("loop")

IInv == TypeOK /\ Returns /\ Joins /\ Frees /\ PipelineState /\ Watched

(* Goto moves one thread's label and leaves the other's.                     *)
LEMMA GotoMain ==
  ASSUME TypeOK, NEW l \in MainSteps, Goto("main", l)
  PROVE  /\ pc' \in [{"main", "loop"} -> MainSteps \cup LoopSteps]
         /\ pc'["main"] = l /\ pc'["loop"] = pc["loop"]
  BY DEF TypeOK, Goto

(* The loop thread moves, and main stays where it is. *)
LEMMA GotoLoop ==
  ASSUME TypeOK, NEW l \in LoopSteps, Goto("loop", l)
  PROVE  /\ pc' \in [{"main", "loop"} -> MainSteps \cup LoopSteps]
         /\ pc'["loop"] = l /\ pc'["main"] = pc["main"]
  BY DEF TypeOK, Goto

(* A thread that is spawned, ends or is joined.                              *)
LEMMA ThreadSet ==
  ASSUME TypeOK, NEW x \in Threads, NEW v \in {"running", "ended", "joined"},
         thread' = [thread EXCEPT ![x] = v]
  PROVE  /\ thread' \in [Threads -> {"none", "running", "ended", "joined"}]
         /\ thread'[x] = v
         /\ \A y \in Threads \ {x} : thread'[y] = thread[y]
  BY DEF TypeOK

(* The labels a thread may come back to are its own.                         *)
LEMMA Labels ==
  ASSUME TypeOK, Returns
  PROVE  /\ afterStop \in MainSteps /\ afterEvidence["main"] \in MainSteps
         /\ afterEvidence["loop"] \in LoopSteps
         /\ SharedSteps \subseteq MainSteps /\ SharedSteps \subseteq LoopSteps
         /\ SharedSteps \cap {"none", "done"} = {}
         /\ "quit" \notin {"none", "done"}
  BY DEF TypeOK, Returns, MainSteps, LoopSteps, SharedSteps

-----------------------------------------------------------------------------
(* Types *)

(* The steps of main outside the joins.                                      *)
LEMMA MainTypes ==
  ASSUME TypeOK, Returns,
         \/ Start \/ Subscribe \/ ClearStopWorker \/ SpawnWorker \/ ClearStop \/ SpawnEvidence
         \/ SetPlaying \/ Poll \/ ExitCode \/ Cleanup \/ EarlyReturn \/ Stop \/ QuitLoop
         \/ JoinLoop \/ SetNull \/ Destroy \/ CleanupStop \/ Free \/ Release \/ WatchdogFires
  PROVE  TypeOK'
<1>0. \A l \in MainSteps : Goto("main", l) =>
        /\ pc' \in [{"main", "loop"} -> MainSteps \cup LoopSteps]
        /\ pc'["main"] = l /\ pc'["loop"] = pc["loop"]
  BY GotoMain
<1>s. afterStop \in MainSteps
  BY Labels
<1>t. \A x \in {"worker", "evidence"} : thread' = [thread EXCEPT ![x] = "running"] =>
        /\ thread' \in [Threads -> {"none", "running", "ended", "joined"}]
        /\ thread'["loop"] = thread["loop"]
  BY ThreadSet DEF Threads
<1> USE DEF TypeOK, At, returnVars, gstVars, flagVars, exitVars, States
<1>1. CASE Start
  BY <1>1, <1>0, <1>s DEF MainSteps, Start
<1>2. CASE Subscribe
  BY <1>2, <1>0, <1>s DEF MainSteps, Subscribe
<1>3. CASE ClearStopWorker
  <2>1. stop_worker' \in BOOLEAN
    BY <1>3, Zenon DEF ClearStopWorker
  <2> QED BY <1>3, <2>1, <1>0, <1>s DEF MainSteps, ClearStopWorker
<1>4. CASE SpawnWorker
  BY <1>4, <1>0, <1>s, <1>t DEF MainSteps, SpawnWorker, Spawn
<1>5. CASE ClearStop
  <2>1. stop_evidence' \in BOOLEAN
    BY <1>5, Zenon DEF ClearStop
  <2> QED BY <1>5, <2>1, <1>0, <1>s DEF MainSteps, ClearStop
<1>6. CASE SpawnEvidence
  BY <1>6, <1>0, <1>s, <1>t DEF MainSteps, SpawnEvidence, Spawn
<1>7. CASE SetPlaying
  BY <1>7, <1>0, <1>s DEF MainSteps, SetPlaying
<1>8. CASE Poll
  BY <1>8, <1>0, <1>s DEF MainSteps, Poll
<1>9. CASE ExitCode
  BY <1>9, <1>0, <1>s DEF MainSteps, ExitCode
<1>10. CASE Cleanup
  BY <1>10, <1>0, <1>s DEF MainSteps, Cleanup
<1>11. CASE EarlyReturn
  BY <1>11, <1>0, <1>s DEF MainSteps, EarlyReturn, Objects
<1>12. CASE Stop
  <2>1. afterEvidence' \in [{"main", "loop"} -> {"quit_loop", "cleanup_stop", "quit"}]
    BY <1>12 DEF Stop, TypeOK
  <2>2. /\ pc' \in [{"main", "loop"} -> MainSteps \cup LoopSteps]
        /\ pc'["main"] \in MainSteps /\ pc'["loop"] = pc["loop"]
    <3>1. "sel_flag" \in MainSteps
      BY DEF MainSteps, SharedSteps
    <3> QED BY <1>12, <1>0, <1>s, <3>1 DEF Stop
  <2> QED BY <1>12, <2>1, <2>2 DEF Stop
<1>13. CASE QuitLoop
  <2>1. loop_running' \in BOOLEAN
    BY <1>13, Zenon DEF QuitLoop
  <2> QED BY <1>13, <2>1, <1>0, <1>s DEF MainSteps, QuitLoop
<1>14. CASE JoinLoop
  BY <1>14, <1>0, <1>s DEF MainSteps, JoinLoop
<1>15. CASE SetNull
  BY <1>15, <1>0, <1>s DEF MainSteps, SetNull
<1>16. CASE Destroy
  <2>1. afterEvidence' \in [{"main", "loop"} -> {"quit_loop", "cleanup_stop", "quit"}]
    BY <1>16 DEF Destroy, TypeOK
  <2>2. /\ pc' \in [{"main", "loop"} -> MainSteps \cup LoopSteps]
        /\ pc'["main"] \in MainSteps /\ pc'["loop"] = pc["loop"]
    <3>1. "sel_flag" \in MainSteps
      BY DEF MainSteps, SharedSteps
    <3> QED BY <1>16, <1>0, <1>s, <3>1 DEF Destroy
  <2> QED BY <1>16, <2>1, <2>2 DEF Destroy, Objects
<1>17. CASE CleanupStop
  BY <1>17, <1>0, <1>s DEF MainSteps, CleanupStop
<1>18. CASE Free
  <2>1. watch' \in BOOLEAN
    BY <1>18, Zenon DEF Free
  <2> QED BY <1>18, <2>1, <1>0, <1>s DEF MainSteps, Free, Objects
<1>19. CASE Release
  <2>1. alarm' \in BOOLEAN
    BY <1>19, Zenon DEF Release
  <2> QED BY <1>19, <2>1, <1>0, <1>s DEF MainSteps, Release, Objects
<1>20. CASE WatchdogFires
  BY <1>20, <1>0, <1>s DEF MainSteps, WatchdogFires
<1> QED
  BY <1>1, <1>2, <1>3, <1>4, <1>5, <1>6, <1>7, <1>8, <1>9, <1>10,
     <1>11, <1>12, <1>13, <1>14, <1>15, <1>16, <1>17, <1>18, <1>19, <1>20

(* The loop thread and the moment it is created.                             *)
LEMMA LoopTypes ==
  ASSUME TypeOK, SpawnLoop \/ LoopEnter \/ LoopExit \/ LoopQuit \/ HandleEos \/ HandleError
  PROVE  TypeOK'
<1>0. \A l \in LoopSteps : Goto("loop", l) =>
        /\ pc' \in [{"main", "loop"} -> MainSteps \cup LoopSteps]
        /\ pc'["loop"] = l /\ pc'["main"] = pc["main"]
  BY GotoLoop
<1>1. CASE SpawnLoop
  <2>1. /\ pc' \in [{"main", "loop"} -> MainSteps \cup LoopSteps]
        /\ pc'["main"] \in MainSteps /\ pc'["loop"] = "starting"
    BY <1>1 DEF SpawnLoop, TypeOK, MainSteps, LoopSteps
  <2>2. /\ thread' \in [Threads -> {"none", "running", "ended", "joined"}]
        /\ thread'["loop"] = "running"
    BY <1>1, ThreadSet DEF SpawnLoop, Threads
  <2>3. UNCHANGED <<returnVars, state, gstVars, flagVars, exitVars>>
    BY <1>1 DEF SpawnLoop
  <2> QED BY <2>1, <2>2, <2>3 DEF TypeOK, At, LoopSteps, returnVars, gstVars, flagVars, exitVars
<1> USE DEF TypeOK, At, returnVars, gstVars, flagVars, exitVars, States
<1>2. CASE LoopEnter
  BY <1>2, <1>0 DEF LoopEnter, LoopSteps
<1>3. CASE LoopExit
  <2>1. /\ thread' \in [Threads -> {"none", "running", "ended", "joined"}]
        /\ thread'["loop"] = "ended"
    BY <1>3, ThreadSet DEF LoopExit, Threads
  <2> QED BY <1>3, <2>1, <1>0 DEF LoopExit, LoopSteps
<1>4. CASE LoopQuit
  <2>1. loop_running' \in BOOLEAN
    BY <1>4, Zenon DEF LoopQuit
  <2> QED BY <1>4, <2>1, <1>0 DEF LoopQuit, LoopSteps
<1>5. CASE HandleEos
  <2>1. watch' \in BOOLEAN
    BY <1>5, Zenon DEF HandleEos
  <2> QED BY <1>5, <2>1, <1>0 DEF HandleEos, LoopSteps
<1>6. CASE HandleError
  <2>1. watch' \in BOOLEAN
    BY <1>6, Zenon DEF HandleError
  <2> QED BY <1>6, <2>1, <1>0 DEF HandleError, LoopSteps, SharedSteps
<1> QED
  BY <1>1, <1>2, <1>3, <1>4, <1>5, <1>6

(* What a joining step may do to the labels.                                 *)
LEMMA JoinedTypes ==
  ASSUME TypeOK, NEW x \in Threads, x # "loop", NEW t \in {"main", "loop"}, NEW label, NEW next,
         \/ t = "main" /\ next \in MainSteps
         \/ t = "loop" /\ next \in LoopSteps \ {"none", "done"} /\ label \notin {"none", "done"},
         Joined(t, label, x, next)
  PROVE  TypeOK'
<1>1. /\ thread' \in [Threads -> {"none", "running", "ended", "joined"}]
      /\ thread'["loop"] = thread["loop"]
  BY ThreadSet DEF Joined, Threads
<1>2. /\ pc' \in [{"main", "loop"} -> MainSteps \cup LoopSteps]
      /\ pc'["main"] \in MainSteps /\ pc'["loop"] \in LoopSteps
      /\ (pc'["loop"] = "none") <=> (pc["loop"] = "none")
      /\ (pc'["loop"] = "done") <=> (pc["loop"] = "done")
  <2>1. CASE t = "main" /\ next \in MainSteps
    BY <2>1, GotoMain DEF Joined, TypeOK
  <2>2. CASE t = "loop" /\ next \in LoopSteps \ {"none", "done"} /\ label \notin {"none", "done"}
    BY <2>2, GotoLoop DEF Joined, TypeOK, At
  <2> QED BY <2>1, <2>2
<1>3. UNCHANGED <<returnVars, state, gstVars, flagVars, exitVars>>
  BY DEF Joined
<1> QED
  BY <1>1, <1>2, <1>3 DEF TypeOK, At, returnVars, gstVars, flagVars, exitVars

(* What testing joinable() and calling join() may do to the labels.          *)
LEMMA CallJoinLabels ==
  ASSUME TypeOK, NEW x, NEW t \in {"main", "loop"}, NEW l \in SharedSteps, NEW next,
         pc[t] \in SharedSteps, SharedSteps \cap {"none", "done"} = {},
         SharedSteps \subseteq MainSteps, SharedSteps \subseteq LoopSteps,
         \/ t = "main" /\ next \in MainSteps
         \/ t = "loop" /\ next \in LoopSteps \ {"none", "done"},
         CallJoin(t, x, l, next)
  PROVE  /\ pc' \in [{"main", "loop"} -> MainSteps \cup LoopSteps]
         /\ pc'["main"] \in MainSteps /\ pc'["loop"] \in LoopSteps
         /\ (pc'["loop"] = "none") <=> (pc["loop"] = "none")
         /\ (pc'["loop"] = "done") <=> (pc["loop"] = "done")
         /\ rc' \in {"success", "failure"}
<1>0. {"aborted", "end_control"} \subseteq MainSteps
  BY DEF MainSteps
<1>1. CASE JoinFails(t)
  BY <1>0, <1>1, GotoMain DEF JoinFails, TypeOK
<1>2. ASSUME NEW m \in {l, next}, Goto(t, m), UNCHANGED rc
      PROVE  /\ pc' \in [{"main", "loop"} -> MainSteps \cup LoopSteps]
             /\ pc'["main"] \in MainSteps /\ pc'["loop"] \in LoopSteps
             /\ (pc'["loop"] = "none") <=> (pc["loop"] = "none")
             /\ (pc'["loop"] = "done") <=> (pc["loop"] = "done")
             /\ rc' \in {"success", "failure"}
  <2>1. CASE t = "main"
    <3>1. m \in MainSteps
      BY <2>1
    <3> QED BY <1>2, <2>1, <3>1, GotoMain DEF TypeOK
  <2>2. CASE t = "loop"
    <3>1. m \in LoopSteps \ {"none", "done"}
      BY <2>2
    <3> QED BY <1>2, <2>2, <3>1, GotoLoop DEF TypeOK
  <2> QED BY <2>1, <2>2
<1> QED
  BY <1>1, <1>2 DEF CallJoin

(* The steps of stop_evidence_loop(), in either thread.                      *)
LEMMA StopEvidenceTypes ==
  ASSUME TypeOK, Returns, NEW t \in {"main", "loop"}, StopEvidenceLoop(t)
  PROVE  TypeOK'
<1>0. /\ \/ t = "main" /\ afterEvidence[t] \in MainSteps
         \/ t = "loop" /\ afterEvidence[t] \in LoopSteps \ {"none", "done"}
      /\ SharedSteps \subseteq MainSteps /\ SharedSteps \subseteq LoopSteps
      /\ SharedSteps \cap {"none", "done"} = {}
  BY Labels DEF Returns
<1>1. {"sel_flag", "sel_worker", "worker_notify", "worker_test", "worker_join", "sel_evidence",
       "evidence_join"} \subseteq SharedSteps
  BY DEF SharedSteps
<1>2. \/ t = "main" /\ "sel_evidence" \in MainSteps
      \/ t = "loop" /\ "sel_evidence" \in LoopSteps \ {"none", "done"}
  BY <1>0, <1>1
<1>3. CASE SetStopFlags(t)
  <2>1. stop_evidence' \in BOOLEAN
    BY <1>3, Zenon DEF SetStopFlags
  <2>2. /\ pc' \in [{"main", "loop"} -> MainSteps \cup LoopSteps]
        /\ pc'["main"] \in MainSteps /\ pc'["loop"] \in LoopSteps
        /\ (pc'["loop"] = "none") <=> (pc["loop"] = "none")
        /\ (pc'["loop"] = "done") <=> (pc["loop"] = "done")
    <3>1. CASE t = "main"
      BY <1>0, <1>1, <1>3, <3>1, GotoMain DEF SetStopFlags, TypeOK
    <3>2. CASE t = "loop"
      BY <1>0, <1>1, <1>3, <3>2, GotoLoop DEF SetStopFlags, TypeOK, At
    <3> QED BY <3>1, <3>2
  <2>3. UNCHANGED <<returnVars, state, gstVars, thread, worker, hung, stop_worker, stop_control,
                    stop_requested, exitVars>>
    BY <1>3 DEF SetStopFlags
  <2> QED BY <2>1, <2>2, <2>3 DEF TypeOK, At, returnVars, gstVars, exitVars
<1>4. CASE SetStopWorker(t) \/ NotifyWorker(t)
  <2>0. pc[t] \in SharedSteps
    BY <1>1, <1>4 DEF SetStopWorker, NotifyWorker, At
  <2>1. stop_worker' \in BOOLEAN
    <3>1. CASE SetStopWorker(t) /\ EvidenceEnabled
      BY <3>1, Zenon DEF SetStopWorker
    <3>2. CASE (SetStopWorker(t) /\ ~EvidenceEnabled) \/ NotifyWorker(t)
      BY <3>2 DEF SetStopWorker, NotifyWorker, TypeOK
    <3> QED BY <1>4, <3>1, <3>2
  <2>2. \E m \in {"worker_notify", "worker_test", "sel_evidence"} : Goto(t, m)
    BY <1>4 DEF SetStopWorker, NotifyWorker
  <2>3. /\ pc' \in [{"main", "loop"} -> MainSteps \cup LoopSteps]
        /\ pc'["main"] \in MainSteps /\ pc'["loop"] \in LoopSteps
        /\ (pc'["loop"] = "none") <=> (pc["loop"] = "none")
        /\ (pc'["loop"] = "done") <=> (pc["loop"] = "done")
    <3>1. CASE t = "main"
      BY <1>0, <1>1, <2>2, <3>1, GotoMain DEF TypeOK
    <3>2. CASE t = "loop"
      BY <1>0, <1>1, <2>0, <2>2, <3>2, GotoLoop DEF TypeOK
    <3> QED BY <3>1, <3>2
  <2>4. worker' \in {"starting", "busy", "checked", "asleep"}
    BY <1>4 DEF SetStopWorker, NotifyWorker, TypeOK
  <2>5. UNCHANGED <<returnVars, state, gstVars, thread, hung, stop_evidence, stop_control,
                    stop_requested, exitVars>>
    BY <1>4 DEF SetStopWorker, NotifyWorker
  <2> QED BY <2>1, <2>3, <2>4, <2>5 DEF TypeOK, At, returnVars, gstVars, exitVars
<1>8. CASE JoinWorker(t)
  <2>0. pc[t] \in SharedSteps
    BY <1>1, <1>8 DEF JoinWorker, At
  <2>1. CallJoin(t, "worker", "worker_join", "sel_evidence")
    BY <1>8 DEF JoinWorker
  <2>2. /\ pc' \in [{"main", "loop"} -> MainSteps \cup LoopSteps]
        /\ pc'["main"] \in MainSteps /\ pc'["loop"] \in LoopSteps
        /\ (pc'["loop"] = "none") <=> (pc["loop"] = "none")
        /\ (pc'["loop"] = "done") <=> (pc["loop"] = "done")
        /\ rc' \in {"success", "failure"}
    BY <1>0, <1>1, <1>2, <2>0, <2>1, CallJoinLabels
  <2>3. UNCHANGED <<returnVars, state, gstVars, thread, flagVars, alarm, freed>>
    BY <1>8 DEF JoinWorker
  <2> QED BY <2>2, <2>3 DEF TypeOK, At, returnVars, gstVars, flagVars
<1>5. CASE JoinEvidence(t)
  <2>0. pc[t] \in SharedSteps
    BY <1>1, <1>5 DEF JoinEvidence, At
  <2>1. CallJoin(t, "evidence", "evidence_join", afterEvidence[t])
    BY <1>5 DEF JoinEvidence
  <2>2. /\ pc' \in [{"main", "loop"} -> MainSteps \cup LoopSteps]
        /\ pc'["main"] \in MainSteps /\ pc'["loop"] \in LoopSteps
        /\ (pc'["loop"] = "none") <=> (pc["loop"] = "none")
        /\ (pc'["loop"] = "done") <=> (pc["loop"] = "done")
        /\ rc' \in {"success", "failure"}
    BY <1>0, <1>1, <2>0, <2>1, CallJoinLabels
  <2>3. UNCHANGED <<returnVars, state, gstVars, thread, flagVars, alarm, freed>>
    BY <1>5 DEF JoinEvidence
  <2> QED BY <2>2, <2>3 DEF TypeOK, At, returnVars, gstVars, flagVars
<1>6. CASE WorkerJoined(t)
  <2>1. "worker" \in Threads /\ "worker_join" \notin {"none", "done"}
    BY DEF Threads
  <2> QED BY <1>2, <1>6, <2>1, JoinedTypes DEF WorkerJoined
<1>7. CASE EvidenceJoined(t)
  <2>1. "evidence" \in Threads /\ "evidence_join" \notin {"none", "done"}
    BY DEF Threads
  <2> QED BY <1>0, <1>7, <2>1, JoinedTypes DEF EvidenceJoined
<1> QED
  BY <1>3, <1>4, <1>5, <1>6, <1>7, <1>8 DEF StopEvidenceLoop

(* The joins of the control and the loop thread in main.                     *)
LEMMA ControlTypes ==
  ASSUME TypeOK, EndControl \/ EarlyControl \/ LoopJoined
  PROVE  TypeOK'
<1>0. {"cleanup", "early_return", "control_join", "early_join", "set_null"} \subseteq MainSteps
      /\ {"control", "loop"} \subseteq Threads
  BY DEF MainSteps, Threads
<1>1. ASSUME NEW label, NEW wait \in {"control_join", "early_join"},
             NEW next \in {"cleanup", "early_return"}, StopControl(label, wait, next)
      PROVE  TypeOK'
  <2>1. stop_control' \in BOOLEAN
    BY <1>1, Zenon DEF StopControl
  <2>2. /\ pc' \in [{"main", "loop"} -> MainSteps \cup LoopSteps]
        /\ pc'["main"] \in MainSteps /\ pc'["loop"] = pc["loop"]
    BY <1>0, <1>1, GotoMain DEF StopControl
  <2>3. UNCHANGED <<returnVars, state, gstVars, thread, worker, hung, stop_worker, stop_evidence,
                    stop_requested, exitVars>>
    BY <1>1 DEF StopControl
  <2> QED BY <2>1, <2>2, <2>3 DEF TypeOK, At, returnVars, gstVars, exitVars
<1>2. ASSUME NEW label, NEW next \in {"cleanup", "early_return"},
             Joined("main", label, "control", next)
      PROVE  TypeOK'
  BY <1>0, <1>2, JoinedTypes
<1>3. CASE LoopJoined
  <2>1. /\ thread' \in [Threads -> {"none", "running", "ended", "joined"}]
        /\ thread'["loop"] = "joined" /\ thread["loop"] = "ended"
    BY <1>0, <1>3, ThreadSet DEF LoopJoined, Joined
  <2>2. /\ pc' \in [{"main", "loop"} -> MainSteps \cup LoopSteps]
        /\ pc'["main"] \in MainSteps /\ pc'["loop"] = pc["loop"]
    BY <1>0, <1>3, GotoMain DEF LoopJoined, Joined
  <2>3. UNCHANGED <<returnVars, state, gstVars, flagVars, exitVars>>
    BY <1>3 DEF LoopJoined, Joined
  <2> QED BY <2>1, <2>2, <2>3 DEF TypeOK, At, returnVars, gstVars, flagVars, exitVars
<1> QED
  BY <1>1, <1>2, <1>3 DEF EndControl, EarlyControl

(* Steps of the other threads, and signals.                                  *)
LEMMA ThreadTypes ==
  ASSUME TypeOK, \/ EvidenceLoopEnds \/ WorkerStep \/ RequestWakes \/ ControlEnds \/ HandleSignal
                 \/ \E x \in {"loop", "control"} : RemovalHangs(x)
  PROVE  TypeOK'
<1>1. ASSUME NEW x \in {"evidence", "worker", "control"}, NEW flag, ThreadEnds(x, flag)
      PROVE  TypeOK'
  <2>1. /\ thread' \in [Threads -> {"none", "running", "ended", "joined"}]
        /\ thread'["loop"] = thread["loop"]
    BY <1>1, ThreadSet DEF ThreadEnds, Threads
  <2>2. UNCHANGED <<pc, returnVars, state, gstVars, flagVars, exitVars>>
    BY <1>1 DEF ThreadEnds
  <2> QED BY <2>1, <2>2 DEF TypeOK, At, returnVars, gstVars, flagVars, exitVars
<1>2. CASE HandleSignal
  <2>1. stop_requested' \in BOOLEAN
    BY <1>2, Zenon DEF HandleSignal
  <2> QED BY <1>2, <2>1 DEF HandleSignal, TypeOK, At, returnVars, gstVars, exitVars
<1>3. ASSUME NEW from, NEW to \in {"busy", "checked", "asleep"}, WorkerMoves(from, to)
      PROVE  TypeOK'
  BY <1>3 DEF WorkerMoves, TypeOK, At, returnVars, gstVars, exitVars
<1>4. ASSUME NEW x \in {"loop", "control"}, RemovalHangs(x)
      PROVE  TypeOK'
  BY <1>4 DEF RemovalHangs, TypeOK, At, returnVars, gstVars, exitVars
<1> QED
  BY <1>1, <1>2, <1>3, <1>4 DEF EvidenceLoopEnds, WorkerStep, WorkerStarts, NoContext, WorkerChecks,
     WorkerSleeps, WorkerEnds, RequestWakes, ControlEnds

(* Every step keeps the types, given where the calls return to.              *)
LEMMA StepType ==
  ASSUME TypeOK, Returns, [Next]_vars
  PROVE  TypeOK'
<1>1. CASE Next
  BY <1>1, MainTypes, LoopTypes, StopEvidenceTypes, ControlTypes, ThreadTypes
     DEF Next, MainStep, LoopRun
<1>2. CASE UNCHANGED vars
  BY <1>2 DEF vars, TypeOK, At, returnVars, gstVars, flagVars, exitVars
<1> QED BY <1>1, <1>2

-----------------------------------------------------------------------------
(* The other conjuncts *)

Rest == Returns /\ Joins /\ Frees /\ PipelineState /\ Watched

(* Goto, without the types of the labels.                                    *)
LEMMA Arrive ==
  ASSUME TypeOK, NEW l
  PROVE  /\ Goto("main", l) => pc'["main"] = l /\ pc'["loop"] = pc["loop"]
         /\ Goto("loop", l) => pc'["loop"] = l /\ pc'["main"] = pc["main"]
  BY DEF TypeOK, Goto

(* What of the state Rest speaks about, besides the labels.                  *)
restVars == <<afterStop, afterEvidence, state, pipeline, thread, freed, watch>>

(* Moves of main that change nothing of this: what must be joined before the *)
(* label it moves to has been joined.                                        *)
PlainMove(from, to) ==
  \/ from = "subscribe" /\ to \in {"clear_stop_worker", "playing"}
  \/ from = "clear_stop_worker" /\ to = "spawn_worker"
  \/ from = "clear_stop" /\ to = "spawn_evidence"
  \/ from = "exit_code" /\ to = "end_control"
  \/ from = "end_control" /\ (to = "control_join" \/ (to = "cleanup" /\ Gone("control")))
  \/ from = "early_control" /\ (to = "early_join" \/ (to = "early_return" /\ Gone("control")))
  \/ from = "cleanup_stop" /\ to = "stop"
  \/ from = "sel_flag" /\ to = "sel_worker"
  \/ from = "sel_worker" /\ (to = "worker_notify" \/ (to = "sel_evidence" /\ Gone("worker")))
  \/ from = "worker_notify" /\ to = "worker_test"
  \/ from = "worker_test" /\ (to = "worker_join" \/ (to = "sel_evidence" /\ Gone("worker")))
  \/ from = "sel_evidence" 
       /\ (to = "evidence_join" \/ (to = afterEvidence["main"] /\ Gone("evidence")))
  \/ from \in {"worker_test", "sel_evidence"} /\ to = "end_control" /\ afterStop = "exit_code"
  \/ from = "quit_loop" /\ to = "join_loop"
  \/ from = "join_loop" /\ (to = "loop_join" \/ (to = "set_null" /\ Gone("loop")))
  \/ to \in {"aborted", "killed"}

(* The steps that only move a program counter. *)
LEMMA PlainMoves ==
  ASSUME Rest, pc'["loop"] = pc["loop"], UNCHANGED restVars, PlainMove(pc["main"], pc'["main"])
  PROVE  Rest'
<1> USE DEF Rest, PlainMove, restVars
<1>1. Returns'
  BY DEF Returns, EarlySteps
<1>2. Joins'
  BY DEF Returns, Joins, EarlySteps, NoWorkerYet, EvidenceStopped, Gone
<1>3. Frees'
  BY DEF Returns, Frees, Ended, Gone
<1>4. PipelineState'
  BY DEF Returns, PipelineState, Ended, Gone
<1>5. Watched'
  BY DEF Returns, Watched, Gone
<1> QED BY <1>1, <1>2, <1>3, <1>4, <1>5

(* The steps of main that only move, the failing joins of the loop thread    *)
(* included.                                                                 *)
LEMMA MainMoves ==
  ASSUME TypeOK, Rest,
         \/ Subscribe \/ ClearStopWorker \/ ClearStop \/ ExitCode \/ CleanupStop \/ QuitLoop
         \/ JoinLoop \/ WatchdogFires \/ SetStopFlags("main") \/ SetStopWorker("main")
         \/ NotifyWorker("main") \/ JoinWorker("main") \/ JoinEvidence("main") \/ StopControl("end_control", "control_join", "cleanup")
         \/ StopControl("early_control", "early_join", "early_return")
  PROVE  Rest'
<1>0. \A l : Goto("main", l) => pc'["main"] = l /\ pc'["loop"] = pc["loop"]
  BY Arrive
<1>g. \A x \in Threads : ~Joinable(x) => Gone(x)
  BY DEF Joinable, Gone, TypeOK
<1> USE DEF At, returnVars, gstVars, exitVars, restVars
<1>1. CASE Subscribe
  BY <1>0, <1>1, PlainMoves DEF Subscribe, PlainMove
<1>2. CASE ClearStopWorker
  BY <1>0, <1>2, PlainMoves DEF ClearStopWorker, PlainMove
<1>3. CASE ClearStop
  BY <1>0, <1>3, PlainMoves DEF ClearStop, PlainMove
<1>4. CASE ExitCode
  BY <1>0, <1>4, PlainMoves DEF ExitCode, PlainMove
<1>5. CASE CleanupStop
  BY <1>0, <1>5, PlainMoves DEF CleanupStop, PlainMove
<1>6. CASE QuitLoop
  BY <1>0, <1>6, PlainMoves DEF QuitLoop, PlainMove
<1>7. CASE JoinLoop
  BY <1>0, <1>7, <1>g, PlainMoves DEF JoinLoop, PlainMove, Threads
<1>8. CASE WatchdogFires
  BY <1>0, <1>8, PlainMoves DEF WatchdogFires, PlainMove
<1>9. CASE SetStopFlags("main")
  BY <1>0, <1>9, PlainMoves DEF SetStopFlags, PlainMove
<1>10. CASE SetStopWorker("main")
  <2>1. UNCHANGED restVars /\ pc["main"] = "sel_worker"
    BY <1>10 DEF SetStopWorker
  <2>2. CASE EvidenceEnabled
    <3>1. Goto("main", "worker_notify")
      BY <1>10, <2>2, Zenon DEF SetStopWorker
    <3> QED BY <1>0, <2>1, <3>1, PlainMoves DEF PlainMove
  <2>3. CASE ~EvidenceEnabled
    <3>1. Goto("main", "sel_evidence")
      BY <1>10, <2>3 DEF SetStopWorker
    <3>2. Gone("worker")
      BY <2>3 DEF Rest, Joins, Gone
    <3> QED BY <1>0, <2>1, <3>1, <3>2, PlainMoves DEF PlainMove
  <2> QED BY <2>2, <2>3
<1>14. CASE NotifyWorker("main")
  BY <1>0, <1>14, PlainMoves DEF NotifyWorker, PlainMove
<1>15. CASE JoinWorker("main")
  <2>1. UNCHANGED restVars /\ pc["main"] = "worker_test"
    BY <1>15 DEF JoinWorker
  <2>2. CallJoin("main", "worker", "worker_join", "sel_evidence")
    BY <1>15 DEF JoinWorker
  <2> QED BY <1>0, <1>g, <2>1, <2>2, PlainMoves DEF CallJoin, JoinFails, PlainMove, Threads
<1>11. CASE JoinEvidence("main")
  <2>1. UNCHANGED restVars /\ pc["main"] = "sel_evidence"
    BY <1>11 DEF JoinEvidence
  <2>2. CallJoin("main", "evidence", "evidence_join", afterEvidence["main"])
    BY <1>11 DEF JoinEvidence
  <2> QED BY <1>0, <1>g, <2>1, <2>2, PlainMoves DEF CallJoin, JoinFails, PlainMove, Threads
<1>12. CASE StopControl("end_control", "control_join", "cleanup")
  BY <1>0, <1>12, <1>g, PlainMoves DEF StopControl, PlainMove, Threads
<1>13. CASE StopControl("early_control", "early_join", "early_return")
  BY <1>0, <1>13, <1>g, PlainMoves DEF StopControl, PlainMove, Threads
<1> QED
  BY <1>1, <1>2, <1>3, <1>4, <1>5, <1>6, <1>7, <1>8, <1>9, <1>10, <1>11, <1>12, <1>13,
     <1>14, <1>15

(* set_state(PLAYING) succeeds or fails.                                    *)
LEMMA StartStep == ASSUME TypeOK, Rest, Start PROVE Rest'
<1>1. /\ pc["main"] = "start" /\ pc'["loop"] = pc["loop"]
      /\ \/ pc'["main"] = "spawn_loop" /\ state' = state
         \/ pc'["main"] = "early_control" /\ state' = "Error" /\ pipeline' = pipeline
  BY Arrive DEF Start, At, Threads
<1>2. UNCHANGED <<afterStop, afterEvidence, thread, freed, watch>>
  BY DEF Start, returnVars, gstVars, exitVars
<1>3. Returns'
  BY <1>1, <1>2 DEF Rest, Returns, EarlySteps
<1>4. Joins'
  BY <1>1, <1>2 DEF Rest, Returns, Joins, EarlySteps, NoWorkerYet, EvidenceStopped, Gone
<1>5. Frees'
  BY <1>1, <1>2 DEF Rest, Returns, Joins, EarlySteps, NoWorkerYet, EvidenceStopped, Frees, Ended,
      Gone, Objects
<1>6. PipelineState'
  BY <1>1, <1>2 DEF Rest, Returns, Joins, PipelineState, Ended, Gone
<1>7. Watched'
  BY <1>1, <1>2 DEF Rest, Returns, Joins, PipelineState, Watched, Ended, Gone, SharedSteps
<1> QED BY <1>3, <1>4, <1>5, <1>6, <1>7 DEF Rest

(* The loop thread is created.                                               *)
LEMMA SpawnLoopStep == ASSUME TypeOK, Rest, SpawnLoop PROVE Rest'
<1>1. /\ pc["main"] = "spawn_loop" /\ pc'["loop"] = "starting"
      /\ pc'["main"] = IF EvidenceEnabled THEN "subscribe" ELSE "playing"
      /\ thread'["loop"] = "running"
      /\ \A x \in Threads \ {"loop"} : thread'[x] = thread[x]
  BY ThreadSet DEF SpawnLoop, At, Threads, TypeOK
<1>0. /\ thread'["worker"] = thread["worker"] /\ thread'["evidence"] = thread["evidence"]
      /\ thread'["control"] = thread["control"]
  BY <1>1 DEF Threads
<1>2. UNCHANGED <<afterStop, afterEvidence, state, pipeline, freed, watch>>
  BY DEF SpawnLoop, returnVars, gstVars, exitVars
<1>3. Returns'
  BY <1>0, <1>1, <1>2 DEF Rest, Returns, EarlySteps
<1>4. Joins'
  BY <1>0, <1>1, <1>2 DEF Rest, Returns, Joins, EarlySteps, NoWorkerYet, EvidenceStopped, Gone
<1>5. Frees'
  BY <1>0, <1>1, <1>2 DEF Rest, Returns, Joins, EarlySteps, NoWorkerYet, EvidenceStopped, Frees,
      Ended, Gone, Objects
<1>6. PipelineState'
  BY <1>0, <1>1, <1>2 DEF Rest, Returns, Joins, PipelineState, Ended, Gone
<1>7. Watched'
  BY <1>0, <1>1, <1>2 DEF Rest, Returns, Joins, PipelineState, Watched, Ended, Gone, SharedSteps,
      EarlySteps
<1> QED BY <1>3, <1>4, <1>5, <1>6, <1>7 DEF Rest

(* The encoding worker is created.                                          *)
LEMMA SpawnWorkerStep == ASSUME TypeOK, Rest, SpawnWorker PROVE Rest'
<1>1. /\ pc["main"] = "spawn_worker" /\ pc'["loop"] = pc["loop"]
      /\ pc'["main"] = "clear_stop"
      /\ thread'["worker"] = "running"
      /\ thread'["loop"] = thread["loop"] /\ thread'["evidence"] = thread["evidence"]
      /\ thread'["control"] = thread["control"]
  BY Arrive, ThreadSet DEF SpawnWorker, At, Threads, Spawn
<1>2. UNCHANGED <<afterStop, afterEvidence, state, pipeline, freed, watch>>
  BY DEF SpawnWorker, returnVars, gstVars, exitVars, Spawn
<1>3. Returns'
  BY <1>1, <1>2 DEF Rest, Returns, EarlySteps
<1>4. Joins'
  BY <1>1, <1>2 DEF Rest, Returns, Joins, EarlySteps, NoWorkerYet, EvidenceStopped, Gone
<1>5. Frees'
  BY <1>1, <1>2 DEF Rest, Returns, Joins, EarlySteps, NoWorkerYet, EvidenceStopped, Frees, Ended,
      Gone, Objects
<1>6. PipelineState'
  BY <1>1, <1>2 DEF Rest, Returns, Joins, PipelineState, Ended, Gone
<1>7. Watched'
  BY <1>1, <1>2 DEF Rest, Returns, Joins, PipelineState, Watched, Ended, Gone, SharedSteps
<1> QED BY <1>3, <1>4, <1>5, <1>6, <1>7 DEF Rest

(* The intake thread is created.                                            *)
LEMMA SpawnEvidenceStep == ASSUME TypeOK, Rest, SpawnEvidence PROVE Rest'
<1>1. /\ pc["main"] = "spawn_evidence" /\ pc'["loop"] = pc["loop"]
      /\ pc'["main"] = "playing"
      /\ thread'["evidence"] = "running"
      /\ thread'["loop"] = thread["loop"] /\ thread'["worker"] = thread["worker"]
      /\ thread'["control"] = thread["control"]
  BY Arrive, ThreadSet DEF SpawnEvidence, At, Threads, Spawn
<1>2. UNCHANGED <<afterStop, afterEvidence, state, pipeline, freed, watch>>
  BY DEF SpawnEvidence, returnVars, gstVars, exitVars, Spawn
<1>3. Returns'
  BY <1>1, <1>2 DEF Rest, Returns, EarlySteps
<1>4. Joins'
  BY <1>1, <1>2 DEF Rest, Returns, Joins, EarlySteps, NoWorkerYet, EvidenceStopped, Gone
<1>5. Frees'
  BY <1>1, <1>2 DEF Rest, Returns, Joins, EarlySteps, NoWorkerYet, EvidenceStopped, Frees, Ended,
      Gone, Objects
<1>6. PipelineState'
  BY <1>1, <1>2 DEF Rest, Returns, Joins, PipelineState, Ended, Gone
<1>7. Watched'
  BY <1>1, <1>2 DEF Rest, Returns, Joins, PipelineState, Watched, Ended, Gone, SharedSteps
<1> QED BY <1>3, <1>4, <1>5, <1>6, <1>7 DEF Rest

(* start() returns.                                                         *)
LEMMA SetPlayingStep == ASSUME TypeOK, Rest, SetPlaying PROVE Rest'
<1>1. /\ pc["main"] = "playing" /\ pc'["loop"] = pc["loop"]
      /\ pc'["main"] = "poll" /\ state' = "Playing"
  BY Arrive DEF SetPlaying, At, Threads
<1>2. UNCHANGED <<afterStop, afterEvidence, pipeline, thread, freed, watch>>
  BY DEF SetPlaying, returnVars, gstVars, exitVars
<1>3. Returns'
  BY <1>1, <1>2 DEF Rest, Returns, EarlySteps
<1>4. Joins'
  BY <1>1, <1>2 DEF Rest, Returns, Joins, EarlySteps, NoWorkerYet, EvidenceStopped, Gone
<1>5. Frees'
  BY <1>1, <1>2 DEF Rest, Returns, Joins, EarlySteps, NoWorkerYet, EvidenceStopped, Frees, Ended,
      Gone, Objects
<1>6. PipelineState'
  BY <1>1, <1>2 DEF Rest, Returns, Joins, PipelineState, Ended, Gone
<1>7. Watched'
  BY <1>1, <1>2 DEF Rest, Returns, Joins, PipelineState, Watched, Ended, Gone, SharedSteps
<1> QED BY <1>3, <1>4, <1>5, <1>6, <1>7 DEF Rest

(* main leaves its polling loop.                                            *)
LEMMA PollStep == ASSUME TypeOK, Rest, Poll PROVE Rest'
<1>1. /\ pc["main"] = "poll" /\ pc'["loop"] = pc["loop"]
      /\ \/ pc'["main"] = "exit_code" /\ afterStop' = afterStop
         \/ pc'["main"] = "stop" /\ afterStop' = "exit_code"
  BY Arrive DEF Poll, At, Threads
<1>2. UNCHANGED <<afterEvidence, state, pipeline, thread, freed, watch>>
  BY DEF Poll, returnVars, gstVars, exitVars
<1>3. Returns'
  BY <1>1, <1>2 DEF Rest, Returns, EarlySteps
<1>4. Joins'
  BY <1>1, <1>2 DEF Rest, Returns, Joins, EarlySteps, NoWorkerYet, EvidenceStopped, Gone
<1>5. Frees'
  BY <1>1, <1>2 DEF Rest, Returns, Joins, EarlySteps, NoWorkerYet, EvidenceStopped, Frees, Ended,
      Gone, Objects
<1>6. PipelineState'
  BY <1>1, <1>2 DEF Rest, Returns, Joins, PipelineState, Ended, Gone
<1>7. Watched'
  BY <1>1, <1>2 DEF Rest, Returns, Joins, PipelineState, Watched, Ended, Gone, SharedSteps
<1> QED BY <1>3, <1>4, <1>5, <1>6, <1>7 DEF Rest

(* main goes on to its own clean-up.                                        *)
LEMMA CleanupStep == ASSUME TypeOK, Rest, Cleanup PROVE Rest'
<1>1. /\ pc["main"] = "cleanup" /\ pc'["loop"] = pc["loop"]
      /\ pc'["main"] = "stop" \/ (pc'["main"] = "destroy" /\ state \in {"Stopped", "Uninitialized"})
      /\ afterStop' = "destroy"
  BY Arrive DEF Cleanup, At, Threads
<1>2. UNCHANGED <<afterEvidence, state, pipeline, thread, freed, watch>>
  BY DEF Cleanup, returnVars, gstVars, exitVars
<1>3. Returns'
  BY <1>1, <1>2 DEF Rest, Returns, EarlySteps
<1>4. Joins'
  BY <1>1, <1>2 DEF Rest, Returns, Joins, EarlySteps, NoWorkerYet, EvidenceStopped, Gone
<1>5. Frees'
  BY <1>1, <1>2 DEF Rest, Returns, Joins, EarlySteps, NoWorkerYet, EvidenceStopped, Frees, Ended,
      Gone, Objects
<1>6. PipelineState'
  BY <1>1, <1>2 DEF Rest, Returns, Joins, PipelineState, Ended, Gone
<1>7. Watched'
  BY <1>1, <1>2 DEF Rest, Returns, Joins, PipelineState, Watched, Ended, Gone, SharedSteps
<1> QED BY <1>3, <1>4, <1>5, <1>6, <1>7 DEF Rest

(* main's locals go on an early return.                                     *)
LEMMA EarlyReturnStep == ASSUME TypeOK, Rest, EarlyReturn PROVE Rest'
<1>1. /\ pc["main"] = "early_return" /\ pc'["loop"] = pc["loop"]
      /\ pc'["main"] = "destroy"
      /\ freed' = freed \cup {"messaging"}
  BY Arrive DEF EarlyReturn, At, Threads
<1>2. UNCHANGED <<afterStop, afterEvidence, state, pipeline, thread, watch>>
  BY DEF EarlyReturn, returnVars, gstVars, exitVars
<1>3. Returns'
  BY <1>1, <1>2 DEF Rest, Returns, EarlySteps
<1>4. Joins'
  BY <1>1, <1>2 DEF Rest, Returns, Joins, EarlySteps, NoWorkerYet, EvidenceStopped, Gone
<1>5. Frees'
  BY <1>1, <1>2 DEF Rest, Returns, Joins, EarlySteps, NoWorkerYet, EvidenceStopped, Frees, Ended,
      Gone, Objects
<1>6. PipelineState'
  BY <1>1, <1>2 DEF Rest, Returns, Joins, PipelineState, Ended, Gone
<1>7. Watched'
  BY <1>1, <1>2 DEF Rest, Returns, Joins, PipelineState, Watched, Ended, Gone, SharedSteps
<1> QED BY <1>3, <1>4, <1>5, <1>6, <1>7 DEF Rest

(* stop() is entered, or returns at once.                                   *)
LEMMA StopStep == ASSUME TypeOK, Rest, Stop PROVE Rest'
<1>1. /\ pc["main"] = "stop" /\ pc'["loop"] = pc["loop"]
      /\ afterStop \in {"exit_code", "destroy", "free"}
      /\ \/ /\ state \in {"Stopped", "Uninitialized"} /\ pc'["main"] = afterStop
            /\ afterEvidence' = afterEvidence
         \/ /\ pc'["main"] = "sel_flag" /\ afterEvidence'["main"] = "quit_loop"
            /\ afterEvidence'["loop"] = afterEvidence["loop"]
  BY Arrive DEF Stop, At, Threads, TypeOK
<1>2. UNCHANGED <<afterStop, state, pipeline, thread, freed, watch>>
  BY DEF Stop, returnVars, gstVars, exitVars, TypeOK
<1>3. Returns'
  BY <1>1, <1>2 DEF Rest, Returns, EarlySteps
<1>4. Joins'
  BY <1>1, <1>2 DEF Rest, Returns, Joins, EarlySteps, NoWorkerYet, EvidenceStopped, Gone
<1>5. Frees'
  BY <1>1, <1>2 DEF Rest, Returns, Joins, EarlySteps, NoWorkerYet, EvidenceStopped, Frees, Ended,
      Gone, Objects
<1>6. PipelineState'
  BY <1>1, <1>2 DEF Rest, Returns, Joins, PipelineState, Ended, Gone
<1>7. Watched'
  BY <1>1, <1>2 DEF Rest, Returns, Joins, PipelineState, Watched, Ended, Gone, SharedSteps
<1> QED BY <1>3, <1>4, <1>5, <1>6, <1>7 DEF Rest

(* The pipeline is stopped.                                                 *)
LEMMA SetNullStep == ASSUME TypeOK, Rest, SetNull PROVE Rest'
<1>1. /\ pc["main"] = "set_null" /\ pc'["loop"] = pc["loop"]
      /\ afterStop \in {"exit_code", "destroy", "free"}
      /\ pc'["main"] = afterStop /\ state' = "Stopped" /\ pipeline' = "NULL"
  BY Arrive DEF SetNull, At, Threads, TypeOK
<1>2. UNCHANGED <<afterStop, afterEvidence, thread, freed, watch>>
  BY DEF SetNull, returnVars, gstVars, exitVars, TypeOK
<1>3. Returns'
  BY <1>1, <1>2 DEF Rest, Returns, EarlySteps
<1>4. Joins'
  BY <1>1, <1>2 DEF Rest, Returns, Joins, EarlySteps, NoWorkerYet, EvidenceStopped, Gone
<1>5. Frees'
  BY <1>1, <1>2 DEF Rest, Returns, Joins, EarlySteps, NoWorkerYet, EvidenceStopped, Frees, Ended,
      Gone, Objects
<1>6. PipelineState'
  BY <1>1, <1>2 DEF Rest, Returns, Joins, PipelineState, Ended, Gone
<1>7. Watched'
  BY <1>1, <1>2 DEF Rest, Returns, Joins, PipelineState, Watched, Ended, Gone, SharedSteps
<1> QED BY <1>3, <1>4, <1>5, <1>6, <1>7 DEF Rest

(* ~PipelineManager begins.                                                 *)
LEMMA DestroyStep == ASSUME TypeOK, Rest, Destroy PROVE Rest'
<1>1. /\ pc["main"] = "destroy" /\ pc'["loop"] = pc["loop"]
      /\ pc'["main"] = "sel_flag"
      /\ afterStop' = "free" /\ afterEvidence'["main"] = "cleanup_stop"
      /\ afterEvidence'["loop"] = afterEvidence["loop"]
      /\ freed' = freed \cup {"probes", "streams"}
  BY Arrive DEF Destroy, At, Threads, TypeOK
<1>2. UNCHANGED <<state, pipeline, thread, watch>>
  BY DEF Destroy, returnVars, gstVars, exitVars, TypeOK
<1>3. Returns'
  BY <1>1, <1>2 DEF Rest, Returns, EarlySteps
<1>4. Joins'
  BY <1>1, <1>2 DEF Rest, Returns, Joins, EarlySteps, NoWorkerYet, EvidenceStopped, Gone
<1>5. Frees'
  BY <1>1, <1>2 DEF Rest, Returns, Joins, EarlySteps, NoWorkerYet, EvidenceStopped, Frees, Ended,
      Gone, Objects
<1>6. PipelineState'
  BY <1>1, <1>2 DEF Rest, Returns, Joins, PipelineState, Ended, Gone
<1>7. Watched'
  BY <1>1, <1>2 DEF Rest, Returns, Joins, PipelineState, Watched, Ended, Gone, SharedSteps
<1> QED BY <1>3, <1>4, <1>5, <1>6, <1>7 DEF Rest

(* The members are destroyed.                                               *)
LEMMA FreeStep == ASSUME TypeOK, Rest, Free PROVE Rest'
<1>1. /\ pc["main"] = "free" /\ pc'["loop"] = pc["loop"]
      /\ freed' = freed \cup {"service", "cache", "manager"} /\ state' = "Uninitialized"
      /\ watch' = FALSE
      /\ \/ pc'["main"] = "aborted"
         \/ pc'["main"] = "release" /\ Gone("loop") /\ Gone("evidence")
  BY Arrive DEF Free, At, Threads, TypeOK, Joinable, Gone
<1>2. UNCHANGED <<afterStop, afterEvidence, pipeline, thread>>
  BY DEF Free, returnVars, gstVars, exitVars, TypeOK, Joinable, Gone
<1>3. Returns'
  BY <1>1, <1>2 DEF Rest, Returns, EarlySteps
<1>4. Joins'
  BY <1>1, <1>2 DEF Rest, Returns, Joins, EarlySteps, NoWorkerYet, EvidenceStopped, Gone
<1>5. Frees'
  BY <1>1, <1>2 DEF Rest, Returns, Joins, EarlySteps, NoWorkerYet, EvidenceStopped, Frees, Ended,
      Gone, Objects
<1>6. PipelineState'
  BY <1>1, <1>2 DEF Rest, Returns, Joins, PipelineState, Ended, Gone
<1>7. Watched'
  BY <1>1, <1>2 DEF Rest, Returns, Joins, PipelineState, Watched, Ended, Gone, SharedSteps
<1> QED BY <1>3, <1>4, <1>5, <1>6, <1>7 DEF Rest

(* main returns.                                                            *)
LEMMA ReleaseStep == ASSUME TypeOK, Rest, Release PROVE Rest'
<1>1. /\ pc["main"] = "release" /\ pc'["loop"] = pc["loop"]
      /\ pc'["main"] = "exited"
      /\ freed' = Objects
  <2>1. pc["main"] = "release" /\ freed' = freed \cup {"messaging"}
    BY DEF Release, At
  <2>2. {"probes", "streams", "service", "cache", "manager"} \subseteq freed /\ freed \subseteq Objects
    BY <2>1 DEF Rest, Returns, Frees, TypeOK
  <2>3. freed' = Objects
    BY <2>1, <2>2 DEF Objects
  <2> QED BY <2>1, <2>3, Arrive DEF Release
<1>2. UNCHANGED <<afterStop, afterEvidence, state, pipeline, thread, watch>>
  BY DEF Release, returnVars, gstVars
<1>3. Returns'
  BY <1>1, <1>2 DEF Rest, Returns, EarlySteps
<1>4. Joins'
  BY <1>1, <1>2 DEF Rest, Returns, Joins, EarlySteps, NoWorkerYet, EvidenceStopped, Gone
<1>5. Frees'
  BY <1>1, <1>2 DEF Rest, Returns, Joins, EarlySteps, NoWorkerYet, EvidenceStopped, Frees, Ended,
      Gone, Objects
<1>6. PipelineState'
  BY <1>1, <1>2 DEF Rest, Returns, Joins, PipelineState, Ended, Gone
<1>7. Watched'
  BY <1>1, <1>2 DEF Rest, Returns, Joins, PipelineState, Watched, Ended, Gone, SharedSteps
<1> QED BY <1>3, <1>4, <1>5, <1>6, <1>7 DEF Rest

(* main has joined the loop thread.                                         *)
LEMMA LoopJoinedStep == ASSUME TypeOK, Rest, LoopJoined PROVE Rest'
<1>1. /\ pc["main"] = "loop_join" /\ pc'["loop"] = pc["loop"]
      /\ pc'["main"] = "set_null"
      /\ thread["loop"] = "ended" /\ thread'["loop"] = "joined"
      /\ thread'["worker"] = thread["worker"] /\ thread'["evidence"] = thread["evidence"]
      /\ thread'["control"] = thread["control"]
  BY Arrive, ThreadSet DEF LoopJoined, At, Threads, Joined
<1>2. UNCHANGED <<afterStop, afterEvidence, state, pipeline, freed, watch>>
  BY DEF LoopJoined, returnVars, gstVars, exitVars, Joined
<1>3. Returns'
  BY <1>1, <1>2 DEF Rest, Returns, EarlySteps
<1>4. Joins'
  BY <1>1, <1>2 DEF Rest, Returns, Joins, EarlySteps, NoWorkerYet, EvidenceStopped, Gone
<1>5. Frees'
  BY <1>1, <1>2 DEF Rest, Returns, Joins, EarlySteps, NoWorkerYet, EvidenceStopped, Frees, Ended,
      Gone, Objects
<1>6. PipelineState'
  BY <1>1, <1>2 DEF Rest, Returns, Joins, PipelineState, Ended, Gone
<1>7. Watched'
  BY <1>1, <1>2 DEF Rest, Returns, Joins, PipelineState, Watched, Ended, Gone, SharedSteps
<1> QED BY <1>3, <1>4, <1>5, <1>6, <1>7 DEF Rest

(* main has joined the worker.                                              *)
LEMMA WorkerJoinedStep == ASSUME TypeOK, Rest, WorkerJoined("main") PROVE Rest'
<1>1. /\ pc["main"] = "worker_join" /\ pc'["loop"] = pc["loop"]
      /\ pc'["main"] = "sel_evidence"
      /\ thread["worker"] = "ended" /\ thread'["worker"] = "joined"
      /\ thread'["loop"] = thread["loop"] /\ thread'["evidence"] = thread["evidence"]
      /\ thread'["control"] = thread["control"]
  BY Arrive, ThreadSet DEF WorkerJoined, At, Threads, Joined
<1>2. UNCHANGED <<afterStop, afterEvidence, state, pipeline, freed, watch>>
  BY DEF WorkerJoined, returnVars, gstVars, exitVars, Joined
<1>3. Returns'
  BY <1>1, <1>2 DEF Rest, Returns, EarlySteps
<1>4. Joins'
  BY <1>1, <1>2 DEF Rest, Returns, Joins, EarlySteps, NoWorkerYet, EvidenceStopped, Gone
<1>5. Frees'
  BY <1>1, <1>2 DEF Rest, Returns, Joins, EarlySteps, NoWorkerYet, EvidenceStopped, Frees, Ended,
      Gone, Objects
<1>6. PipelineState'
  BY <1>1, <1>2 DEF Rest, Returns, Joins, PipelineState, Ended, Gone
<1>7. Watched'
  BY <1>1, <1>2 DEF Rest, Returns, Joins, PipelineState, Watched, Ended, Gone, SharedSteps
<1> QED BY <1>3, <1>4, <1>5, <1>6, <1>7 DEF Rest

(* main has joined the intake thread.                                       *)
LEMMA EvidenceJoinedStep == ASSUME TypeOK, Rest, EvidenceJoined("main") PROVE Rest'
<1>1. /\ pc["main"] = "evidence_join" /\ pc'["loop"] = pc["loop"]
      /\ pc'["main"] = afterEvidence["main"]
      /\ thread["evidence"] = "ended" /\ thread'["evidence"] = "joined"
      /\ thread'["loop"] = thread["loop"] /\ thread'["worker"] = thread["worker"]
      /\ thread'["control"] = thread["control"]
  BY Arrive, ThreadSet DEF EvidenceJoined, At, Threads, Joined
<1>2. UNCHANGED <<afterStop, afterEvidence, state, pipeline, freed, watch>>
  BY DEF EvidenceJoined, returnVars, gstVars, exitVars, Joined
<1>3. Returns'
  BY <1>1, <1>2 DEF Rest, Returns, EarlySteps
<1>4. Joins'
  BY <1>1, <1>2 DEF Rest, Returns, Joins, EarlySteps, NoWorkerYet, EvidenceStopped, Gone
<1>5. Frees'
  BY <1>1, <1>2 DEF Rest, Returns, Joins, EarlySteps, NoWorkerYet, EvidenceStopped, Frees, Ended,
      Gone, Objects
<1>6. PipelineState'
  BY <1>1, <1>2 DEF Rest, Returns, Joins, PipelineState, Ended, Gone
<1>7. Watched'
  BY <1>1, <1>2 DEF Rest, Returns, Joins, PipelineState, Watched, Ended, Gone, SharedSteps
<1> QED BY <1>3, <1>4, <1>5, <1>6, <1>7 DEF Rest

(* main has joined the control thread, in its clean-up ...                  *)
LEMMA ControlJoinedStep ==
  ASSUME TypeOK, Rest, Joined("main", "control_join", "control", "cleanup")
  PROVE  Rest'
<1>1. /\ pc["main"] = "control_join" /\ pc'["loop"] = pc["loop"]
      /\ pc'["main"] = "cleanup"
      /\ thread["control"] = "ended" /\ thread'["control"] = "joined"
      /\ thread'["loop"] = thread["loop"] /\ thread'["worker"] = thread["worker"]
      /\ thread'["evidence"] = thread["evidence"]
  BY Arrive, ThreadSet DEF Joined, At, Threads
<1>2. UNCHANGED <<afterStop, afterEvidence, state, pipeline, freed, watch>>
  BY DEF Joined, returnVars, gstVars, exitVars
<1>3. Returns'
  BY <1>1, <1>2 DEF Rest, Returns, EarlySteps
<1>4. Joins'
  BY <1>1, <1>2 DEF Rest, Returns, Joins, EarlySteps, NoWorkerYet, EvidenceStopped, Gone
<1>5. Frees'
  BY <1>1, <1>2 DEF Rest, Returns, Joins, EarlySteps, NoWorkerYet, EvidenceStopped, Frees, Ended,
      Gone, Objects
<1>6. PipelineState'
  BY <1>1, <1>2 DEF Rest, Returns, Joins, PipelineState, Ended, Gone
<1>7. Watched'
  BY <1>1, <1>2 DEF Rest, Returns, Joins, PipelineState, Watched, Ended, Gone, SharedSteps
<1> QED BY <1>3, <1>4, <1>5, <1>6, <1>7 DEF Rest

(* ... and on an early return.                                              *)
LEMMA EarlyJoinedStep ==
  ASSUME TypeOK, Rest, Joined("main", "early_join", "control", "early_return")
  PROVE  Rest'
<1>1. /\ pc["main"] = "early_join" /\ pc'["loop"] = pc["loop"]
      /\ pc'["main"] = "early_return"
      /\ thread["control"] = "ended" /\ thread'["control"] = "joined"
      /\ thread'["loop"] = thread["loop"] /\ thread'["worker"] = thread["worker"]
      /\ thread'["evidence"] = thread["evidence"]
  BY Arrive, ThreadSet DEF Joined, At, Threads
<1>2. UNCHANGED <<afterStop, afterEvidence, state, pipeline, freed, watch>>
  BY DEF Joined, returnVars, gstVars, exitVars
<1>3. Returns'
  BY <1>1, <1>2 DEF Rest, Returns, EarlySteps
<1>4. Joins'
  BY <1>1, <1>2 DEF Rest, Returns, Joins, EarlySteps, NoWorkerYet, EvidenceStopped, Gone
<1>5. Frees'
  BY <1>1, <1>2 DEF Rest, Returns, Joins, EarlySteps, NoWorkerYet, EvidenceStopped, Frees, Ended,
      Gone, Objects
<1>6. PipelineState'
  BY <1>1, <1>2 DEF Rest, Returns, Joins, PipelineState, Ended, Gone
<1>7. Watched'
  BY <1>1, <1>2 DEF Rest, Returns, Joins, PipelineState, Watched, Ended, Gone, SharedSteps
<1> QED BY <1>3, <1>4, <1>5, <1>6, <1>7 DEF Rest

(* What the other threads do to main's obligations: nothing, when no thread  *)
(* is added and a thread that is gone stays gone.                            *)
LEMMA OtherThreads ==
  ASSUME Rest, pc'["main"] \in {pc["main"], "aborted"},
         UNCHANGED <<afterStop, afterEvidence, state, pipeline, freed, watch>>,
         \A x \in Threads : /\ thread[x] = "none" => thread'[x] = "none"
                            /\ Gone(x) => Gone(x)',
         Gone("loop")' => Gone("loop"),
         watch => pc'["loop"] \notin SharedSteps \cup {"quit"}
  PROVE  Rest'
<1>1. /\ thread["worker"] = "none" => thread'["worker"] = "none"
      /\ thread["evidence"] = "none" => thread'["evidence"] = "none"
      /\ thread["loop"] = "none" => thread'["loop"] = "none"
      /\ Gone("worker") => Gone("worker")'
      /\ Gone("evidence") => Gone("evidence")'
      /\ Gone("control") => Gone("control")'
      /\ Gone("loop") => Gone("loop")'
  BY DEF Threads
<1>3. Returns'
  BY <1>1 DEF Rest, Returns, EarlySteps
<1>4. Joins'
  BY <1>1 DEF Rest, Joins, NoWorkerYet, EvidenceStopped
<1>5. Frees'
  BY <1>1 DEF Rest, Frees, Ended
<1>6. PipelineState'
  BY <1>1 DEF Rest, PipelineState, Ended
<1>7. Watched'
  BY <1>1 DEF Rest, Watched
<1> QED BY <1>3, <1>4, <1>5, <1>6, <1>7 DEF Rest

(* The intake thread, the worker and the control thread end; a signal comes. *)
LEMMA ThreadEndsStep ==
  ASSUME TypeOK, Rest,
         \/ EvidenceLoopEnds \/ WorkerStep \/ RequestWakes \/ ControlEnds \/ HandleSignal
         \/ \E x \in {"loop", "control"} : RemovalHangs(x)
  PROVE  Rest'
<1>1. ASSUME NEW x \in {"evidence", "worker", "control"}, NEW flag, ThreadEnds(x, flag)
      PROVE  Rest'
  <2>1. /\ thread[x] = "running" /\ thread'[x] = "ended" /\ x \in Threads
        /\ \A y \in Threads \ {x} : thread'[y] = thread[y]
    BY <1>1, ThreadSet DEF ThreadEnds, Threads
  <2>2. UNCHANGED <<pc, afterStop, afterEvidence, state, pipeline, freed, watch>>
    BY <1>1 DEF ThreadEnds, returnVars, gstVars, exitVars
  <2>3. /\ \A y \in Threads : /\ thread[y] = "none" => thread'[y] = "none"
                              /\ Gone(y) => Gone(y)'
        /\ Gone("loop")' => Gone("loop")
    BY <2>1 DEF Gone, Threads
  <2>4. watch => pc["loop"] \notin SharedSteps \cup {"quit"}
    BY DEF Rest, Watched
  <2> QED BY <2>2, <2>3, <2>4, OtherThreads
<1>2. CASE \/ HandleSignal \/ \E x \in {"loop", "control"} : RemovalHangs(x)
           \/ \E from, to : WorkerMoves(from, to)
  <2>1. UNCHANGED <<pc, afterStop, afterEvidence, state, pipeline, freed, watch>> /\ thread' = thread
    BY <1>2 DEF HandleSignal, RemovalHangs, WorkerMoves, returnVars, gstVars, exitVars
  <2>2. watch => pc["loop"] \notin SharedSteps \cup {"quit"}
    BY DEF Rest, Watched
  <2> QED BY <2>1, <2>2, OtherThreads DEF Gone
<1> QED
  BY <1>1, <1>2 DEF EvidenceLoopEnds, WorkerStep, WorkerStarts, NoContext, WorkerChecks,
     WorkerSleeps, WorkerEnds, RequestWakes, ControlEnds

(* The loop thread enters and leaves g_main_loop_run, or ends.               *)
LEMMA LoopStep ==
  ASSUME TypeOK, Rest, LoopEnter \/ LoopExit \/ LoopQuit
  PROVE  Rest'
<1>1. UNCHANGED <<afterStop, afterEvidence, state, pipeline, freed, watch>>
  BY DEF LoopEnter, LoopExit, LoopQuit, returnVars, gstVars, exitVars
<1>2. pc'["main"] = pc["main"] /\ pc'["loop"] \in {"running", "done"}
  BY Arrive DEF LoopEnter, LoopExit, LoopQuit
<1>3. pc'["loop"] \notin SharedSteps \cup {"quit"}
  BY <1>2 DEF SharedSteps
<1>4. CASE UNCHANGED thread
  BY <1>1, <1>2, <1>3, <1>4, OtherThreads DEF Gone
<1>5. CASE LoopExit
  <2>1. thread["loop"] = "running"
    BY <1>5 DEF LoopExit, At, TypeOK, Threads
  <2>2. thread'["loop"] = "ended" /\ \A y \in Threads \ {"loop"} : thread'[y] = thread[y]
    BY <1>5, ThreadSet DEF LoopExit, Threads
  <2>3. /\ \A y \in Threads : /\ thread[y] = "none" => thread'[y] = "none"
                              /\ Gone(y) => Gone(y)'
        /\ Gone("loop")' => Gone("loop")
    BY <2>1, <2>2 DEF Gone, Threads
  <2> QED BY <1>1, <1>2, <1>3, <2>3, OtherThreads
<1> QED
  BY <1>4, <1>5 DEF LoopEnter, LoopQuit

(* stop_evidence_loop() in the loop thread, which runs only once the watch   *)
(* is gone.                                                                  *)
LEMMA LoopStopsEvidence ==
  ASSUME TypeOK, Rest, StopEvidenceLoop("loop")
  PROVE  Rest'
<1>1. UNCHANGED <<afterStop, afterEvidence, state, pipeline, freed, watch>>
  BY DEF StopEvidenceLoop, SetStopFlags, SetStopWorker, NotifyWorker, JoinWorker, JoinEvidence,
         WorkerJoined, EvidenceJoined, Joined, returnVars, gstVars, exitVars
<1>2. pc["loop"] \in SharedSteps
  BY DEF StopEvidenceLoop, SetStopFlags, SetStopWorker, NotifyWorker, JoinWorker, JoinEvidence,
         WorkerJoined, EvidenceJoined, Joined, At, SharedSteps
<1>3. ~watch
  BY <1>2 DEF Rest, Watched
<1>4. pc'["main"] \in {pc["main"], "aborted"}
  <2>1. \A x, l, next : CallJoin("loop", x, l, next) => pc'["main"] \in {pc["main"], "aborted"}
    BY Arrive DEF CallJoin, JoinFails
  <2>2. CASE JoinWorker("loop")
    BY <2>1, <2>2 DEF JoinWorker
  <2>3. CASE SetStopWorker("loop") \/ NotifyWorker("loop")
    BY <2>3, Arrive DEF SetStopWorker, NotifyWorker
  <2>4. CASE JoinEvidence("loop")
    BY <2>1, <2>4 DEF JoinEvidence
  <2>5. CASE SetStopFlags("loop") \/ WorkerJoined("loop") \/ EvidenceJoined("loop")
    BY <2>5, Arrive DEF SetStopFlags, WorkerJoined, EvidenceJoined, Joined
  <2> QED BY <2>2, <2>3, <2>4, <2>5 DEF StopEvidenceLoop
<1>5. /\ \A y \in Threads : /\ thread[y] = "none" => thread'[y] = "none"
                            /\ Gone(y) => Gone(y)'
      /\ Gone("loop")' => Gone("loop")
  <2>1. CASE UNCHANGED thread
    BY <2>1 DEF Gone
  <2>2. ASSUME NEW x \in {"worker", "evidence"}, thread[x] = "ended",
               thread' = [thread EXCEPT ![x] = "joined"]
        PROVE  /\ \A y \in Threads : /\ thread[y] = "none" => thread'[y] = "none"
                                     /\ Gone(y) => Gone(y)'
               /\ Gone("loop")' => Gone("loop")
    <3>1. thread'[x] = "joined" /\ \A y \in Threads \ {x} : thread'[y] = thread[y]
      BY <2>2, ThreadSet DEF Threads
    <3> QED BY <2>2, <3>1 DEF Gone, Threads
  <2> QED
    BY <2>1, <2>2 DEF StopEvidenceLoop, SetStopFlags, SetStopWorker, NotifyWorker, JoinWorker,
       JoinEvidence, WorkerJoined, EvidenceJoined, Joined
<1> QED
  BY <1>1, <1>3, <1>4, <1>5, OtherThreads

(* The loop thread handles an end of stream ...                             *)
LEMMA EosStep == ASSUME TypeOK, Rest, HandleEos PROVE Rest'
<1>0. thread["loop"] = "running"
  BY DEF HandleEos, At, TypeOK, Threads
<1>1. /\ pc["loop"] = "running" /\ pc'["main"] = pc["main"]
      /\ state' = "Stopped" /\ watch' = FALSE
  BY Arrive DEF HandleEos, At, Threads
<1>2. UNCHANGED <<afterStop, afterEvidence, pipeline, thread, freed>>
  BY DEF HandleEos, returnVars, gstVars, exitVars
<1>3. Returns'
  BY <1>0, <1>1, <1>2 DEF Rest, Returns, EarlySteps
<1>4. Joins'
  BY <1>0, <1>1, <1>2 DEF Rest, Returns, Joins, EarlySteps, NoWorkerYet, EvidenceStopped, Gone
<1>5. Frees'
  BY <1>0, <1>1, <1>2 DEF Rest, Returns, Joins, EarlySteps, NoWorkerYet, EvidenceStopped, Frees,
      Ended, Gone, Objects
<1>6. PipelineState'
  BY <1>0, <1>1, <1>2 DEF Rest, Returns, Joins, PipelineState, Ended, Gone
<1>7. Watched'
  BY <1>0, <1>1, <1>2 DEF Rest, Returns, Joins, PipelineState, Watched, Ended, Gone, SharedSteps
<1> QED BY <1>3, <1>4, <1>5, <1>6, <1>7 DEF Rest

(* ... or an error.                                                         *)
LEMMA ErrorStep == ASSUME TypeOK, Rest, HandleError PROVE Rest'
<1>0. thread["loop"] = "running"
  BY DEF HandleError, At, TypeOK, Threads
<1>1. /\ pc["loop"] = "running" /\ pc'["main"] = pc["main"]
      /\ state' = "Error" /\ watch' = FALSE
  BY Arrive DEF HandleError, At, Threads
<1>2. UNCHANGED <<afterStop, afterEvidence, pipeline, thread, freed>>
  BY DEF HandleError, returnVars, gstVars, exitVars
<1>3. Returns'
  BY <1>0, <1>1, <1>2 DEF Rest, Returns, EarlySteps
<1>4. Joins'
  BY <1>0, <1>1, <1>2 DEF Rest, Returns, Joins, EarlySteps, NoWorkerYet, EvidenceStopped, Gone
<1>5. Frees'
  BY <1>0, <1>1, <1>2 DEF Rest, Returns, Joins, EarlySteps, NoWorkerYet, EvidenceStopped, Frees,
      Ended, Gone, Objects
<1>6. PipelineState'
  BY <1>0, <1>1, <1>2 DEF Rest, Returns, Joins, PipelineState, Ended, Gone
<1>7. Watched'
  BY <1>0, <1>1, <1>2 DEF Rest, Returns, Joins, PipelineState, Watched, Ended, Gone, SharedSteps
<1> QED BY <1>3, <1>4, <1>5, <1>6, <1>7 DEF Rest

(* Every step keeps the rest.                                                *)
LEMMA StepRest ==
  ASSUME TypeOK, Rest, [Next]_vars
  PROVE  Rest'
<1>1. CASE StopEvidenceLoop("main") \/ EndControl \/ EarlyControl
  BY <1>1, MainMoves, WorkerJoinedStep, EvidenceJoinedStep, ControlJoinedStep, EarlyJoinedStep
     DEF StopEvidenceLoop, EndControl, EarlyControl
<1>2. CASE MainStep
  BY <1>1, <1>2, MainMoves, StartStep, SpawnLoopStep, SpawnWorkerStep, SpawnEvidenceStep,
     SetPlayingStep, PollStep, CleanupStep, EarlyReturnStep, StopStep, LoopJoinedStep,
     SetNullStep, DestroyStep, FreeStep, ReleaseStep DEF MainStep
<1>3. CASE LoopRun \/ HandleEos \/ HandleError
  BY <1>3, LoopStep, LoopStopsEvidence, EosStep, ErrorStep DEF LoopRun
<1>4. CASE Next
  BY <1>2, <1>3, <1>4, ThreadEndsStep, MainMoves DEF Next
<1>5. CASE UNCHANGED vars
  BY <1>5 DEF vars, Rest, Returns, Joins, Frees, PipelineState, Watched, Gone, returnVars, gstVars,
     exitVars
<1> QED BY <1>4, <1>5

-----------------------------------------------------------------------------
(* The results *)

(* initialize() has succeeded and nothing has run yet.                       *)
LEMMA InitIInv == Init => IInv
<1> SUFFICES ASSUME Init PROVE IInv
  OBVIOUS
<1> USE DEF Init
<1>1. TypeOK
  BY DEF TypeOK, MainSteps, LoopSteps, SharedSteps, Threads, States, At
<1>2. Returns /\ Frees
  BY DEF Returns, Frees, Ended
<1>3. Joins
  BY DEF Joins, NoWorkerYet, EvidenceStopped, Threads, Gone
<1>4. PipelineState
  BY DEF PipelineState, Gone, Threads, Ended
<1>5. Watched
  BY DEF Watched, Gone, Threads, SharedSteps
<1> QED BY <1>1, <1>2, <1>3, <1>4, <1>5 DEF IInv

(* IInv is an invariant of the specification.                                *)
LEMMA Inductive == Spec => []IInv
<1>1. IInv /\ [Next]_vars => IInv'
  BY StepType, StepRest DEF IInv, Rest
<1> QED BY <1>1, InitIInv, PTL DEF Spec

(* Every label, flag and thread of start(), stop() and main() keeps its      *)
(* type, and the loop thread's record agrees with where that thread is.      *)
THEOREM TypeCorrect == Spec => []TypeOK
<1>1. IInv => TypeOK
  BY DEF IInv
<1> QED BY <1>1, Inductive, PTL

(* No evidence or control thread runs on after the service, the cache, the   *)
(* manager or the messaging adapters it uses are destroyed, on any path out  *)
(* of main.                                                                  *)
THEOREM NeverUsesFreed == Spec => []NoUseAfterFree
<1>1. IInv => NoUseAfterFree
  <2> SUFFICES ASSUME IInv PROVE NoUseAfterFree
    OBVIOUS
  <2>1. \A x \in Threads : Joinable(x) => ~Gone(x)
    BY DEF Joinable, Gone
  <2>2. /\ Joinable("worker") \/ Joinable("evidence") =>
             freed \cap {"service", "cache", "messaging"} = {}
        /\ Joinable("control") => freed = {}
    BY <2>1 DEF IInv, Frees, Threads
  <2>3. Joinable("loop") /\ watch => freed \cap {"probes", "streams", "manager"} = {}
    BY <2>1 DEF IInv, Frees, Watched, Threads
  <2> QED BY <2>2, <2>3 DEF NoUseAfterFree
<1> QED BY <1>1, Inductive, PTL

(* When main returns, every thread was joined, the pipeline was brought to   *)
(* NULL and every object was destroyed.                                      *)
THEOREM ExitsClean == Spec => []CleanExit
<1>1. IInv => CleanExit
  <2> SUFFICES ASSUME IInv, At("main", "exited") PROVE CleanExit
    BY DEF CleanExit
  <2>1. \A x \in Threads : Gone(x)
    BY DEF IInv, Returns, Joins, EvidenceStopped, Threads, At
  <2>2. \A x \in Threads : ~Joinable(x)
    BY <2>1 DEF Gone, Joinable
  <2> QED BY <2>2 DEF IInv, Frees, PipelineState, CleanExit, At
<1> QED BY <1>1, Inductive, PTL

(* std::terminate needs a handled end of stream or error: as long as the bus *)
(* watch is installed no step fails a join or destroys a joinable thread.    *)
THEOREM ShutsDownQuietly == Spec => QuietShutdown
<1>1. ASSUME IInv, [Next]_vars PROVE [watch => ~At("main", "aborted")']_vars
  <2> SUFFICES ASSUME Next, watch, pc'["main"] = "aborted" PROVE FALSE
    BY <1>1 DEF At
  <2> USE <1>1
  <2>0. /\ TypeOK /\ pc["main"] # "aborted" /\ pc["loop"] \notin SharedSteps \cup {"quit"}
        /\ pc["main"] = "free" => Gone("loop") /\ Gone("evidence")
    BY DEF IInv, Returns, Watched, Joins, EvidenceStopped, Next, Alive, Ended
  <2>1. \A l : /\ Goto("main", l) => pc'["main"] = l
               /\ Goto("loop", l) => pc'["main"] = pc["main"]
    BY <2>0, Arrive
  <2>2. ~StopEvidenceLoop("loop")
    BY <2>0 DEF StopEvidenceLoop, SetStopFlags, SetStopWorker, NotifyWorker, JoinWorker,
       JoinEvidence, WorkerJoined, EvidenceJoined, Joined, At, SharedSteps
  <2>3. ~(LoopRun \/ HandleEos \/ HandleError)
    BY <2>0, <2>1, <2>2 DEF LoopRun, LoopEnter, LoopExit, LoopQuit, HandleEos, HandleError
  <2>4. /\ ~(EvidenceLoopEnds \/ WorkerStep \/ RequestWakes \/ ControlEnds \/ HandleSignal)
        /\ \A x \in {"loop", "control"} : ~RemovalHangs(x)
    BY <2>0 DEF EvidenceLoopEnds, WorkerStep, WorkerStarts, NoContext, WorkerChecks, WorkerSleeps,
       WorkerEnds, WorkerMoves, RequestWakes, ControlEnds, HandleSignal, ThreadEnds, RemovalHangs
  <2>5. ASSUME NEW x, NEW l \in SharedSteps, NEW next, next # "aborted",
               CallJoin("main", x, l, next)
        PROVE  FALSE
    BY <2>0, <2>1, <2>5 DEF CallJoin, Other, At, SharedSteps
  <2>6. ~StopEvidenceLoop("main")
    <3>1. afterEvidence["main"] # "aborted"
      BY DEF IInv, Returns
    <3>2. {"worker_join", "evidence_join"} \subseteq SharedSteps
      BY DEF SharedSteps
    <3>3. ~(SetStopWorker("main") \/ NotifyWorker("main") \/ JoinWorker("main"))
      <4>1. ~JoinWorker("main")
        BY <2>5, <3>2 DEF JoinWorker
      <4>2. ~(SetStopWorker("main") \/ NotifyWorker("main"))
        BY <2>1 DEF SetStopWorker, NotifyWorker
      <4> QED BY <4>1, <4>2
    <3>4. ~JoinEvidence("main")
      BY <2>5, <3>1, <3>2 DEF JoinEvidence
    <3>5. ~(SetStopFlags("main") \/ WorkerJoined("main") \/ EvidenceJoined("main"))
      BY <2>1, <3>1 DEF SetStopFlags, WorkerJoined, EvidenceJoined, Joined
    <3> QED BY <3>3, <3>4, <3>5 DEF StopEvidenceLoop
  <2>7. ~Free
    BY <2>0, <2>1 DEF Free, Joinable, Gone, At
  <2>8. ~(Stop \/ SetNull)
    <3>1. afterStop # "aborted"
      BY <2>0 DEF TypeOK
    <3> QED BY <2>1, <3>1 DEF Stop, SetNull
  <2>9. ~(EndControl \/ EarlyControl)
    BY <2>1 DEF EndControl, EarlyControl, StopControl, Joined
  <2>10. ~SpawnLoop
    BY <2>0 DEF SpawnLoop, TypeOK
  <2>11. ~MainStep
    BY <2>1, <2>6, <2>7, <2>8, <2>9, <2>10 DEF MainStep, Start, Subscribe, ClearStopWorker,
       SpawnWorker, ClearStop, SpawnEvidence, Spawn, SetPlaying, Poll, ExitCode, Cleanup,
       EarlyReturn, QuitLoop, JoinLoop, LoopJoined, Joined, Destroy, CleanupStop, Release
  <2>12. ~WatchdogFires
    BY <2>1 DEF WatchdogFires
  <2> QED BY <2>3, <2>4, <2>11, <2>12 DEF Next
<1> QED BY <1>1, Inductive, PTL DEF Spec, QuietShutdown
=============================================================================
