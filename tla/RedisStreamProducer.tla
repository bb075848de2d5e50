------------------------ MODULE RedisStreamProducer ------------------------
(***************************************************************************)
(* infrastructure/messaging/src/redis_stream_producer.cpp: XADD from many  *)
(* streaming threads over one hiredis context, with a background thread    *)
(* that reconnects.  A section under ctx_mtx_ is one step; connected_,     *)
(* reconnect_needed_ and stop_ are atomics read and written without it.    *)
(***************************************************************************)
EXTENDS Integers

CONSTANTS Publishers,   \* threads that publish
          MaxFailures,  \* bound: outages of the broker and error replies
          BaseBackoff,  \* RECONNECT_BASE_SEC
          MaxBackoff    \* RECONNECT_MAX_SEC

ASSUME ProducerAssumption ==
  /\ MaxFailures \in Nat /\ BaseBackoff \in Nat \ {0} /\ MaxBackoff \in Nat
  /\ BaseBackoff <= MaxBackoff

VARIABLES server,     \* the broker answers
          failures,   \* faults so far
          ctx,        \* ctx_: none, good, or cut off from the broker
          connected,  \* connected_
          needed,     \* reconnect_needed_
          stop,       \* stop_
          reconnect,  \* where reconnect_loop stands
          backoff,    \* backoff_sec
          publisher,  \* where each publish call stands
          owner       \* connect and disconnect, on main

vars == <<server, failures, ctx, connected, needed, stop, reconnect, backoff, publisher, owner>>

TypeOK ==
  /\ server \in BOOLEAN /\ failures \in 0 .. MaxFailures
  /\ ctx \in {"none", "good", "cut"}
  /\ connected \in BOOLEAN /\ needed \in BOOLEAN /\ stop \in BOOLEAN
  /\ reconnect \in {"none", "loop", "wait", "checked", "asleep", "signalled", "backoff",
                    "connect", "ended"}
  /\ backoff \in BaseBackoff .. MaxBackoff
  /\ publisher \in [Publishers -> {"idle", "lock"}]
  /\ owner \in {"connect", "spawn", "running", "notify", "join", "free", "done"}

Init == /\ server \in BOOLEAN /\ failures = 0
        /\ ctx = "none" /\ connected = FALSE
        /\ needed = FALSE /\ stop = FALSE
        /\ reconnect = "none" /\ backoff = BaseBackoff
        /\ publisher = [p \in Publishers |-> "idle"]
        /\ owner = "connect"

-----------------------------------------------------------------------------
(* The broker *)

(* An outage cuts the open connection. *)
ServerFails ==
  /\ server /\ failures < MaxFailures
  /\ server' = FALSE /\ failures' = failures + 1
  /\ ctx' = IF ctx = "good" THEN "cut" ELSE ctx
  /\ UNCHANGED <<connected, needed, stop, reconnect, backoff, publisher, owner>>

ServerReturns ==
  /\ ~server
  /\ server' = TRUE
  /\ UNCHANGED <<failures, ctx, connected, needed, stop, reconnect, backoff, publisher, owner>>

-----------------------------------------------------------------------------
(* do_connect under ctx_mtx_: the old context is freed; connect and PING     *)
(* succeed if the broker answers.                                            *)
do_connect ==
  /\ ctx' = IF server THEN "good" ELSE "none"
  /\ connected' = (server \/ (ctx = "none" /\ connected))

(* notify_one, notify_all: only a thread that is asleep hears it. *)
Notified == IF reconnect = "asleep" THEN "wait" ELSE reconnect

(* Mutant of schedule_reconnect: the thread is woken without a reason. *)
ScheduleUnflagged == needed' = needed /\ reconnect' = Notified

schedule_reconnect == needed' = TRUE /\ reconnect' = Notified

Connect ==
  /\ owner = "connect"
  /\ do_connect
  /\ owner' = "spawn"
  /\ UNCHANGED <<server, failures, needed, stop, reconnect, backoff, publisher>>

SpawnReconnect ==
  /\ owner = "spawn"
  /\ reconnect' = "loop"
  /\ owner' = "running"
  /\ UNCHANGED <<server, failures, ctx, connected, needed, stop, backoff, publisher>>

-----------------------------------------------------------------------------
(* reconnect_loop *)

Loop ==
  /\ reconnect = "loop"
  /\ reconnect' = IF stop THEN "ended" ELSE "wait"
  /\ UNCHANGED <<server, failures, ctx, connected, needed, stop, backoff, publisher, owner>>

(* cv_.wait looks at its predicate; cv_mtx_ keeps nobody from changing it    *)
(* before the thread sleeps.                                                 *)
CheckPredicate ==
  /\ reconnect = "wait"
  /\ reconnect' = IF needed \/ stop THEN "signalled" ELSE "checked"
  /\ UNCHANGED <<server, failures, ctx, connected, needed, stop, backoff, publisher, owner>>

Sleep ==
  /\ reconnect = "checked"
  /\ reconnect' = "asleep"
  /\ UNCHANGED <<server, failures, ctx, connected, needed, stop, backoff, publisher, owner>>

(* The flag is reset, then connected_ is read: a failure in between sets it  *)
(* again.                                                                    *)
TakeSignal ==
  /\ reconnect = "signalled"
  /\ IF stop THEN reconnect' = "ended" /\ UNCHANGED needed
     ELSE reconnect' = "backoff" /\ needed' = FALSE
  /\ UNCHANGED <<server, failures, ctx, connected, stop, backoff, publisher, owner>>

(* Already connected, stopped while backing off, or time to try. *)
Backoff ==
  /\ reconnect = "backoff"
  /\ IF connected THEN reconnect' = "loop" /\ backoff' = BaseBackoff
     ELSE reconnect' = (IF stop THEN "ended" ELSE "connect") /\ UNCHANGED backoff
  /\ UNCHANGED <<server, failures, ctx, connected, needed, stop, publisher, owner>>

(* Mutant of Reconnect: the back-off is doubled without a cap. *)
ReconnectUncapped ==
  /\ reconnect = "connect"
  /\ do_connect
  /\ reconnect' = "loop"
  /\ IF server THEN backoff' = BaseBackoff /\ UNCHANGED needed
     ELSE backoff' = 2 * backoff /\ needed' = TRUE
  /\ UNCHANGED <<server, failures, stop, publisher, owner>>

(* One attempt; a failed one doubles the back-off up to its cap and asks for *)
(* another.                                                                  *)
Reconnect ==
  /\ reconnect = "connect"
  /\ do_connect
  /\ reconnect' = "loop"
  /\ IF server THEN backoff' = BaseBackoff /\ UNCHANGED needed
     ELSE /\ backoff' = IF 2 * backoff < MaxBackoff THEN 2 * backoff ELSE MaxBackoff
          /\ needed' = TRUE
  /\ UNCHANGED <<server, failures, stop, publisher, owner>>

-----------------------------------------------------------------------------
(* publish and publish_json *)

(* The fast path: not connected, the message is dropped. *)
Drop(p) ==
  /\ publisher[p] = "idle" /\ owner \notin {"connect", "spawn"}
  /\ ~connected
  /\ schedule_reconnect
  /\ UNCHANGED <<server, failures, ctx, connected, stop, backoff, publisher, owner>>

PassFastPath(p) ==
  /\ publisher[p] = "idle" /\ owner \notin {"connect", "spawn"}
  /\ connected
  /\ publisher' = [publisher EXCEPT ![p] = "lock"]
  /\ UNCHANGED <<server, failures, ctx, connected, needed, stop, reconnect, backoff, owner>>

(* Under ctx_mtx_: the context is gone or cut, XADD has no reply. *)
XaddLost(p) ==
  /\ publisher[p] = "lock" /\ ctx \in {"none", "cut"}
  /\ ctx' = "none" /\ connected' = FALSE
  /\ schedule_reconnect
  /\ publisher' = [publisher EXCEPT ![p] = "idle"]
  /\ UNCHANGED <<server, failures, stop, backoff, owner>>

(* The broker answers with an error: the context is kept for do_connect. *)
XaddError(p) ==
  /\ publisher[p] = "lock" /\ ctx = "good" /\ failures < MaxFailures
  /\ failures' = failures + 1
  /\ connected' = FALSE
  /\ schedule_reconnect
  /\ publisher' = [publisher EXCEPT ![p] = "idle"]
  /\ UNCHANGED <<server, ctx, stop, backoff, owner>>

XaddOk(p) ==
  /\ publisher[p] = "lock" /\ ctx = "good"
  /\ publisher' = [publisher EXCEPT ![p] = "idle"]
  /\ UNCHANGED <<server, failures, ctx, connected, needed, stop, reconnect, backoff, owner>>

-----------------------------------------------------------------------------
(* disconnect *)

SetStop ==
  /\ owner = "running"
  /\ stop' = TRUE
  /\ owner' = "notify"
  /\ UNCHANGED <<server, failures, ctx, connected, needed, reconnect, backoff, publisher>>

NotifyAll ==
  /\ owner = "notify"
  /\ reconnect' = Notified
  /\ owner' = "join"
  /\ UNCHANGED <<server, failures, ctx, connected, needed, stop, backoff, publisher>>

(* Mutant of Join: the thread is left to itself. *)
JoinNobody ==
  /\ owner = "join"
  /\ owner' = "free"
  /\ UNCHANGED <<server, failures, ctx, connected, needed, stop, reconnect, backoff, publisher>>

Join ==
  /\ owner = "join" /\ reconnect = "ended"
  /\ owner' = "free"
  /\ UNCHANGED <<server, failures, ctx, connected, needed, stop, reconnect, backoff, publisher>>

Free ==
  /\ owner = "free"
  /\ ctx' = "none"
  /\ connected' = IF ctx = "none" THEN connected ELSE FALSE
  /\ owner' = "done"
  /\ UNCHANGED <<server, failures, needed, stop, reconnect, backoff, publisher>>

-----------------------------------------------------------------------------
ReconnectThread == Loop \/ CheckPredicate \/ Sleep \/ TakeSignal \/ Backoff \/ Reconnect

Publish(p) == Drop(p) \/ PassFastPath(p) \/ XaddLost(p) \/ XaddError(p) \/ XaddOk(p)

Owner == Connect \/ SpawnReconnect \/ SetStop \/ NotifyAll \/ Join \/ Free

Next == \/ ServerFails \/ ServerReturns
        \/ ReconnectThread
        \/ \E p \in Publishers : Publish(p)
        \/ Owner

Spec == Init /\ [][Next]_vars

(* Threads run, a broker that went down comes back, and frames keep arriving, *)
(* so that the handlers keep publishing.                                     *)
Fairness == /\ WF_vars(ReconnectThread) /\ WF_vars(ServerReturns)
            /\ WF_vars(Connect \/ SpawnReconnect \/ NotifyAll \/ Join \/ Free)
            /\ \A p \in Publishers : /\ WF_vars(XaddLost(p) \/ XaddOk(p))
                                     /\ WF_vars(Drop(p) \/ PassFastPath(p))

FairSpec == Spec /\ Fairness
-----------------------------------------------------------------------------
(* Properties *)

(* connected_ read without the lock never promises a context that is gone,   *)
(* and a producer that was shut down has none, whatever late publishers and  *)
(* a reconnection under way do.                                              *)
ContextMatchesFlag == /\ connected => ctx # "none"
                      /\ owner = "done" => ctx = "none" /\ ~connected

(* Publishing goes on and the broker comes back for good: so does the        *)
(* connection, whatever wake-ups were lost and however the faults fell,      *)
(* unless the producer is shut down.                                         *)
Recovers == <>[](stop \/ (connected /\ ctx = "good"))
=============================================================================
