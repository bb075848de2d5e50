--------------------------- MODULE SourceControl ---------------------------
(***************************************************************************)
(* Runtime control: RuntimeControlHandler with its two front ends, and the *)
(* calls of PipelineManager they make.  Commands of a message stream are   *)
(* handled one by one on a thread of their own ("msg"); the HTTP server is *)
(* a GSocketService on the default main context, so the loop thread itself *)
(* reads a connection and handles its request ("http").  A call of the     *)
(* message thread becomes a callback of the main loop, for which it waits  *)
(* 5 s (sources) or 2 s (properties); the callback stays queued when the   *)
(* caller gives up.  The sources are those of SourceDirectory, which       *)
(* RuntimeStreamManager implements, except that a removal may never return *)
(* (the run stream_removal shows how): it then keeps RuntimeStreamManager's*)
(* mtx_, which lists, adds and removals wait for without a limit.          *)
(***************************************************************************)
EXTENDS Integers, Sequences

CONSTANTS Cameras, MaxSources, NoSlot, NoReply,
          Props,       \* element properties a client may name
          Allowed,     \* allowed_params_; all are allowed if it is empty
          Values,      \* texts a client may send for them
          Readable,    \* those set_property_from_string can convert
          Settings,    \* what a property can be
          Conversion,  \* what a readable text is converted to: several may mean the same
          Default,     \* what the properties are when the pipeline starts
          ItemLists,   \* bound: the "properties" objects of set requests
          MaxPending,  \* bound: callbacks queued when a message is taken
          Unknown      \* the message client knows nothing

ASSUME ControlAssumption ==
  /\ Allowed \subseteq Props /\ Readable \subseteq Values
  /\ Conversion \in [Readable -> Settings] /\ Default \in Settings
  /\ ItemLists \subseteq Seq(Props \X Values)
  /\ Cameras \cap Props = {} /\ NoSlot \notin 0 .. (MaxSources - 1)
  /\ Unknown \notin Settings \cup {"in", "out"}
  /\ MaxPending \in Nat

VARIABLES loop,    \* the loop thread: "before", "running", "quit" (asked to), "gone"
          slotOf,  \* SourceDirectory
          reply,   \* SourceDirectory
          params,  \* the elements' properties
          at,      \* where each front end is
          todo,    \* the calls its request still has to make
          queue,   \* callbacks attached to the main context
          ready,   \* how many of them the current iteration dispatches
          stop,    \* stop_requested_, and the HTTP server is stopped
          stuck,   \* the thread whose removal never returns: "none", "loop", "msg"
          belief   \* history: what the message client was told last, and may still believe

Directory == INSTANCE SourceDirectory

directoryVars == <<slotOf, reply>>
vars == <<loop, directoryVars, params, at, todo, queue, ready, stop, stuck, belief>>

Calls == [op : {"add", "remove"}, key : Cameras, val : {Unknown}]
         \cup [op : {"get"}, key : Props, val : {Unknown}]
         \cup [op : {"set"}, key : Props, val : Values]
         \cup [op : {"list"}, key : {Unknown}, val : {Unknown}]

Source(op, c) == <<[op |-> op, key |-> c, val |-> Unknown]>>
GetProperty(p) == <<[op |-> "get", key |-> p, val |-> Unknown]>>
ListSources == <<[op |-> "list", key |-> Unknown, val |-> Unknown]>>

(* set_properties sets and reads back one property after the other. *)
SetProperties(items) ==
  [n \in 1 .. 2 * Len(items) |->
     LET i == items[(n + 1) \div 2]
     IN  IF n % 2 = 1 THEN [op |-> "set", key |-> i[1], val |-> i[2]]
                      ELSE [op |-> "get", key |-> i[1], val |-> Unknown]]

(* What handle_message and handle_connection route to calls of the manager.  *)
(* The empty request stands for all that is answered without one: health,    *)
(* state, an unknown route, type or pipeline, bad JSON.                      *)
Requests == {Source(op, c) : op \in {"add", "remove"}, c \in Cameras}
            \cup {GetProperty(p) : p \in Props}
            \cup {SetProperties(items) : items \in ItemLists}
            \cup {ListSources, <<>>}

FrontEnds == {"msg", "http"}

TypeOK ==
  /\ loop \in {"before", "running", "quit", "gone"}
  /\ slotOf \in [Cameras -> 0 .. (MaxSources - 1) \cup {NoSlot}]
  /\ params \in [Props -> Settings]
  /\ at \in [FrontEnds -> {"idle", "read", "handle", "direct", "invoke", "wait", "stopped"}]
  /\ at["msg"] # "read" /\ at["http"] \in {"idle", "read", "handle"}
  /\ todo \in [FrontEnds -> Seq(Calls)]
  /\ queue \in Seq([call : Calls, waited : BOOLEAN])
  /\ ready \in 0 .. Len(queue)
  /\ stop \in BOOLEAN /\ stuck \in {"none", "loop", "msg"}
  /\ belief \in [Cameras \cup Props -> Settings \cup {"in", "out", Unknown}]

Init ==
  /\ loop = "before"
  /\ Directory!Init
  /\ params = [p \in Props |-> Default]
  /\ at = [f \in FrontEnds |-> "idle"]
  /\ todo = [f \in FrontEnds |-> <<>>]
  /\ queue = <<>> /\ ready = 0
  /\ stop = FALSE /\ stuck = "none"
  /\ belief = [k \in Cameras \cup Props |-> Unknown]

loop_running == loop = "running"
owned == loop \in {"running", "quit"}   \* the loop thread has acquired the context

Mutates(call) == call.op \in {"add", "remove", "set"}

(* mtx_ of RuntimeStreamManager can be had. *)
StreamsFree == stuck = "none"
-----------------------------------------------------------------------------
(* The callbacks of the main loop.  A source that was added or removed is    *)
(* followed by a refresh of the pipeline and a dot file, which only add a    *)
(* warning to the answer.                                                    *)

invoke_add_source(c) ==
  /\ StreamsFree
  /\ \/ Directory!Added(c) \/ Directory!Duplicate(c) \/ Directory!Full(c)
     \/ Directory!Failed(c) \/ Directory!Invalid(c)
  /\ UNCHANGED params

invoke_remove_source(c) ==
  /\ StreamsFree
  /\ Directory!Removed(c) \/ Directory!Missing(c)
  /\ UNCHANGED params

(* Mutant of set_property_from_string: any text is stored. *)
set_any_text(p, v) == params' = [params EXCEPT ![p] = v]

set_property_from_string(p, v) ==
  params' = IF v \in Readable THEN [params EXCEPT ![p] = Conversion[v]] ELSE params

get_property_as_string(p) == params[p]

invoke_set_param(p, v) == set_property_from_string(p, v) /\ UNCHANGED directoryVars

invoke_get_param == UNCHANGED <<directoryVars, params>>

Execute(call) ==
  \/ call.op = "add" /\ invoke_add_source(call.key)
  \/ call.op = "remove" /\ invoke_remove_source(call.key)
  \/ call.op = "set" /\ invoke_set_param(call.key, call.val)
  \/ call.op = "get" /\ invoke_get_param

(* What a client that knows the conversion concludes from the answer. *)
Learns(call, status) ==
  CASE call.op = "add"    -> IF status \in {201, 409} THEN "in"
                             ELSE IF status \in {500, 507} THEN "out" ELSE Unknown
    [] call.op = "remove" -> IF status \in {200, 404} THEN "out" ELSE Unknown
    [] call.op = "set"    -> IF call.val \in Readable THEN Conversion[call.val] ELSE Unknown
    [] call.op = "get"    -> get_property_as_string(call.key)

Observe(f, call) ==
  belief' = [belief EXCEPT ![call.key] =
               IF f = "msg" THEN Learns(call, reply'.status)
               ELSE IF Mutates(call) THEN Unknown ELSE @]

(* A set that failed ends its request; any other call ends its own part. *)
After(f, failed) ==
  /\ todo' = [todo EXCEPT ![f] = IF failed /\ Head(@).op = "set" THEN <<>> ELSE Tail(@)]
  /\ at' = [at EXCEPT ![f] = "handle"]

Failed(call) == call.op = "set" /\ call.val \notin Readable

(* The call is made on the thread of f. *)
Perform(f) ==
  /\ Execute(Head(todo[f]))
  /\ Observe(f, Head(todo[f]))
  /\ After(f, Failed(Head(todo[f])))
  /\ UNCHANGED <<loop, queue, ready, stop>>
-----------------------------------------------------------------------------
(* RuntimeControlHandler, on the thread of f *)

is_allowed_param(p) == Allowed = {} \/ p \in Allowed

Refused(call) == call.key \in Props /\ ~is_allowed_param(call.key)

Forbidden(f) ==
  /\ at[f] = "handle" /\ todo[f] # <<>>
  /\ Refused(Head(todo[f]))
  /\ todo' = [todo EXCEPT ![f] = <<>>]
  /\ UNCHANGED <<loop, directoryVars, params, at, queue, ready, stop, belief>>

(* The response is written (HTTP), or handed to the producer if the command  *)
(* has a reply channel; whether the broker takes it is not looked at.  What  *)
(* the client believes is what the answer says: a client that misses it      *)
(* believes less.                                                            *)
Answer(f) ==
  /\ at[f] = "handle" /\ todo[f] = <<>>
  /\ at' = [at EXCEPT ![f] = "idle"]
  /\ reply' = NoReply
  /\ UNCHANGED <<loop, slotOf, params, todo, queue, ready, stop, belief>>

HasCall(f) == at[f] = "handle" /\ todo[f] # <<>> /\ ~Refused(Head(todo[f]))

(* list_sources_detailed reads the streams on the thread of f, beside the    *)
(* queue of the loop.                                                        *)
list_sources(f) ==
  /\ HasCall(f) /\ Head(todo[f]).op = "list"
  /\ StreamsFree
  /\ After(f, FALSE)
  /\ UNCHANGED <<loop, directoryVars, params, queue, ready, stop, belief>>

(* On the loop thread both branches of a call of PipelineManager come to the *)
(* same: g_main_context_invoke runs the callback at once on the thread that  *)
(* owns the context.                                                         *)
CallHere == HasCall("http") /\ Perform("http")

(* add_source_detailed, remove_source_detailed, set_param, get_param up to   *)
(* their test of g_main_loop_is_running.                                     *)
Check ==
  /\ HasCall("msg") /\ Head(todo["msg"]).op # "list"
  /\ at' = [at EXCEPT !["msg"] = IF loop_running THEN "invoke" ELSE "direct"]
  /\ belief' = [belief EXCEPT ![Head(todo["msg"]).key] =
                  IF Mutates(Head(todo["msg"])) THEN Unknown ELSE @]
  /\ UNCHANGED <<loop, directoryVars, params, todo, queue, ready, stop>>

Direct == at["msg"] = "direct" /\ Perform("msg")

(* A thread that can acquire the context runs the callback at once, too. *)
InvokeHere == at["msg"] = "invoke" /\ ~owned /\ Perform("msg")

(* Mutant of InvokeQueued: the newest callback runs first. *)
InvokeInFront ==
  /\ at["msg"] = "invoke" /\ owned
  /\ queue' = <<[call |-> Head(todo["msg"]), waited |-> TRUE]>> \o queue
  /\ at' = [at EXCEPT !["msg"] = "wait"]
  /\ UNCHANGED <<loop, directoryVars, params, todo, ready, stop, belief>>

InvokeQueued ==
  /\ at["msg"] = "invoke" /\ owned
  /\ queue' = Append(queue, [call |-> Head(todo["msg"]), waited |-> TRUE])
  /\ at' = [at EXCEPT !["msg"] = "wait"]
  /\ UNCHANGED <<loop, directoryVars, params, todo, ready, stop, belief>>

(* Mutant of TimesOut: the caller gives up only while the loop runs. *)
NeverTimesOut ==
  /\ at["msg"] = "wait" /\ loop_running
  /\ queue' = [n \in DOMAIN queue |-> [call |-> queue[n].call, waited |-> FALSE]]
  /\ After("msg", TRUE)
  /\ UNCHANGED <<loop, directoryVars, params, ready, stop, belief>>

(* future.wait_for runs out, and the callback is abandoned. *)
TimesOut ==
  /\ at["msg"] = "wait"
  /\ queue' = [n \in DOMAIN queue |-> [call |-> queue[n].call, waited |-> FALSE]]
  /\ After("msg", TRUE)
  /\ UNCHANGED <<loop, directoryVars, params, ready, stop, belief>>
-----------------------------------------------------------------------------
(* RuntimeControlMessageConsumer::consume_loop and stop *)

TakeMessage ==
  /\ at["msg"] = "idle" /\ ~stop
  /\ Len(queue) <= MaxPending
  /\ \E r \in Requests : todo' = [todo EXCEPT !["msg"] = r]
  /\ at' = [at EXCEPT !["msg"] = "handle"]
  /\ UNCHANGED <<loop, directoryVars, params, queue, ready, stop, belief>>

ConsumeLoopEnds ==
  /\ at["msg"] = "idle" /\ stop
  /\ at' = [at EXCEPT !["msg"] = "stopped"]
  /\ UNCHANGED <<loop, directoryVars, params, todo, queue, ready, stop, belief>>

(* main stops the HTTP server and asks the message thread to end. *)
StopControl ==
  /\ ~stop
  /\ stop' = TRUE
  /\ UNCHANGED <<loop, directoryVars, params, at, todo, queue, ready, belief>>
-----------------------------------------------------------------------------
(* The loop thread between two callbacks: it is busy while it handles HTTP.  *)

(* PistacheServer::on_incoming; it may be in the iteration that is the last. *)
Incoming ==
  /\ at["http"] = "idle" /\ owned /\ ~stop
  /\ at' = [at EXCEPT !["http"] = "read"]
  /\ UNCHANGED <<loop, directoryVars, params, todo, queue, ready, stop, belief>>

(* read_http_request blocks the loop until the request is there, or broken.  *)
ReadRequest ==
  /\ at["http"] = "read"
  /\ \E r \in Requests : todo' = [todo EXCEPT !["http"] = r]
  /\ at' = [at EXCEPT !["http"] = "handle"]
  /\ UNCHANGED <<loop, directoryVars, params, queue, ready, stop, belief>>

(* An iteration dispatches the callbacks that were ready when it began. *)
Iterate ==
  /\ loop_running /\ at["http"] = "idle"
  /\ ready = 0 /\ queue # <<>>
  /\ ready' = Len(queue)
  /\ UNCHANGED <<loop, directoryVars, params, at, todo, queue, stop, belief>>

(* The callback runs; its promise reaches the caller only if that waits.     *)
Dispatch ==
  /\ owned /\ at["http"] = "idle" /\ ready > 0
  /\ Execute(Head(queue).call)
  /\ IF Head(queue).waited
     THEN Observe("msg", Head(queue).call) /\ After("msg", Failed(Head(queue).call))
     ELSE UNCHANGED <<belief, at, todo>>
  /\ queue' = Tail(queue) /\ ready' = ready - 1
  /\ UNCHANGED <<loop, stop>>

(* A removal of an active camera that never returns: set_state(READY) waits  *)
(* for the source's streaming thread, and that for mtx_ in a pad probe.      *)
Hangs(call) == call.op = "remove" /\ slotOf[call.key] # NoSlot /\ StreamsFree

RemovalHangs ==
  /\ \/ /\ \/ HasCall("http") /\ Hangs(Head(todo["http"]))
           \/ owned /\ at["http"] = "idle" /\ ready > 0 /\ Hangs(Head(queue).call)
        /\ stuck' = "loop"
     \/ /\ at["msg"] = "direct" \/ (at["msg"] = "invoke" /\ ~owned)
        /\ Hangs(Head(todo["msg"]))
        /\ stuck' = "msg"
  /\ UNCHANGED <<loop, directoryVars, params, at, todo, queue, ready, stop, belief>>

(* The loop's own life, as PipelineLifecycle has it. *)
LoopStarts == loop = "before" /\ loop' = "running"
LoopQuits == loop = "running" /\ loop' = "quit"
LoopExits == loop = "quit" /\ ready = 0 /\ at["http"] = "idle" /\ loop' = "gone"
LoopLife == /\ LoopStarts \/ LoopQuits \/ LoopExits
            /\ UNCHANGED <<directoryVars, params, at, todo, queue, ready, stop, belief>>
-----------------------------------------------------------------------------
(* A thread whose removal hangs takes no step any more. *)
MessageThread ==
  /\ \/ Forbidden("msg") \/ Answer("msg") \/ list_sources("msg") \/ Check \/ Direct
     \/ InvokeHere \/ InvokeQueued \/ TimesOut \/ ConsumeLoopEnds
  /\ stuck # "msg" /\ UNCHANGED stuck

LoopCallbacks ==
  /\ \/ Forbidden("http") \/ Answer("http") \/ list_sources("http") \/ CallHere
     \/ ReadRequest \/ Iterate \/ Dispatch
  /\ stuck # "loop" /\ UNCHANGED stuck

(* What others start: a message, a connection, the end of control, the life  *)
(* of the loop.                                                              *)
Arrivals ==
  /\ \/ TakeMessage /\ stuck # "msg"
     \/ Incoming /\ stuck # "loop"
     \/ StopControl
     \/ LoopLife
  /\ UNCHANGED stuck

Next == MessageThread \/ LoopCallbacks \/ RemovalHangs \/ Arrivals

Spec == Init /\ [][Next]_vars

(* The message thread runs, and its waits run out.  Nothing is asked of the  *)
(* loop, which a silent HTTP client may hold for ever.                       *)
FairSpec == Spec /\ WF_vars(MessageThread)
-----------------------------------------------------------------------------
(* Properties *)

Fact(k) == IF k \in Cameras
           THEN IF slotOf[k] # NoSlot THEN "in" ELSE "out"
           ELSE params[k]

(* As long as the main loop runs, what the message client was told last of a *)
(* camera or a property stays true until somebody asks for a change: no call *)
(* it gave up on takes effect behind an answer it got later.  Lists are left *)
(* out: they do not pass through the queue, so an add or a removal the       *)
(* client gave up on may still come after the list it asks for next.         *)
BeliefHolds ==
  loop_running => \A k \in Cameras \cup Props :
                    belief[k] # Unknown => belief[k] = Fact(k)

(* The message thread waits for mtx_, which a removal on the loop never      *)
(* gives back, or is itself that removal.                                    *)
BehindRemoval ==
  \/ stuck = "msg"
  \/ /\ stuck = "loop"
     /\ \/ at["msg"] = "handle" /\ todo["msg"] = ListSources
        \/ at["msg"] = "direct" /\ Head(todo["msg"]).op \in {"add", "remove"}

(* A command that was taken from the stream is handled to the end, however   *)
(* long the loop is held up and also when it quits under the call, unless it *)
(* comes to stand behind a removal that hangs.                               *)
MessageHandled == (at["msg"] = "handle") ~> (at["msg"] = "idle" \/ []BehindRemoval)
=============================================================================
