------------------------- MODULE SourceControlProofs -------------------------
(***************************************************************************)
(* What the message client was told stays true while the loop runs, for    *)
(* any cameras, properties, requests and number of abandoned callbacks.    *)
(* BeliefHolds alone is not inductive: that no abandoned callback changes  *)
(* what was learned later rests on the order of the main context's queue.  *)
(***************************************************************************)
EXTENDS SourceControl, TLAPS

Keys == Cameras \cup Props
Entries == [call : Calls, waited : BOOLEAN]

(* The parts of the type invariant the argument needs. *)
Typed ==
  /\ slotOf = [c \in Cameras |-> slotOf[c]]
  /\ params = [p \in Props |-> params[p]]
  /\ at = [f \in FrontEnds |-> at[f]]
  /\ todo \in [FrontEnds -> Seq(Calls)]
  /\ queue \in Seq(Entries)
  /\ ready \in Nat /\ ready <= Len(queue)
  /\ belief = [k \in Keys |-> belief[k]]

(* The message thread waits for the newest callback or for none: an answer   *)
(* means that all earlier callbacks have run.                                *)
WaitsForNewest ==
  \A n \in DOMAIN queue : queue[n].waited => at["msg"] = "wait" /\ n = Len(queue)

(* A call under way has not left todo. *)
CallUnderWay == at["msg"] \in {"direct", "invoke", "wait"} => todo["msg"] # <<>>

(* A call that was found to need no loop meets an empty queue if the loop    *)
(* starts after all.                                                         *)
DirectIsAlone ==
  /\ loop = "before" => queue = <<>> /\ at["msg"] \notin {"invoke", "wait"}
  /\ (loop = "running" /\ at["msg"] = "direct") => queue = <<>>

(* No callback that changes k is queued. *)
NotQueued(k) == \A n \in DOMAIN queue : Mutates(queue[n].call) => queue[n].call.key # k

(* What is believed is so, and nothing queued will change it. *)
Settled ==
  loop \in {"before", "running"}
    => \A k \in Keys : belief[k] # Unknown => belief[k] = Fact(k) /\ NotQueued(k)

(* A change that is about to be queued has cleared the belief. *)
Cleared ==
  (at["msg"] = "invoke" /\ Mutates(Head(todo["msg"])))
    => belief[Head(todo["msg"]).key] = Unknown

ControlInv == /\ Typed /\ WaitsForNewest /\ CallUnderWay /\ DirectIsAlone
              /\ Settled /\ Cleared

-----------------------------------------------------------------------------
(* The operators *)

(* A call has an operation, and a key of the kind the operation is for. *)
LEMMA CallKeys ==
  ASSUME NEW call \in Calls
  PROVE  /\ call.op \in {"add", "remove", "set", "get", "list"}
         /\ call.op \in {"add", "remove"} => call.key \in Cameras
         /\ call.op \in {"set", "get"} => call.key \in Props
         /\ call.op # "list" => call.key \in Keys
         /\ Execute(call) => call.op # "list"
  BY DEF Calls, Keys, Execute

(* A request is a list of calls; set_properties makes two for each item. *)
LEMMA RequestsAreCalls == Requests \subseteq Seq(Calls)
<1>1. ASSUME NEW op \in {"add", "remove"}, NEW c \in Cameras
      PROVE  Source(op, c) \in Seq(Calls)
  <2>1. [op |-> op, key |-> c, val |-> Unknown] \in Calls
    BY DEF Calls
  <2>2. QED
    BY <2>1 DEF Source
<1>2. ASSUME NEW p \in Props PROVE GetProperty(p) \in Seq(Calls)
  <2>1. [op |-> "get", key |-> p, val |-> Unknown] \in Calls
    BY DEF Calls
  <2>2. QED
    BY <2>1 DEF GetProperty
<1>3. ASSUME NEW items \in ItemLists PROVE SetProperties(items) \in Seq(Calls)
  <2>1. items \in Seq(Props \X Values)
    BY ControlAssumption
  <2>2. Len(items) \in Nat /\ 2 * Len(items) \in Nat
    BY <2>1
  <2> DEFINE item(n) == items[(n + 1) \div 2]
             call(n) == IF n % 2 = 1
                        THEN [op |-> "set", key |-> item(n)[1], val |-> item(n)[2]]
                        ELSE [op |-> "get", key |-> item(n)[1], val |-> Unknown]
  <2>3. ASSUME NEW n \in 1 .. 2 * Len(items) PROVE call(n) \in Calls
    <3>1. (n + 1) \div 2 \in 1 .. Len(items)
      BY <2>2
    <3>2. item(n) \in Props \X Values
      BY <2>1, <3>1
    <3>3. item(n)[1] \in Props /\ item(n)[2] \in Values
      BY <3>2
    <3> HIDE DEF item
    <3>4. QED
      BY <3>3 DEF Calls
  <2>4. SetProperties(items) = [n \in 1 .. 2 * Len(items) |-> call(n)]
    BY DEF SetProperties
  <2> HIDE DEF call
  <2>5. QED
    BY <2>2, <2>3, <2>4
<1>4. <<>> \in Seq(Calls)
  OBVIOUS
<1>4a. ListSources \in Seq(Calls)
  <2>1. [op |-> "list", key |-> Unknown, val |-> Unknown] \in Calls
    BY DEF Calls
  <2>2. QED
    BY <2>1 DEF ListSources
<1>5. SUFFICES ASSUME NEW r \in Requests PROVE r \in Seq(Calls)
  OBVIOUS
<1>6. CASE r \in {Source(op, c) : op \in {"add", "remove"}, c \in Cameras}
  BY <1>1, <1>6
<1>7. CASE r \in {GetProperty(p) : p \in Props}
  BY <1>2, <1>7
<1>8. CASE r \in {SetProperties(items) : items \in ItemLists}
  BY <1>3, <1>8
<1>9. CASE r \in {ListSources, <<>>}
  BY <1>4, <1>4a, <1>9
<1>10. QED
  BY <1>6, <1>7, <1>8, <1>9 DEF Requests

(* A callback changes at most the key it names, and its answer, where it     *)
(* says anything, says what the key now is.                                  *)
LEMMA ExecuteTells ==
  ASSUME Typed, NEW call \in Calls, Execute(call)
  PROVE  /\ slotOf' = [c \in Cameras |-> slotOf'[c]]
         /\ params' = [p \in Props |-> params'[p]]
         /\ \A k \in Keys : (k # call.key \/ ~Mutates(call)) => Fact(k)' = Fact(k)
         /\ Learns(call, reply'.status) # Unknown
              => Learns(call, reply'.status) = Fact(call.key)'
<1>1. /\ slotOf = [c \in Cameras |-> slotOf[c]]
      /\ params = [p \in Props |-> params[p]]
  BY DEF Typed
<1>2. /\ Unknown \notin {"in", "out"} /\ Cameras \cap Props = {}
      /\ NoSlot \notin 0 .. (MaxSources - 1)
  BY ControlAssumption
<1>3. CASE call.op = "add"
  <2>1. call.key \in Cameras /\ invoke_add_source(call.key)
    BY <1>3, CallKeys DEF Execute
  <2>2. params' = params
    BY <2>1 DEF invoke_add_source
  <2>3. /\ slotOf' = [c \in Cameras |-> slotOf'[c]]
        /\ \A c \in Cameras \ {call.key} : slotOf'[c] = slotOf[c]
        /\ reply'.status \in {201, 409} => slotOf'[call.key] # NoSlot
        /\ reply'.status \in {500, 507} => slotOf'[call.key] = NoSlot
        /\ reply'.status \in {201, 409, 500, 507, 400}
    BY <1>1, <1>2, <2>1
    DEF invoke_add_source, Directory!Added, Directory!Duplicate, Directory!Full,
        Directory!Failed, Directory!Invalid, Directory!Active, Directory!Answer,
        Directory!Slots
  <2>4. Mutates(call)
    BY <1>3 DEF Mutates
  <2>5. Learns(call, reply'.status) # Unknown
          => Learns(call, reply'.status) = Fact(call.key)'
    BY <1>3, <2>1, <2>3 DEF Learns, Fact
  <2>6. QED
    BY <1>1, <1>2, <2>1, <2>2, <2>3, <2>4, <2>5 DEF Fact, Keys
<1>4. CASE call.op = "remove"
  <2>1. call.key \in Cameras /\ invoke_remove_source(call.key)
    BY <1>4, CallKeys DEF Execute
  <2>2. params' = params
    BY <2>1 DEF invoke_remove_source
  <2>3. /\ slotOf' = [c \in Cameras |-> slotOf'[c]]
        /\ \A c \in Cameras \ {call.key} : slotOf'[c] = slotOf[c]
        /\ slotOf'[call.key] = NoSlot
    BY <1>1, <1>2, <2>1
    DEF invoke_remove_source, Directory!Removed, Directory!Missing, Directory!Active
  <2>4. Mutates(call)
    BY <1>4 DEF Mutates
  <2>5. Learns(call, reply'.status) # Unknown
          => Learns(call, reply'.status) = Fact(call.key)'
    BY <1>4, <2>1, <2>3 DEF Learns, Fact
  <2>6. QED
    BY <1>1, <1>2, <2>1, <2>2, <2>3, <2>4, <2>5 DEF Fact, Keys
<1>5. CASE call.op = "set"
  <2>1. call.key \in Props /\ invoke_set_param(call.key, call.val)
    BY <1>5, CallKeys DEF Execute
  <2>2. slotOf' = slotOf
    BY <2>1 DEF invoke_set_param, directoryVars
  <2>3. /\ params' = [p \in Props |-> params'[p]]
        /\ \A p \in Props \ {call.key} : params'[p] = params[p]
        /\ call.val \in Readable => params'[call.key] = Conversion[call.val]
    BY <1>1, <2>1 DEF invoke_set_param, set_property_from_string
  <2>4. Mutates(call)
    BY <1>5 DEF Mutates
  <2>5. Learns(call, reply'.status) # Unknown
          => Learns(call, reply'.status) = Fact(call.key)'
    BY <1>2, <1>5, <2>1, <2>3 DEF Learns, Fact
  <2>6. QED
    BY <1>1, <1>2, <2>1, <2>2, <2>3, <2>4, <2>5 DEF Fact, Keys
<1>6. CASE call.op = "get"
  <2>1. call.key \in Props /\ invoke_get_param
    BY <1>6, CallKeys DEF Execute
  <2>2. slotOf' = slotOf /\ params' = params
    BY <2>1 DEF invoke_get_param, directoryVars
  <2>3. Learns(call, reply'.status) = Fact(call.key)'
    BY <1>2, <1>6, <2>1, <2>2 DEF Learns, Fact, get_property_as_string
  <2>4. QED
    BY <1>1, <2>2, <2>3 DEF Fact
<1>7. QED
  BY <1>3, <1>4, <1>5, <1>6, CallKeys

(* The answer ends the call, or the request; the rest of it is a request.    *)
LEMMA AfterKeeps ==
  ASSUME Typed, NEW f \in FrontEnds, NEW failed, todo[f] # <<>>, After(f, failed)
  PROVE  /\ at' = [g \in FrontEnds |-> at'[g]]
         /\ todo' \in [FrontEnds -> Seq(Calls)]
         /\ at'[f] = "handle"
         /\ \A g \in FrontEnds \ {f} : at'[g] = at[g] /\ todo'[g] = todo[g]
<1>1. todo \in [FrontEnds -> Seq(Calls)] /\ at = [g \in FrontEnds |-> at[g]]
  BY DEF Typed
<1>2. Tail(todo[f]) \in Seq(Calls) /\ <<>> \in Seq(Calls)
  BY <1>1
<1>3. /\ todo' = [todo EXCEPT ![f] = <<>>] \/ todo' = [todo EXCEPT ![f] = Tail(todo[f])]
      /\ at' = [at EXCEPT ![f] = "handle"]
  BY DEF After
<1>4. QED
  BY <1>1, <1>2, <1>3

(* The client has an answer for one key, or the HTTP client has changed it.  *)
LEMMA ObserveSettles ==
  ASSUME Typed, NEW f \in FrontEnds, NEW call \in Calls, Execute(call), Observe(f, call)
  PROVE  /\ belief' = [k \in Keys |-> belief'[k]]
         /\ \A k \in Keys : belief'[k] # Unknown
              => \/ belief'[k] = Fact(k)' /\ k = call.key /\ f = "msg"
                 \/ /\ belief'[k] = belief[k] /\ Fact(k)' = Fact(k)
                    /\ k # call.key \/ ~Mutates(call)
         /\ \A k \in Keys : f = "http" => belief'[k] \in {belief[k], Unknown}
<1>1. belief = [k \in Keys |-> belief[k]] /\ call.key \in Keys
  BY CallKeys DEF Typed
<1> DEFINE learned == Learns(call, reply'.status)
<1>2. /\ \A k \in Keys : (k # call.key \/ ~Mutates(call)) => Fact(k)' = Fact(k)
      /\ learned # Unknown => learned = Fact(call.key)'
  BY ExecuteTells
<1>3. belief' = [belief EXCEPT ![call.key] =
                   IF f = "msg" THEN learned
                   ELSE IF Mutates(call) THEN Unknown ELSE belief[call.key]]
  BY DEF Observe
<1> HIDE DEF learned
<1>4. /\ belief' = [k \in Keys |-> belief'[k]]
      /\ \A k \in Keys \ {call.key} : belief'[k] = belief[k]
      /\ belief'[call.key] = IF f = "msg" THEN learned
                             ELSE IF Mutates(call) THEN Unknown ELSE belief[call.key]
  BY <1>1, <1>3
<1>5. \A k \in Keys : belief'[k] # Unknown
              => \/ belief'[k] = Fact(k)' /\ k = call.key /\ f = "msg"
                 \/ /\ belief'[k] = belief[k] /\ Fact(k)' = Fact(k)
                    /\ k # call.key \/ ~Mutates(call)
  BY <1>2, <1>4
<1>6. \A k \in Keys : f = "http" => belief'[k] \in {belief[k], Unknown}
  BY <1>4
<1>7. QED
  BY <1>4, <1>5, <1>6
-----------------------------------------------------------------------------
(* The steps *)

(* The calls a thread makes itself: HTTP on the loop, and messages when the  *)
(* loop does not run or has only just begun to.                              *)
LEMMA PerformKeeps ==
  ASSUME ControlInv, NEW f \in FrontEnds, Perform(f), todo[f] # <<>>,
         f = "msg" => \/ at["msg"] = "direct"
                      \/ at["msg"] = "invoke" /\ loop # "running"
  PROVE  ControlInv'
<1> DEFINE call == Head(todo[f])
<1>1. /\ Typed /\ WaitsForNewest /\ CallUnderWay /\ DirectIsAlone /\ Settled /\ Cleared
  BY DEF ControlInv
<1>2. call \in Calls
  BY <1>1 DEF Typed
<1>3. /\ Execute(call) /\ Observe(f, call) /\ After(f, Failed(call))
      /\ loop' = loop /\ queue' = queue /\ ready' = ready
  BY DEF Perform
<1> HIDE DEF call
<1>4. /\ slotOf' = [c \in Cameras |-> slotOf'[c]]
      /\ params' = [p \in Props |-> params'[p]]
  BY <1>1, <1>2, <1>3, ExecuteTells
<1>5. /\ belief' = [k \in Keys |-> belief'[k]]
      /\ \A k \in Keys : belief'[k] # Unknown
           => \/ belief'[k] = Fact(k)' /\ k = call.key /\ f = "msg"
              \/ /\ belief'[k] = belief[k] /\ Fact(k)' = Fact(k)
                 /\ k # call.key \/ ~Mutates(call)
      /\ \A k \in Keys : f = "http" => belief'[k] \in {belief[k], Unknown}
  BY <1>1, <1>2, <1>3, ObserveSettles
<1>6. /\ at' = [g \in FrontEnds |-> at'[g]]
      /\ todo' \in [FrontEnds -> Seq(Calls)]
      /\ at'[f] = "handle"
      /\ \A g \in FrontEnds \ {f} : at'[g] = at[g] /\ todo'[g] = todo[g]
  BY <1>1, <1>3, AfterKeeps
<1>7. /\ "msg" \in FrontEnds
      /\ f = "msg" \/ (f = "http" /\ at'["msg"] = at["msg"] /\ todo'["msg"] = todo["msg"])
  BY <1>6 DEF FrontEnds
<1>8. Typed'
  BY <1>1, <1>3, <1>4, <1>5, <1>6 DEF Typed
<1>9. WaitsForNewest'
  BY <1>1, <1>3, <1>6, <1>7 DEF WaitsForNewest
<1>10. CallUnderWay' /\ DirectIsAlone'
  BY <1>1, <1>3, <1>6, <1>7 DEF CallUnderWay, DirectIsAlone
<1>11. Settled'
  <2>1. SUFFICES ASSUME loop \in {"before", "running"}, NEW k \in Keys, belief'[k] # Unknown
                 PROVE  belief'[k] = Fact(k)' /\ NotQueued(k)
    BY <1>3 DEF Settled, NotQueued
  <2>2. CASE belief'[k] = Fact(k)' /\ f = "msg"
    <3>1. queue = <<>>
      BY <1>1, <2>1, <2>2 DEF DirectIsAlone
    <3>2. QED
      BY <2>2, <3>1 DEF NotQueued
  <2>3. CASE belief'[k] = belief[k] /\ Fact(k)' = Fact(k)
    BY <1>1, <2>1, <2>3 DEF Settled
  <2>4. QED
    BY <1>5, <2>1, <2>2, <2>3
<1>12. Cleared'
  <2>1. CASE f = "msg"
    BY <1>6, <2>1 DEF Cleared
  <2>2. CASE f = "http"
    <3>1. SUFFICES ASSUME at["msg"] = "invoke", Mutates(Head(todo["msg"]))
                   PROVE  belief'[Head(todo["msg"]).key] = Unknown
      BY <1>7, <2>2 DEF Cleared, Mutates
    <3>2. Head(todo["msg"]) \in Calls
      BY <1>1, <1>7, <3>1 DEF CallUnderWay, Typed
    <3>3. Head(todo["msg"]).key \in Keys
      BY <3>1, <3>2, CallKeys DEF Mutates
    <3>4. belief[Head(todo["msg"]).key] = Unknown
      BY <1>1, <3>1 DEF Cleared
    <3>5. QED
      BY <1>5, <2>2, <3>3, <3>4
  <2>3. QED
    BY <1>7, <2>1, <2>2
<1>13. QED
  BY <1>8, <1>9, <1>10, <1>11, <1>12 DEF ControlInv

(* The loop runs a callback.  One that is waited for is the last in the      *)
(* queue; one that is not names a key of which nothing is believed.          *)
LEMMA DispatchKeeps ==
  ASSUME ControlInv, Dispatch
  PROVE  ControlInv'
<1> DEFINE call == Head(queue).call
<1>1. /\ Typed /\ WaitsForNewest /\ CallUnderWay /\ DirectIsAlone /\ Settled /\ Cleared
  BY DEF ControlInv
<1>2. /\ queue \in Seq(Entries) /\ Len(queue) \in Nat /\ Len(queue) > 0
      /\ Head(queue) = queue[1] /\ 1 \in DOMAIN queue /\ queue[1] \in Entries
      /\ Tail(queue) \in Seq(Entries) /\ Len(Tail(queue)) = Len(queue) - 1
      /\ ready - 1 \in Nat /\ ready - 1 <= Len(queue) - 1
  BY <1>1 DEF Typed, Dispatch
<1>3. call \in Calls
  <2>1. \A e \in Entries : e.call \in Calls
    BY DEF Entries
  <2>2. QED
    BY <1>2, <2>1
<1>4. /\ Execute(call) /\ loop' = loop /\ queue' = Tail(queue) /\ ready' = ready - 1
      /\ IF Head(queue).waited
         THEN Observe("msg", call) /\ After("msg", Failed(call))
         ELSE UNCHANGED <<belief, at, todo>>
  BY DEF Dispatch
<1>5. /\ slotOf' = [c \in Cameras |-> slotOf'[c]]
      /\ params' = [p \in Props |-> params'[p]]
      /\ \A k \in Keys : (k # call.key \/ ~Mutates(call)) => Fact(k)' = Fact(k)
  <2> HIDE DEF call
  <2>1. QED
    BY <1>1, <1>3, <1>4, ExecuteTells
<1>6. \A n \in DOMAIN Tail(queue) : /\ n + 1 \in DOMAIN queue
                                    /\ Tail(queue)[n] = queue[n + 1]
                                    /\ Len(Tail(queue)) = Len(queue) - 1
                                    /\ n \in Nat
  BY <1>2
<1>7. "msg" \in FrontEnds
  BY DEF FrontEnds
<1>8. CASE Head(queue).waited
  <2>1. Len(queue) = 1 /\ at["msg"] = "wait"
    BY <1>1, <1>2, <1>8 DEF WaitsForNewest
  <2>2. queue' = <<>>
    BY <1>2, <1>4, <2>1
  <2>3. todo["msg"] # <<>>
    BY <1>1, <2>1 DEF CallUnderWay
  <2> HIDE DEF call
  <2>4. /\ at' = [g \in FrontEnds |-> at'[g]]
        /\ todo' \in [FrontEnds -> Seq(Calls)]
        /\ at'["msg"] = "handle"
    BY <1>1, <1>4, <1>7, <1>8, <2>3, AfterKeeps
  <2>5. /\ belief' = [k \in Keys |-> belief'[k]]
        /\ \A k \in Keys : belief'[k] # Unknown
             => \/ belief'[k] = Fact(k)' /\ k = call.key /\ "msg" = "msg"
                \/ /\ belief'[k] = belief[k] /\ Fact(k)' = Fact(k)
                   /\ k # call.key \/ ~Mutates(call)
    BY <1>1, <1>3, <1>4, <1>7, <1>8, ObserveSettles
  <2>6. Typed'
    BY <1>2, <1>4, <1>5, <2>4, <2>5 DEF Typed
  <2>7. Settled'
    <3>1. SUFFICES ASSUME loop \in {"before", "running"}, NEW k \in Keys, belief'[k] # Unknown
                   PROVE  belief'[k] = Fact(k)' /\ NotQueued(k)'
      BY <1>4 DEF Settled
    <3>2. NotQueued(k)'
      BY <2>2 DEF NotQueued
    <3>3. belief'[k] = Fact(k)'
      BY <1>1, <2>5, <3>1 DEF Settled
    <3>4. QED
      BY <3>2, <3>3
  <2>8. WaitsForNewest' /\ CallUnderWay' /\ DirectIsAlone' /\ Cleared'
    BY <2>2, <2>4 DEF WaitsForNewest, CallUnderWay, DirectIsAlone, Cleared
  <2>9. QED
    BY <2>6, <2>7, <2>8 DEF ControlInv
<1>9. CASE ~Head(queue).waited
  <2>1. belief' = belief /\ at' = at /\ todo' = todo
    BY <1>4, <1>9
  <2>2. Typed'
    BY <1>1, <1>2, <1>4, <1>5, <2>1 DEF Typed
  <2>3. WaitsForNewest'
    BY <1>1, <1>2, <1>4, <1>6, <2>1 DEF WaitsForNewest
  <2>4. CallUnderWay' /\ DirectIsAlone' /\ Cleared'
    BY <1>1, <1>2, <1>4, <2>1 DEF CallUnderWay, DirectIsAlone, Cleared, Mutates
  <2>5. Settled'
    <3>1. SUFFICES ASSUME loop \in {"before", "running"}, NEW k \in Keys, belief[k] # Unknown
                   PROVE  belief[k] = Fact(k)' /\ NotQueued(k)'
      BY <1>4, <2>1 DEF Settled
    <3>2. belief[k] = Fact(k) /\ NotQueued(k)
      BY <1>1, <3>1 DEF Settled
    <3>3. Mutates(call) => call.key # k
      BY <1>2, <3>2 DEF NotQueued
    <3>4. Fact(k)' = Fact(k)
      BY <1>5, <3>3
    <3>5. NotQueued(k)'
      BY <1>4, <1>6, <3>2 DEF NotQueued, Mutates
    <3>6. QED
      BY <3>2, <3>4, <3>5
  <2>6. QED
    BY <2>2, <2>3, <2>4, <2>5 DEF ControlInv
<1>10. QED
  BY <1>8, <1>9

(* A callback joins the queue behind all others, its caller waits, and what  *)
(* it will change is no longer believed.                                     *)
LEMMA InvokeKeeps ==
  ASSUME ControlInv, InvokeQueued
  PROVE  ControlInv'
<1> DEFINE call == Head(todo["msg"])
           entry == [call |-> call, waited |-> TRUE]
<1>1. /\ Typed /\ WaitsForNewest /\ CallUnderWay /\ DirectIsAlone /\ Settled /\ Cleared
  BY DEF ControlInv
<1>2. /\ at["msg"] = "invoke" /\ owned /\ queue' = Append(queue, entry)
      /\ at' = [at EXCEPT !["msg"] = "wait"]
      /\ UNCHANGED <<loop, slotOf, params, todo, ready, belief>>
  BY DEF InvokeQueued, directoryVars
<1>3. "msg" \in FrontEnds
  BY DEF FrontEnds
<1>4. call \in Calls /\ entry \in Entries
  BY <1>1, <1>2, <1>3 DEF CallUnderWay, Typed, Entries
<1>5. Mutates(call) => belief[call.key] = Unknown
  BY <1>1, <1>2 DEF Cleared
<1>6. entry.call = call
  OBVIOUS
<1> HIDE DEF call, entry
<1>7. /\ queue' \in Seq(Entries) /\ Len(queue') = Len(queue) + 1 /\ Len(queue) \in Nat
      /\ queue'[Len(queue')] = entry
      /\ \A n \in DOMAIN queue' : n # Len(queue') => n \in DOMAIN queue /\ queue'[n] = queue[n]
      /\ Len(queue') \in DOMAIN queue'
  <2>1. queue \in Seq(Entries) /\ entry \in Entries /\ queue' = Append(queue, entry)
    BY <1>1, <1>2, <1>4 DEF Typed
  <2>2. Len(queue) \in Nat /\ DOMAIN queue = 1 .. Len(queue)
    BY <2>1
  <2>3. /\ queue' \in Seq(Entries) /\ Len(queue') = Len(queue) + 1
        /\ DOMAIN queue' = 1 .. Len(queue) + 1
    BY <2>1, <2>2
  <2>4. queue'[Len(queue) + 1] = entry
    BY <2>1, <2>2
  <2>5. \A n \in 1 .. Len(queue) : queue'[n] = queue[n]
    BY <2>1, <2>2
  <2>6. QED
    BY <2>2, <2>3, <2>4, <2>5
<1>8. at'["msg"] = "wait" /\ at' = [f \in FrontEnds |-> at'[f]]
  BY <1>1, <1>2, <1>3 DEF Typed
<1>9. Typed'
  BY <1>1, <1>2, <1>7, <1>8 DEF Typed
<1>10. WaitsForNewest'
  BY <1>1, <1>2, <1>7, <1>8 DEF WaitsForNewest
<1>11. CallUnderWay' /\ DirectIsAlone' /\ Cleared'
  BY <1>1, <1>2, <1>8 DEF CallUnderWay, DirectIsAlone, Cleared, owned
<1>12. Settled'
  <2>1. SUFFICES ASSUME loop \in {"before", "running"}, NEW k \in Keys, belief[k] # Unknown
                 PROVE  belief[k] = Fact(k)' /\ NotQueued(k)'
    BY <1>2 DEF Settled
  <2>2. belief[k] = Fact(k) /\ NotQueued(k)
    BY <1>1, <2>1 DEF Settled
  <2>3. Fact(k)' = Fact(k)
    BY <1>2 DEF Fact
  <2>4. Mutates(call) => call.key # k
    BY <1>5, <2>1
  <2>5. NotQueued(k)'
    BY <1>6, <1>7, <2>2, <2>4 DEF NotQueued, Mutates
  <2>6. QED
    BY <2>2, <2>3, <2>5
<1>13. QED
  BY <1>9, <1>10, <1>11, <1>12 DEF ControlInv

(* The caller gives up: its callback stays where it is, and is not waited    *)
(* for any more.                                                             *)
LEMMA TimesOutKeeps ==
  ASSUME ControlInv, TimesOut
  PROVE  ControlInv'
<1>1. /\ Typed /\ WaitsForNewest /\ CallUnderWay /\ DirectIsAlone /\ Settled /\ Cleared
  BY DEF ControlInv
<1>2. /\ at["msg"] = "wait" /\ After("msg", TRUE)
      /\ queue' = [n \in DOMAIN queue |-> [call |-> queue[n].call, waited |-> FALSE]]
      /\ UNCHANGED <<loop, slotOf, params, ready, belief>>
  BY DEF TimesOut, directoryVars
<1>3. /\ at' = [g \in FrontEnds |-> at'[g]]
      /\ todo' \in [FrontEnds -> Seq(Calls)]
      /\ at'["msg"] = "handle"
  BY <1>1, <1>2, AfterKeeps DEF CallUnderWay, FrontEnds
<1>4. /\ queue' \in Seq(Entries)
      /\ DOMAIN queue' = DOMAIN queue /\ Len(queue') = Len(queue)
      /\ \A n \in DOMAIN queue : queue'[n].call = queue[n].call /\ ~queue'[n].waited
  <2>1. \A n \in DOMAIN queue : [call |-> queue[n].call, waited |-> FALSE] \in Entries
    <3>1. \A e \in Entries : [call |-> e.call, waited |-> FALSE] \in Entries
      BY DEF Entries
    <3>2. \A n \in DOMAIN queue : queue[n] \in Entries
      BY <1>1 DEF Typed
    <3>3. QED
      BY <3>1, <3>2
  <2>2. Len(queue) \in Nat /\ DOMAIN queue = 1 .. Len(queue)
    BY <1>1 DEF Typed
  <2>3. QED
    BY <1>2, <2>1, <2>2
<1>5. Typed'
  BY <1>1, <1>2, <1>3, <1>4 DEF Typed
<1>6. WaitsForNewest'
  BY <1>4 DEF WaitsForNewest
<1>7. CallUnderWay' /\ DirectIsAlone' /\ Cleared'
  BY <1>1, <1>2, <1>3, <1>4 DEF CallUnderWay, DirectIsAlone, Cleared
<1>8. Settled'
  <2>1. \A k : NotQueued(k) => NotQueued(k)'
    BY <1>4 DEF NotQueued, Mutates
  <2>2. \A k : Fact(k)' = Fact(k)
    BY <1>2 DEF Fact
  <2>3. QED
    BY <1>1, <1>2, <2>1, <2>2 DEF Settled
<1>9. QED
  BY <1>5, <1>6, <1>7, <1>8 DEF ControlInv

(* The call is looked at: a change makes the client forget what it knew.     *)
LEMMA CheckKeeps ==
  ASSUME ControlInv, Check
  PROVE  ControlInv'
<1> DEFINE call == Head(todo["msg"])
           next == IF loop_running THEN "invoke" ELSE "direct"
           seen == IF Mutates(call) THEN Unknown ELSE belief[call.key]
<1>1. /\ Typed /\ WaitsForNewest /\ CallUnderWay /\ DirectIsAlone /\ Settled /\ Cleared
  BY DEF ControlInv
<1>2. /\ at["msg"] = "handle" /\ todo["msg"] # <<>> /\ call.op # "list"
      /\ at' = [at EXCEPT !["msg"] = next]
      /\ belief' = [belief EXCEPT ![call.key] = seen]
      /\ UNCHANGED <<loop, slotOf, params, todo, queue, ready>>
  BY DEF Check, HasCall, directoryVars
<1>3. "msg" \in FrontEnds
  BY DEF FrontEnds
<1>4. call \in Calls
  BY <1>1, <1>2, <1>3 DEF Typed
<1>5. call.key \in Keys
  <2> HIDE DEF call
  <2>1. QED
    BY <1>2, <1>4, CallKeys
<1>6. /\ at'["msg"] = next /\ at' = [f \in FrontEnds |-> at'[f]]
      /\ belief' = [k \in Keys |-> belief'[k]]
      /\ \A k \in Keys : belief'[k] \in {belief[k], Unknown}
      /\ Mutates(call) => belief'[call.key] = Unknown
  <2> HIDE DEF call, next
  <2>1. QED
    BY <1>1, <1>2, <1>3, <1>5 DEF Typed
<1>7. next \in {"invoke", "direct"} /\ (next = "invoke" <=> loop = "running")
  BY DEF loop_running
<1>8. Typed'
  <2> HIDE DEF next
  <2>1. QED
    BY <1>1, <1>2, <1>6 DEF Typed
<1>9. \A n \in DOMAIN queue : ~queue[n].waited
  BY <1>1, <1>2 DEF WaitsForNewest
<1>10. WaitsForNewest' /\ CallUnderWay'
  <2> HIDE DEF next
  <2>1. QED
    BY <1>2, <1>9 DEF WaitsForNewest, CallUnderWay
<1>11. DirectIsAlone'
  <2> HIDE DEF next
  <2>1. QED
    BY <1>1, <1>2, <1>6, <1>7 DEF DirectIsAlone
<1>12. Cleared'
  <2> HIDE DEF next
  <2>1. QED
    BY <1>2, <1>6 DEF Cleared, Mutates
<1>13. Settled'
  <2>1. \A k : NotQueued(k)' = NotQueued(k) /\ Fact(k)' = Fact(k)
    BY <1>2 DEF NotQueued, Fact, Mutates
  <2> HIDE DEF next, seen
  <2>2. QED
    BY <1>1, <1>2, <1>6, <2>1 DEF Settled
<1>14. QED
  BY <1>8, <1>10, <1>11, <1>12, <1>13 DEF ControlInv

(* Steps that start, refuse or answer a request of f, and leave queue, state *)
(* and belief alone.                                                         *)
LEMMA FrontEndKeeps ==
  ASSUME ControlInv, NEW f \in FrontEnds, NEW place, NEW rest \in Seq(Calls),
         at' = [at EXCEPT ![f] = place], todo' = [todo EXCEPT ![f] = rest],
         f = "msg" => /\ at["msg"] \in {"idle", "handle"}
                      /\ place \in {"idle", "handle", "stopped"},
         UNCHANGED <<loop, slotOf, params, queue, ready, belief>>
  PROVE  ControlInv'
<1>1. /\ Typed /\ WaitsForNewest /\ CallUnderWay /\ DirectIsAlone /\ Settled /\ Cleared
  BY DEF ControlInv
<1>2. "msg" \in FrontEnds
  BY DEF FrontEnds
<1>3. Typed'
  BY <1>1 DEF Typed
<1>4. \/ f = "msg" /\ at'["msg"] = place
      \/ f # "msg" /\ at'["msg"] = at["msg"] /\ todo'["msg"] = todo["msg"]
  BY <1>1, <1>2 DEF Typed
<1>5. WaitsForNewest'
  BY <1>1, <1>4 DEF WaitsForNewest
<1>6. CallUnderWay' /\ DirectIsAlone'
  BY <1>1, <1>4 DEF CallUnderWay, DirectIsAlone
<1>7. Cleared'
  BY <1>1, <1>4 DEF Cleared, Mutates
<1>8. Settled'
  <2>1. \A k : NotQueued(k)' = NotQueued(k) /\ Fact(k)' = Fact(k)
    BY DEF NotQueued, Fact, Mutates
  <2>2. QED
    BY <1>1, <2>1 DEF Settled
<1>9. QED
  BY <1>3, <1>5, <1>6, <1>7, <1>8 DEF ControlInv

(* Steps of the loop and of main, which touch no request. *)
LEMMA LoopKeeps ==
  ASSUME ControlInv, UNCHANGED <<slotOf, params, at, todo, queue, belief>>,
         ready' \in {ready, Len(queue)},
         \/ loop' = loop \/ loop = "before" \/ loop' \in {"quit", "gone"},
         loop' = "before" => loop = "before"
  PROVE  ControlInv'
<1>1. /\ Typed /\ WaitsForNewest /\ CallUnderWay /\ DirectIsAlone /\ Settled /\ Cleared
  BY DEF ControlInv
<1>2. Typed'
  BY <1>1 DEF Typed
<1>3. WaitsForNewest' /\ CallUnderWay' /\ Cleared'
  BY <1>1 DEF WaitsForNewest, CallUnderWay, Cleared, Mutates
<1>4. DirectIsAlone'
  BY <1>1 DEF DirectIsAlone
<1>5. Settled'
  <2>1. \A k : NotQueued(k)' = NotQueued(k) /\ Fact(k)' = Fact(k)
    BY DEF NotQueued, Fact, Mutates
  <2>2. QED
    BY <1>1, <2>1 DEF Settled
<1>6. QED
  BY <1>2, <1>3, <1>4, <1>5 DEF ControlInv

(* Init establishes the invariant. *)
LEMMA ControlBegins == Init => ControlInv
<1>1. SUFFICES ASSUME Init PROVE ControlInv
  OBVIOUS
<1>2. Typed
  BY <1>1 DEF Init, Typed, Directory!Init, Keys
<1>3. queue = <<>> /\ at["msg"] = "idle" /\ \A k \in Keys : belief[k] = Unknown
  BY <1>1 DEF Init, FrontEnds, Keys
<1>4. QED
  BY <1>2, <1>3 DEF ControlInv, WaitsForNewest, CallUnderWay, DirectIsAlone, Settled, Cleared

(* Every step keeps the invariant. *)
LEMMA ControlGoesOn == ControlInv /\ [Next]_vars => ControlInv'
<1>1. SUFFICES ASSUME ControlInv, [Next]_vars PROVE ControlInv'
  OBVIOUS
<1>2. /\ todo \in [FrontEnds -> Seq(Calls)] /\ at = [f \in FrontEnds |-> at[f]]
      /\ "msg" \in FrontEnds /\ "http" \in FrontEnds
      /\ \A f \in FrontEnds : todo = [todo EXCEPT ![f] = todo[f]] /\ todo[f] \in Seq(Calls)
      /\ \A f \in FrontEnds : at = [at EXCEPT ![f] = at[f]]
  BY <1>1 DEF ControlInv, Typed, FrontEnds
<1>3. ASSUME NEW f \in FrontEnds, Forbidden(f) PROVE ControlInv'
  <2>1. /\ at' = [at EXCEPT ![f] = "handle"] /\ todo' = [todo EXCEPT ![f] = <<>>]
        /\ at[f] = "handle" /\ UNCHANGED <<loop, slotOf, params, queue, ready, belief>>
    BY <1>2, <1>3 DEF Forbidden, directoryVars
  <2>2. <<>> \in Seq(Calls)
    OBVIOUS
  <2>3. QED
    BY <1>1, <2>1, <2>2, FrontEndKeeps
<1>4. ASSUME NEW f \in FrontEnds, Answer(f) PROVE ControlInv'
  <2>1. /\ at' = [at EXCEPT ![f] = "idle"] /\ todo' = [todo EXCEPT ![f] = todo[f]]
        /\ at[f] = "handle" /\ UNCHANGED <<loop, slotOf, params, queue, ready, belief>>
    BY <1>2, <1>4 DEF Answer
  <2>2. QED
    BY <1>1, <1>2, <2>1, FrontEndKeeps
<1>5. ASSUME CallHere PROVE ControlInv'
  BY <1>1, <1>2, <1>5, PerformKeeps DEF CallHere, HasCall
<1>6. ASSUME Direct \/ InvokeHere PROVE ControlInv'
  <2>1. /\ Perform("msg")
        /\ at["msg"] = "direct" \/ (at["msg"] = "invoke" /\ loop # "running")
    BY <1>6 DEF Direct, InvokeHere, owned
  <2>2. todo["msg"] # <<>>
    BY <1>1, <2>1 DEF ControlInv, CallUnderWay
  <2>3. QED
    BY <1>1, <1>2, <2>1, <2>2, PerformKeeps
<1>7. ASSUME TakeMessage PROVE ControlInv'
  <2>1. PICK r \in Requests : todo' = [todo EXCEPT !["msg"] = r]
    BY <1>7 DEF TakeMessage
  <2>2. /\ at' = [at EXCEPT !["msg"] = "handle"] /\ at["msg"] = "idle"
        /\ UNCHANGED <<loop, slotOf, params, queue, ready, belief>>
    BY <1>7 DEF TakeMessage, directoryVars
  <2>3. QED
    BY <1>1, <1>2, <2>1, <2>2, RequestsAreCalls, FrontEndKeeps
<1>8. ASSUME ConsumeLoopEnds PROVE ControlInv'
  <2>1. /\ at' = [at EXCEPT !["msg"] = "stopped"] /\ todo' = [todo EXCEPT !["msg"] = todo["msg"]]
        /\ at["msg"] = "idle" /\ UNCHANGED <<loop, slotOf, params, queue, ready, belief>>
    BY <1>2, <1>8 DEF ConsumeLoopEnds, directoryVars
  <2>2. QED
    BY <1>1, <1>2, <2>1, FrontEndKeeps
<1>9. ASSUME Incoming PROVE ControlInv'
  <2>1. /\ at' = [at EXCEPT !["http"] = "read"] /\ todo' = [todo EXCEPT !["http"] = todo["http"]]
        /\ UNCHANGED <<loop, slotOf, params, queue, ready, belief>>
    BY <1>2, <1>9 DEF Incoming, directoryVars
  <2>2. QED
    BY <1>1, <1>2, <2>1, FrontEndKeeps
<1>10. ASSUME ReadRequest PROVE ControlInv'
  <2>1. PICK r \in Requests : todo' = [todo EXCEPT !["http"] = r]
    BY <1>10 DEF ReadRequest
  <2>2. /\ at' = [at EXCEPT !["http"] = "handle"]
        /\ UNCHANGED <<loop, slotOf, params, queue, ready, belief>>
    BY <1>10 DEF ReadRequest, directoryVars
  <2>3. QED
    BY <1>1, <1>2, <2>1, <2>2, RequestsAreCalls, FrontEndKeeps
<1>11. ASSUME NEW f \in FrontEnds, list_sources(f) PROVE ControlInv'
  <2>1. /\ at' = [at EXCEPT ![f] = "handle"] /\ at[f] = "handle" /\ todo[f] # <<>>
        /\ todo' = [todo EXCEPT ![f] = Tail(todo[f])]
        /\ UNCHANGED <<loop, slotOf, params, queue, ready, belief>>
    BY <1>11 DEF list_sources, HasCall, After, directoryVars
  <2>2. Tail(todo[f]) \in Seq(Calls)
    BY <1>2, <2>1
  <2>3. QED
    BY <1>1, <2>1, <2>2, FrontEndKeeps
<1>12. ASSUME Iterate \/ StopControl \/ LoopLife \/ RemovalHangs \/ UNCHANGED vars
       PROVE  ControlInv'
  <2>1. /\ UNCHANGED <<slotOf, params, at, todo, queue, belief>>
        /\ ready' \in {ready, Len(queue)}
        /\ loop' = loop \/ loop = "before" \/ loop' \in {"quit", "gone"}
        /\ loop' = "before" => loop = "before"
    BY <1>12 DEF Iterate, StopControl, RemovalHangs, LoopLife, LoopStarts, LoopQuits, LoopExits, vars,
                 directoryVars
  <2>2. QED
    BY <1>1, <2>1, LoopKeeps
<1>13. QED
  BY <1>1, <1>3, <1>4, <1>5, <1>6, <1>7, <1>8, <1>9, <1>10, <1>11, <1>12, <1>2,
     DispatchKeeps, InvokeKeeps, TimesOutKeeps, CheckKeeps
  DEF Next, MessageThread, LoopCallbacks, Arrivals

(* What the message client was told last of a camera or a property holds     *)
(* while the main loop runs: of the callbacks it gave up on, none is left to *)
(* run behind an answer, because the main context is a queue and the client  *)
(* waits for the newest entry (g_main_context_invoke, future.wait_for).      *)
THEOREM BeliefsHold == Spec => []BeliefHolds
<1>1. ControlInv => BeliefHolds
  BY DEF ControlInv, Settled, BeliefHolds, loop_running, Keys
<1>2. QED
  BY <1>1, ControlBegins, ControlGoesOn, PTL DEF Spec
-----------------------------------------------------------------------------
(* The types *)

(* What TypeOK says beyond the parts the argument above needs. *)
Ranges ==
  /\ loop \in {"before", "running", "quit", "gone"} /\ stop \in BOOLEAN
  /\ \A c \in Cameras : slotOf[c] \in 0 .. (MaxSources - 1) \cup {NoSlot}
  /\ \A p \in Props : params[p] \in Settings
  /\ \A k \in Keys : belief[k] \in Settings \cup {"in", "out", Unknown}
  /\ at["msg"] \in {"idle", "handle", "direct", "invoke", "wait", "stopped"}
  /\ at["http"] \in {"idle", "read", "handle"}

(* A callback leaves every slot and property in its range, and the client    *)
(* learns a value of one.                                                    *)
LEMMA ExecuteInRange ==
  ASSUME ControlInv, Ranges, NEW call \in Calls, Execute(call)
  PROVE  /\ \A c \in Cameras : slotOf'[c] \in 0 .. (MaxSources - 1) \cup {NoSlot}
         /\ \A p \in Props : params'[p] \in Settings
         /\ \A f \in FrontEnds : Observe(f, call) =>
              \A k \in Keys : belief'[k] \in Settings \cup {"in", "out", Unknown}
<1>1. Typed
  BY DEF ControlInv
<1>2. slotOf = [c \in Cameras |-> slotOf[c]] /\ params = [p \in Props |-> params[p]]
  BY <1>1 DEF Typed
<1>3. \/ UNCHANGED slotOf
      \/ \E s \in 0 .. (MaxSources - 1) \cup {NoSlot} : slotOf' = [slotOf EXCEPT ![call.key] = s]
  BY DEF Execute, invoke_add_source, invoke_remove_source, invoke_set_param, invoke_get_param,
         Directory!Added, Directory!Duplicate, Directory!Full, Directory!Failed,
         Directory!Invalid, Directory!Removed, Directory!Missing, Directory!Slots, directoryVars
<1>4. \/ UNCHANGED params
      \/ \E v \in Settings : params' = [params EXCEPT ![call.key] = v]
  BY ControlAssumption
  DEF Execute, invoke_add_source, invoke_remove_source, invoke_set_param, invoke_get_param,
      set_property_from_string
<1>5. \A c \in Cameras : slotOf'[c] \in 0 .. (MaxSources - 1) \cup {NoSlot}
  BY <1>2, <1>3 DEF Ranges
<1>6. \A p \in Props : params'[p] \in Settings
  BY <1>2, <1>4 DEF Ranges
<1>7. ASSUME NEW f \in FrontEnds, Observe(f, call), NEW k \in Keys
      PROVE  belief'[k] \in Settings \cup {"in", "out", Unknown}
  <2>1. belief'[k] \in {Unknown, belief[k], Fact(k)'}
    BY <1>1, <1>7, ObserveSettles
  <2>2. Fact(k)' \in Settings \cup {"in", "out"}
    BY <1>6, ControlAssumption DEF Fact, Keys
  <2>3. belief[k] \in Settings \cup {"in", "out", Unknown}
    BY DEF Ranges
  <2> QED BY <2>1, <2>2, <2>3
<1> QED BY <1>5, <1>6, <1>7

(* So does every call that is made, on whichever thread. *)
LEMMA CallsInRange ==
  ASSUME ControlInv, Ranges, NEW f \in FrontEnds, todo[f] # <<>>, Perform(f)
  PROVE  Ranges'
<1> DEFINE call == Head(todo[f])
<1>1. Typed
  BY DEF ControlInv
<1>2. call \in Calls
  BY <1>1 DEF Typed
<1>3. /\ Execute(call) /\ Observe(f, call) /\ After(f, Failed(call))
      /\ loop' = loop /\ stop' = stop
  BY DEF Perform
<1> HIDE DEF call
<1>4. at'[f] = "handle" /\ \A g \in FrontEnds \ {f} : at'[g] = at[g]
  BY <1>1, <1>3, AfterKeeps
<1>5. /\ at'["msg"] \in {"idle", "handle", "direct", "invoke", "wait", "stopped"}
      /\ at'["http"] \in {"idle", "read", "handle"}
  BY <1>4 DEF Ranges, FrontEnds
<1>6. /\ \A c \in Cameras : slotOf'[c] \in 0 .. (MaxSources - 1) \cup {NoSlot}
      /\ \A p \in Props : params'[p] \in Settings
      /\ \A k \in Keys : belief'[k] \in Settings \cup {"in", "out", Unknown}
  BY <1>2, <1>3, ExecuteInRange
<1> QED BY <1>3, <1>5, <1>6 DEF Ranges

(* And the callbacks of the loop. *)
LEMMA DispatchInRange ==
  ASSUME ControlInv, Ranges, Dispatch
  PROVE  Ranges'
<1> DEFINE call == Head(queue).call
<1>1. Typed /\ WaitsForNewest /\ CallUnderWay
  BY DEF ControlInv
<1>2. queue # <<>> /\ Head(queue) \in Entries
  BY <1>1 DEF Dispatch, Typed
<1>3. call \in Calls
  BY <1>2 DEF Entries
<1>4. /\ Execute(call) /\ loop' = loop /\ stop' = stop
      /\ IF Head(queue).waited THEN Observe("msg", call) /\ After("msg", Failed(call))
         ELSE UNCHANGED <<belief, at>>
  BY DEF Dispatch
<1>5. Head(queue).waited => at["msg"] = "wait" /\ todo["msg"] # <<>>
  <2>1. 1 \in DOMAIN queue /\ Head(queue) = queue[1]
    BY <1>1, <1>2 DEF Typed
  <2> QED BY <1>1, <2>1 DEF WaitsForNewest, CallUnderWay
<1>6. "msg" \in FrontEnds /\ "http" \in FrontEnds /\ "http" # "msg"
  BY DEF FrontEnds
<1> HIDE DEF call
<1>7. Head(queue).waited => at'["msg"] = "handle" /\ at'["http"] = at["http"]
  BY <1>1, <1>4, <1>5, <1>6, AfterKeeps
<1>8. /\ at'["msg"] \in {"idle", "handle", "direct", "invoke", "wait", "stopped"}
      /\ at'["http"] \in {"idle", "read", "handle"}
  BY <1>4, <1>7 DEF Ranges
<1>9. /\ \A c \in Cameras : slotOf'[c] \in 0 .. (MaxSources - 1) \cup {NoSlot}
      /\ \A p \in Props : params'[p] \in Settings
      /\ Observe("msg", call) =>
           \A k \in Keys : belief'[k] \in Settings \cup {"in", "out", Unknown}
  BY <1>3, <1>4, <1>6, ExecuteInRange
<1>10. \A k \in Keys : belief'[k] \in Settings \cup {"in", "out", Unknown}
  BY <1>4, <1>9 DEF Ranges
<1> QED BY <1>4, <1>8, <1>9, <1>10 DEF Ranges

(* The ranges hold after every step. *)
LEMMA RangesGoOn == ControlInv /\ Ranges /\ [Next]_vars => Ranges'
<1> SUFFICES ASSUME ControlInv, Ranges, [Next]_vars PROVE Ranges'
  OBVIOUS
<1>1. /\ at = [f \in FrontEnds |-> at[f]] /\ belief = [k \in Keys |-> belief[k]]
      /\ "msg" \in FrontEnds /\ "http" \in FrontEnds
  BY DEF ControlInv, Typed, FrontEnds
<1>2. ASSUME UNCHANGED <<loop, slotOf, params, stop, belief>>,
             \/ UNCHANGED at
             \/ \E f \in FrontEnds, v \in {"idle", "handle"} : at' = [at EXCEPT ![f] = v]
             \/ \E v \in {"handle", "wait", "stopped"} : at' = [at EXCEPT !["msg"] = v]
             \/ \E v \in {"handle", "read"} : at' = [at EXCEPT !["http"] = v]
      PROVE  Ranges'
  <2>1. /\ at'["msg"] \in {"idle", "handle", "direct", "invoke", "wait", "stopped"}
        /\ at'["http"] \in {"idle", "read", "handle"}
    BY <1>1, <1>2 DEF Ranges, FrontEnds
  <2> QED BY <1>2, <2>1 DEF Ranges
<1>3. ASSUME \/ \E f \in FrontEnds : Forbidden(f) \/ Answer(f) \/ list_sources(f)
             \/ InvokeQueued \/ TimesOut \/ TakeMessage \/ ConsumeLoopEnds \/ Incoming
             \/ ReadRequest \/ Iterate \/ RemovalHangs \/ UNCHANGED vars
      PROVE  Ranges'
  BY <1>2, <1>3 DEF Forbidden, Answer, list_sources, RemovalHangs, InvokeQueued, TimesOut, After, TakeMessage, ConsumeLoopEnds,
                    Incoming, ReadRequest, Iterate, vars, directoryVars
<1>4. ASSUME Check PROVE Ranges'
  <2>1. /\ UNCHANGED <<loop, slotOf, params, stop>> /\ HasCall("msg")
        /\ at' = [at EXCEPT !["msg"] = IF loop_running THEN "invoke" ELSE "direct"]
        /\ belief' = [belief EXCEPT ![Head(todo["msg"]).key] =
                        IF Mutates(Head(todo["msg"])) THEN Unknown ELSE @]
    BY <1>4 DEF Check, directoryVars
  <2>2. /\ at'["msg"] \in {"idle", "handle", "direct", "invoke", "wait", "stopped"}
        /\ at'["http"] = at["http"]
    BY <1>1, <2>1 DEF FrontEnds
  <2>3. \A k \in Keys : belief'[k] \in {belief[k], Unknown}
    BY <1>1, <2>1
  <2> QED BY <2>1, <2>2, <2>3 DEF Ranges
<1>5. ASSUME CallHere \/ Direct \/ InvokeHere PROVE Ranges'
  <2>1. CASE CallHere
    BY <1>1, <2>1, CallsInRange DEF CallHere, HasCall
  <2>2. CASE Direct \/ InvokeHere
    <3>1. Perform("msg") /\ at["msg"] \in {"direct", "invoke"}
      BY <2>2 DEF Direct, InvokeHere
    <3>2. todo["msg"] # <<>>
      BY <3>1 DEF ControlInv, CallUnderWay
    <3> QED BY <1>1, <3>1, <3>2, CallsInRange
  <2> QED BY <1>5, <2>1, <2>2
<1>6. ASSUME StopControl \/ LoopLife PROVE Ranges'
  <2>1. /\ UNCHANGED <<slotOf, params, at, belief>>
        /\ loop' = loop \/ loop' \in {"running", "quit", "gone"}
    BY <1>6 DEF StopControl, LoopLife, LoopStarts, LoopQuits, LoopExits, directoryVars
  <2>2. stop' = stop \/ stop' = TRUE
    BY <1>6 DEF StopControl, LoopLife
  <2>3. stop' \in BOOLEAN
    BY <2>2, Zenon DEF Ranges
  <2> QED BY <2>1, <2>3 DEF Ranges
<1> QED BY <1>1, <1>3, <1>4, <1>5, <1>6, DispatchInRange
        DEF Next, MessageThread, LoopCallbacks, Arrivals

(* The state of runtime control keeps its types: no callback leaves a slot   *)
(* or a property outside its range, no front end reaches a place that is not *)
(* its own, and no iteration counts more callbacks than are queued.          *)
THEOREM ControlTypeCorrect == Spec => []TypeOK
<1>1. Init => Ranges
  <2> SUFFICES ASSUME Init PROVE Ranges
    OBVIOUS
  <2>1. /\ loop = "before" /\ stop = FALSE /\ params = [p \in Props |-> Default]
        /\ slotOf = [c \in Cameras |-> NoSlot] /\ belief = [k \in Keys |-> Unknown]
        /\ at = [f \in FrontEnds |-> "idle"]
    BY DEF Init, Directory!Init, Keys
  <2>2. stop \in BOOLEAN
    BY <2>1, Zenon
  <2>3. Default \in Settings
    BY ControlAssumption
  <2> QED BY <2>1, <2>2, <2>3 DEF Ranges, FrontEnds
<1> DEFINE Stuck == stuck \in {"none", "loop", "msg"}
<1>2. Init => Stuck
  BY DEF Init
<1>3. Stuck /\ [Next]_vars => Stuck'
  BY DEF Next, MessageThread, LoopCallbacks, Arrivals, RemovalHangs, vars
<1>4. ControlInv /\ Ranges /\ Stuck => TypeOK
  <2> SUFFICES ASSUME ControlInv, Ranges, Stuck PROVE TypeOK
    OBVIOUS
  <2>1. /\ slotOf \in [Cameras -> 0 .. (MaxSources - 1) \cup {NoSlot}]
        /\ params \in [Props -> Settings]
        /\ belief \in [Cameras \cup Props -> Settings \cup {"in", "out", Unknown}]
    BY DEF ControlInv, Typed, Ranges, Keys
  <2>2. at \in [FrontEnds -> {"idle", "read", "handle", "direct", "invoke", "wait", "stopped"}]
    BY DEF ControlInv, Typed, Ranges, FrontEnds
  <2>3. /\ todo \in [FrontEnds -> Seq(Calls)] /\ queue \in Seq([call : Calls, waited : BOOLEAN])
        /\ ready \in 0 .. Len(queue)
    BY DEF ControlInv, Typed, Entries
  <2>4. /\ loop \in {"before", "running", "quit", "gone"} /\ stop \in BOOLEAN
        /\ at["msg"] # "read" /\ at["http"] \in {"idle", "read", "handle"}
    BY DEF Ranges
  <2> QED BY <2>1, <2>2, <2>3, <2>4, Zenon DEF TypeOK
<1> HIDE DEF Stuck
<1> QED BY <1>1, <1>2, <1>3, <1>4, ControlBegins, ControlGoesOn, RangesGoOn, PTL DEF Spec
=============================================================================
