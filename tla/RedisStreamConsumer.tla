------------------------ MODULE RedisStreamConsumer ------------------------
(***************************************************************************)
(* infrastructure/messaging/src/redis_stream_consumer.cpp: XREAD on one    *)
(* stream, as the evidence loop and the control consumer use it: connect,  *)
(* subscribe once more, then poll from one thread, one entry a time.       *)
(***************************************************************************)
EXTENDS Integers, Sequences

CONSTANT MaxEntries  \* bound: entries added to the stream

Ids == 1 .. MaxEntries
Dollar == -1   \* the cursor '$'

VARIABLES last,       \* id of the newest entry of the stream
          server,     \* the broker answers
          link,       \* the connection of ctx_ is whole
          connected,  \* connected_
          cursor,     \* last_ids_: the last id read, or Dollar
          caller,     \* the thread that owns the consumer
          from,       \* the id an XREAD under way has to exceed
          attached,   \* history: newest entry when the caller subscribed
          delivered   \* history: ids handed to the caller

vars == <<last, server, link, connected, cursor, caller, from, attached, delivered>>

TypeOK == /\ last \in 0 .. MaxEntries /\ attached \in 0 .. MaxEntries
          /\ server \in BOOLEAN /\ link \in BOOLEAN /\ connected \in BOOLEAN
          /\ cursor \in Ids \cup {Dollar}
          /\ caller \in {"connect", "subscribe", "idle", "xread"}
          /\ from \in 0 .. MaxEntries
          /\ delivered \in Seq(Ids)

Init == /\ last \in 0 .. MaxEntries /\ attached = 0
        /\ server \in BOOLEAN /\ link = FALSE /\ connected = FALSE
        /\ cursor = Dollar
        /\ caller = "connect" /\ from = 0
        /\ delivered = <<>>

(* A client adds an entry. *)
Xadd == /\ last < MaxEntries
        /\ last' = last + 1
        /\ UNCHANGED <<server, link, connected, cursor, caller, from, attached, delivered>>

(* An outage of the broker breaks the connection for good. *)
ServerFails == /\ server
               /\ server' = FALSE /\ link' = FALSE
               /\ UNCHANGED <<last, connected, cursor, caller, from, attached, delivered>>

ServerReturns == /\ ~server
                 /\ server' = TRUE
                 /\ UNCHANGED <<last, link, connected, cursor, caller, from, attached, delivered>>

(* connect, do_connect and its subscribe; a failure ends the start-up of the *)
(* part that wanted the consumer.                                            *)
Connect == /\ caller = "connect" /\ server
           /\ connected' = TRUE /\ link' = TRUE
           /\ cursor' = Dollar
           /\ caller' = "subscribe"
           /\ UNCHANGED <<last, server, from, attached, delivered>>

(* subscribe, once more, just before the polling thread starts. *)
Subscribe == /\ caller = "subscribe"
             /\ cursor' = Dollar
             /\ attached' = last
             /\ caller' = "idle"
             /\ UNCHANGED <<last, server, link, connected, from, delivered>>

(* poll sends XREAD; the broker takes '$' for the newest entry it has now. *)
PollSends == /\ caller = "idle" /\ connected
             /\ from' = IF cursor = Dollar THEN last ELSE cursor
             /\ caller' = "xread"
             /\ UNCHANGED <<last, server, link, connected, cursor, attached, delivered>>

(* Mutant of PollReads: the cursor moves to the newest entry. *)
PollReadsNewest ==
  /\ caller = "xread" /\ link /\ last > from
  /\ delivered' = Append(delivered, from + 1)
  /\ cursor' = last
  /\ caller' = "idle"
  /\ UNCHANGED <<last, server, link, connected, from, attached>>

(* The first entry after from is returned and becomes the cursor. *)
PollReads == /\ caller = "xread" /\ link /\ last > from
             /\ delivered' = Append(delivered, from + 1)
             /\ cursor' = from + 1
             /\ caller' = "idle"
             /\ UNCHANGED <<last, server, link, connected, from, attached>>

(* BLOCK runs out: a nil reply. *)
PollTimesOut == /\ caller = "xread" /\ link /\ last = from
                /\ caller' = "idle"
                /\ UNCHANGED <<last, server, link, connected, cursor, from, attached, delivered>>

(* An error reply, or one of another shape: nothing is read and the cursor   *)
(* stays, whatever the stream holds.                                         *)
PollRefused == /\ caller = "xread" /\ link
               /\ caller' = "idle"
               /\ UNCHANGED <<last, server, link, connected, cursor, from, attached, delivered>>

(* No reply: the flag goes down, and poll returns at once from then on. *)
PollLost == /\ caller = "xread" /\ ~link
            /\ connected' = FALSE
            /\ caller' = "idle"
            /\ UNCHANGED <<last, server, link, cursor, from, attached, delivered>>

Poll == PollSends \/ PollReads \/ PollTimesOut \/ PollRefused \/ PollLost

(* What leaves the broker's health alone. *)
Local == Xadd \/ Connect \/ Subscribe \/ Poll

Next == Local \/ ServerFails \/ ServerReturns

Spec == Init /\ [][Next]_vars
-----------------------------------------------------------------------------
(* Properties *)

(* Nothing older than the subscription is delivered, nothing twice, and from *)
(* the first entry on none is left out, whatever polls time out, fail or     *)
(* break.                                                                    *)
NoGaps == /\ delivered # <<>> => delivered[1] > attached
          /\ \A n \in 1 .. Len(delivered) - 1 : delivered[n + 1] = delivered[n] + 1

(* Comment in subscribe() and docs: entries produced after the consumer      *)
(* attached to the stream are seen.  Before the first one, '$' is evaluated  *)
(* anew by every XREAD, and what arrives between two polls is skipped.       *)
SeesEverythingSince == delivered # <<>> => delivered[1] = attached + 1
=============================================================================
