--------------------------- MODULE RedisMessaging ---------------------------
(***************************************************************************)
(* One Redis broker, the producer the probe handlers publish through and a *)
(* consumer that polls a request stream, as app/main.cpp wires them: each  *)
(* has a connection of its own, an outage of the broker hits both.         *)
(***************************************************************************)
EXTENDS RedisStreamProducer, Sequences

CONSTANT MaxEntries  \* bound: entries added to the request stream

ASSUME EntriesAssumption == MaxEntries \in Nat

VARIABLES last, link, consumer_connected, cursor, caller, from, attached, delivered

Consumer == INSTANCE RedisStreamConsumer WITH connected <- consumer_connected

consumerVars == <<last, link, consumer_connected, cursor, caller, from, attached, delivered>>
producerVars == <<failures, ctx, connected, needed, stop, reconnect, backoff, publisher, owner>>

MessagingInit == Init /\ Consumer!Init

MessagingNext ==
  \/ ServerFails /\ Consumer!ServerFails
  \/ ServerReturns /\ Consumer!ServerReturns
  \/ /\ ReconnectThread \/ Owner \/ \E p \in Publishers : Publish(p)
     /\ UNCHANGED consumerVars
  \/ Consumer!Local /\ UNCHANGED producerVars

(* Fairness is the producer's; of the consumer only safety is claimed. *)
MessagingSpec == MessagingInit /\ [][MessagingNext]_<<vars, consumerVars>> /\ Fairness
-----------------------------------------------------------------------------
(* Properties of the consumer, beside those of RedisStreamProducer *)

(* poll: what is delivered has no gap and no repetition after its first id.  *)
NoGaps == Consumer!NoGaps
=============================================================================
