----------------------- MODULE RedisMessagingProofs -----------------------
(***************************************************************************)
(* The producer's flag connected_ and its context agree, for any number of *)
(* publishing threads, faults and back-off limits; the consumer delivers   *)
(* without gaps, for any number of entries; and both hold of the two       *)
(* around one broker, which is what RedisMessaging composes.               *)
(***************************************************************************)
EXTENDS RedisMessaging, TLAPS

(* The producer *)

(* Join has seen the reconnection thread end before the context is freed.    *)
ThreadGone == owner \in {"free", "done"} => reconnect = "ended"

(* ContextMatchesFlag alone is not inductive: a reconnection under way could *)
(* reopen the context after Free.                                            *)
IInv == TypeOK /\ ContextMatchesFlag /\ ThreadGone

(* Before anything runs there is no context and the flag is down.            *)
LEMMA InitIInv == Init => IInv
<1>1. BaseBackoff \in BaseBackoff .. MaxBackoff /\ 0 \in 0 .. MaxFailures
  BY ProducerAssumption
<1> QED BY <1>1, Zenon DEF Init, IInv, TypeOK, ContextMatchesFlag, ThreadGone

(* A back-off doubled up to the cap stays within its limits.                 *)
LEMMA BackoffCapped ==
  ASSUME NEW b \in BaseBackoff .. MaxBackoff
  PROVE  (IF 2 * b < MaxBackoff THEN 2 * b ELSE MaxBackoff) \in BaseBackoff .. MaxBackoff
  BY ProducerAssumption

(* Every step keeps types, flag and thread consistent: the sections under    *)
(* ctx_mtx_ change context and flag together.                                *)
LEMMA NextIInv == IInv /\ [Next]_vars => IInv'
<1> SUFFICES ASSUME IInv, [Next]_vars PROVE IInv'
  OBVIOUS
<1> USE ProducerAssumption DEF IInv, ContextMatchesFlag, ThreadGone
<1>1. CASE ServerFails
  <2>1. failures' \in 0 .. MaxFailures
    BY <1>1 DEF ServerFails, TypeOK
  <2>2. TypeOK'
    BY <1>1, <2>1, Zenon DEF ServerFails, TypeOK
  <2>3. ContextMatchesFlag' /\ ThreadGone'
    BY <1>1, Zenon DEF ServerFails, TypeOK
  <2> QED BY <2>2, <2>3
<1>1a. CASE ServerReturns
  BY <1>1a, Zenon DEF ServerReturns, TypeOK
<1>2a. CASE Loop
  BY <1>2a, Zenon DEF Loop, TypeOK
<1>2b. CASE CheckPredicate
  BY <1>2b, Zenon DEF CheckPredicate, TypeOK
<1>2c. CASE Sleep
  BY <1>2c, Zenon DEF Sleep, TypeOK
<1>3. CASE TakeSignal
  BY <1>3 DEF TakeSignal, TypeOK
<1>4. CASE Backoff
  <2>1. BaseBackoff \in BaseBackoff .. MaxBackoff
    OBVIOUS
  <2>2. TypeOK'
    BY <1>4, <2>1, Zenon DEF Backoff, TypeOK
  <2>3. ContextMatchesFlag' /\ ThreadGone'
    BY <1>4 DEF Backoff, TypeOK
  <2> QED BY <2>2, <2>3
<1>5. CASE Reconnect
  <2>1. BaseBackoff \in BaseBackoff .. MaxBackoff
    OBVIOUS
  <2>2. backoff' \in BaseBackoff .. MaxBackoff
    BY <1>5, <2>1, BackoffCapped DEF Reconnect, TypeOK
  <2> QED BY <1>5, <2>2, Zenon DEF Reconnect, do_connect, TypeOK
<1>6. ASSUME NEW p \in Publishers, Publish(p) PROVE IInv'
  <2>1. CASE Drop(p)
    BY <2>1 DEF Drop, schedule_reconnect, Notified, TypeOK
  <2>2. CASE PassFastPath(p)
    BY <2>2 DEF PassFastPath, TypeOK
  <2>3. CASE XaddLost(p)
    BY <2>3 DEF XaddLost, schedule_reconnect, Notified, TypeOK
  <2>4. CASE XaddError(p)
    <3>1. failures < MaxFailures /\ failures \in 0 .. MaxFailures => failures + 1 \in 0 .. MaxFailures
      OBVIOUS
    <3> QED BY <2>4, <3>1, Zenon DEF XaddError, schedule_reconnect, Notified, TypeOK
  <2>5. CASE XaddOk(p)
    BY <2>5 DEF XaddOk, TypeOK
  <2> QED BY <1>6, <2>1, <2>2, <2>3, <2>4, <2>5 DEF Publish
<1>7. CASE Connect \/ SpawnReconnect
  BY <1>7 DEF Connect, SpawnReconnect, do_connect, TypeOK
<1>8. CASE SetStop \/ NotifyAll \/ Join \/ Free
  BY <1>8 DEF SetStop, NotifyAll, Notified, Join, Free, TypeOK
<1>9. CASE UNCHANGED vars
  BY <1>9 DEF vars, TypeOK
<1> QED BY <1>1, <1>1a, <1>2a, <1>2b, <1>2c, <1>3, <1>4, <1>5, <1>6, <1>7, <1>8, <1>9 DEF Next,
    ReconnectThread, Owner

(* The inductive invariant holds throughout.                                 *)
LEMMA Invariance == Spec => []IInv
  BY InitIInv, NextIInv, PTL DEF Spec

(* connected_ never promises a context that is gone, and after disconnect()  *)
(* there is neither, however late publishers run.                            *)
THEOREM ContextAgrees == Spec => []ContextMatchesFlag
<1>1. IInv => ContextMatchesFlag
  BY DEF IInv
<1> QED BY <1>1, Invariance, PTL

(* Type correctness, the back-off within its limits included.                *)
THEOREM ProducerTypeCorrect == Spec => []TypeOK
<1>1. IInv => TypeOK
  BY DEF IInv
<1> QED BY <1>1, Invariance, PTL

-----------------------------------------------------------------------------
(* The consumer *)

(* Where the cursor, an XREAD under way and the subscription stand to what   *)
(* was delivered: NoGaps alone does not say where the next entry comes from. *)
ReadPosition ==
  /\ attached <= last
  /\ caller \in {"connect", "subscribe"} => delivered = <<>>
  /\ delivered = <<>> => cursor = Consumer!Dollar
  /\ delivered # <<>> => cursor = delivered[Len(delivered)] /\ cursor > attached
  /\ caller = "xread" => from >= attached /\ (delivered # <<>> => from = cursor)

ConsumerInv == Consumer!TypeOK /\ ReadPosition /\ NoGaps

(* Nothing is read before the subscription.                                  *)
LEMMA ConsumerInit == Consumer!Init => ConsumerInv
<1> SUFFICES ASSUME Consumer!Init PROVE ConsumerInv
  OBVIOUS
<1> USE EntriesAssumption DEF Consumer!Init
<1>1. 0 \in 0 .. MaxEntries /\ <<>> \in Seq(Consumer!Ids)
  OBVIOUS
<1>2. Consumer!TypeOK
  BY <1>1, Zenon DEF Consumer!TypeOK
<1>3. ReadPosition
  BY DEF ReadPosition
<1>4. NoGaps
  BY DEF NoGaps, Consumer!NoGaps
<1> QED BY <1>2, <1>3, <1>4 DEF ConsumerInv

(* The entry an XREAD returns continues what was delivered before.           *)
LEMMA ReadContinues ==
  ASSUME ConsumerInv, Consumer!PollReads
  PROVE  ReadPosition' /\ NoGaps' /\ delivered' \in Seq(Consumer!Ids) /\ cursor' \in Consumer!Ids
<1>1. /\ from \in Nat /\ last \in Nat /\ attached \in Nat /\ last <= MaxEntries
      /\ delivered \in Seq(Consumer!Ids)
  BY EntriesAssumption DEF ConsumerInv, Consumer!TypeOK
<1>2. /\ caller = "xread" /\ last > from /\ caller' = "idle"
      /\ delivered' = Append(delivered, from + 1) /\ cursor' = from + 1
      /\ UNCHANGED <<last, from, attached>>
  BY DEF Consumer!PollReads
<1>3. from + 1 \in Consumer!Ids
  BY <1>1, <1>2, EntriesAssumption DEF Consumer!Ids
<1>4. /\ Len(delivered') = Len(delivered) + 1 /\ delivered' # <<>>
      /\ Len(delivered) \in Nat
      /\ delivered'[Len(delivered')] = from + 1
      /\ \A n \in 1 .. Len(delivered) : delivered'[n] = delivered[n]
  BY <1>1, <1>2, <1>3
<1>5. /\ from >= attached /\ (delivered # <<>> => from = delivered[Len(delivered)])
      /\ attached <= last
  BY <1>2 DEF ConsumerInv, ReadPosition
<1>6. ReadPosition'
  BY <1>1, <1>2, <1>4, <1>5 DEF ReadPosition
<1>7. delivered # <<>> => delivered'[1] > attached
  BY <1>1, <1>4 DEF ConsumerInv, NoGaps, Consumer!NoGaps
<1>8. delivered = <<>> => delivered'[1] > attached
  BY <1>1, <1>4, <1>5
<1>9. ASSUME NEW n \in 1 .. Len(delivered') - 1 PROVE delivered'[n + 1] = delivered'[n] + 1
  <2>1. CASE n = Len(delivered)
    BY <1>1, <1>4, <1>5, <2>1
  <2>2. CASE n \in 1 .. Len(delivered) - 1
    BY <1>1, <1>4, <2>2 DEF ConsumerInv, NoGaps, Consumer!NoGaps
  <2> QED BY <1>1, <1>4, <2>1, <2>2
<1>10. NoGaps'
  BY <1>2, <1>7, <1>8, <1>9 DEF NoGaps, Consumer!NoGaps
<1> QED BY <1>1, <1>2, <1>3, <1>6, <1>10

(* Every step of the consumer and every fault of the broker keep this.       *)
LEMMA ConsumerStep ==
  ASSUME ConsumerInv, Consumer!Next PROVE ConsumerInv'
<1>0. /\ last \in Nat /\ attached \in Nat /\ from \in Nat /\ last <= MaxEntries
      /\ last \in 0 .. MaxEntries
  BY EntriesAssumption DEF ConsumerInv, Consumer!TypeOK
<1>1. CASE Consumer!Xadd
  <2>1. last' = last + 1 /\ last' \in 0 .. MaxEntries
    BY <1>0, <1>1, EntriesAssumption DEF Consumer!Xadd
  <2>2. UNCHANGED <<server, link, consumer_connected, cursor, caller, from, attached, delivered>>
    BY <1>1 DEF Consumer!Xadd
  <2>3. ReadPosition'
    BY <1>0, <2>1, <2>2 DEF ConsumerInv, ReadPosition
  <2>4. Consumer!TypeOK'
    BY <2>1, <2>2, Zenon DEF ConsumerInv, Consumer!TypeOK
  <2> QED BY <2>2, <2>3, <2>4 DEF ConsumerInv, NoGaps, Consumer!NoGaps
<1>2. CASE Consumer!ServerFails \/ Consumer!ServerReturns
  <2>1. UNCHANGED <<last, consumer_connected, cursor, caller, from, attached, delivered>>
    BY <1>2 DEF Consumer!ServerFails, Consumer!ServerReturns
  <2>2. server' \in BOOLEAN /\ link' \in BOOLEAN
    BY <1>2, Zenon DEF Consumer!ServerFails, Consumer!ServerReturns, ConsumerInv, Consumer!TypeOK
  <2>3. Consumer!TypeOK'
    BY <2>1, <2>2, Zenon DEF ConsumerInv, Consumer!TypeOK
  <2> QED BY <2>1, <2>3 DEF ConsumerInv, ReadPosition, NoGaps, Consumer!NoGaps
<1>3. CASE Consumer!Connect \/ Consumer!Subscribe
  <2>1. /\ UNCHANGED <<last, server, from, delivered>> /\ delivered = <<>>
        /\ cursor' = Consumer!Dollar /\ caller' \in {"subscribe", "idle"}
        /\ attached' \in {attached, last}
    BY <1>3 DEF Consumer!Connect, Consumer!Subscribe, ConsumerInv, ReadPosition
  <2>2. link' \in BOOLEAN /\ consumer_connected' \in BOOLEAN
    BY <1>3, Zenon DEF Consumer!Connect, Consumer!Subscribe, ConsumerInv, Consumer!TypeOK
  <2>3. attached' \in 0 .. MaxEntries
    BY <2>1 DEF ConsumerInv, Consumer!TypeOK
  <2>4. Consumer!TypeOK'
    BY <2>1, <2>2, <2>3, Zenon DEF ConsumerInv, Consumer!TypeOK
  <2>5. ReadPosition'
    BY <1>0, <2>1 DEF ConsumerInv, ReadPosition
  <2>6. NoGaps'
    BY <2>1 DEF NoGaps, Consumer!NoGaps
  <2> QED BY <2>4, <2>5, <2>6 DEF ConsumerInv
<1>4. CASE Consumer!PollSends
  <2>1. /\ UNCHANGED <<last, server, link, consumer_connected, cursor, attached, delivered>>
        /\ caller' = "xread" /\ from' = IF cursor = Consumer!Dollar THEN last ELSE cursor
    BY <1>4 DEF Consumer!PollSends
  <2>2. cursor # Consumer!Dollar => cursor \in Consumer!Ids
    BY DEF ConsumerInv, Consumer!TypeOK
  <2>3. from' \in 0 .. MaxEntries
    BY <1>0, <2>1, <2>2, EntriesAssumption DEF Consumer!Ids
  <2>4. ReadPosition'
    <3>1. CASE delivered = <<>>
      BY <1>0, <2>1, <3>1 DEF ConsumerInv, ReadPosition
    <3>2. CASE delivered # <<>>
      <4>1. cursor > attached /\ cursor \in Int
        BY <2>2, <3>2, EntriesAssumption DEF ConsumerInv, ReadPosition, Consumer!Ids,
            Consumer!Dollar
      <4>2. cursor # Consumer!Dollar
        BY <1>0, <4>1 DEF Consumer!Dollar
      <4> QED BY <1>0, <2>1, <3>2, <4>1, <4>2 DEF ConsumerInv, ReadPosition
    <3> QED BY <3>1, <3>2
  <2>5. Consumer!TypeOK'
    BY <2>1, <2>3, Zenon DEF ConsumerInv, Consumer!TypeOK
  <2> QED BY <2>1, <2>4, <2>5 DEF ConsumerInv, NoGaps, Consumer!NoGaps
<1>5. CASE Consumer!PollReads
  <2>1. /\ UNCHANGED <<last, server, link, consumer_connected, from, attached>> /\ caller' = "idle"
    BY <1>5 DEF Consumer!PollReads
  <2>2. ReadPosition' /\ NoGaps' /\ delivered' \in Seq(Consumer!Ids) /\ cursor' \in Consumer!Ids
    BY <1>5, ReadContinues
  <2>3. Consumer!TypeOK'
    BY <2>1, <2>2, Zenon DEF ConsumerInv, Consumer!TypeOK
  <2> QED BY <2>2, <2>3 DEF ConsumerInv
<1>6. CASE Consumer!PollTimesOut \/ Consumer!PollRefused \/ Consumer!PollLost
  <2>1. /\ UNCHANGED <<last, server, link, cursor, from, attached, delivered>> /\ caller' = "idle"
    BY <1>6 DEF Consumer!PollTimesOut, Consumer!PollRefused, Consumer!PollLost
  <2>2. consumer_connected' \in BOOLEAN
    BY <1>6, Zenon DEF Consumer!PollTimesOut, Consumer!PollRefused, Consumer!PollLost, ConsumerInv, Consumer!TypeOK
  <2>3. Consumer!TypeOK'
    BY <2>1, <2>2, Zenon DEF ConsumerInv, Consumer!TypeOK
  <2> QED BY <2>1, <2>3 DEF ConsumerInv, ReadPosition, NoGaps, Consumer!NoGaps
<1> QED
  BY <1>1, <1>2, <1>3, <1>4, <1>5, <1>6 DEF Consumer!Next, Consumer!Local, Consumer!Poll

-----------------------------------------------------------------------------
(* Both around one broker *)

(* A step of the composition is a step or a stutter of the producer ...      *)
LEMMA ProducerShare == MessagingNext => [Next]_vars
<1> SUFFICES ASSUME MessagingNext PROVE [Next]_vars
  OBVIOUS
<1>1. CASE Consumer!Local /\ UNCHANGED producerVars
  BY <1>1 DEF Consumer!Local, Consumer!Xadd, Consumer!Connect, Consumer!Subscribe, Consumer!Poll,
     Consumer!PollSends, Consumer!PollReads, Consumer!PollTimesOut, Consumer!PollRefused, Consumer!PollLost,
     producerVars, vars
<1> QED BY <1>1 DEF MessagingNext, Next

(* ... and of the consumer.                                                  *)
LEMMA MessagingStep ==
  IInv /\ ConsumerInv /\ [MessagingNext]_<<vars, consumerVars>> => IInv' /\ ConsumerInv'
<1> SUFFICES ASSUME IInv, ConsumerInv, [MessagingNext]_<<vars, consumerVars>>
             PROVE  IInv' /\ ConsumerInv'
  OBVIOUS
<1>1. IInv'
  <2>1. CASE MessagingNext
    BY <2>1, ProducerShare, NextIInv
  <2>2. CASE UNCHANGED vars
    BY <2>2, NextIInv
  <2> QED BY <2>1, <2>2
<1>2. CASE UNCHANGED consumerVars
  <2>1. UNCHANGED <<last, link, consumer_connected, cursor, caller, from, attached, delivered>>
    BY <1>2 DEF consumerVars
  <2>2. server' \in BOOLEAN
    BY <1>1, Zenon DEF IInv, TypeOK
  <2>3. Consumer!TypeOK'
    BY <2>1, <2>2, Zenon DEF ConsumerInv, Consumer!TypeOK
  <2> QED BY <1>1, <2>1, <2>3 DEF ConsumerInv, ReadPosition, NoGaps, Consumer!NoGaps
<1>3. CASE Consumer!Next
  BY <1>1, <1>3, ConsumerStep
<1> QED BY <1>1, <1>2, <1>3 DEF MessagingNext, Consumer!Next

(* Both inductive invariants hold of the composition.                        *)
LEMMA MessagingInvariance == MessagingSpec => [](IInv /\ ConsumerInv)
<1>1. MessagingInit => IInv /\ ConsumerInv
  BY InitIInv, ConsumerInit DEF MessagingInit
<1> QED BY <1>1, MessagingStep, PTL DEF MessagingSpec

(* poll delivers nothing older than the subscription, nothing twice, and     *)
(* leaves out nothing after its first entry, for any number of entries and   *)
(* whatever polls time out or break.                                         *)
THEOREM DeliversInOrder == MessagingSpec => []NoGaps
<1>1. ConsumerInv => NoGaps
  BY DEF ConsumerInv
<1> QED BY <1>1, MessagingInvariance, PTL

(* The same of a consumer on its own.                                        *)
THEOREM ConsumerAlone == Consumer!Spec => [](Consumer!TypeOK /\ Consumer!NoGaps)
<1>1. ConsumerInv /\ [Consumer!Next]_Consumer!vars => ConsumerInv'
  <2>1. ConsumerInv /\ UNCHANGED Consumer!vars => ConsumerInv'
    BY DEF Consumer!vars, ConsumerInv, Consumer!TypeOK, ReadPosition, NoGaps, Consumer!NoGaps
  <2> QED BY <2>1, ConsumerStep
<1>2. ConsumerInv => Consumer!TypeOK /\ Consumer!NoGaps
  BY DEF ConsumerInv, NoGaps
<1> QED BY <1>1, <1>2, ConsumerInit, PTL DEF Consumer!Spec

(* connected_ and the context of the producer agree beside a consumer on the *)
(* same broker as well, and every variable of the producer keeps its type.   *)
THEOREM MessagingContextAgrees == MessagingSpec => [](TypeOK /\ ContextMatchesFlag)
<1>1. IInv => TypeOK /\ ContextMatchesFlag
  BY DEF IInv
<1> QED BY <1>1, MessagingInvariance, PTL
=============================================================================
