------------------------------- MODULE Producer -------------------------------
(***************************************************************************)
(* The event producer: main() of producer/app/main.py asks the generator    *)
(* for an event and hands it to EventProducer.send, until a signal; then it *)
(* flushes for ten seconds.                                                 *)
(*                                                                          *)
(* librdkafka's idempotent producer and the broker are external: a bounded  *)
(* local queue, one FIFO per partition, requests that may be repeated, and  *)
(* delivery reports that wait until poll() or flush() serves them.          *)
(***************************************************************************)
EXTENDS Integers, Sequences, FiniteSets

CONSTANTS
    Users,          \* user_ids
    NoUser,         \* the user_id of an event that the generator dropped it from
    Partitions,     \* partitions of ecommerce-events
    PartitionOf,    \* where the hash of a key sends it
    QueueLimit,     \* queue.buffering.max.messages
    MaxCalls,       \* bound: calls of produce()
    MaxFaults,      \* bound: faults of a behaviour
    FaultKinds      \* the faults that may happen at all

ASSUME ProducerAssumption ==
    /\ NoUser \notin Users
    /\ Partitions # {}
    /\ PartitionOf \in [Users -> Partitions]
    /\ QueueLimit \in Nat
    /\ MaxCalls \in Nat
    /\ MaxFaults \in Nat
    /\ FaultKinds \subseteq {"kill", "delivery"}

(* The generator repeats an event now and then, with its event_id: an event  *)
(* is named by the call that sent it first, a message by its own call.       *)
Events == [id : Nat, user : Users \cup {NoUser}]
Messages == [call : Nat, event : Events]
NoEvent == [id |-> 0, user |-> NoUser]

VARIABLES
    pc,         \* "down", "loop" or "flushing"
    last,       \* the generator's _last_event
    calls,      \* calls of produce() so far, by every process (no code counts them)
    first,      \* calls before this process started
    sent,       \* sent_count
    delivered,  \* delivered_count
    failed,     \* failed_count
    queue,      \* messages of each partition that are not answered for
    written,    \* how many heads of that queue the broker has already
    reports,    \* delivery reports not served yet: TRUE where there was no error
    topic,      \* ecommerce-events
    faults

generatorVars == <<last, calls>>
counterVars == <<first, sent, delivered, failed>>
vars == <<pc, generatorVars, counterVars, queue, written, reports, topic, faults>>

(* The first so many places of each partition's queue.                       *)
Places(lengths) == UNION { {p} \X (1 .. lengths[p]) : p \in Partitions }

Queued == Places([p \in Partitions |-> Len(queue[p])])
Outstanding == Cardinality(Queued)

Typed ==
    /\ pc \in {"down", "loop", "flushing"}
    /\ last \in Events
    /\ calls \in 0 .. MaxCalls
    /\ first \in 0 .. calls
    /\ sent \in Nat /\ delivered \in Nat /\ failed \in Nat
    /\ queue \in [Partitions -> Seq(Messages)]
    /\ written \in [Partitions -> Nat]
    /\ \A p \in Partitions : written[p] <= Len(queue[p])
    /\ reports \in Seq(BOOLEAN)
    /\ topic \in [Partitions -> Seq(Messages)]
    /\ faults \in 0 .. MaxFaults

TypeOK == Typed /\ Outstanding + Len(reports) <= QueueLimit

Empty == [p \in Partitions |-> <<>>]
Zero == [p \in Partitions |-> 0]

Init ==
    /\ pc = "down"
    /\ last = NoEvent
    /\ calls = 0 /\ first = 0
    /\ sent = 0 /\ delivered = 0 /\ failed = 0
    /\ queue = Empty
    /\ written = Zero
    /\ reports = <<>>
    /\ topic = Empty
    /\ faults = 0

Fault(kind) ==
    /\ kind \in FaultKinds
    /\ faults < MaxFaults
    /\ faults' = faults + 1

-----------------------------------------------------------------------------
(***************************************************************************)
(* The process.                                                             *)
(***************************************************************************)

(* A container starts, again or for the first time. *)
Start ==
    /\ pc = "down"
    /\ pc' = "loop"
    /\ last' = NoEvent
    /\ first' = calls
    /\ sent' = 0 /\ delivered' = 0 /\ failed' = 0
    /\ UNCHANGED <<calls, queue, written, reports, topic, faults>>

(* next_event: the last event once more, or a new one, from which _corrupt   *)
(* may have dropped the user_id.                                             *)
NextEvents ==
    { e \in {last} : e # NoEvent }
    \cup { [id |-> calls + 1, user |-> u] : u \in Users \cup {NoUser} }

(* The key is the user_id; without one librdkafka takes any partition. *)
Targets(e) == IF e.user = NoUser THEN Partitions ELSE {PartitionOf[e.user]}

(* Reports count against the limit until they are served. *)
NeverFull == FALSE                            \* mutant: the limit is taken away
QueueFull == Outstanding + Len(reports) >= QueueLimit

(* _delivery_callback, for each report that is waiting. *)
Reported(ok) == Cardinality({ i \in 1 .. Len(reports) : reports[i] = ok })
Waiting == Len(reports)
CountErrors == Waiting                        \* mutant: errors count as deliveries too
CountDelivered == Reported(TRUE)
ErrorsForgotten == 0                          \* mutant: the callback returns on an error
CountFailed == Reported(FALSE)

ServeReports ==
    /\ delivered' = delivered + CountDelivered
    /\ failed' = failed + CountFailed
    /\ reports' = <<>>

(* send: produce, count, poll(0). *)
Send ==
    /\ pc = "loop"
    /\ calls < MaxCalls
    /\ ~QueueFull
    /\ \E e \in NextEvents : \E p \in Targets(e) :
          /\ last' = e
          /\ queue' = [queue EXCEPT ![p] = Append(@, [call |-> calls + 1, event |-> e])]
    /\ calls' = calls + 1
    /\ sent' = sent + 1
    /\ ServeReports
    /\ UNCHANGED <<pc, first, written, topic, faults>>

(* The process is gone, and its queue with it. *)
Dies ==
    /\ pc' = "down"
    /\ queue' = Empty
    /\ written' = Zero
    /\ reports' = <<>>
    /\ UNCHANGED <<generatorVars, first, sent, topic>>

(* produce() raises BufferError: nothing catches it, and nothing flushes. *)
SendOverflows ==
    /\ pc = "loop"
    /\ calls < MaxCalls
    /\ QueueFull
    /\ Dies
    /\ UNCHANGED <<delivered, failed, faults>>

(* SIGKILL, or the ten seconds that docker stop leaves are over. *)
Kill ==
    /\ pc # "down"
    /\ Fault("kill")
    /\ Dies
    /\ UNCHANGED <<delivered, failed>>

(* SIGTERM or SIGINT, seen at the top of the loop. *)
Unflushed ==                                  \* mutant: main() returns at once
    /\ pc = "loop"
    /\ Dies
    /\ UNCHANGED <<delivered, failed, faults>>
Stop ==
    /\ pc = "loop"
    /\ pc' = "flushing"
    /\ UNCHANGED <<generatorVars, counterVars, queue, written, reports, topic, faults>>

(* flush() serves reports until nothing is outstanding, or for ten seconds;  *)
(* main() then ends whatever is left.                                        *)
WaitForever == pc = "flushing" /\ Outstanding = 0     \* mutant: flush() without a timeout
FlushEnds == pc = "flushing"

Flush ==
    /\ FlushEnds
    /\ ServeReports
    /\ pc' = "down"
    /\ queue' = Empty
    /\ written' = Zero
    /\ UNCHANGED <<generatorVars, first, sent, topic, faults>>

-----------------------------------------------------------------------------
(***************************************************************************)
(* librdkafka and the broker. The broker may answer late or never.          *)
(***************************************************************************)

(* A request holds the first n messages of a queue. Of what it has already,  *)
(* because an earlier request was not answered, the broker keeps one copy.   *)
WrittenAgain(p, n) == SubSeq(queue[p], 1, n)  \* mutant: no enable.idempotence
NotYetWritten(p, n) == SubSeq(queue[p], written[p] + 1, n)

Receive(p) ==
    \E n \in written[p] + 1 .. Len(queue[p]) :
        /\ topic' = [topic EXCEPT ![p] = @ \o NotYetWritten(p, n)]
        /\ written' = [written EXCEPT ![p] = n]
        /\ UNCHANGED <<pc, generatorVars, counterVars, queue, reports, faults>>

(* acks=all: reported once it is written. *)
AnyHead(p) == queue[p] # <<>>                 \* mutant: acks=0
WrittenHead(p) == written[p] > 0

Drop(p) ==
    /\ queue' = [queue EXCEPT ![p] = Tail(@)]
    /\ written' = [written EXCEPT ![p] = IF @ = 0 THEN 0 ELSE @ - 1]

Acknowledge(p) ==
    /\ WrittenHead(p)
    /\ Drop(p)
    /\ reports' = Append(reports, TRUE)
    /\ UNCHANGED <<pc, generatorVars, counterVars, topic, faults>>

(* The retries are used up or message.timeout.ms has passed: an error, even  *)
(* if the message was written and only the answer is missing.                *)
DeliveryFails(p) ==
    /\ queue[p] # <<>>
    /\ Fault("delivery")
    /\ Drop(p)
    /\ reports' = Append(reports, FALSE)
    /\ UNCHANGED <<pc, generatorVars, counterVars, topic>>

Next ==
    \/ Start \/ Send \/ SendOverflows \/ Kill \/ Stop \/ Flush
    \/ \E p \in Partitions : Receive(p) \/ Acknowledge(p) \/ DeliveryFails(p)

Spec == Init /\ [][Next]_vars

(* Only the process itself: nothing is assumed of the broker. *)
FairSpec == Spec /\ WF_vars(Flush)

-----------------------------------------------------------------------------
(***************************************************************************)
(* Properties.                                                              *)
(***************************************************************************)

(* What main() logs can be added up: every event counted in sent_count is    *)
(* delivered, failed, about to be reported or still queued, and none is two  *)
(* of these (kafka_producer.py send, _delivery_callback).                    *)
CountersAgree ==
    pc # "down" => sent = delivered + failed + Waiting + Outstanding

(* delivered_count never overstates: this process has as many messages on    *)
(* the topic as it says (acks=all, kafka_producer.py 35-39, 60-65).          *)
Calls(s) == { s[i].call : i \in 1 .. Len(s) }

Stored == { n \in UNION { Calls(topic[p]) : p \in Partitions } : n > first }

DeliveredIsStored == delivered + Reported(TRUE) <= Cardinality(Stored)

Ordered(s) == \A i, j \in 1 .. Len(s) : i < j => s[i].call < s[j].call

(* All that a partition holds is in the order of the calls and there once    *)
(* for each call, and all that carries a key is on its user's partition:     *)
(* retries, failed deliveries and restarts never reorder or repeat a user's  *)
(* events (kafka_producer.py 40-49, 75-81; design.md section 7).             *)
TopicOrdered(p) ==
    /\ Ordered(topic[p])
    /\ \A i \in 1 .. Len(topic[p]) : p \in Targets(topic[p][i].event)

InCallOrder == \A p \in Partitions : TopicOrdered(p)

(* Why that is so: what a queue holds is in order too, on the right          *)
(* partition and not from the future; the part of it that the broker has is  *)
(* on the topic, and the rest is newer than all that is (kafka_producer.py   *)
(* 40-49, 75-90).                                                            *)
QueueOrdered(p) ==
    /\ Ordered(queue[p])
    /\ \A i \in 1 .. Len(queue[p]) :
          queue[p][i].call <= calls /\ p \in Targets(queue[p][i].event)
    /\ \A i \in 1 .. Len(topic[p]) : topic[p][i].call <= calls

WrittenOnTopic(p) ==
    \A i \in 1 .. written[p] : \E j \in 1 .. Len(topic[p]) : topic[p][j] = queue[p][i]

UnwrittenIsNewer(p) ==
    \A i \in written[p] + 1 .. Len(queue[p]), j \in 1 .. Len(topic[p]) :
        topic[p][j].call < queue[p][i].call

Sound(p) == TopicOrdered(p) /\ QueueOrdered(p) /\ WrittenOnTopic(p) /\ UnwrittenIsNewer(p)

(* Why the counters can be relied on: a call is on one partition, a process  *)
(* answers for its own calls only, and what the broker has of its queue is   *)
(* on the topic beside what it was told about (kafka_producer.py 54-72).     *)
Apart ==
    \A p, q \in Partitions :
        p # q => Calls(queue[p]) \cap (Calls(queue[q]) \cup Calls(topic[q])) = {}

OfThisProcess == \A p \in Partitions : \A n \in Calls(queue[p]) : n > first

WrittenIsStored ==
    delivered + Reported(TRUE) + Cardinality(Places(written)) <= Cardinality(Stored)

Idle == pc = "down" => queue = Empty /\ written = Zero /\ reports = <<>>

IInv ==
    /\ TypeOK
    /\ \A p \in Partitions : Sound(p)
    /\ Apart /\ OfThisProcess
    /\ Idle
    /\ CountersAgree
    /\ WrittenIsStored
    /\ IsFiniteSet(Queued)

(* An event that send() accepted stays queued until it is on the topic,      *)
(* however long the broker is away. What drops one is a delivery that the    *)
(* client gives up, a full queue, a kill or a flush that times out, and      *)
(* never a signal by itself (FAILURE_SCENARIOS.md 91: "queued, not dropped").*)
NothingDropped ==
    [][\/ faults' > faults
       \/ pc = "flushing" /\ pc' = "down"
       \/ SendOverflows
       \/ \A p \in Partitions : \A i \in 1 .. Len(queue[p]) :
             \/ \E j \in 1 .. Len(queue'[p]) : queue'[p][j] = queue[p][i]
             \/ \E j \in 1 .. Len(topic'[p]) : topic'[p][j] = queue[p][i]]_vars

(* A signal ends the process although the broker may never answer            *)
(* (kafka_producer.py flush, main.py 62-63).                               *)
StopEnds == pc = "flushing" ~> pc = "down"
=============================================================================
