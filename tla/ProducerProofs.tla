---------------------------- MODULE ProducerProofs ----------------------------
(***************************************************************************)
(* Producer, for every set of users and partitions and every limit: the     *)
(* order and the places of what is on the topic, that the counters add up   *)
(* and never overstate, that the queue stays within its limit, and that     *)
(* nothing that was accepted is dropped by a step that is not known to drop.*)
(***************************************************************************)
EXTENDS Producer, SequenceTheorems, FiniteSetTheorems, FunctionTheorems, TLAPS

(* What a message of a queue or a log is. *)
LEMMA MessageParts ==
    ASSUME NEW s \in Seq(Messages), NEW i \in 1 .. Len(s)
    PROVE  s[i] \in Messages /\ s[i].call \in Nat /\ s[i].event \in Events
<1>1. s[i] \in Messages
  BY ElementOfSeq
<1> QED
  BY <1>1 DEF Messages

(* Ordered is kept by a newer message at the end, by a newer log behind, by  *)
(* dropping the head and by taking a part.                                   *)
LEMMA AppendOrdered ==
    ASSUME NEW s \in Seq(Messages), NEW m \in Messages, Ordered(s),
           \A i \in 1 .. Len(s) : s[i].call < m.call
    PROVE  Ordered(Append(s, m))
<1> SUFFICES ASSUME NEW i \in 1 .. Len(s) + 1, NEW j \in 1 .. Len(s) + 1, i < j
             PROVE  Append(s, m)[i].call < Append(s, m)[j].call
  BY DEF Ordered
<1>1. Append(s, m)[i] = s[i] /\ i \in 1 .. Len(s)
  OBVIOUS
<1>2. CASE j = Len(s) + 1
  BY <1>1, <1>2
<1>3. CASE j \in 1 .. Len(s)
  BY <1>1, <1>3 DEF Ordered
<1> QED
  BY <1>2, <1>3

LEMMA ConcatOrdered ==
    ASSUME NEW s \in Seq(Messages), NEW t \in Seq(Messages), Ordered(s), Ordered(t),
           \A i \in 1 .. Len(s), j \in 1 .. Len(t) : s[i].call < t[j].call
    PROVE  Ordered(s \o t)
<1> SUFFICES ASSUME NEW i \in 1 .. Len(s) + Len(t), NEW j \in 1 .. Len(s) + Len(t), i < j
             PROVE  (s \o t)[i].call < (s \o t)[j].call
  BY ConcatProperties DEF Ordered
<1>1. /\ (s \o t)[i] = IF i <= Len(s) THEN s[i] ELSE t[i - Len(s)]
      /\ (s \o t)[j] = IF j <= Len(s) THEN s[j] ELSE t[j - Len(s)]
  BY ConcatProperties
<1>2. CASE j <= Len(s)
  BY <1>1, <1>2 DEF Ordered
<1>3. CASE i <= Len(s) /\ j > Len(s)
  BY <1>1, <1>3
<1>4. CASE i > Len(s)
  BY <1>1, <1>4 DEF Ordered
<1> QED
  BY <1>2, <1>3, <1>4

LEMMA TailOrdered ==
    ASSUME NEW s \in Seq(Messages), s # <<>>, Ordered(s)
    PROVE  Ordered(Tail(s))
  BY HeadTailProperties DEF Ordered

(* The messages that a request adds to a partition. *)
LEMMA NotYetWrittenParts ==
    ASSUME Typed, NEW p \in Partitions, NEW n \in written[p] + 1 .. Len(queue[p])
    PROVE  /\ NotYetWritten(p, n) \in Seq(Messages)
           /\ Len(NotYetWritten(p, n)) = n - written[p]
           /\ \A i \in 1 .. n - written[p] : NotYetWritten(p, n)[i] = queue[p][written[p] + i]
<1>1. /\ queue[p] \in Seq(Messages)
      /\ written[p] \in Nat /\ written[p] <= Len(queue[p])
  BY DEF Typed
<1>2. \A i \in written[p] + 1 .. n : queue[p][i] \in Messages
  BY <1>1, MessageParts
<1> QED
  BY <1>1, <1>2, SubSeqProperties DEF NotYetWritten

-----------------------------------------------------------------------------
(***************************************************************************)
(* Types.                                                                   *)
(***************************************************************************)

LEMMA EmptyTyped ==
    /\ Empty \in [Partitions -> Seq(Messages)]
    /\ Zero \in [Partitions -> Nat]
    /\ \A p \in Partitions : Empty[p] = <<>> /\ Len(Empty[p]) = 0 /\ Zero[p] = 0
  BY DEF Empty, Zero

LEMMA FaultTyped ==
    ASSUME Typed, NEW kind, Fault(kind)
    PROVE  faults' \in 0 .. MaxFaults /\ faults' > faults
  BY ProducerAssumption DEF Fault, Typed

(* What the generator hands over. *)
LEMMA NextEventTyped ==
    ASSUME Typed, NEW e \in NextEvents
    PROVE  e \in Events /\ Targets(e) \subseteq Partitions
<1>1. e \in Events
  BY DEF NextEvents, Events, Typed
<1>2. e.user \in Users \cup {NoUser}
  BY <1>1 DEF Events
<1> QED
  BY <1>1, <1>2, ProducerAssumption DEF Targets

(* Serving the reports counts each of them. *)
LEMMA ReportedTyped ==
    ASSUME Typed, NEW ok \in BOOLEAN
    PROVE  Reported(ok) \in Nat
<1>1. Len(reports) \in Nat
  BY DEF Typed
<1>2. IsFiniteSet(1 .. Len(reports))
  BY <1>1, FS_Interval
<1>3. IsFiniteSet({ i \in 1 .. Len(reports) : reports[i] = ok })
  BY <1>2, FS_Subset
<1> QED
  BY <1>3, FS_CardinalityType DEF Reported

LEMMA ServeTyped ==
    ASSUME Typed, ServeReports
    PROVE  delivered' \in Nat /\ failed' \in Nat /\ reports' \in Seq(BOOLEAN)
<1>1. Reported(TRUE) \in Nat /\ Reported(FALSE) \in Nat
  BY ReportedTyped
<1>2. CountDelivered \in Nat /\ CountFailed \in Nat
  BY <1>1 DEF CountDelivered, CountFailed
<1>3. reports' \in Seq(BOOLEAN)
  BY EmptySeq DEF ServeReports
<1> QED
  BY <1>2, <1>3 DEF ServeReports, Typed

LEMMA DiesTyped ==
    ASSUME Typed, Dies, UNCHANGED <<delivered, failed>>, faults' \in 0 .. MaxFaults
    PROVE  Typed'
  BY EmptyTyped DEF Dies, generatorVars, Typed

(* A head that is answered for leaves the queue and, if it was written, the  *)
(* written part.                                                             *)
LEMMA DropParts ==
    ASSUME Typed, NEW p \in Partitions, queue[p] # <<>>, Drop(p)
    PROVE  /\ queue' \in [Partitions -> Seq(Messages)]
           /\ written' \in [Partitions -> Nat]
           /\ \A q \in Partitions \ {p} : queue'[q] = queue[q] /\ written'[q] = written[q]
           /\ queue'[p] = Tail(queue[p])
           /\ Len(queue'[p]) = Len(queue[p]) - 1
           /\ \A i \in 1 .. Len(queue'[p]) : queue'[p][i] = queue[p][i + 1]
           /\ written'[p] = IF written[p] = 0 THEN 0 ELSE written[p] - 1
           /\ written'[p] <= Len(queue'[p])
<1>1. queue[p] \in Seq(Messages) /\ written[p] \in Nat /\ written[p] <= Len(queue[p])
  BY DEF Typed
<1>2. /\ Tail(queue[p]) \in Seq(Messages)
      /\ Len(Tail(queue[p])) = Len(queue[p]) - 1
      /\ \A i \in 1 .. Len(Tail(queue[p])) : Tail(queue[p])[i] = queue[p][i + 1]
  BY <1>1, HeadTailProperties
<1>3. Len(queue[p]) \in Nat \ {0}
  BY <1>1, EmptySeq
<1>4. queue'[p] = Tail(queue[p])
  BY DEF Drop, Typed
<1>5. written'[p] = IF written[p] = 0 THEN 0 ELSE written[p] - 1
  BY DEF Drop, Typed
<1>6. \A q \in Partitions \ {p} : queue'[q] = queue[q] /\ written'[q] = written[q]
  BY DEF Drop, Typed
<1>7. queue' \in [Partitions -> Seq(Messages)] /\ written' \in [Partitions -> Nat]
  BY <1>1, <1>2, <1>3 DEF Drop, Typed
<1> QED
  BY <1>1, <1>2, <1>3, <1>4, <1>5, <1>6, <1>7

LEMMA SendTyped == ASSUME Typed, Send PROVE Typed'
<1>0. PICK e \in NextEvents : \E p \in Targets(e) :
          /\ last' = e
          /\ queue' = [queue EXCEPT ![p] = Append(@, [call |-> calls + 1, event |-> e])]
  BY DEF Send
<1>1. PICK p \in Targets(e) :
          /\ last' = e
          /\ queue' = [queue EXCEPT ![p] = Append(@, [call |-> calls + 1, event |-> e])]
  BY <1>0
<1>2. e \in Events /\ p \in Partitions
  BY <1>1, NextEventTyped
<1>3. calls' = calls + 1 /\ calls' \in 0 .. MaxCalls /\ first' \in 0 .. calls' /\ sent' \in Nat
  BY ProducerAssumption DEF Send, Typed
<1>4. [call |-> calls + 1, event |-> e] \in Messages
  BY <1>2 DEF Messages, Typed
<1>5. Append(queue[p], [call |-> calls + 1, event |-> e]) \in Seq(Messages)
  BY <1>2, <1>4 DEF Typed
<1>6. /\ queue' \in [Partitions -> Seq(Messages)]
      /\ \A q \in Partitions : Len(queue[q]) <= Len(queue'[q])
  BY <1>1, <1>2, <1>5 DEF Typed
<1>7. \A q \in Partitions : written'[q] <= Len(queue'[q])
  BY <1>6 DEF Send, Typed
<1>8. delivered' \in Nat /\ failed' \in Nat /\ reports' \in Seq(BOOLEAN)
  BY ServeTyped DEF Send
<1> QED
  BY <1>1, <1>2, <1>3, <1>6, <1>7, <1>8 DEF Send, Typed

LEMMA ReceiveTyped ==
    ASSUME Typed, NEW p \in Partitions, Receive(p)
    PROVE  Typed'
<1>1. PICK n \in written[p] + 1 .. Len(queue[p]) :
          /\ topic' = [topic EXCEPT ![p] = @ \o NotYetWritten(p, n)]
          /\ written' = [written EXCEPT ![p] = n]
  BY DEF Receive
<1>2. topic[p] \o NotYetWritten(p, n) \in Seq(Messages)
  BY NotYetWrittenParts, ConcatProperties DEF Typed
<1>3. topic' \in [Partitions -> Seq(Messages)]
  BY <1>1, <1>2 DEF Typed
<1>4. /\ written' \in [Partitions -> Nat]
      /\ \A q \in Partitions : written'[q] <= Len(queue[q])
  BY <1>1 DEF Typed
<1> QED
  BY <1>3, <1>4 DEF Receive, generatorVars, counterVars, Typed

LEMMA DropTyped ==
    ASSUME Typed, NEW p \in Partitions, queue[p] # <<>>, Drop(p), NEW ok \in BOOLEAN,
           reports' = Append(reports, ok), faults' \in 0 .. MaxFaults,
           UNCHANGED <<pc, generatorVars, counterVars, topic>>
    PROVE  Typed'
<1>1. reports' \in Seq(BOOLEAN)
  BY DEF Typed
<1>2. \A q \in Partitions : written'[q] <= Len(queue'[q])
  BY DropParts DEF Typed
<1> QED
  BY <1>1, <1>2, DropParts DEF generatorVars, counterVars, Typed

(* A head that was written is there. *)
LEMMA WrittenHeadThere ==
    ASSUME Typed, NEW p \in Partitions, WrittenHead(p)
    PROVE  queue[p] # <<>>
<1>1. written[p] \in Nat /\ written[p] > 0 /\ written[p] <= Len(queue[p])
  BY DEF WrittenHead, Typed
<1>2. Len(<<>>) = 0
  OBVIOUS
<1> QED
  BY <1>1, <1>2

LEMMA TypedStep == ASSUME Typed, [Next]_vars PROVE Typed'
<1>1. CASE Start
  BY <1>1 DEF Start, NoEvent, Events, Typed
<1>2. CASE Send
  BY <1>2, SendTyped
<1>3. CASE SendOverflows
  BY <1>3, DiesTyped DEF SendOverflows, Typed
<1>4. CASE Kill
  BY <1>4, DiesTyped, FaultTyped DEF Kill
<1>5. CASE Stop
  BY <1>5 DEF Stop, generatorVars, counterVars, Typed
<1>6. CASE Flush
  BY <1>6, ServeTyped, EmptyTyped DEF Flush, generatorVars, Typed
<1>7. ASSUME NEW p \in Partitions, Receive(p) PROVE Typed'
  BY <1>7, ReceiveTyped
<1>8. ASSUME NEW p \in Partitions, Acknowledge(p) PROVE Typed'
  BY <1>8, WrittenHeadThere, DropTyped DEF Acknowledge, Typed
<1>9. ASSUME NEW p \in Partitions, DeliveryFails(p) PROVE Typed'
  BY <1>9, DropTyped, FaultTyped DEF DeliveryFails
<1>10. CASE UNCHANGED vars
  BY <1>10 DEF vars, generatorVars, counterVars, Typed
<1> QED
  BY <1>1, <1>2, <1>3, <1>4, <1>5, <1>6, <1>7, <1>8, <1>9, <1>10 DEF Next

-----------------------------------------------------------------------------
(***************************************************************************)
(* Order.                                                                   *)
(***************************************************************************)

(* A partition that a step leaves alone stays as it was. *)
LEMMA Untouched ==
    ASSUME Typed, NEW p \in Partitions, Sound(p), calls' \in Nat, calls <= calls',
           queue'[p] = queue[p], topic'[p] = topic[p], written'[p] = written[p]
    PROVE  Sound(p)'
<1>1. QueueOrdered(p)'
  <2>1. \A i \in 1 .. Len(queue[p]) : queue[p][i].call <= calls'
    BY MessageParts DEF Sound, QueueOrdered, Typed
  <2>2. \A i \in 1 .. Len(topic[p]) : topic[p][i].call <= calls'
    BY MessageParts DEF Sound, QueueOrdered, Typed
  <2> QED
    BY <2>1, <2>2 DEF Sound, QueueOrdered, Targets
<1> QED
  BY <1>1 DEF Sound, TopicOrdered, WrittenOnTopic, UnwrittenIsNewer, Targets

(* An emptied queue holds nothing that could be out of order. *)
LEMMA Emptied ==
    ASSUME Typed, NEW p \in Partitions, Sound(p), calls' = calls,
           queue' = Empty, written' = Zero, topic' = topic
    PROVE  Sound(p)'
<1>1. queue'[p] = <<>> /\ written'[p] = 0 /\ Len(queue'[p]) = 0
  BY EmptyTyped
<1> QED
  BY <1>1 DEF Sound, TopicOrdered, QueueOrdered, WrittenOnTopic, UnwrittenIsNewer, Ordered, Targets

(* send: the call is newer than all before it. *)
LEMMA SendSound ==
    ASSUME Typed, NEW p \in Partitions, Sound(p), Send
    PROVE  Sound(p)'
<1>0. PICK e \in NextEvents : \E q \in Targets(e) :
          queue' = [queue EXCEPT ![q] = Append(@, [call |-> calls + 1, event |-> e])]
  BY DEF Send
<1>1. PICK q \in Targets(e) :
          queue' = [queue EXCEPT ![q] = Append(@, [call |-> calls + 1, event |-> e])]
  BY <1>0
<1>2. calls' = calls + 1 /\ topic' = topic /\ written' = written /\ calls \in Nat
  BY DEF Send, Typed
<1>3. CASE q # p
  BY <1>1, <1>2, <1>3, Untouched DEF Typed
<1>4. CASE q = p
  <2> DEFINE m == [call |-> calls + 1, event |-> e]
  <2>1. /\ queue[p] \in Seq(Messages)
        /\ queue'[p] = Append(queue[p], m)
    BY <1>1, <1>4 DEF Typed
  <2>2. m \in Messages
    BY <1>2, NextEventTyped DEF Messages
  <2>3. \A i \in 1 .. Len(queue[p]) : queue[p][i].call < m.call
    BY <1>2, <2>1, MessageParts DEF Sound, QueueOrdered
  <2>4. \A j \in 1 .. Len(topic[p]) : topic[p][j].call < m.call /\ topic[p][j].call <= calls'
    <3>1. topic[p] \in Seq(Messages)
      BY DEF Typed
    <3>2. \A j \in 1 .. Len(topic[p]) : topic[p][j].call \in Nat /\ topic[p][j].call <= calls
      BY <3>1, MessageParts DEF Sound, QueueOrdered
    <3> QED
      BY <1>2, <3>2
  <2>5. Ordered(queue'[p])
    BY <2>1, <2>2, <2>3, AppendOrdered DEF Sound, QueueOrdered
  <2>6. /\ Len(queue'[p]) = Len(queue[p]) + 1
        /\ \A i \in 1 .. Len(queue[p]) : queue'[p][i] = queue[p][i]
        /\ queue'[p][Len(queue[p]) + 1] = m
    BY <2>1, <2>2
  <2>7. QueueOrdered(p)'
    <3>1. ASSUME NEW i \in 1 .. Len(queue'[p])
          PROVE  queue'[p][i].call <= calls' /\ p \in Targets(queue'[p][i].event)
      <4>1. CASE i \in 1 .. Len(queue[p])
        BY <4>1, <1>2, <2>1, <2>6, MessageParts DEF Sound, QueueOrdered
      <4>2. CASE i = Len(queue[p]) + 1
        BY <4>2, <1>2, <1>4, <2>6
      <4> QED
        BY <2>1, <2>6, <4>1, <4>2
    <3> QED
      BY <1>2, <2>4, <2>5, <3>1 DEF QueueOrdered, Targets
  <2>8. WrittenOnTopic(p)'
    BY <1>2, <2>1, <2>6 DEF Sound, WrittenOnTopic, Typed
  <2>9. UnwrittenIsNewer(p)'
    <3>1. ASSUME NEW i \in written[p] + 1 .. Len(queue[p]) + 1, NEW j \in 1 .. Len(topic[p])
          PROVE  topic[p][j].call < queue'[p][i].call
      <4>1. written[p] \in Nat /\ Len(queue[p]) \in Nat
        BY <2>1 DEF Typed
      <4>2. CASE i = Len(queue[p]) + 1
        BY <4>2, <2>4, <2>6
      <4>3. CASE i # Len(queue[p]) + 1
        <5>1. i \in written[p] + 1 .. Len(queue[p]) /\ i \in 1 .. Len(queue[p])
          BY <4>1, <4>3
        <5>2. topic[p][j].call < queue[p][i].call
          BY <5>1 DEF Sound, UnwrittenIsNewer
        <5> QED
          BY <5>1, <5>2, <2>6
      <4> QED
        BY <4>2, <4>3
    <3> QED
      BY <1>2, <2>6, <3>1 DEF UnwrittenIsNewer
  <2>10. TopicOrdered(p)'
    BY <1>2 DEF Sound, TopicOrdered, Targets
  <2> QED
    BY <2>7, <2>8, <2>9, <2>10 DEF Sound
<1> QED
  BY <1>3, <1>4

(* A request adds the oldest messages that are not there yet. *)
LEMMA ReceiveSound ==
    ASSUME Typed, NEW p \in Partitions, Sound(p), NEW q \in Partitions, Receive(q)
    PROVE  Sound(p)'
<1>1. PICK n \in written[q] + 1 .. Len(queue[q]) :
          /\ topic' = [topic EXCEPT ![q] = @ \o NotYetWritten(q, n)]
          /\ written' = [written EXCEPT ![q] = n]
  BY DEF Receive
<1>2. queue' = queue /\ calls' = calls
  BY DEF Receive, generatorVars
<1>3. CASE q # p
  BY <1>1, <1>2, <1>3, Untouched DEF Typed
<1>4. CASE q = p
  <2> DEFINE new == NotYetWritten(p, n)
             w == written[p]
  <2>1. /\ w \in Nat /\ n \in w + 1 .. Len(queue[p])
        /\ queue[p] \in Seq(Messages) /\ topic[p] \in Seq(Messages)
    BY <1>1, <1>4 DEF Typed
  <2>2. /\ new \in Seq(Messages)
        /\ Len(new) = n - w
        /\ \A i \in 1 .. n - w : new[i] = queue[p][w + i]
    BY <2>1, NotYetWrittenParts
  <2>3. topic'[p] = topic[p] \o new /\ written'[p] = n
    BY <1>1, <1>4 DEF Typed
  <2> HIDE DEF new, w
  <2>4. /\ Len(topic'[p]) = Len(topic[p]) + Len(new)
        /\ \A i \in 1 .. Len(topic[p]) + Len(new) : topic'[p][i] =
               IF i <= Len(topic[p]) THEN topic[p][i] ELSE new[i - Len(topic[p])]
    <3>1. /\ Len(topic[p] \o new) = Len(topic[p]) + Len(new)
          /\ \A i \in 1 .. Len(topic[p]) + Len(new) : (topic[p] \o new)[i] =
                 IF i <= Len(topic[p]) THEN topic[p][i] ELSE new[i - Len(topic[p])]
      BY <2>1, <2>2, ConcatProperties
    <3> QED
      BY <2>3, <3>1
  <2>5. ASSUME NEW i \in 1 .. Len(topic'[p])
        PROVE  \/ i \in 1 .. Len(topic[p]) /\ topic'[p][i] = topic[p][i]
               \/ \E k \in w + 1 .. n : topic'[p][i] = queue[p][k]
    <3>1. CASE i <= Len(topic[p])
      BY <3>1, <2>4
    <3>2. CASE i > Len(topic[p])
      <4> DEFINE k == i - Len(topic[p])
      <4>1. k \in 1 .. n - w
        BY <3>2, <2>1, <2>2, <2>4
      <4>2. topic'[p][i] = new[k]
        BY <3>2, <2>4
      <4> HIDE DEF k
      <4>3. w + k \in w + 1 .. n
        BY <4>1, <2>1
      <4>4. topic'[p][i] = queue[p][w + k]
        BY <4>1, <4>2, <2>2
      <4> QED
        BY <4>3, <4>4
    <3> QED
      BY <3>1, <3>2, <2>1, <2>2, <2>4
  <2>6. \A k \in 1 .. Len(queue[p]) :
            /\ queue[p][k].call \in Nat /\ queue[p][k].call <= calls
            /\ p \in Targets(queue[p][k].event)
    BY <2>1, MessageParts DEF Sound, QueueOrdered
  <2>7. Ordered(topic'[p])
    <3>1. Ordered(new)
      <4>1. ASSUME NEW i \in 1 .. Len(new), NEW j \in 1 .. Len(new), i < j
            PROVE  new[i].call < new[j].call
        <5>1. /\ w + i \in 1 .. Len(queue[p]) /\ w + j \in 1 .. Len(queue[p]) /\ w + i < w + j
              /\ i \in 1 .. n - w /\ j \in 1 .. n - w
          BY <4>1, <2>1, <2>2
        <5>2. queue[p][w + i].call < queue[p][w + j].call
          BY <5>1 DEF Sound, QueueOrdered, Ordered
        <5> QED
          BY <5>1, <5>2, <2>2
      <4> QED
        BY <4>1 DEF Ordered
    <3>2. ASSUME NEW i \in 1 .. Len(topic[p]), NEW j \in 1 .. Len(new)
          PROVE  topic[p][i].call < new[j].call
      <4>1. w + j \in w + 1 .. Len(queue[p]) /\ j \in 1 .. n - w
        BY <2>1, <2>2
      <4>2. topic[p][i].call < queue[p][w + j].call
        BY <4>1 DEF Sound, UnwrittenIsNewer, w
      <4> QED
        BY <4>1, <4>2, <2>2
    <3> QED
      BY <2>1, <2>2, <2>3, <3>1, <3>2, ConcatOrdered DEF Sound, TopicOrdered
  <2>8. TopicOrdered(p)'
    <3>1. ASSUME NEW i \in 1 .. Len(topic'[p])
          PROVE  p \in Targets(topic'[p][i].event)
      <4>1. CASE i \in 1 .. Len(topic[p]) /\ topic'[p][i] = topic[p][i]
        BY <4>1 DEF Sound, TopicOrdered
      <4>2. ASSUME NEW k \in w + 1 .. n, topic'[p][i] = queue[p][k]
            PROVE  p \in Targets(topic'[p][i].event)
        <5>1. k \in 1 .. Len(queue[p])
          BY <2>1
        <5> QED
          BY <4>2, <5>1, <2>6
      <4> QED
        BY <4>1, <4>2, <2>5
    <3> QED
      BY <2>7, <3>1 DEF TopicOrdered, Targets
  <2>9. QueueOrdered(p)'
    <3>1. ASSUME NEW i \in 1 .. Len(topic'[p])
          PROVE  topic'[p][i].call <= calls
      <4>1. CASE i \in 1 .. Len(topic[p]) /\ topic'[p][i] = topic[p][i]
        BY <4>1 DEF Sound, QueueOrdered
      <4>2. ASSUME NEW k \in w + 1 .. n, topic'[p][i] = queue[p][k]
            PROVE  topic'[p][i].call <= calls
        <5>1. k \in 1 .. Len(queue[p])
          BY <2>1
        <5> QED
          BY <4>2, <5>1, <2>6
      <4> QED
        BY <4>1, <4>2, <2>5
    <3> QED
      BY <1>2, <3>1 DEF Sound, QueueOrdered, Targets
  <2>10. WrittenOnTopic(p)'
    <3>1. ASSUME NEW i \in 1 .. n
          PROVE  \E j \in 1 .. Len(topic'[p]) : topic'[p][j] = queue[p][i]
      <4>1. CASE i <= w
        <5>1. PICK j \in 1 .. Len(topic[p]) : topic[p][j] = queue[p][i]
          BY <4>1, <2>1 DEF Sound, WrittenOnTopic, w
        <5>2. j \in 1 .. Len(topic[p]) + Len(new) /\ j <= Len(topic[p])
          BY <2>1, <2>2
        <5>3. j \in 1 .. Len(topic'[p]) /\ topic'[p][j] = topic[p][j]
          BY <2>4, <5>2
        <5> QED
          BY <5>1, <5>3
      <4>2. CASE i > w
        <5>1. /\ i - w \in 1 .. n - w
              /\ Len(topic[p]) + (i - w) \in 1 .. Len(topic'[p])
          BY <4>2, <2>1, <2>2, <2>4
        <5>2. topic'[p][Len(topic[p]) + (i - w)] = new[i - w]
          <6> DEFINE k == Len(topic[p]) + (i - w)
          <6>1. k \in 1 .. Len(topic[p]) + Len(new) /\ ~(k <= Len(topic[p]))
                /\ k - Len(topic[p]) = i - w
            <7>1. Len(topic[p]) \in Nat /\ Len(new) \in Nat /\ i - w \in 1 .. Len(new)
              BY <5>1, <2>1, <2>2
            <7> QED
              BY <7>1, <2>1
          <6> HIDE DEF k
          <6>2. topic'[p][k] = new[k - Len(topic[p])]
            BY <6>1, <2>4
          <6> QED
            BY <6>1, <6>2 DEF k
        <5>3. new[i - w] = queue[p][i]
          BY <5>1, <2>1, <2>2
        <5> QED
          BY <5>1, <5>2, <5>3
      <4> QED
        BY <4>1, <4>2, <2>1
    <3> QED
      BY <1>2, <2>3, <3>1 DEF WrittenOnTopic
  <2>11. UnwrittenIsNewer(p)'
    <3>1. ASSUME NEW i \in n + 1 .. Len(queue[p]), NEW j \in 1 .. Len(topic'[p])
          PROVE  topic'[p][j].call < queue[p][i].call
      <4>1. i \in w + 1 .. Len(queue[p])
        BY <2>1
      <4>2. CASE j \in 1 .. Len(topic[p]) /\ topic'[p][j] = topic[p][j]
        BY <4>1, <4>2 DEF Sound, UnwrittenIsNewer, w
      <4>3. ASSUME NEW k \in w + 1 .. n, topic'[p][j] = queue[p][k]
            PROVE  topic'[p][j].call < queue[p][i].call
        <5>1. k \in 1 .. Len(queue[p]) /\ i \in 1 .. Len(queue[p]) /\ k < i
          BY <2>1
        <5>2. queue[p][k].call < queue[p][i].call
          BY <5>1 DEF Sound, QueueOrdered, Ordered
        <5> QED
          BY <4>3, <5>2
      <4> QED
        BY <4>2, <4>3, <2>5
    <3> QED
      BY <1>2, <2>3, <3>1 DEF UnwrittenIsNewer
  <2> QED
    BY <2>8, <2>9, <2>10, <2>11 DEF Sound
<1> QED
  BY <1>3, <1>4

(* An answer takes the head off the queue. *)
LEMMA DropSound ==
    ASSUME Typed, NEW p \in Partitions, Sound(p), NEW q \in Partitions, queue[q] # <<>>,
           Drop(q), topic' = topic, calls' = calls
    PROVE  Sound(p)'
<1>1. CASE q # p
  BY <1>1, DropParts, Untouched DEF Typed
<1>2. CASE q = p
  <2>1. queue[p] \in Seq(Messages) /\ written[p] \in Nat /\ written[p] <= Len(queue[p])
    BY DEF Typed
  <2>2. /\ Len(queue'[p]) = Len(queue[p]) - 1
        /\ \A i \in 1 .. Len(queue'[p]) : queue'[p][i] = queue[p][i + 1]
        /\ written'[p] = IF written[p] = 0 THEN 0 ELSE written[p] - 1
    BY <1>2, DropParts
  <2>3. \A i \in 1 .. Len(queue'[p]) : i + 1 \in 1 .. Len(queue[p])
    BY <2>1, <2>2
  <2>4. QueueOrdered(p)'
    <3>1. Ordered(queue'[p])
      BY <1>2, <2>1, DropParts, TailOrdered DEF Sound, QueueOrdered
    <3> QED
      BY <3>1, <2>2, <2>3 DEF Sound, QueueOrdered, Targets
  <2>5. WrittenOnTopic(p)'
    <3>1. ASSUME NEW i \in 1 .. written'[p]
          PROVE  \E j \in 1 .. Len(topic[p]) : topic[p][j] = queue'[p][i]
      <4>1. i + 1 \in 1 .. written[p] /\ i \in 1 .. Len(queue'[p])
        BY <2>1, <2>2
      <4>2. \E j \in 1 .. Len(topic[p]) : topic[p][j] = queue[p][i + 1]
        BY <4>1 DEF Sound, WrittenOnTopic
      <4> QED
        BY <4>1, <4>2, <2>2
    <3> QED
      BY <3>1 DEF WrittenOnTopic
  <2>6. UnwrittenIsNewer(p)'
    <3>1. ASSUME NEW i \in written'[p] + 1 .. Len(queue'[p]), NEW j \in 1 .. Len(topic[p])
          PROVE  topic[p][j].call < queue'[p][i].call
      <4>1. i + 1 \in written[p] + 1 .. Len(queue[p]) /\ i \in 1 .. Len(queue'[p])
        BY <2>1, <2>2
      <4>2. topic[p][j].call < queue[p][i + 1].call
        BY <4>1 DEF Sound, UnwrittenIsNewer
      <4> QED
        BY <4>1, <4>2, <2>2
    <3> QED
      BY <3>1 DEF UnwrittenIsNewer
  <2> QED
    BY <2>4, <2>5, <2>6 DEF Sound, TopicOrdered, Targets
<1> QED
  BY <1>1, <1>2

-----------------------------------------------------------------------------
(***************************************************************************)
(* Counting.                                                                *)
(***************************************************************************)

LEMMA InPlaces ==
    ASSUME NEW f \in [Partitions -> Nat], NEW x
    PROVE  x \in Places(f) <=> \E p \in Partitions : \E i \in 1 .. f[p] : x = <<p, i>>
  BY DEF Places

(* One place more.                                                           *)
LEMMA PlaceAdded ==
    ASSUME NEW f \in [Partitions -> Nat], NEW g \in [Partitions -> Nat],
           NEW p \in Partitions, g[p] = f[p] + 1, \A q \in Partitions \ {p} : g[q] = f[q]
    PROVE  Places(g) = Places(f) \cup {<<p, g[p]>>} /\ <<p, g[p]>> \notin Places(f)
<1>1. <<p, g[p]>> \notin Places(f)
  <2> SUFFICES ASSUME NEW q \in Partitions, NEW i \in 1 .. f[q], <<p, g[p]>> = <<q, i>>
               PROVE  FALSE
    BY InPlaces
  <2> QED
    OBVIOUS
<1>2. ASSUME NEW x \in Places(f) PROVE x \in Places(g)
  <2>1. PICK q \in Partitions : \E i \in 1 .. f[q] : x = <<q, i>>
    BY <1>2, InPlaces
  <2>2. PICK i \in 1 .. f[q] : x = <<q, i>>
    BY <2>1
  <2>3. i \in 1 .. g[q]
    OBVIOUS
  <2> QED
    BY <2>2, <2>3, InPlaces
<1>3. <<p, g[p]>> \in Places(g)
  <2>1. g[p] \in 1 .. g[p]
    OBVIOUS
  <2> QED
    BY <2>1, InPlaces
<1>4. ASSUME NEW x \in Places(g) PROVE x \in Places(f) \/ x = <<p, g[p]>>
  <2>1. PICK q \in Partitions : \E i \in 1 .. g[q] : x = <<q, i>>
    BY <1>4, InPlaces
  <2>2. PICK i \in 1 .. g[q] : x = <<q, i>>
    BY <2>1
  <2>3. CASE q = p
    <3>1. f[p] \in Nat /\ (i \in 1 .. f[p] \/ i = g[p])
      BY <2>3
    <3> QED
      BY <2>2, <2>3, <3>1, InPlaces
  <2>4. CASE q # p
    BY <2>2, <2>4, InPlaces
  <2> QED
    BY <2>3, <2>4
<1> QED
  BY <1>1, <1>2, <1>3, <1>4

LEMMA PlacesCounted ==
    ASSUME NEW f \in [Partitions -> Nat], NEW g \in [Partitions -> Nat],
           NEW p \in Partitions, g[p] = f[p] + 1, \A q \in Partitions \ {p} : g[q] = f[q]
    PROVE  /\ IsFiniteSet(Places(f)) <=> IsFiniteSet(Places(g))
           /\ IsFiniteSet(Places(f)) =>
                 /\ Cardinality(Places(f)) \in Nat
                 /\ Cardinality(Places(g)) = Cardinality(Places(f)) + 1
<1>1. Places(g) = Places(f) \cup {<<p, g[p]>>} /\ <<p, g[p]>> \notin Places(f)
  BY PlaceAdded
<1>2. IsFiniteSet(Places(g)) => IsFiniteSet(Places(f))
  BY <1>1, FS_Subset
<1>3. ASSUME IsFiniteSet(Places(f))
      PROVE  /\ IsFiniteSet(Places(g))
             /\ Cardinality(Places(f)) \in Nat
             /\ Cardinality(Places(g)) = Cardinality(Places(f)) + 1
  BY <1>1, <1>3, FS_AddElement, FS_CardinalityType
<1> QED
  BY <1>2, <1>3

LEMMA NoPlaces ==
    ASSUME NEW f \in [Partitions -> Nat], \A p \in Partitions : f[p] = 0
    PROVE  Places(f) = {} /\ IsFiniteSet(Places(f)) /\ Cardinality(Places(f)) = 0
<1>1. \A x : x \notin Places(f)
  BY InPlaces
<1> QED
  BY <1>1, FS_EmptySet

LEMMA QueuedParts ==
    ASSUME Typed
    PROVE  [p \in Partitions |-> Len(queue[p])] \in [Partitions -> Nat]
  BY DEF Typed

LEMMA NothingQueued ==
    /\ Cardinality(Places([p \in Partitions |-> Len(Empty[p])])) = 0
    /\ IsFiniteSet(Places([p \in Partitions |-> Len(Empty[p])]))
<1> DEFINE f == [p \in Partitions |-> Len(Empty[p])]
<1>1. f \in [Partitions -> Nat] /\ \A p \in Partitions : f[p] = 0
  BY EmptyTyped
<1> HIDE DEF f
<1>2. Cardinality(Places(f)) = 0 /\ IsFiniteSet(Places(f))
  BY <1>1, NoPlaces
<1> QED
  BY <1>2 DEF f

LEMMA QueueEmptied ==
    ASSUME queue' = Empty
    PROVE  Outstanding' = 0 /\ IsFiniteSet(Queued)'
<1>1. Queued' = Places([p \in Partitions |-> Len(Empty[p])])
  BY DEF Queued, Places
<1> QED
  BY <1>1, NothingQueued DEF Outstanding

(* What send and an answer do to the number of outstanding messages.         *)
LEMMA OneMoreQueued ==
    ASSUME Typed, Typed', IsFiniteSet(Queued), NEW p \in Partitions,
           Len(queue'[p]) = Len(queue[p]) + 1,
           \A q \in Partitions \ {p} : queue'[q] = queue[q]
    PROVE  IsFiniteSet(Queued)' /\ Outstanding \in Nat /\ Outstanding' = Outstanding + 1
<1> DEFINE f == [q \in Partitions |-> Len(queue[q])]
           g == [q \in Partitions |-> Len(queue'[q])]
<1>1. /\ f \in [Partitions -> Nat] /\ g \in [Partitions -> Nat]
      /\ g[p] = f[p] + 1 /\ \A q \in Partitions \ {p} : g[q] = f[q]
  <2>1. /\ queue \in [Partitions -> Seq(Messages)]
        /\ queue' \in [Partitions -> Seq(Messages)]
    BY DEF Typed
  <2>2. \A q \in Partitions : Len(queue[q]) \in Nat /\ Len(queue'[q]) \in Nat
    BY <2>1
  <2> QED
    BY <2>2
<1>2. IsFiniteSet(Places(f)) /\ Queued = Places(f) /\ Queued' = Places(g)
  BY DEF Queued, Places
<1> HIDE DEF f, g
<1>3. /\ IsFiniteSet(Places(g)) /\ Cardinality(Places(f)) \in Nat
      /\ Cardinality(Places(g)) = Cardinality(Places(f)) + 1
  BY <1>1, <1>2, PlacesCounted
<1> QED
  BY <1>2, <1>3 DEF Outstanding

LEMMA OneLessQueued ==
    ASSUME Typed, Typed', IsFiniteSet(Queued), NEW p \in Partitions,
           Len(queue'[p]) = Len(queue[p]) - 1,
           \A q \in Partitions \ {p} : queue'[q] = queue[q]
    PROVE  IsFiniteSet(Queued)' /\ Outstanding' \in Nat /\ Outstanding = Outstanding' + 1
<1> DEFINE f == [q \in Partitions |-> Len(queue[q])]
           g == [q \in Partitions |-> Len(queue'[q])]
<1>1. /\ f \in [Partitions -> Nat] /\ g \in [Partitions -> Nat]
      /\ f[p] = g[p] + 1 /\ \A q \in Partitions \ {p} : f[q] = g[q]
  <2>1. /\ queue \in [Partitions -> Seq(Messages)]
        /\ queue' \in [Partitions -> Seq(Messages)]
    BY DEF Typed
  <2>2. \A q \in Partitions : Len(queue[q]) \in Nat /\ Len(queue'[q]) \in Nat
    BY <2>1
  <2> QED
    BY <2>2
<1>2. IsFiniteSet(Places(f)) /\ Queued = Places(f) /\ Queued' = Places(g)
  BY DEF Queued, Places
<1> HIDE DEF f, g
<1>3. /\ IsFiniteSet(Places(g)) /\ Cardinality(Places(g)) \in Nat
      /\ Cardinality(Places(f)) = Cardinality(Places(g)) + 1
  BY <1>1, <1>2, PlacesCounted
<1> QED
  BY <1>2, <1>3 DEF Outstanding

(* The reports: each is of one kind.                                         *)
LEMMA ReportsSplit ==
    ASSUME Typed
    PROVE  /\ Reported(TRUE) \in Nat /\ Reported(FALSE) \in Nat
           /\ Reported(TRUE) + Reported(FALSE) = Len(reports)
<1> DEFINE T == { i \in 1 .. Len(reports) : reports[i] = TRUE }
           F == { i \in 1 .. Len(reports) : reports[i] = FALSE }
<1>1. reports \in Seq(BOOLEAN) /\ Len(reports) \in Nat
  BY DEF Typed
<1>2. IsFiniteSet(1 .. Len(reports)) /\ Cardinality(1 .. Len(reports)) = Len(reports)
  BY <1>1, FS_Interval
<1>3. IsFiniteSet(T) /\ IsFiniteSet(F)
  BY <1>2, FS_Subset
<1>4. T \cap F = {}
  OBVIOUS
<1>5. T \cup F = 1 .. Len(reports)
  <2>1. \A i \in 1 .. Len(reports) : reports[i] \in BOOLEAN
    BY <1>1, ElementOfSeq
  <2> QED
    BY <2>1
<1> HIDE DEF T, F
<1>6. Cardinality(T \cup F) = Cardinality(T) + Cardinality(F) - Cardinality({})
  BY <1>3, <1>4, FS_Union
<1>7. Cardinality(T) \in Nat /\ Cardinality(F) \in Nat
  BY <1>3, FS_CardinalityType
<1>8. Cardinality(T) + Cardinality(F) = Len(reports)
  <2>1. Cardinality({}) = 0
    BY FS_EmptySet
  <2>2. Cardinality(T \cup F) = Len(reports)
    BY <1>2, <1>5
  <2> QED
    BY <1>6, <1>7, <2>1, <2>2
<1> QED
  BY <1>7, <1>8 DEF Reported, T, F

LEMMA NothingReported ==
    ASSUME reports' = <<>>
    PROVE  Reported(TRUE)' = 0 /\ Reported(FALSE)' = 0 /\ Len(reports') = 0
<1>1. ASSUME NEW ok PROVE { i \in 1 .. Len(reports') : reports'[i] = ok } = {}
  OBVIOUS
<1> QED
  BY <1>1, FS_EmptySet DEF Reported

LEMMA OneMoreReport ==
    ASSUME Typed, NEW ok \in BOOLEAN, reports' = Append(reports, ok)
    PROVE  /\ Len(reports') = Len(reports) + 1
           /\ Reported(ok)' = Reported(ok) + 1
           /\ Reported(~ok)' = Reported(~ok)
<1> DEFINE Old(b) == { i \in 1 .. Len(reports) : reports[i] = b }
           New(b) == { i \in 1 .. Len(reports') : reports'[i] = b }
           n == Len(reports) + 1
<1>1. /\ reports \in Seq(BOOLEAN) /\ Len(reports) \in Nat /\ Len(reports') = n
      /\ \A i \in 1 .. Len(reports) : reports'[i] = reports[i]
      /\ reports'[n] = ok /\ n \notin 1 .. Len(reports)
      /\ 1 .. n = 1 .. Len(reports) \cup {n}
  BY DEF Typed
<1>2. IsFiniteSet(1 .. Len(reports))
  BY <1>1, FS_Interval
<1>3. \A b : Old(b) \in SUBSET (1 .. Len(reports))
  OBVIOUS
<1>4. IsFiniteSet(Old(ok))
  BY <1>2, <1>3, FS_Subset
<1>5. New(ok) = Old(ok) \cup {n} /\ n \notin Old(ok)
  BY <1>1
<1>6. New(~ok) = Old(~ok)
  BY <1>1
<1> HIDE DEF Old, New
<1>7. Cardinality(New(ok)) = Cardinality(Old(ok)) + 1
  BY <1>4, <1>5, FS_AddElement
<1> QED
  BY <1>1, <1>6, <1>7 DEF Reported, Old, New

(* The calls of a queue that grows, and of one whose head is taken.          *)
LEMMA CallsAppended ==
    ASSUME NEW s \in Seq(Messages), NEW m \in Messages
    PROVE  Calls(Append(s, m)) = Calls(s) \cup {m.call}
<1>1. /\ Len(Append(s, m)) = Len(s) + 1
      /\ \A i \in 1 .. Len(s) : Append(s, m)[i] = s[i]
      /\ Append(s, m)[Len(s) + 1] = m
      /\ 1 .. Len(s) + 1 = (1 .. Len(s)) \cup {Len(s) + 1}
  OBVIOUS
<1> QED
  BY <1>1 DEF Calls

LEMMA CallsOfTail ==
    ASSUME NEW s \in Seq(Messages), s # <<>>
    PROVE  Calls(Tail(s)) \subseteq Calls(s)
<1>1. /\ Len(Tail(s)) = Len(s) - 1
      /\ \A i \in 1 .. Len(Tail(s)) : Tail(s)[i] = s[i + 1]
  BY HeadTailProperties
<1>2. \A i \in 1 .. Len(Tail(s)) : i + 1 \in 1 .. Len(s)
  BY <1>1
<1> QED
  BY <1>1, <1>2 DEF Calls

(* What send does to the queues.                                            *)
LEMMA SendParts ==
    ASSUME Typed, Send
    PROVE  \E p \in Partitions :
              /\ Len(queue'[p]) = Len(queue[p]) + 1
              /\ Calls(queue'[p]) = Calls(queue[p]) \cup {calls + 1}
              /\ \A q \in Partitions \ {p} : queue'[q] = queue[q]
<1>1. PICK e \in NextEvents : \E p \in Targets(e) :
          queue' = [queue EXCEPT ![p] = Append(@, [call |-> calls + 1, event |-> e])]
  BY DEF Send
<1>2. PICK p \in Targets(e) :
          queue' = [queue EXCEPT ![p] = Append(@, [call |-> calls + 1, event |-> e])]
  BY <1>1
<1> DEFINE m == [call |-> calls + 1, event |-> e]
<1>3. p \in Partitions /\ m \in Messages
  <2>1. e \in Events /\ p \in Partitions /\ calls + 1 \in Nat
    BY NextEventTyped DEF Typed
  <2> QED
    BY <2>1 DEF Messages
<1>4. /\ queue[p] \in Seq(Messages) /\ queue'[p] = Append(queue[p], m)
      /\ \A q \in Partitions \ {p} : queue'[q] = queue[q]
  BY <1>2, <1>3 DEF Typed
<1>5. m.call = calls + 1
  OBVIOUS
<1> HIDE DEF m
<1>6. Calls(queue'[p]) = Calls(queue[p]) \cup {calls + 1}
  BY <1>3, <1>4, <1>5, CallsAppended
<1>7. Len(queue'[p]) = Len(queue[p]) + 1
  BY <1>3, <1>4
<1> QED
  BY <1>3, <1>4, <1>6, <1>7

(* The counters of a process add up in every step (kafka_producer.py 54-72). *)
LEMMA CountersStep ==
    ASSUME IInv, Typed', [Next]_vars
    PROVE  CountersAgree' /\ TypeOK' /\ IsFiniteSet(Queued)'
<1> USE DEF Waiting
<1>1. /\ Typed /\ Idle /\ CountersAgree /\ IsFiniteSet(Queued)
      /\ Outstanding + Len(reports) <= QueueLimit
      /\ Outstanding \in Nat /\ Len(reports) \in Nat
      /\ sent \in Nat /\ delivered \in Nat /\ failed \in Nat /\ QueueLimit \in Nat
  <2>1. /\ Typed /\ Idle /\ CountersAgree /\ IsFiniteSet(Queued)
        /\ Outstanding + Len(reports) <= QueueLimit
    BY Zenon DEF IInv, TypeOK
  <2>2. Outstanding \in Nat
    BY <2>1, FS_CardinalityType DEF Outstanding
  <2>3. Len(reports) \in Nat /\ sent \in Nat /\ delivered \in Nat /\ failed \in Nat
    BY <2>1 DEF Typed
  <2>4. QueueLimit \in Nat
    BY ProducerAssumption
  <2> QED
    BY <2>1, <2>2, <2>3, <2>4, Zenon
<1>2. /\ Reported(TRUE) \in Nat /\ Reported(FALSE) \in Nat
      /\ Reported(TRUE) + Reported(FALSE) = Len(reports)
  BY <1>1, ReportsSplit
<1>3. CASE Start
  <2>1. queue' = queue /\ reports' = reports /\ queue = Empty /\ reports = <<>>
    BY <1>1, <1>3 DEF Start, Idle
  <2>2. Outstanding' = 0 /\ IsFiniteSet(Queued)' /\ Len(reports') = 0
    BY <2>1, QueueEmptied
  <2>3. sent' = 0 /\ delivered' = 0 /\ failed' = 0
    BY <1>3 DEF Start
  <2> QED
    BY <1>1, <2>2, <2>3 DEF CountersAgree, TypeOK
<1>4. CASE Send
  <2>1. PICK p \in Partitions :
            /\ Len(queue'[p]) = Len(queue[p]) + 1
            /\ \A q \in Partitions \ {p} : queue'[q] = queue[q]
    BY <1>1, <1>4, SendParts
  <2>2. IsFiniteSet(Queued)' /\ Outstanding' = Outstanding + 1
    BY <1>1, <2>1, OneMoreQueued
  <2>3. /\ sent' = sent + 1 /\ reports' = <<>> /\ pc = "loop"
        /\ delivered' = delivered + Reported(TRUE) /\ failed' = failed + Reported(FALSE)
        /\ ~(Outstanding + Len(reports) >= QueueLimit)
    BY <1>4 DEF Send, ServeReports, CountDelivered, CountFailed, QueueFull
  <2>4. Len(reports') = 0 /\ sent = delivered + failed + Len(reports) + Outstanding
    BY <1>1, <2>3 DEF CountersAgree
  <2>5. sent' = delivered' + failed' + Len(reports') + Outstanding'
    <3> DEFINE ok == Reported(TRUE)
               bad == Reported(FALSE)
    <3>1. /\ ok \in Nat /\ bad \in Nat /\ ok + bad = Len(reports)
          /\ delivered' = delivered + ok /\ failed' = failed + bad /\ sent' = sent + 1
      BY <1>2, <2>3, Zenon
    <3> HIDE DEF ok, bad
    <3> QED
      BY <1>1, <2>2, <2>4, <3>1
  <2>6. Outstanding' + Len(reports') <= QueueLimit
    BY <1>1, <2>2, <2>3, <2>4
  <2> QED
    BY <2>2, <2>5, <2>6 DEF CountersAgree, TypeOK
<1>5. CASE SendOverflows \/ Kill \/ Flush
  <2>1. pc' = "down" /\ queue' = Empty /\ reports' = <<>>
    BY <1>5 DEF SendOverflows, Kill, Flush, Dies, ServeReports
  <2>2. Outstanding' = 0 /\ IsFiniteSet(Queued)' /\ Len(reports') = 0
    BY <2>1, QueueEmptied
  <2> QED
    BY <1>1, <2>1, <2>2 DEF CountersAgree, TypeOK
<1>6. CASE UNCHANGED <<queue, reports, sent, delivered, failed>> /\ (pc = "down" => pc' = "down")
  <2>1. Outstanding' = Outstanding /\ IsFiniteSet(Queued)'
    BY <1>1, <1>6 DEF Outstanding, Queued
  <2> QED
    BY <1>1, <1>6, <2>1 DEF CountersAgree, TypeOK
<1>7. ASSUME NEW p \in Partitions, NEW ok \in BOOLEAN, queue[p] # <<>>, Drop(p),
             reports' = Append(reports, ok), UNCHANGED <<pc, sent, delivered, failed>>
      PROVE  CountersAgree' /\ TypeOK' /\ IsFiniteSet(Queued)'
  <2>1. /\ Len(queue'[p]) = Len(queue[p]) - 1
        /\ \A q \in Partitions \ {p} : queue'[q] = queue[q]
    BY <1>1, <1>7, DropParts
  <2>2. IsFiniteSet(Queued)' /\ Outstanding' \in Nat /\ Outstanding = Outstanding' + 1
    BY <1>1, <2>1, OneLessQueued
  <2>3. Len(reports') = Len(reports) + 1
    BY <1>1, <1>7, OneMoreReport
  <2>4. Outstanding' + Len(reports') = Outstanding + Len(reports)
    BY <1>1, <2>2, <2>3
  <2>5. failed + Len(reports') + Outstanding' = failed + Len(reports) + Outstanding
    BY <1>1, <2>2, <2>3
  <2>6. pc # "down" => sent = delivered + failed + Len(reports') + Outstanding'
    BY <1>1, <2>2, <2>3 DEF CountersAgree
  <2> QED
    BY <1>1, <1>7, <2>2, <2>4, <2>6 DEF CountersAgree, TypeOK
<1>8. ASSUME NEW p \in Partitions, Acknowledge(p) \/ DeliveryFails(p)
      PROVE  CountersAgree' /\ TypeOK' /\ IsFiniteSet(Queued)'
  <2>1. CASE Acknowledge(p)
    BY <1>1, <1>7, <2>1, WrittenHeadThere DEF Acknowledge, counterVars
  <2>2. CASE DeliveryFails(p)
    BY <1>7, <2>2 DEF DeliveryFails, counterVars
  <2> QED
    BY <1>8, <2>1, <2>2
<1>9. CASE Stop \/ (\E p \in Partitions : Receive(p)) \/ UNCHANGED vars
  BY <1>6, <1>9 DEF Stop, Receive, vars, counterVars
<1> QED
  BY <1>3, <1>4, <1>5, <1>8, <1>9 DEF Next

-----------------------------------------------------------------------------
(***************************************************************************)
(* Whose calls are where.                                                   *)
(***************************************************************************)

LEMMA CallsJoined ==
    ASSUME NEW s \in Seq(Messages), NEW t \in Seq(Messages)
    PROVE  Calls(s \o t) = Calls(s) \cup Calls(t)
<1>1. /\ Len(s) \in Nat /\ Len(t) \in Nat
      /\ Len(s \o t) = Len(s) + Len(t)
      /\ \A i \in 1 .. Len(s) + Len(t) :
            (s \o t)[i] = IF i <= Len(s) THEN s[i] ELSE t[i - Len(s)]
  BY ConcatProperties
<1>2. ASSUME NEW i \in 1 .. Len(s) + Len(t)
      PROVE  (s \o t)[i].call \in Calls(s) \cup Calls(t)
  <2>1. CASE i <= Len(s)
    BY <1>1, <2>1 DEF Calls
  <2>2. CASE i > Len(s)
    <3>1. i - Len(s) \in 1 .. Len(t) /\ (s \o t)[i] = t[i - Len(s)]
      BY <1>1, <2>2
    <3> QED
      BY <3>1 DEF Calls
  <2> QED
    BY <2>1, <2>2
<1>3. ASSUME NEW i \in 1 .. Len(s)
      PROVE  s[i].call \in Calls(s \o t)
  <2>1. i \in 1 .. Len(s) + Len(t) /\ (s \o t)[i] = s[i]
    BY <1>1
  <2> QED
    BY <1>1, <2>1 DEF Calls
<1>4. ASSUME NEW i \in 1 .. Len(t)
      PROVE  t[i].call \in Calls(s \o t)
  <2> DEFINE k == Len(s) + i
  <2>1. k \in 1 .. Len(s) + Len(t) /\ ~(k <= Len(s)) /\ k - Len(s) = i
    BY <1>1
  <2> HIDE DEF k
  <2>2. (s \o t)[k] = t[i]
    BY <1>1, <2>1
  <2> QED
    BY <1>1, <2>1, <2>2 DEF Calls
<1>5. Calls(s) \subseteq Calls(s \o t) /\ Calls(t) \subseteq Calls(s \o t)
  BY <1>3, <1>4 DEF Calls
<1>6. Calls(s \o t) \subseteq Calls(s) \cup Calls(t)
  BY <1>1, <1>2 DEF Calls
<1> QED
  BY <1>5, <1>6

(* The calls that a request adds to a topic.                                 *)
NewCalls(p, n) == { queue[p][k].call : k \in written[p] + 1 .. n }

LEMMA CallsReceived ==
    ASSUME Typed, NEW p \in Partitions, NEW n \in written[p] + 1 .. Len(queue[p]),
           topic' = [topic EXCEPT ![p] = @ \o NotYetWritten(p, n)]
    PROVE  /\ Calls(topic'[p]) = Calls(topic[p]) \cup NewCalls(p, n)
           /\ NewCalls(p, n) \subseteq Calls(queue[p])
           /\ \A q \in Partitions \ {p} : topic'[q] = topic[q]
<1> DEFINE new == NotYetWritten(p, n)
           w == written[p]
<1>1. /\ w \in Nat /\ n \in w + 1 .. Len(queue[p])
      /\ queue[p] \in Seq(Messages) /\ topic[p] \in Seq(Messages)
      /\ topic'[p] = topic[p] \o new
      /\ \A q \in Partitions \ {p} : topic'[q] = topic[q]
  BY DEF Typed
<1>2. /\ new \in Seq(Messages) /\ Len(new) = n - w
      /\ \A i \in 1 .. n - w : new[i] = queue[p][w + i]
  BY NotYetWrittenParts
<1>3. NewCalls(p, n) = { queue[p][k].call : k \in w + 1 .. n }
  BY DEF NewCalls
<1> HIDE DEF new, w
<1>4. ASSUME NEW i \in 1 .. Len(new)
      PROVE  new[i].call \in NewCalls(p, n)
  <2>1. i \in 1 .. n - w /\ w + i \in w + 1 .. n
    BY <1>1, <1>2
  <2> QED
    BY <1>2, <1>3, <2>1
<1>5. ASSUME NEW k \in w + 1 .. n
      PROVE  queue[p][k].call \in Calls(new)
  <2> DEFINE i == k - w
  <2>1. i \in 1 .. n - w /\ w + i = k /\ i \in 1 .. Len(new)
    BY <1>1, <1>2
  <2> HIDE DEF i
  <2>2. new[i] = queue[p][k]
    BY <1>2, <2>1
  <2> QED
    BY <2>1, <2>2 DEF Calls
<1>6. Calls(new) = NewCalls(p, n)
  <2>1. Calls(new) \subseteq NewCalls(p, n)
    BY <1>4 DEF Calls
  <2>2. NewCalls(p, n) \subseteq Calls(new)
    BY <1>3, <1>5
  <2> QED
    BY <2>1, <2>2
<1>7. w + 1 .. n \subseteq 1 .. Len(queue[p])
  BY <1>1
<1>8. NewCalls(p, n) \subseteq Calls(queue[p])
  BY <1>3, <1>7 DEF Calls
<1>9. Calls(topic'[p]) = Calls(topic[p]) \cup Calls(new)
  BY <1>1, <1>2, CallsJoined
<1> QED
  BY <1>1, <1>6, <1>8, <1>9

LEMMA CallsArePast ==
    ASSUME Typed, NEW p \in Partitions, Sound(p)
    PROVE  \A n \in Calls(queue[p]) \cup Calls(topic[p]) : n \in 0 .. calls
<1>1. /\ queue[p] \in Seq(Messages) /\ topic[p] \in Seq(Messages) /\ calls \in Nat
  BY DEF Typed
<1>2. \A i \in 1 .. Len(queue[p]) : queue[p][i].call \in Nat /\ queue[p][i].call <= calls
  BY <1>1, MessageParts DEF Sound, QueueOrdered
<1>3. \A i \in 1 .. Len(topic[p]) : topic[p][i].call \in Nat /\ topic[p][i].call <= calls
  BY <1>1, MessageParts DEF Sound, QueueOrdered
<1> QED
  BY <1>1, <1>2, <1>3 DEF Calls

LEMMA StayApart ==
    ASSUME Apart, OfThisProcess, first' = first,
           \A p \in Partitions :
              /\ Calls(queue'[p]) \subseteq Calls(queue[p])
              /\ Calls(topic'[p]) \subseteq Calls(topic[p]) \cup Calls(queue[p])
    PROVE  Apart' /\ OfThisProcess'
<1>1. ASSUME NEW p \in Partitions, NEW q \in Partitions, p # q
      PROVE  Calls(queue'[p]) \cap (Calls(queue'[q]) \cup Calls(topic'[q])) = {}
  BY <1>1 DEF Apart
<1>2. Apart'
  BY <1>1 DEF Apart, Calls
<1>3. OfThisProcess'
  BY DEF OfThisProcess, Calls
<1> QED
  BY <1>2, <1>3

LEMMA ApartStep ==
    ASSUME IInv, Typed', [Next]_vars
    PROVE  Apart' /\ OfThisProcess' /\ Idle'
<1>1. /\ Typed /\ Apart /\ OfThisProcess /\ Idle /\ calls \in Nat /\ first \in Nat
      /\ \A p \in Partitions : queue[p] \in Seq(Messages) /\ topic[p] \in Seq(Messages)
  BY DEF IInv, TypeOK, Typed
<1>2. \A p \in Partitions : \A n \in Calls(queue[p]) \cup Calls(topic[p]) : n \in 0 .. calls
  BY <1>1, CallsArePast DEF IInv
<1>3. ASSUME queue' = Empty
      PROVE  Apart' /\ OfThisProcess'
  <2>1. \A p \in Partitions : queue'[p] = <<>> /\ Len(queue'[p]) = 0
    BY <1>3, EmptyTyped
  <2>2. \A p \in Partitions : Calls(queue'[p]) = {}
    BY <2>1 DEF Calls
  <2> QED
    BY <2>2 DEF Apart, OfThisProcess, Calls
<1>4. CASE Start
  <2>1. queue' = Empty /\ pc' = "loop"
    BY <1>1, <1>4 DEF Start, Idle
  <2> QED
    BY <1>3, <2>1 DEF Idle
<1>5. CASE Send
  <2>1. PICK p \in Partitions :
            /\ Calls(queue'[p]) = Calls(queue[p]) \cup {calls + 1}
            /\ \A q \in Partitions \ {p} : queue'[q] = queue[q]
    BY <1>1, <1>5, SendParts
  <2>2. topic' = topic /\ first' = first /\ pc' = "loop"
    BY <1>5 DEF Send
  <2>3. \A q \in Partitions : calls + 1 \notin Calls(queue[q]) \cup Calls(topic[q])
    <3>1. calls + 1 \notin 0 .. calls
      BY <1>1
    <3> QED
      BY <1>2, <3>1
  <2>4. first \in 0 .. calls
    BY <1>1 DEF Typed
  <2>5. ASSUME NEW a \in Partitions, NEW b \in Partitions, a # b
        PROVE  Calls(queue'[a]) \cap (Calls(queue'[b]) \cup Calls(topic'[b])) = {}
    BY <1>1, <2>1, <2>2, <2>3, <2>5 DEF Apart
  <2>6. ASSUME NEW a \in Partitions, NEW n \in Calls(queue'[a])
        PROVE  n > first
    <3>1. CASE n \in Calls(queue[a])
      BY <1>1, <3>1 DEF OfThisProcess
    <3>2. CASE n = calls + 1
      BY <1>1, <2>4, <3>2
    <3> QED
      BY <2>1, <3>1, <3>2
  <2>7. Apart' /\ OfThisProcess'
    BY <2>2, <2>5, <2>6 DEF Apart, OfThisProcess, Calls
  <2> QED
    BY <2>2, <2>7 DEF Idle
<1>6. CASE SendOverflows \/ Kill \/ Flush
  <2>1. queue' = Empty /\ written' = Zero /\ reports' = <<>>
    BY <1>6 DEF SendOverflows, Kill, Flush, Dies, ServeReports
  <2> QED
    BY <1>3, <2>1 DEF Idle, Empty, Zero
<1>7. CASE Stop \/ UNCHANGED vars
  <2>1. UNCHANGED <<queue, topic, written, reports, first>> /\ (pc' = "down" => pc = "down")
    BY <1>7 DEF Stop, vars, counterVars
  <2> QED
    BY <1>1, <2>1, StayApart DEF Idle, Empty, Zero
<1>8. ASSUME NEW p \in Partitions, queue[p] # <<>>
      PROVE  pc # "down"
  BY <1>1, <1>8, EmptyTyped DEF Idle
<1>9. ASSUME NEW p \in Partitions, Receive(p)
      PROVE  Apart' /\ OfThisProcess' /\ Idle'
  <2>1. PICK n \in written[p] + 1 .. Len(queue[p]) :
            topic' = [topic EXCEPT ![p] = @ \o NotYetWritten(p, n)]
    BY <1>9 DEF Receive
  <2>2. UNCHANGED <<queue, pc, first>>
    BY <1>9 DEF Receive, counterVars
  <2>3. \A q \in Partitions : Calls(topic'[q]) \subseteq Calls(topic[q]) \cup Calls(queue[q])
    BY <1>1, <2>1, CallsReceived
  <2>4. queue[p] # <<>>
    <3>1. written[p] \in Nat /\ Len(<<>>) = 0
      BY <1>1 DEF Typed
    <3> QED
      BY <2>1, <3>1
  <2> QED
    BY <1>1, <1>8, <2>2, <2>3, <2>4, StayApart DEF Idle
<1>10. ASSUME NEW p \in Partitions, queue[p] # <<>>, Drop(p), UNCHANGED <<topic, first, pc>>
       PROVE  Apart' /\ OfThisProcess' /\ Idle'
  <2>1. /\ queue'[p] = Tail(queue[p])
        /\ \A q \in Partitions \ {p} : queue'[q] = queue[q]
    BY <1>1, <1>10, DropParts
  <2>2. \A q \in Partitions : Calls(queue'[q]) \subseteq Calls(queue[q])
    BY <1>1, <1>10, <2>1, CallsOfTail
  <2> QED
    BY <1>1, <1>8, <1>10, <2>2, StayApart DEF Idle
<1>11. ASSUME NEW p \in Partitions, Acknowledge(p) \/ DeliveryFails(p)
       PROVE  Apart' /\ OfThisProcess' /\ Idle'
  BY <1>1, <1>10, <1>11, WrittenHeadThere DEF Acknowledge, DeliveryFails, counterVars
<1> QED
  BY <1>4, <1>5, <1>6, <1>7, <1>9, <1>11 DEF Next

-----------------------------------------------------------------------------
(***************************************************************************)
(* What was delivered is stored.                                            *)
(***************************************************************************)

(* A set that holds two others, which have nothing in common.                *)
LEMMA HoldsBoth ==
    ASSUME NEW S, NEW T, NEW U, IsFiniteSet(U), S \cup T \subseteq U, S \cap T = {}
    PROVE  /\ IsFiniteSet(S) /\ IsFiniteSet(T)
           /\ Cardinality(S) \in Nat /\ Cardinality(T) \in Nat /\ Cardinality(U) \in Nat
           /\ Cardinality(S \cup T) = Cardinality(S) + Cardinality(T)
           /\ Cardinality(S) + Cardinality(T) <= Cardinality(U)
<1>1. IsFiniteSet(S) /\ IsFiniteSet(T) /\ Cardinality(S \cup T) <= Cardinality(U)
  BY FS_Subset
<1>2. Cardinality(S \cup T) = Cardinality(S) + Cardinality(T) - Cardinality({})
  BY <1>1, FS_Union
<1>3. Cardinality({}) = 0
  BY FS_EmptySet
<1>4. Cardinality(S) \in Nat /\ Cardinality(T) \in Nat /\ Cardinality(U) \in Nat
  BY <1>1, FS_CardinalityType
<1> QED
  BY <1>1, <1>2, <1>3, <1>4

LEMMA StoredFinite ==
    ASSUME NEW t \in [Partitions -> Seq(Messages)], NEW m, NEW c \in Nat,
           \A p \in Partitions : \A i \in 1 .. Len(t[p]) : t[p][i].call <= c
    PROVE  /\ IsFiniteSet({ n \in UNION { Calls(t[p]) : p \in Partitions } : n > m })
           /\ Cardinality({ n \in UNION { Calls(t[p]) : p \in Partitions } : n > m }) \in Nat
<1> DEFINE S == { n \in UNION { Calls(t[p]) : p \in Partitions } : n > m }
<1>1. ASSUME NEW n \in S PROVE n \in Nat /\ n <= c
  <2>1. PICK p \in Partitions : n \in Calls(t[p])
    OBVIOUS
  <2>2. PICK i \in 1 .. Len(t[p]) : n = t[p][i].call
    BY <2>1 DEF Calls
  <2>3. t[p] \in Seq(Messages)
    OBVIOUS
  <2> QED
    BY <2>2, <2>3, MessageParts
<1> HIDE DEF S
<1>2. S \in SUBSET Nat /\ \A n \in S : n <= c
  BY <1>1
<1>3. IsFiniteSet(S)
  BY <1>2, FS_BoundedSetOfNaturals
<1> QED
  BY <1>3, FS_CardinalityType DEF S

LEMMA WrittenFinite ==
    ASSUME Typed, IsFiniteSet(Queued), NEW g \in [Partitions -> Nat],
           \A p \in Partitions : g[p] <= Len(queue[p])
    PROVE  IsFiniteSet(Places(g)) /\ Cardinality(Places(g)) \in Nat
<1> DEFINE f == [p \in Partitions |-> Len(queue[p])]
<1>1. /\ f \in [Partitions -> Nat] /\ g \in [Partitions -> Nat]
      /\ \A p \in Partitions : g[p] <= f[p]
  BY DEF Typed
<1>2. Queued = Places(f)
  BY DEF Queued
<1> HIDE DEF f
<1>3. ASSUME NEW x \in Places(g) PROVE x \in Places(f)
  <2>1. PICK p \in Partitions : \E i \in 1 .. g[p] : x = <<p, i>>
    BY <1>1, <1>3, InPlaces
  <2>2. PICK i \in 1 .. g[p] : x = <<p, i>>
    BY <2>1
  <2>3. i \in 1 .. f[p]
    BY <1>1
  <2> QED
    BY <1>1, <2>2, <2>3, InPlaces
<1>4. IsFiniteSet(Places(g))
  BY <1>2, <1>3, FS_Subset
<1> QED
  BY <1>4, FS_CardinalityType

(* An answer takes the place of the head, if it was written.                 *)
LEMMA DropPlaces ==
    ASSUME Typed, IsFiniteSet(Queued), NEW p \in Partitions, queue[p] # <<>>, Drop(p)
    PROVE  /\ Cardinality(Places(written')) \in Nat
           /\ Cardinality(Places(written')) <= Cardinality(Places(written))
           /\ written[p] # 0 => Cardinality(Places(written)) = Cardinality(Places(written')) + 1
<1>1. /\ written \in [Partitions -> Nat] /\ written' \in [Partitions -> Nat]
      /\ \A q \in Partitions \ {p} : written[q] = written'[q]
      /\ written'[p] = IF written[p] = 0 THEN 0 ELSE written[p] - 1
  BY DropParts DEF Typed
<1>2. IsFiniteSet(Places(written)) /\ Cardinality(Places(written)) \in Nat
  BY <1>1, WrittenFinite DEF Typed
<1>3. CASE written[p] = 0
  <2>1. written' = written
    BY <1>1, <1>3
  <2> QED
    BY <1>2, <1>3, <2>1
<1>4. CASE written[p] # 0
  <2>1. written[p] = written'[p] + 1
    BY <1>1, <1>4
  <2> DEFINE old == Cardinality(Places(written))
             new == Cardinality(Places(written'))
  <2>2. new \in Nat /\ old = new + 1
    BY <1>1, <1>2, <2>1, PlacesCounted
  <2> HIDE DEF old, new
  <2>3. new <= old
    BY <2>2
  <2> QED
    BY <1>4, <2>2, <2>3, Zenon DEF old, new
<1> QED
  BY <1>3, <1>4

(* A request brings a call for each place that it adds.                      *)
LEMMA NewCallsCounted ==
    ASSUME Typed, NEW p \in Partitions, NEW n \in written[p] + 1 .. Len(queue[p]),
           Sound(p), IsFiniteSet(Places(written)), IsFiniteSet(NewCalls(p, n)),
           written' = [written EXCEPT ![p] = n]
    PROVE  Cardinality(Places(written'))
              <= Cardinality(Places(written)) + Cardinality(NewCalls(p, n))
<1> DEFINE w == written[p]
           C == NewCalls(p, n)
           N == {p} \X (w + 1 .. n)
           f == [x \in N |-> queue[p][x[2]].call]
<1>1. /\ w \in Nat /\ n \in w + 1 .. Len(queue[p]) /\ queue[p] \in Seq(Messages)
      /\ written \in [Partitions -> Nat]
      /\ \A q \in Partitions : written'[q] = IF q = p THEN n ELSE written[q]
  BY DEF Typed
<1>2. Places(written') = Places(written) \cup N
  <2>1. written' \in [Partitions -> Nat] /\ 1 .. n = (1 .. w) \cup (w + 1 .. n)
    BY <1>1
  <2>2. ASSUME NEW x \in Places(written') PROVE x \in Places(written) \/ x \in N
    <3>1. PICK q \in Partitions : \E i \in 1 .. written'[q] : x = <<q, i>>
      BY <2>1, <2>2, InPlaces
    <3>2. PICK i \in 1 .. written'[q] : x = <<q, i>>
      BY <3>1
    <3>3. i \in 1 .. written[q] \/ (q = p /\ i \in w + 1 .. n)
      BY <1>1, <2>1
    <3>4. i \in 1 .. written[q] => x \in Places(written)
      BY <1>1, <3>2, InPlaces
    <3> QED
      BY <3>2, <3>3, <3>4
  <2>3. ASSUME NEW x \in Places(written) PROVE x \in Places(written')
    <3>1. PICK q \in Partitions : \E i \in 1 .. written[q] : x = <<q, i>>
      BY <1>1, <2>3, InPlaces
    <3>2. PICK i \in 1 .. written[q] : x = <<q, i>>
      BY <3>1
    <3>3. i \in 1 .. written'[q]
      BY <1>1, <2>1
    <3> QED
      BY <2>1, <3>2, <3>3, InPlaces
  <2>4. ASSUME NEW x \in N PROVE x \in Places(written')
    <3>1. PICK i \in w + 1 .. n : x = <<p, i>>
      BY <2>4
    <3>2. i \in 1 .. written'[p]
      BY <1>1
    <3> QED
      BY <2>1, <3>1, <3>2, InPlaces
  <2> QED
    BY <2>2, <2>3, <2>4
<1>3. Places(written) \cap N = {}
  <2> SUFFICES ASSUME NEW x \in Places(written), x \in N PROVE FALSE
    OBVIOUS
  <2>1. PICK q \in Partitions : \E i \in 1 .. written[q] : x = <<q, i>>
    BY <1>1, InPlaces
  <2>2. PICK i \in 1 .. written[q] : x = <<q, i>>
    BY <2>1
  <2>3. PICK k \in w + 1 .. n : x = <<p, k>>
    OBVIOUS
  <2> QED
    BY <1>1, <2>2, <2>3
<1>4. f \in Injection(N, C)
  <2>1. \A x \in N : f[x] \in C
    BY DEF NewCalls
  <2>2. f \in [N -> C]
    BY <2>1
  <2>3. ASSUME NEW x \in N, NEW y \in N, f[x] = f[y] PROVE x = y
    <3>1. PICK i \in w + 1 .. n : x = <<p, i>>
      OBVIOUS
    <3>2. PICK j \in w + 1 .. n : y = <<p, j>>
      OBVIOUS
    <3>3. queue[p][i].call = queue[p][j].call
      BY <2>3, <3>1, <3>2
    <3>4. i \in 1 .. Len(queue[p]) /\ j \in 1 .. Len(queue[p])
      BY <1>1
    <3>5. queue[p][i].call \in Nat /\ queue[p][j].call \in Nat
      BY <1>1, <3>4, MessageParts
    <3>6. \A a, b \in 1 .. Len(queue[p]) : a < b => queue[p][a].call < queue[p][b].call
      BY DEF Sound, QueueOrdered, Ordered
    <3>7. ~(i < j) /\ ~(j < i)
      BY <3>3, <3>4, <3>5, <3>6
    <3> QED
      BY <3>1, <3>2, <3>4, <3>7
  <2> QED
    BY <2>2, <2>3, Fun_IsInj
<1> HIDE DEF f, C, N
<1>5. IsFiniteSet(N) /\ Cardinality(N) <= Cardinality(C)
  BY <1>4, FS_Injection DEF C
<1>6. IsFiniteSet(Places(written) \cup N)
  BY <1>5, FS_Union
<1>7. /\ Cardinality(Places(written)) \in Nat /\ Cardinality(N) \in Nat
      /\ Cardinality(Places(written) \cup N) = Cardinality(Places(written)) + Cardinality(N)
  BY <1>3, <1>6, HoldsBoth
<1>8. Cardinality(C) \in Nat
  BY FS_CardinalityType DEF C
<1>9. Cardinality(Places(written')) <= Cardinality(Places(written)) + Cardinality(C)
  <2>1. Cardinality(Places(written')) = Cardinality(Places(written)) + Cardinality(N)
    BY <1>2, <1>7, Zenon
  <2> DEFINE before == Cardinality(Places(written))
             more == Cardinality(N)
             new == Cardinality(C)
  <2>2. before \in Nat /\ more \in Nat /\ new \in Nat /\ more <= new
    BY <1>5, <1>7, <1>8
  <2> HIDE DEF before, more, new
  <2>3. before + more <= before + new
    BY <2>2
  <2> QED
    BY <2>1, <2>3, Zenon DEF before, more, new
<1> QED
  BY <1>9 DEF C

(* None of them was there before.                                            *)
LEMMA ReceiveStores ==
    ASSUME IInv, Typed', \A q \in Partitions : Sound(q)', NEW p \in Partitions, Receive(p)
    PROVE  /\ Cardinality(Places(written)) \in Nat /\ Cardinality(Places(written')) \in Nat
           /\ Cardinality(Stored) \in Nat /\ Cardinality(Stored)' \in Nat
           /\ Cardinality(Places(written')) + Cardinality(Stored)
                 <= Cardinality(Places(written)) + Cardinality(Stored)'
<1>1. PICK n \in written[p] + 1 .. Len(queue[p]) :
          /\ topic' = [topic EXCEPT ![p] = @ \o NotYetWritten(p, n)]
          /\ written' = [written EXCEPT ![p] = n]
  BY DEF Receive
<1> DEFINE C == NewCalls(p, n)
<1>2. /\ Typed /\ Sound(p) /\ Apart /\ OfThisProcess
      /\ IsFiniteSet(Places(written)) /\ Cardinality(Places(written)) \in Nat
      /\ queue[p] \in Seq(Messages) /\ topic[p] \in Seq(Messages) /\ written[p] \in Nat
      /\ first' = first
  BY WrittenFinite DEF IInv, TypeOK, Typed, Receive, counterVars
<1>3. /\ Calls(topic'[p]) = Calls(topic[p]) \cup C
      /\ C \subseteq Calls(queue[p])
      /\ \A q \in Partitions \ {p} : topic'[q] = topic[q]
  BY <1>1, <1>2, CallsReceived
<1>4. C \cap Stored = {}
  <2> SUFFICES ASSUME NEW c \in C, c \in Stored PROVE FALSE
    OBVIOUS
  <2>1. PICK k \in written[p] + 1 .. n : c = queue[p][k].call
    BY DEF NewCalls
  <2>2. PICK q \in Partitions : c \in Calls(topic[q])
    BY DEF Stored
  <2>3. q = p
    BY <1>2, <1>3, <2>2 DEF Apart
  <2>4. PICK j \in 1 .. Len(topic[p]) : c = topic[p][j].call
    BY <2>2, <2>3 DEF Calls
  <2>5. k \in written[p] + 1 .. Len(queue[p])
    BY <1>1, <1>2
  <2>6. topic[p][j].call < queue[p][k].call
    BY <1>2, <2>5 DEF Sound, UnwrittenIsNewer
  <2>7. c \in Nat
    BY <1>2, <2>4, MessageParts
  <2> QED
    BY <2>1, <2>4, <2>6, <2>7
<1>5. Stored \cup C \subseteq Stored'
  <2>1. ASSUME NEW q \in Partitions PROVE Calls(topic[q]) \subseteq Calls(topic'[q])
    BY <1>3
  <2>2. Stored' = { m \in UNION { Calls(topic'[q]) : q \in Partitions } : m > first' }
    BY DEF Stored, Calls
  <2>3. ASSUME NEW m \in Stored PROVE m \in Stored'
    BY <1>2, <2>1, <2>2 DEF Stored
  <2>4. ASSUME NEW m \in C PROVE m \in Stored'
    <3>1. m > first /\ m \in Calls(topic'[p])
      BY <1>2, <1>3 DEF OfThisProcess
    <3> QED
      BY <1>2, <2>2, <3>1
  <2> QED
    BY <2>3, <2>4
<1>6. IsFiniteSet(Stored)'
  <2>1. topic' \in [Partitions -> Seq(Messages)] /\ calls' \in Nat
    BY DEF Typed
  <2>2. \A q \in Partitions : \A i \in 1 .. Len(topic'[q]) : topic'[q][i].call <= calls'
    BY DEF Sound, QueueOrdered
  <2>3. IsFiniteSet({ m \in UNION { Calls(topic'[q]) : q \in Partitions } : m > first' })
    BY <2>1, <2>2, StoredFinite
  <2> QED
    BY <2>3 DEF Stored, Calls
<1>7. /\ IsFiniteSet(C) /\ Cardinality(C) \in Nat
      /\ Cardinality(Stored) \in Nat /\ Cardinality(Stored') \in Nat
      /\ Cardinality(Stored) + Cardinality(C) <= Cardinality(Stored')
  BY <1>4, <1>5, <1>6, HoldsBoth
<1>8. Cardinality(Places(written')) <= Cardinality(Places(written)) + Cardinality(C)
  BY <1>1, <1>2, <1>7, NewCallsCounted
<1>9. Cardinality(Places(written')) \in Nat
  <2>1. written' \in [Partitions -> Nat] /\ \A q \in Partitions : written'[q] <= Len(queue'[q])
    BY DEF Typed
  <2>2. queue' = queue /\ IsFiniteSet(Queued)
    BY DEF Receive, IInv
  <2> QED
    BY <1>2, <2>1, <2>2, WrittenFinite
<1> QED
  BY <1>2, <1>7, <1>8, <1>9

(* The sums of an answer, of an error and of a request.                      *)
LEMMA SumAnswered ==
    ASSUME NEW d \in Nat, NEW t \in Nat, NEW w \in Nat, NEW s \in Nat, NEW v \in Nat,
           d + t + w <= s, w = v + 1
    PROVE  d + (t + 1) + v <= s
  OBVIOUS

LEMMA SumFailed ==
    ASSUME NEW d \in Nat, NEW t \in Nat, NEW w \in Nat, NEW s \in Nat, NEW v \in Nat,
           d + t + w <= s, v <= w
    PROVE  d + t + v <= s
  OBVIOUS

LEMMA SumReceived ==
    ASSUME NEW d \in Nat, NEW t \in Nat, NEW w \in Nat, NEW s \in Nat, NEW v \in Nat,
           NEW z \in Nat, d + t + w <= s, v + s <= w + z
    PROVE  d + t + v <= z
  OBVIOUS

LEMMA WrittenStep ==
    ASSUME IInv, Typed', \A p \in Partitions : Sound(p)', [Next]_vars
    PROVE  WrittenIsStored'
<1> DEFINE told == Reported(TRUE)
           there == Cardinality(Places(written))
           stored == Cardinality(Stored)
<1>1. /\ Typed /\ Idle /\ IsFiniteSet(Queued) /\ delivered + told + there <= stored
      /\ delivered \in Nat /\ told \in Nat /\ there \in Nat
  <2>1. Typed /\ Idle /\ IsFiniteSet(Queued) /\ delivered + told + there <= stored
    BY DEF IInv, TypeOK, WrittenIsStored
  <2>2. delivered \in Nat /\ written \in [Partitions -> Nat]
    BY <2>1 DEF Typed
  <2>3. told \in Nat
    BY <2>1, ReportsSplit, Zenon
  <2>4. there \in Nat
    BY <2>1, <2>2, WrittenFinite DEF Typed
  <2> QED
    BY <2>1, <2>2, <2>3, <2>4
<1>2. \A m : Cardinality({ n \in UNION { Calls(topic[p]) : p \in Partitions } : n > m }) \in Nat
  <2>1. topic \in [Partitions -> Seq(Messages)] /\ calls \in Nat
    BY <1>1 DEF Typed
  <2>2. \A p \in Partitions : \A i \in 1 .. Len(topic[p]) : topic[p][i].call <= calls
    BY DEF IInv, Sound, QueueOrdered
  <2> QED
    BY <2>1, <2>2, StoredFinite
<1>3. /\ delivered \in Nat /\ told \in Nat /\ there \in Nat /\ stored \in Nat
      /\ delivered + told + there <= stored
  BY <1>1, <1>2 DEF Stored
<1>4. there' = Cardinality(Places(written'))
  BY DEF Places
<1>5. WrittenIsStored' <=> delivered' + told' + there' <= stored'
  BY DEF WrittenIsStored
<1>6. ASSUME topic' = topic, first' = first PROVE stored' = stored
  BY <1>6 DEF Stored, Calls
<1>7. ASSUME written' = Zero PROVE there' = 0
  <2>1. Zero \in [Partitions -> Nat] /\ \A p \in Partitions : Zero[p] = 0
    BY EmptyTyped
  <2> QED
    BY <1>4, <1>7, <2>1, NoPlaces
<1>8. ASSUME reports' = <<>> PROVE told' = 0
  BY <1>8, NothingReported, Zenon
<1>9. ASSUME reports' = reports PROVE told' = told
  BY <1>9 DEF Reported
<1>10. CASE Start
  <2>1. /\ reports' = reports /\ written' = written /\ reports = <<>> /\ written = Zero
        /\ delivered' = 0 /\ topic' = topic
    BY <1>1, <1>10 DEF Start, Idle
  <2>2. told' = 0 /\ there' = 0
    BY <1>7, <1>8, <2>1
  <2>3. stored' \in Nat
    <3>1. Cardinality({ n \in UNION { Calls(topic'[p]) : p \in Partitions } : n > first' }) \in Nat
      BY <1>2, <2>1
    <3> QED
      BY <3>1 DEF Stored, Calls
  <2> HIDE DEF told, there, stored
  <2>4. delivered' + told' + there' <= stored'
    BY <2>1, <2>2, <2>3
  <2> QED
    BY <1>5, <2>4
<1>11. CASE Send
  <2>1. /\ delivered' = delivered + told /\ reports' = <<>> /\ written' = written
        /\ topic' = topic /\ first' = first
    BY <1>11, Zenon DEF Send, ServeReports, CountDelivered
  <2>2. told' = 0 /\ there' = there /\ stored' = stored
    BY <1>4, <1>6, <1>8, <2>1
  <2> HIDE DEF told, there, stored
  <2>3. delivered' + told' + there' <= stored'
    BY <1>3, <2>1, <2>2
  <2> QED
    BY <1>5, <2>3
<1>12. CASE SendOverflows \/ Kill \/ Flush
  <2>1. /\ delivered' = delivered \/ delivered' = delivered + told
        /\ reports' = <<>> /\ written' = Zero /\ topic' = topic /\ first' = first
    BY <1>12, Zenon DEF SendOverflows, Kill, Flush, Dies, ServeReports, CountDelivered
  <2>2. told' = 0 /\ there' = 0 /\ stored' = stored
    BY <1>6, <1>7, <1>8, <2>1
  <2> HIDE DEF told, there, stored
  <2>3. delivered' + told' + there' <= stored'
    BY <1>3, <2>1, <2>2
  <2> QED
    BY <1>5, <2>3
<1>13. CASE Stop \/ UNCHANGED vars
  <2>1. UNCHANGED <<delivered, reports, written, topic, first>>
    BY <1>13 DEF Stop, vars, counterVars
  <2>2. told' = told /\ there' = there /\ stored' = stored
    BY <1>4, <1>6, <1>9, <2>1
  <2> HIDE DEF told, there, stored
  <2>3. delivered' + told' + there' <= stored'
    BY <1>3, <2>1, <2>2
  <2> QED
    BY <1>5, <2>3
<1>14. ASSUME NEW p \in Partitions, Receive(p) PROVE WrittenIsStored'
  <2>1. delivered' = delivered
    BY <1>14 DEF Receive, counterVars
  <2>2. told' = told
    BY <1>9, <1>14 DEF Receive
  <2>3. there' \in Nat /\ stored' \in Nat /\ there' + stored <= there + stored'
    BY <1>4, <1>14, ReceiveStores
  <2> HIDE DEF told, there, stored
  <2>4. delivered + told + there' <= stored'
    BY <1>3, <2>3, SumReceived, Zenon
  <2>5. delivered' + told' + there' <= stored'
    BY <2>1, <2>2, <2>4, Zenon
  <2> QED
    BY <1>5, <2>5, Zenon
<1>15. ASSUME NEW p \in Partitions, Acknowledge(p) PROVE WrittenIsStored'
  <2>1. /\ delivered' = delivered /\ topic' = topic /\ first' = first
        /\ reports' = Append(reports, TRUE)
        /\ queue[p] # <<>> /\ Drop(p)
    BY <1>1, <1>15, WrittenHeadThere DEF Acknowledge, counterVars
  <2>2. written[p] # 0
    BY <1>1, <1>15 DEF Acknowledge, WrittenHead, Typed
  <2>3. told' = told + 1
    BY <1>1, <2>1, OneMoreReport, Zenon
  <2>4. there' \in Nat /\ there = there' + 1
    BY <1>1, <1>4, <2>1, <2>2, DropPlaces
  <2>5. stored' = stored
    BY <1>6, <2>1
  <2> HIDE DEF told, there, stored
  <2>6. delivered' = delivered
    BY <2>1
  <2>7. delivered + (told + 1) + there' <= stored
    BY <1>3, <2>4, SumAnswered, Zenon
  <2>8. delivered' + told' + there' <= stored'
    BY <2>3, <2>5, <2>6, <2>7, Zenon
  <2> QED
    BY <1>5, <2>8, Zenon
<1>16. ASSUME NEW p \in Partitions, DeliveryFails(p) PROVE WrittenIsStored'
  <2>1. /\ delivered' = delivered /\ topic' = topic /\ first' = first
        /\ reports' = Append(reports, FALSE)
        /\ queue[p] # <<>> /\ Drop(p)
    BY <1>16 DEF DeliveryFails, counterVars
  <2>2. told' = told
    <3>1. Reported(~FALSE)' = Reported(~FALSE)
      BY <1>1, <2>1, OneMoreReport
    <3> QED
      BY <3>1 DEF Reported
  <2>3. there' \in Nat /\ there' <= there
    BY <1>1, <1>4, <2>1, DropPlaces
  <2>4. stored' = stored
    BY <1>6, <2>1
  <2> HIDE DEF told, there, stored
  <2>5. delivered' = delivered
    BY <2>1
  <2>6. delivered + told + there' <= stored
    BY <1>3, <2>3, SumFailed, Zenon
  <2>7. delivered' + told' + there' <= stored'
    BY <2>2, <2>4, <2>5, <2>6, Zenon
  <2> QED
    BY <1>5, <2>7, Zenon
<1> QED
  BY <1>10, <1>11, <1>12, <1>13, <1>14, <1>15, <1>16 DEF Next

-----------------------------------------------------------------------------
(***************************************************************************)
(* The theorems.                                                            *)
(***************************************************************************)

LEMMA SoundStep ==
    ASSUME IInv, [Next]_vars, NEW p \in Partitions
    PROVE  Sound(p)'
<1>1. Typed /\ Sound(p) /\ calls \in Nat
  BY DEF IInv, TypeOK, Typed
<1>2. CASE Send
  BY <1>1, <1>2, SendSound
<1>3. CASE Start \/ Stop \/ UNCHANGED vars
  BY <1>1, <1>3, Untouched DEF Start, Stop, vars, generatorVars
<1>4. CASE SendOverflows \/ Kill \/ Flush
  BY <1>1, <1>4, Emptied DEF SendOverflows, Kill, Flush, Dies, generatorVars
<1>5. ASSUME NEW q \in Partitions, Receive(q) PROVE Sound(p)'
  BY <1>1, <1>5, ReceiveSound
<1>6. ASSUME NEW q \in Partitions, Acknowledge(q) PROVE Sound(p)'
  BY <1>1, <1>6, WrittenHeadThere, DropSound DEF Acknowledge, generatorVars
<1>7. ASSUME NEW q \in Partitions, DeliveryFails(q) PROVE Sound(p)'
  BY <1>1, <1>7, DropSound DEF DeliveryFails, generatorVars
<1> QED
  BY <1>2, <1>3, <1>4, <1>5, <1>6, <1>7 DEF Next

LEMMA InitSound == Init => IInv
<1> SUFFICES ASSUME Init PROVE IInv
  OBVIOUS
<1>1. Typed
  BY EmptyTyped, EmptySeq, ProducerAssumption DEF Init, NoEvent, Events, Typed
<1>2. \A p \in Partitions : Len(queue[p]) = 0 /\ Len(topic[p]) = 0 /\ written[p] = 0
  BY EmptyTyped DEF Init
<1>3. \A p \in Partitions : Sound(p)
  BY <1>2 DEF Sound, TopicOrdered, QueueOrdered, WrittenOnTopic, UnwrittenIsNewer, Ordered
<1>4. Apart /\ OfThisProcess
  BY <1>2 DEF Apart, OfThisProcess, Calls
<1>5. Idle /\ CountersAgree
  BY DEF Init, Idle, CountersAgree
<1>6. Outstanding = 0 /\ IsFiniteSet(Queued) /\ Len(reports) = 0
  BY NothingQueued DEF Init, Outstanding, Queued
<1>7. TypeOK
  BY <1>1, <1>6, ProducerAssumption DEF TypeOK
<1>8. WrittenIsStored
  <2>1. Cardinality(Places(written)) = 0
    BY <1>1, <1>2, NoPlaces DEF Typed
  <2>2. Reported(TRUE) = 0
    <3>1. { i \in 1 .. Len(reports) : reports[i] = TRUE } = {}
      BY <1>6
    <3> QED
      BY <3>1, FS_EmptySet DEF Reported
  <2>3. Cardinality(Stored) = 0
    <3>1. Stored = {}
      BY <1>2 DEF Stored, Calls
    <3> QED
      BY <3>1, FS_EmptySet
  <2>4. delivered = 0
    BY DEF Init
  <2> DEFINE told == Reported(TRUE)
             there == Cardinality(Places(written))
             stored == Cardinality(Stored)
  <2>5. told = 0 /\ there = 0 /\ stored = 0
    BY <2>1, <2>2, <2>3, Zenon
  <2> HIDE DEF told, there, stored
  <2>6. delivered + told + there <= stored
    BY <2>4, <2>5
  <2> QED
    BY <2>6, Zenon DEF WrittenIsStored, told, there, stored
<1> QED
  BY <1>3, <1>4, <1>5, <1>6, <1>7, <1>8 DEF IInv

(* What every reachable state of the producer, its queue and the topic is    *)
(* (kafka_producer.py 30-90).                                                *)
THEOREM Invariance == Spec => []IInv
<1>1. Init => IInv
  BY InitSound
<1>2. ASSUME IInv, [Next]_vars PROVE IInv'
  <2>1. Typed' /\ \A p \in Partitions : Sound(p)'
    BY <1>2, SoundStep, TypedStep DEF IInv, TypeOK
  <2>2. Apart' /\ OfThisProcess' /\ Idle'
    BY <1>2, <2>1, ApartStep
  <2>3. CountersAgree' /\ TypeOK' /\ IsFiniteSet(Queued)'
    BY <1>2, <2>1, CountersStep
  <2>4. WrittenIsStored'
    BY <1>2, <2>1, WrittenStep
  <2> QED
    BY <2>1, <2>2, <2>3, <2>4 DEF IInv
<1> QED
  BY <1>1, <1>2, PTL DEF Spec

(* The producer's queue and the reports it has not served stay within the    *)
(* limit of the client (kafka_producer.py 83-87).                            *)
THEOREM TypeCorrect == Spec => []TypeOK
<1>1. IInv => TypeOK
  BY DEF IInv
<1> QED
  BY <1>1, Invariance, PTL

(* The counters that main() logs add up, whatever the broker answers         *)
(* (kafka_producer.py 54-72, 89).                                            *)
THEOREM CountersAddUp == Spec => []CountersAgree
<1>1. IInv => CountersAgree
  BY DEF IInv
<1> QED
  BY <1>1, Invariance, PTL

(* delivered_count never overstates what this process has on the topic       *)
(* (kafka_producer.py 35-39, 60-65).                                         *)
THEOREM DeliveredAreStored == Spec => []DeliveredIsStored
<1> DEFINE told == Reported(TRUE)
           there == Cardinality(Places(written))
           stored == Cardinality(Stored)
<1>1. ASSUME IInv PROVE DeliveredIsStored
  <2>1. Typed /\ IsFiniteSet(Queued) /\ delivered + told + there <= stored
    BY <1>1 DEF IInv, TypeOK, WrittenIsStored
  <2>2. told \in Nat
    BY <2>1, ReportsSplit, Zenon
  <2>3. delivered \in Nat /\ there \in Nat
    BY <2>1, WrittenFinite DEF Typed
  <2>4. stored \in Nat
    <3>1. topic \in [Partitions -> Seq(Messages)] /\ calls \in Nat
      BY <2>1 DEF Typed
    <3>2. \A p \in Partitions : \A i \in 1 .. Len(topic[p]) : topic[p][i].call <= calls
      BY <1>1 DEF IInv, Sound, QueueOrdered
    <3> QED
      BY <3>1, <3>2, StoredFinite DEF Stored
  <2> HIDE DEF told, there, stored
  <2>5. delivered + told <= stored
    BY <2>1, <2>2, <2>3, <2>4
  <2> QED
    BY <2>5, Zenon DEF DeliveredIsStored, told, stored
<1> QED
  BY <1>1, Invariance, PTL

(* Retries, failed deliveries, overflows and restarts never reorder or       *)
(* repeat what is on a partition, nor put a user's event on another user's   *)
(* (kafka_producer.py 40-49, 75-81).                                         *)
THEOREM UserOrder == Spec => []InCallOrder
<1>1. IInv => InCallOrder
  BY DEF IInv, InCallOrder, Sound
<1> QED
  BY <1>1, Invariance, PTL

(* No other step than those it names drops an accepted event: what leaves a  *)
(* queue with an answer is on the topic (kafka_producer.py 35-39, 75-90).    *)
THEOREM AcceptedStays == Spec => NothingDropped
<1> DEFINE Stays(p) ==
        \A i \in 1 .. Len(queue[p]) :
            \/ \E j \in 1 .. Len(queue'[p]) : queue'[p][j] = queue[p][i]
            \/ \E j \in 1 .. Len(topic'[p]) : topic'[p][j] = queue[p][i]
<1>1. ASSUME IInv, [Next]_vars
      PROVE  \/ faults' > faults
             \/ pc = "flushing" /\ pc' = "down"
             \/ SendOverflows
             \/ \A p \in Partitions : Stays(p)
  <2>1. Typed /\ \A p \in Partitions : Sound(p) /\ queue[p] \in Seq(Messages)
    BY <1>1 DEF IInv, TypeOK, Typed
  <2>2. CASE UNCHANGED queue
    BY <2>2
  <2>3. CASE Send
    <3>1. \A p \in Partitions : Len(queue[p]) <= Len(queue'[p])
              /\ \A i \in 1 .. Len(queue[p]) : queue'[p][i] = queue[p][i]
      BY <2>1, <2>3 DEF Send, Typed
    <3>2. \A p \in Partitions : Len(queue[p]) \in Nat /\ Len(queue'[p]) \in Nat
      BY <1>1, <2>1, TypedStep DEF Typed
    <3> QED
      BY <3>1, <3>2
  <2>4. CASE Kill
    BY <2>1, <2>4, FaultTyped DEF Kill
  <2>5. CASE Flush
    BY <2>5 DEF Flush, FlushEnds
  <2>6. ASSUME NEW q \in Partitions, DeliveryFails(q) PROVE faults' > faults
    BY <2>1, <2>6, FaultTyped DEF DeliveryFails
  <2>7. ASSUME NEW q \in Partitions, Acknowledge(q), NEW p \in Partitions PROVE Stays(p)
    <3>1. queue[q] # <<>> /\ Drop(q) /\ topic' = topic
      BY <2>1, <2>7, WrittenHeadThere DEF Acknowledge
    <3>2. CASE p # q
      <4>1. queue'[p] = queue[p]
        BY <2>1, <3>1, <3>2, DropParts
      <4> QED
        BY <4>1
    <3>3. CASE p = q
      <4>1. ASSUME NEW i \in 1 .. Len(queue[p])
            PROVE  \/ \E j \in 1 .. Len(queue'[p]) : queue'[p][j] = queue[p][i]
                   \/ \E j \in 1 .. Len(topic[p]) : topic[p][j] = queue[p][i]
        <5>1. CASE i = 1
          <6>1. 1 \in 1 .. written[p]
            BY <2>1, <2>7, <3>3 DEF Acknowledge, WrittenHead, Typed
          <6> QED
            BY <2>1, <5>1, <6>1 DEF Sound, WrittenOnTopic
        <5>2. CASE i # 1
          <6>1. /\ Len(queue'[p]) = Len(queue[p]) - 1
                /\ \A k \in 1 .. Len(queue'[p]) : queue'[p][k] = queue[p][k + 1]
            BY <2>1, <3>1, <3>3, DropParts
          <6>2. i - 1 \in 1 .. Len(queue'[p]) /\ (i - 1) + 1 = i
            BY <2>1, <5>2, <6>1
          <6>3. queue'[p][i - 1] = queue[p][i]
            BY <6>1, <6>2
          <6> QED
            BY <6>2, <6>3
        <5> QED
          BY <5>1, <5>2
      <4> QED
        BY <3>1, <4>1
    <3> QED
      BY <3>2, <3>3
  <2> QED
    BY <1>1, <2>2, <2>3, <2>4, <2>5, <2>6, <2>7
       DEF Next, Start, Stop, Receive, vars
<1> QED
  BY <1>1, Invariance, PTL DEF NothingDropped, Spec
=============================================================================
