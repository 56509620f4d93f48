-------------------------- MODULE Connection_proofs --------------------------
(***************************************************************************)
(* Proofs about the two halves of a connection.                            *)
(*                                                                         *)
(* PubSub, the writer's half, for any finite number of connections, any    *)
(* channels and any capacity of the queues: what PUBLISH answers, the      *)
(* order of the messages, and when one is lost.                            *)
(*                                                                         *)
(* Frames, the reader's half, for any commands, any size of a read and any *)
(* cuts: the commands executed are those sent, and which cuts end the      *)
(* loop.                                                                   *)
(***************************************************************************)
EXTENDS PubSub, Frames, SequenceFacts

-----------------------------------------------------------------------------
(* The writer's half.  The inductive invariant, part by part.              *)

Numbers == 1..MaxMessages
Jobs == [message : 0..MaxMessages, left : SUBSET Clients, count : Nat]

(* The types of the variables TypeOK does not look into.                   *)
Types ==
  /\ TypeOK
  /\ job \in [Clients -> Jobs]
  /\ hand \in [Clients -> Seq(Numbers)]
  /\ queued \in [Clients -> Seq(Numbers)]
  /\ written \in [Clients -> Seq(Numbers)]
  /\ Len(published) <= MaxMessages

Got(q, m) == {c \in Clients : Holds(q[c], m)}

(* A message is published by one handler, which has not answered yet.      *)
JobsApart ==
  /\ \A c \in Clients : pc[c] = "publishing" =>
        job[c].message \in DOMAIN published /\ published[job[c].message].count = -1
  /\ \A c, d \in Clients :
        pc[c] = "publishing" /\ pc[d] = "publishing" /\ job[c].message = job[d].message
          => c = d

(* Only published messages are queued, each at most once for a connection, *)
(* and not before its turn in the loop of PUBLISH.                         *)
QueuedKnown ==
  \A c \in Clients : \A i \in DOMAIN queued[c] : queued[c][i] \in DOMAIN published
QueuedOnce ==
  \A c \in Clients : \A i, j \in DOMAIN queued[c] : queued[c][i] = queued[c][j] => i = j
LeftHasNot ==
  \A d \in Clients : pc[d] = "publishing" =>
    \A c \in job[d].left : ~Holds(queued[c], job[d].message)

(* The count of a PUBLISH, at work or answered, is who got its message.    *)
JobCounts ==
  \A c \in Clients : pc[c] = "publishing" => job[c].count = Cardinality(Got(queued, job[c].message))
AnswerCounts ==
  \A m \in Answered : published[m].count = Cardinality(Got(queued, m))

(* What is in sendChan is the newest part of what was queued.              *)
SuffixOf(s, q) ==
  Len(s) <= Len(q) /\ \A i \in DOMAIN s : s[i] = q[Len(q) - Len(s) + i]
ChanIsSuffix == \A c \in Clients : SuffixOf(sendChan[c], queued[c])

(* What was answered before a message started is answered.                 *)
EarlierAnswered == \A m \in DOMAIN published : published[m].earlier \subseteq Answered

PipelineKnown ==
  \A c \in Clients : \A i \in DOMAIN Pipeline(c) : Pipeline(c)[i] \in DOMAIN published

(* Whoever was subscribed and did not get the message still has its turn,  *)
(* or had a backlog.                                                       *)
Backlog(m, c) == {x \in ToSet(queued[c]) : m \notin published[x].earlier}
HasTurn(m, c) ==
  \E d \in Clients : pc[d] = "publishing" /\ job[d].message = m /\ c \in job[d].left
MissedBehind ==
  \A m \in DOMAIN published : \A c \in published[m].audience :
    Holds(queued[c], m) \/ HasTurn(m, c) \/ Cardinality(Backlog(m, c)) >= SendCap

CountInv == JobsApart /\ QueuedKnown /\ QueuedOnce /\ LeftHasNot /\ JobCounts /\ AnswerCounts
OrderInv == EarlierAnswered /\ PipelineKnown /\ NeverOvertakes
LossInv  == ChanIsSuffix /\ MissedBehind
Inv == Types /\ CountInv /\ OrderInv /\ LossInv

-----------------------------------------------------------------------------
(* How often a message is in a queue, and how large sets are.              *)

(* A message occurs in a queue that holds it, and in no other; once if it   *)
(* is at one place only.                                                   *)
LEMMA TimesCounts ==
  ASSUME NEW q \in Seq(Numbers), NEW m
  PROVE  /\ Times(m, q) \in Nat
         /\ Times(m, q) > 0 <=> Holds(q, m)
         /\ (\A i, j \in DOMAIN q : q[i] = q[j] => i = j) => Times(m, q) <= 1
<1> DEFINE I == {i \in DOMAIN q : q[i] = m}
<1>1. IsFiniteSet(I) /\ Cardinality(I) \in Nat
  <2>1. I \in SUBSET (1..Len(q)) /\ Len(q) \in Nat
    BY LenProperties
  <2>2. IsFiniteSet(1..Len(q))
    BY <2>1, FS_Interval
  <2> QED
    BY <2>1, <2>2, FS_Subset, FS_CardinalityType, Zenon
<1>2. Cardinality(I) = 0 <=> I = {}
  BY <1>1, FS_EmptySet
<1>3. ASSUME \A i, j \in DOMAIN q : q[i] = q[j] => i = j
      PROVE  Cardinality(I) <= 1
  <2>1. CASE I = {}
    BY <1>2, <2>1
  <2>2. CASE I # {}
    <3>1. PICK i : I = {i}
      BY <1>3, <2>2
    <3>2. Cardinality({i}) = 1
      BY FS_Singleton, Zenon
    <3> HIDE DEF I
    <3> QED
      BY <3>1, <3>2
  <2> QED
    BY <2>1, <2>2
<1>4. Times(m, q) = Cardinality(I)
  BY Zenon DEF Times
<1>5. I # {} <=> Holds(q, m)
  BY DEF Holds
<1> QED
  BY <1>1, <1>2, <1>3, <1>4, <1>5

(* Any set of connections is finite, and has at most all of them.          *)
LEMMA SomeClients ==
  ASSUME NEW T, T \subseteq Clients
  PROVE  /\ IsFiniteSet(T)
         /\ Cardinality(T) \in Nat
         /\ Cardinality(T) \in -1..Cardinality(Clients)
<1>1. IsFiniteSet(Clients)
  BY BoundsAssumption
<1>2. Cardinality(Clients) \in Nat
  BY <1>1, FS_CardinalityType
<1>3. IsFiniteSet(T) /\ Cardinality(T) <= Cardinality(Clients)
  BY <1>1, FS_Subset, Zenon
<1>4. Cardinality(T) \in Nat
  BY <1>3, FS_CardinalityType
<1> QED
  BY <1>2, <1>3, <1>4

-----------------------------------------------------------------------------
(* The types.                                                              *)

LEMMA InitTypes == Init => Types
<1> SUFFICES ASSUME Init PROVE Types
  OBVIOUS
<1>1. /\ published \in Seq(Message) /\ Len(published) = 0
      /\ <<>> \in Seq(Numbers) /\ Len(<<>>) = 0
  BY DEF Init
<1>2. TypeOK
  BY <1>1, SendCapAssumption, BoundsAssumption DEF Init, TypeOK, NoJob, Numbers
<1> QED
  BY <1>1, <1>2, BoundsAssumption DEF Init, Types, NoJob, Numbers, Jobs

(* A message that was just published, and one that was just answered, are  *)
(* messages.                                                               *)
LEMMA SnapshotTypes ==
  ASSUME Types, NEW c \in Clients, NEW ch \in Channels, PublishSnapshot(c, ch)
  PROVE  Types'
<1> DEFINE new == [channel |-> ch, audience |-> channels[ch], earlier |-> Answered, count |-> -1]
<1>1. Answered \subseteq Numbers
  BY BoundsAssumption DEF Types, TypeOK, Answered, Numbers
<1>2. -1 \in -1..Cardinality(Clients)
  BY SomeClients, BoundsAssumption, FS_CardinalityType
<1>3. new \in Message
  BY <1>1, <1>2 DEF Types, TypeOK, Message, Numbers
<1>4. published' \in Seq(Message) /\ Len(published') = Len(published) + 1
  BY <1>3, AppendProperties DEF Types, TypeOK, PublishSnapshot, Begun
<1>5. Len(published') <= MaxMessages /\ Len(published) + 1 \in 0..MaxMessages
  BY <1>4, BoundsAssumption DEF Types, TypeOK, PublishSnapshot, Begun
<1>6. TypeOK'
  BY <1>4 DEF Types, TypeOK, PublishSnapshot, Begun, shared, pipe, Jobs
<1> QED
  BY <1>4, <1>5, <1>6 DEF Types, TypeOK, PublishSnapshot, Begun, shared, pipe, Jobs

(* An offer takes the connection off the job's list, and counts if taken.  *)
LEMMA OfferedFields ==
  ASSUME NEW j \in Jobs, NEW to
  PROVE  /\ Offered(j, to, ~Full(to)) \in Jobs
         /\ Offered(j, to, ~Full(to)).message = j.message
         /\ Offered(j, to, ~Full(to)).left = j.left \ {to}
         /\ Offered(j, to, ~Full(to)).count = IF ~Full(to) THEN j.count + 1 ELSE j.count
<1> DEFINE L == j.left \ {to}
           n == IF ~Full(to) THEN j.count + 1 ELSE j.count
<1>1. L \in SUBSET Clients /\ n \in Nat
  BY DEF Jobs
<1>2. Offered(j, to, ~Full(to)) = [j EXCEPT !.left = L, !.count = n]
  BY DEF Offered
<1>3. ASSUME NEW x \in SUBSET Clients, NEW y \in Nat
      PROVE  LET r == [j EXCEPT !.left = x, !.count = y]
             IN  r \in Jobs /\ r.message = j.message /\ r.left = x /\ r.count = y
  BY DEF Jobs
<1> HIDE DEF L, n
<1>4. LET r == [j EXCEPT !.left = L, !.count = n]
      IN  r \in Jobs /\ r.message = j.message /\ r.left = L /\ r.count = n
  BY <1>1, <1>3
<1> QED
  BY <1>2, <1>4 DEF L, n

LEMMA OfferTypes ==
  ASSUME Types, JobsApart, NEW c \in Clients, NEW to \in Clients, PublishOffer(c, to)
  PROVE  Types'
<1>1. job[c].message \in Numbers
  BY BoundsAssumption DEF Types, TypeOK, JobsApart, PublishOffer, Numbers
<1>2. Offered(job[c], to, ~Full(to)) \in Jobs
  <2>1. job[c] \in Jobs
    BY DEF Types
  <2> QED
    BY <2>1, OfferedFields
<1>3. job' \in [Clients -> Jobs]
  BY <1>2 DEF Types, PublishOffer
<1>4. /\ sendChan' \in [Clients -> Seq(Numbers)]
      /\ queued' \in [Clients -> Seq(Numbers)]
      /\ \A d \in Clients : Len(sendChan'[d]) <= SendCap
  <2>1. CASE Full(to)
    BY <2>1 DEF Types, TypeOK, PublishOffer, Numbers
  <2>2. CASE ~Full(to)
    <3>1. /\ Append(sendChan[to], job[c].message) \in Seq(Numbers)
          /\ Append(queued[to], job[c].message) \in Seq(Numbers)
          /\ Len(Append(sendChan[to], job[c].message)) = Len(sendChan[to]) + 1
      BY <1>1, AppendProperties DEF Types, TypeOK, Numbers
    <3>2. Len(sendChan[to]) + 1 <= SendCap
      BY <2>2, SendCapAssumption DEF Types, TypeOK, Full
    <3>3. /\ sendChan' = [sendChan EXCEPT ![to] = Append(sendChan[to], job[c].message)]
          /\ queued' = [queued EXCEPT ![to] = Append(queued[to], job[c].message)]
      BY <2>2 DEF PublishOffer
    <3>4. /\ sendChan' \in [Clients -> Seq(Numbers)]
          /\ queued' \in [Clients -> Seq(Numbers)]
      BY <3>1, <3>3 DEF Types, TypeOK, Numbers
    <3>5. \A d \in Clients : Len(sendChan'[d]) <= SendCap
      BY <3>1, <3>2, <3>3 DEF Types, TypeOK
    <3> QED
      BY <3>4, <3>5
  <2> QED
    BY <2>1, <2>2
<1>5. TypeOK'
  BY <1>3, <1>4 DEF Types, TypeOK, PublishOffer, shared, Numbers, Jobs
<1> QED
  BY <1>3, <1>4, <1>5 DEF Types, TypeOK, PublishOffer, shared

LEMMA ReplyTypes ==
  ASSUME Types, JobsApart, JobCounts, NEW c \in Clients, PublishReply(c)
  PROVE  Types'
<1> DEFINE m == job[c].message
<1>1. m \in DOMAIN published /\ published[m] \in Message
  BY DEF Types, TypeOK, JobsApart, PublishReply
<1>2. job[c].count \in -1..Cardinality(Clients)
  <2>1. job[c].count = Cardinality(Got(queued, m)) /\ Got(queued, m) \subseteq Clients
    BY DEF JobCounts, PublishReply, Got
  <2> QED
    BY <2>1, SomeClients
<1>3. [published[m] EXCEPT !.count = job[c].count] \in Message
  BY <1>1, <1>2 DEF Message
<1>4. published' \in Seq(Message) /\ Len(published') = Len(published)
  <2>1. published' = [published EXCEPT ![m] = [published[m] EXCEPT !.count = job[c].count]]
    BY DEF PublishReply
  <2> QED
    BY <1>1, <1>3, <2>1, ExceptSeq DEF Types, TypeOK
<1>5. job' \in [Clients -> Jobs]
  BY BoundsAssumption DEF Types, PublishReply, NoJob, Jobs
<1>6. TypeOK'
  BY <1>4, <1>5 DEF Types, TypeOK, PublishReply, shared, pipe, Jobs
<1> QED
  BY <1>4, <1>5, <1>6 DEF Types, PublishReply, shared, pipe

LEMMA WriterTypes ==
  ASSUME Types, NEW c \in Clients, WriterTakes(c) \/ WriterWrites(c)
  PROVE  Types'
<1>1. CASE WriterTakes(c)
  <2>1. /\ Head(sendChan[c]) \in Numbers
        /\ Tail(sendChan[c]) \in Seq(Numbers)
        /\ Len(Tail(sendChan[c])) <= SendCap
    <3>1. sendChan[c] \in Seq(Numbers) /\ sendChan[c] # <<>> /\ Len(sendChan[c]) <= SendCap
      BY <1>1 DEF Types, TypeOK, WriterTakes, Numbers
    <3>2. /\ Head(sendChan[c]) \in Numbers
          /\ Tail(sendChan[c]) \in Seq(Numbers)
          /\ Len(Tail(sendChan[c])) = Len(sendChan[c]) - 1
      BY <3>1, HeadTailProperties
    <3>3. Len(sendChan[c]) \in Nat
      BY <3>1, LenProperties
    <3> QED
      BY <3>1, <3>2, <3>3, SendCapAssumption
  <2>2. /\ hand' = [hand EXCEPT ![c] = <<Head(sendChan[c])>>]
        /\ sendChan' = [sendChan EXCEPT ![c] = Tail(@)]
    BY <1>1 DEF WriterTakes
  <2>3. /\ hand' \in [Clients -> Seq(Numbers)]
        /\ sendChan' \in [Clients -> Seq(Numbers)]
        /\ \A d \in Clients : Len(sendChan'[d]) <= SendCap /\ Len(hand'[d]) <= 1
    BY <2>1, <2>2 DEF Types, TypeOK, Numbers
  <2> QED
    BY <1>1, <2>3 DEF Types, TypeOK, WriterTakes, shared, Numbers
<1>2. CASE WriterWrites(c)
  <2>1. /\ hand' \in [Clients -> Seq(Numbers)]
        /\ \A d \in Clients : Len(hand'[d]) <= 1
    BY <1>2 DEF Types, TypeOK, WriterWrites
  <2>2. written' \in [Clients -> Seq(Numbers)]
    <3>1. written[c] \o hand[c] \in Seq(Numbers)
      BY ConcatProperties DEF Types
    <3> QED
      BY <1>2, <3>1 DEF Types, WriterWrites
  <2>3. writerUp' \in [Clients -> BOOLEAN]
    BY <1>2 DEF Types, TypeOK, WriterWrites, GoesOn
  <2> QED
    BY <1>2, <2>1, <2>2, <2>3 DEF Types, TypeOK, WriterWrites, shared
<1> QED
  BY <1>1, <1>2

LEMMA StepTypes ==
  ASSUME Types, JobsApart, JobCounts, [Next]_vars
  PROVE  Types'
<1>1. CASE UNCHANGED vars
  BY <1>1 DEF vars, shared, pipe, Types, TypeOK
<1>2. ASSUME NEW c \in Clients, NEW ch \in Channels, Subscribe(c, ch) PROVE Types'
  BY <1>2 DEF Subscribe, Types, TypeOK, pipe
<1>3. ASSUME NEW c \in Clients, NEW ch \in Channels, Unsubscribe(c, ch) PROVE Types'
  BY <1>3 DEF Unsubscribe, Types, TypeOK, pipe
<1>4. ASSUME NEW c \in Clients, Close(c) \/ HandlerEnds(c) PROVE Types'
  BY <1>4 DEF Close, HandlerEnds, Types, TypeOK, pipe, shared
<1> QED
  BY <1>1, <1>2, <1>3, <1>4, SnapshotTypes, OfferTypes, ReplyTypes, WriterTypes DEF Next

-----------------------------------------------------------------------------
(* What a step does to the messages.                                       *)

(* Every other step leaves the jobs, the messages and what was queued.     *)
Quiet ==
  /\ UNCHANGED <<job, published, queued>>
  /\ \A c \in Clients : pc'[c] = "publishing" <=> pc[c] = "publishing"

LEMMA StepCases ==
  ASSUME Types, [Next]_vars
  PROVE  \/ Quiet
         \/ \E c \in Clients, ch \in Channels : PublishSnapshot(c, ch)
         \/ \E c \in Clients, to \in Clients : PublishOffer(c, to)
         \/ \E c \in Clients : PublishReply(c)
<1>1. CASE UNCHANGED vars
  BY <1>1 DEF vars, pipe, Quiet
<1>2. ASSUME NEW c \in Clients, NEW ch \in Channels, Subscribe(c, ch) \/ Unsubscribe(c, ch)
      PROVE  Quiet
  BY <1>2 DEF Subscribe, Unsubscribe, pipe, Quiet
<1>3. ASSUME NEW c \in Clients, WriterTakes(c) \/ WriterWrites(c) \/ Close(c) \/ HandlerEnds(c)
      PROVE  Quiet
  BY <1>3 DEF WriterTakes, WriterWrites, Close, HandlerEnds, pipe, Quiet, Types, TypeOK
<1> QED
  BY <1>1, <1>2, <1>3 DEF Next

(* A message keeps its channel, its audience and what was answered before  *)
(* it, and its answer once there is one.                                   *)
MessagesStay ==
  /\ DOMAIN published \subseteq DOMAIN published'
  /\ \A m \in DOMAIN published :
       /\ published'[m].audience = published[m].audience
       /\ published'[m].earlier = published[m].earlier
  /\ Answered \subseteq Answered'
  /\ \A m \in Answered : published'[m].count = published[m].count

(* A new message takes the next number and is not answered.                *)
LEMMA SnapshotMessages ==
  ASSUME Types, NEW c \in Clients, NEW ch \in Channels, PublishSnapshot(c, ch)
  PROVE  LET m == Len(published) + 1
         IN  /\ MessagesStay
             /\ DOMAIN published' = DOMAIN published \cup {m}
             /\ m \notin DOMAIN published
             /\ published'[m].audience = channels[ch]
             /\ published'[m].earlier = Answered
             /\ published'[m].count = -1
             /\ \A x \in DOMAIN published : published'[x] = published[x]
             /\ Answered' = Answered
<1> DEFINE m == Len(published) + 1
           new == [channel |-> ch, audience |-> channels[ch], earlier |-> Answered, count |-> -1]
<1>1. published \in Seq(Message) /\ published' = Append(published, new)
  BY DEF Types, TypeOK, PublishSnapshot, Begun
<1>2. /\ DOMAIN published = 1..Len(published) /\ Len(published) \in Nat
      /\ DOMAIN published' = 1..m
      /\ \A x \in DOMAIN published : published'[x] = published[x]
      /\ published'[m] = new
  BY <1>1
<1>3. DOMAIN published' = DOMAIN published \cup {m} /\ m \notin DOMAIN published
  BY <1>2
<1>4. Answered' = Answered
  BY <1>2, <1>3 DEF Answered
<1> QED
  BY <1>2, <1>3, <1>4 DEF MessagesStay, Answered

(* An answer changes the count of the message of the job, and no other.    *)
LEMMA ReplyMessages ==
  ASSUME Types, JobsApart, NEW c \in Clients, PublishReply(c)
  PROVE  LET m == job[c].message
         IN  /\ MessagesStay
             /\ m \in DOMAIN published
             /\ DOMAIN published' = DOMAIN published
             /\ published'[m].count = job[c].count
             /\ \A x \in DOMAIN published \ {m} : published'[x] = published[x]
             /\ Answered' = Answered \cup {m}
<1> DEFINE m == job[c].message
<1>1. /\ published \in Seq(Message) /\ m \in DOMAIN published
      /\ published[m].count = -1 /\ job[c].count \in Nat
  BY DEF Types, TypeOK, JobsApart, PublishReply, Jobs
<1>2. published' = [published EXCEPT ![m] = [published[m] EXCEPT !.count = job[c].count]]
  BY DEF PublishReply
<1>3. published[m] \in Message
  BY <1>1
<1>4. /\ DOMAIN published' = DOMAIN published
      /\ \A x \in DOMAIN published \ {m} : published'[x] = published[x]
      /\ published'[m].count = job[c].count
      /\ published'[m].audience = published[m].audience
      /\ published'[m].earlier = published[m].earlier
  BY <1>1, <1>2, <1>3 DEF Message
<1>5. Answered' = Answered \cup {m}
  <2> HIDE DEF m
  <2> QED
    BY <1>1, <1>4 DEF Answered
<1> QED
  BY <1>1, <1>4, <1>5 DEF MessagesStay, Answered

(* An offer that is taken enters one queue, after everything in it.        *)
LEMMA OfferQueues ==
  ASSUME Types, JobsApart, NEW c \in Clients, NEW to \in Clients, PublishOffer(c, to)
  PROVE  LET m == job[c].message
         IN  /\ job' = [job EXCEPT ![c] = Offered(job[c], to, ~Full(to))]
             /\ UNCHANGED <<published, pc>>
             /\ \A d \in Clients \ {to} : queued'[d] = queued[d]
             /\ Full(to) => queued'[to] = queued[to] /\ sendChan' = sendChan
             /\ ~Full(to) => /\ sendChan' = [sendChan EXCEPT ![to] = Append(sendChan[to], m)]
                             /\ queued'[to] = Append(queued[to], m)
                             /\ Len(queued'[to]) = Len(queued[to]) + 1
                             /\ queued'[to][Len(queued[to]) + 1] = m
                             /\ \A i \in 1..Len(queued[to]) : queued'[to][i] = queued[to][i]
<1> DEFINE m == job[c].message
<1>1. m \in Numbers
  BY BoundsAssumption DEF Types, TypeOK, JobsApart, PublishOffer, Numbers
<1>2. /\ Len(Append(queued[to], m)) = Len(queued[to]) + 1
      /\ Append(queued[to], m)[Len(queued[to]) + 1] = m
      /\ \A i \in 1..Len(queued[to]) : Append(queued[to], m)[i] = queued[to][i]
  BY <1>1, AppendProperties DEF Types
<1>3. ~Full(to) => queued'[to] = Append(queued[to], m)
  BY DEF PublishOffer, Types
<1> QED
  BY <1>2, <1>3 DEF PublishOffer, Types

-----------------------------------------------------------------------------
(* What PUBLISH counts.                                                    *)

LEMMA QuietCounts ==
  ASSUME CountInv, Quiet
  PROVE  CountInv'
<1>1. /\ job' = job /\ published' = published /\ queued' = queued
      /\ \A c \in Clients : pc'[c] = "publishing" <=> pc[c] = "publishing"
  BY DEF Quiet
<1>2. Answered' = Answered /\ \A m : Got(queued', m) = Got(queued, m)
  BY <1>1 DEF Answered, Got, Holds
<1>3. JobsApart' /\ QueuedKnown' /\ QueuedOnce'
  BY <1>1 DEF CountInv, JobsApart, QueuedKnown, QueuedOnce
<1>4. LeftHasNot' /\ JobCounts' /\ AnswerCounts'
  BY <1>1, <1>2 DEF CountInv, LeftHasNot, JobCounts, AnswerCounts, Holds
<1> QED
  BY <1>3, <1>4 DEF CountInv

LEMMA SnapshotCounts ==
  ASSUME Types, CountInv, NEW c \in Clients, NEW ch \in Channels, PublishSnapshot(c, ch)
  PROVE  CountInv'
<1> DEFINE m == Len(published) + 1
<1>1. /\ DOMAIN published' = DOMAIN published \cup {m}
      /\ m \notin DOMAIN published
      /\ published'[m].count = -1
      /\ \A x \in DOMAIN published : published'[x] = published[x]
      /\ Answered' = Answered
  BY SnapshotMessages
<1>2. /\ queued' = queued
      /\ \A d \in Clients : pc'[d] = "publishing" <=> d = c \/ pc[d] = "publishing"
      /\ \A d \in Clients \ {c} : job'[d] = job[d]
      /\ job'[c] = [message |-> m, left |-> channels[ch], count |-> 0]
      /\ channels[ch] \subseteq Clients
  BY DEF Types, TypeOK, PublishSnapshot, Begun, pipe
<1> HIDE DEF m
<1>3. \A x : Got(queued', x) = Got(queued, x)
  BY <1>2 DEF Got, Holds
<1>4. \A d \in Clients : ~Holds(queued[d], m)
  BY <1>1 DEF CountInv, QueuedKnown, Holds
<1>5. JobsApart'
  BY <1>1, <1>2 DEF CountInv, JobsApart
<1>6. QueuedKnown' /\ QueuedOnce'
  BY <1>1, <1>2 DEF CountInv, QueuedKnown, QueuedOnce
<1>7. LeftHasNot'
  BY <1>2, <1>4 DEF CountInv, LeftHasNot, Holds
<1>8. JobCounts'
  <2>1. Got(queued, m) = {} /\ Cardinality({}) = 0
    BY <1>4, FS_EmptySet DEF Got
  <2>2. job'[c].count = Cardinality(Got(queued', job'[c].message))
    BY <1>2, <1>3, <2>1
  <2> QED
    BY <1>2, <1>3, <2>2 DEF CountInv, JobCounts
<1>9. AnswerCounts'
  BY <1>1, <1>3 DEF CountInv, AnswerCounts, Answered
<1> QED
  BY <1>5, <1>6, <1>7, <1>8, <1>9 DEF CountInv

LEMMA OfferCounts ==
  ASSUME Types, CountInv, NEW c \in Clients, NEW to \in Clients, PublishOffer(c, to)
  PROVE  CountInv'
<1> DEFINE m == job[c].message
<1>1. pc[c] = "publishing" /\ to \in job[c].left /\ m \in DOMAIN published
  BY DEF CountInv, JobsApart, PublishOffer
<1>2. /\ UNCHANGED <<published, pc>>
      /\ \A d \in Clients \ {c} : job'[d] = job[d]
      /\ job'[c].message = m
      /\ job'[c].left = job[c].left \ {to}
      /\ job'[c].count = IF ~Full(to) THEN job[c].count + 1 ELSE job[c].count
  <2>1. job[c] \in Jobs /\ Offered(job[c], to, ~Full(to)) = job'[c]
    BY DEF Types, PublishOffer
  <2>2. /\ job'[c].message = m
        /\ job'[c].left = job[c].left \ {to}
        /\ job'[c].count = IF ~Full(to) THEN job[c].count + 1 ELSE job[c].count
    <3>1. PICK o : o = Offered(job[c], to, ~Full(to))
      OBVIOUS
    <3>2. /\ o.message = m
          /\ o.left = job[c].left \ {to}
          /\ o.count = IF ~Full(to) THEN job[c].count + 1 ELSE job[c].count
      <4>1. job[c] \in Jobs
        BY <2>1
      <4> QED
        BY <3>1, <4>1, OfferedFields
    <3> QED
      BY <2>1, <3>1, <3>2
  <2>3. \A d \in Clients \ {c} : job'[d] = job[d]
    BY DEF Types, PublishOffer
  <2>4. UNCHANGED <<published, pc>>
    BY DEF PublishOffer
  <2> QED
    BY <2>2, <2>3, <2>4
<1>3. JobsApart'
  BY <1>1, <1>2 DEF CountInv, JobsApart
<1>4. CASE Full(to)
  <2>1. queued' = queued /\ job'[c].count = job[c].count
    BY <1>2, <1>4 DEF PublishOffer
  <2>2. Answered' = Answered /\ \A x : Got(queued', x) = Got(queued, x)
    BY <1>2, <2>1 DEF Answered, Got, Holds
  <2>3. QueuedKnown' /\ QueuedOnce'
    BY <1>2, <2>1 DEF CountInv, QueuedKnown, QueuedOnce
  <2>4. LeftHasNot'
    BY <1>1, <1>2, <2>1 DEF CountInv, LeftHasNot, Holds
  <2>5. JobCounts' /\ AnswerCounts'
    BY <1>1, <1>2, <2>1, <2>2 DEF CountInv, JobCounts, AnswerCounts
  <2> QED
    BY <1>3, <2>3, <2>4, <2>5 DEF CountInv
<1>5. CASE ~Full(to)
  <2>1. /\ \A d \in Clients \ {to} : queued'[d] = queued[d]
        /\ DOMAIN queued[to] = 1..Len(queued[to]) /\ Len(queued[to]) \in Nat
        /\ DOMAIN queued'[to] = 1..(Len(queued[to]) + 1)
        /\ queued'[to][Len(queued[to]) + 1] = m
        /\ \A i \in 1..Len(queued[to]) : queued'[to][i] = queued[to][i]
    <3>1. queued'[to] \in Seq(Numbers) /\ queued[to] \in Seq(Numbers)
      BY OfferTypes DEF CountInv, Types
    <3> QED
      BY <1>5, <3>1, OfferQueues DEF CountInv
  <2>2. job'[c].count = job[c].count + 1
    BY <1>2, <1>5
  <2> HIDE DEF m
  <2>3. ~Holds(queued[to], m)
    BY <1>1 DEF CountInv, LeftHasNot, m
  <2>4. \A x : Holds(queued'[to], x) <=> x = m \/ Holds(queued[to], x)
    BY <2>1 DEF Holds
  <2>5. \A d \in Clients \ {to} : \A x : Holds(queued'[d], x) <=> Holds(queued[d], x)
    BY <2>1 DEF Holds
  <2>6. QueuedKnown' /\ QueuedOnce'
    <3>1. QueuedKnown'
      BY <1>1, <1>2, <2>1 DEF CountInv, QueuedKnown, m
    <3>2. ASSUME NEW d \in Clients, NEW i \in DOMAIN queued'[d], NEW j \in DOMAIN queued'[d],
                 queued'[d][i] = queued'[d][j]
          PROVE  i = j
      <4>1. CASE d # to
        BY <2>1, <3>2, <4>1 DEF CountInv, QueuedOnce
      <4>2. CASE d = to
        <5>1. \A k \in 1..Len(queued[to]) : queued[to][k] # m
          BY <2>1, <2>3 DEF Holds
        <5>2. CASE i \in 1..Len(queued[to]) /\ j \in 1..Len(queued[to])
          BY <2>1, <3>2, <4>2, <5>2 DEF CountInv, QueuedOnce
        <5>3. CASE i \in 1..Len(queued[to]) /\ j \notin 1..Len(queued[to])
          <6>1. j = Len(queued[to]) + 1
            BY <2>1, <4>2, <5>3
          <6> QED
            BY <2>1, <3>2, <4>2, <5>1, <5>3, <6>1
        <5>4. CASE i \notin 1..Len(queued[to])
          <6>1. i = Len(queued[to]) + 1
            BY <2>1, <4>2, <5>4
          <6> QED
            BY <2>1, <3>2, <4>2, <5>1, <6>1
        <5> QED
          BY <5>2, <5>3, <5>4
      <4> QED
        BY <4>1, <4>2
    <3> QED
      BY <3>1, <3>2 DEF QueuedOnce
  <2>7. LeftHasNot'
    <3>1. ASSUME NEW d \in Clients, pc'[d] = "publishing", NEW e \in job'[d].left
          PROVE  ~Holds(queued'[e], job'[d].message)
      <4>1. pc[d] = "publishing" /\ job'[d].message = job[d].message /\ e \in job[d].left /\ e \in Clients
        BY <1>2, <3>1 DEF m, Types, Jobs
      <4>2. ~Holds(queued[e], job[d].message)
        BY <4>1 DEF CountInv, LeftHasNot
      <4>3. CASE e # to
        BY <2>5, <4>1, <4>2, <4>3
      <4>4. CASE e = to
        <5>1. d # c
          BY <1>2, <3>1, <4>4
        <5>2. job[d].message # m
          BY <1>1, <4>1, <5>1 DEF CountInv, JobsApart, m
        <5> QED
          BY <2>4, <4>1, <4>2, <4>4, <5>2
      <4> QED
        BY <4>3, <4>4
    <3> QED
      BY <3>1 DEF LeftHasNot
  <2>8. /\ Got(queued', m) = Got(queued, m) \cup {to} /\ to \notin Got(queued, m)
        /\ \A x : x # m => Got(queued', x) = Got(queued, x)
    BY <2>3, <2>4, <2>5 DEF Got
  <2>9. JobCounts'
    <3>1. Cardinality(Got(queued', m)) = Cardinality(Got(queued, m)) + 1
      <4>1. IsFiniteSet(Got(queued, m))
        BY SomeClients DEF Got
      <4> QED
        BY <2>8, <4>1, FS_AddElement
    <3>2. ASSUME NEW d \in Clients, pc'[d] = "publishing"
          PROVE  job'[d].count = Cardinality(Got(queued', job'[d].message))
      <4>1. CASE d = c
        BY <1>1, <1>2, <2>2, <3>1, <4>1 DEF CountInv, JobCounts, m
      <4>2. CASE d # c
        <5>1. job[d].message # m /\ pc[d] = "publishing"
          BY <1>1, <1>2, <3>2, <4>2 DEF CountInv, JobsApart, m
        <5> QED
          BY <1>2, <2>8, <4>2, <5>1 DEF CountInv, JobCounts
      <4> QED
        BY <4>1, <4>2
    <3> QED
      BY <3>2 DEF JobCounts
  <2>10. AnswerCounts'
    <3>1. Answered' = Answered /\ m \notin Answered
      BY <1>1, <1>2 DEF Answered, CountInv, JobsApart, m
    <3> QED
      BY <1>2, <2>8, <3>1 DEF CountInv, AnswerCounts
  <2> QED
    BY <1>3, <2>6, <2>7, <2>9, <2>10 DEF CountInv
<1> QED
  BY <1>4, <1>5

LEMMA ReplyCounts ==
  ASSUME Types, CountInv, NEW c \in Clients, PublishReply(c)
  PROVE  CountInv'
<1> DEFINE m == job[c].message
<1>1. /\ DOMAIN published' = DOMAIN published
      /\ published'[m].count = job[c].count
      /\ \A x \in DOMAIN published \ {m} : published'[x] = published[x]
      /\ Answered' = Answered \cup {m}
  BY ReplyMessages DEF CountInv
<1>2. /\ queued' = queued /\ pc[c] = "publishing"
      /\ \A d \in Clients : pc'[d] = "publishing" <=> d # c /\ pc[d] = "publishing"
      /\ \A d \in Clients \ {c} : job'[d] = job[d]
  BY DEF Types, TypeOK, PublishReply, pipe
<1>3. \A x : Got(queued', x) = Got(queued, x)
  BY <1>2 DEF Got, Holds
<1>4. QueuedKnown' /\ QueuedOnce'
  BY <1>1, <1>2 DEF CountInv, QueuedKnown, QueuedOnce
<1>5. \A d \in Clients : pc'[d] = "publishing" => job[d].message # m
  BY <1>2 DEF CountInv, JobsApart
<1> HIDE DEF m
<1>6. JobsApart'
  BY <1>1, <1>2, <1>5 DEF CountInv, JobsApart
<1>7. LeftHasNot'
  BY <1>2 DEF CountInv, LeftHasNot, Holds
<1>8. JobCounts'
  BY <1>2, <1>3 DEF CountInv, JobCounts
<1>9. AnswerCounts'
  <2>1. published'[m].count = Cardinality(Got(queued', m))
    BY <1>1, <1>2, <1>3 DEF CountInv, JobCounts, m
  <2>2. ASSUME NEW x \in Answered, x # m
        PROVE  published'[x].count = Cardinality(Got(queued', x))
    BY <1>1, <1>3, <2>2 DEF CountInv, AnswerCounts, Answered
  <2> QED
    BY <1>1, <2>1, <2>2 DEF AnswerCounts
<1> QED
  BY <1>4, <1>6, <1>7, <1>8, <1>9 DEF CountInv

LEMMA StepCounts ==
  ASSUME Types, CountInv, [Next]_vars
  PROVE  CountInv'
BY StepCases, QuietCounts, SnapshotCounts, OfferCounts, ReplyCounts

-----------------------------------------------------------------------------
(* The order of the messages on their way to a connection.                 *)

(* p is q with some elements left out.                                     *)
Thins(p, q) ==
  \E f \in [DOMAIN p -> DOMAIN q] :
    /\ \A i \in DOMAIN p : p[i] = q[f[i]]
    /\ \A i, j \in DOMAIN p : i < j => f[i] < f[j]

(* A queue without a part in the middle.                                   *)
LEMMA MiddleDropped ==
  ASSUME NEW w \in Seq(Numbers), NEW h \in Seq(Numbers), NEW s \in Seq(Numbers)
  PROVE  Thins(w \o s, w \o h \o s)
<1> DEFINE p == w \o s
           q == w \o h \o s
           f == [i \in DOMAIN p |-> IF i <= Len(w) THEN i ELSE i + Len(h)]
<1>1. /\ Len(w) \in Nat /\ Len(h) \in Nat /\ Len(s) \in Nat
      /\ w \o h \in Seq(Numbers) /\ Len(w \o h) = Len(w) + Len(h)
      /\ \A i \in 1..Len(w) : (w \o h)[i] = w[i]
  BY LenProperties, ConcatProperties
<1>2. /\ DOMAIN p = 1..(Len(w) + Len(s))
      /\ \A i \in DOMAIN p : p[i] = IF i <= Len(w) THEN w[i] ELSE s[i - Len(w)]
  BY <1>1, ConcatProperties
<1>3. /\ DOMAIN q = 1..(Len(w) + Len(h) + Len(s))
      /\ \A i \in DOMAIN q :
           q[i] = IF i <= Len(w) + Len(h) THEN (w \o h)[i] ELSE s[i - (Len(w) + Len(h))]
  BY <1>1, ConcatProperties
<1> HIDE DEF p, q
<1>4. f \in [DOMAIN p -> DOMAIN q]
  BY <1>1, <1>2, <1>3
<1>5. ASSUME NEW i \in DOMAIN p PROVE p[i] = q[f[i]]
  <2>1. CASE i <= Len(w)
    BY <1>1, <1>2, <1>3, <2>1
  <2>2. CASE i > Len(w)
    <3>1. /\ f[i] = i + Len(h) /\ i \in Nat /\ i <= Len(w) + Len(s)
          /\ p[i] = s[i - Len(w)]
      BY <1>1, <1>2, <2>2
    <3>2. q[i + Len(h)] = s[i + Len(h) - (Len(w) + Len(h))]
      BY <1>1, <1>3, <2>2, <3>1
    <3>3. i + Len(h) - (Len(w) + Len(h)) = i - Len(w)
      BY <1>1, <3>1
    <3> QED
      BY <3>1, <3>2, <3>3
  <2> QED
    BY <1>1, <1>2, <2>1, <2>2
<1>6. \A i, j \in DOMAIN p : i < j => f[i] < f[j]
  BY <1>1, <1>2
<1> QED
  BY <1>4, <1>5, <1>6 DEF Thins, p, q

LEMMA ThinsItself ==
  ASSUME NEW q \in Seq(Numbers)
  PROVE  Thins(q, q)
<1> DEFINE f == [i \in DOMAIN q |-> i]
<1>1. f \in [DOMAIN q -> DOMAIN q] /\ \A i \in DOMAIN q : f[i] = i
  OBVIOUS
<1> QED
  BY <1>1 DEF Thins

LEMMA PipelineType ==
  ASSUME Types, NEW c \in Clients
  PROVE  /\ sendChan[c] \in Seq(Numbers) /\ hand[c] \in Seq(Numbers)
         /\ written[c] \in Seq(Numbers) /\ Pipeline(c) \in Seq(Numbers)
<1>1. sendChan[c] \in Seq(Numbers) /\ hand[c] \in Seq(Numbers) /\ written[c] \in Seq(Numbers)
  BY DEF Types, TypeOK, Numbers
<1> QED
  BY <1>1, ConcatProperties DEF Pipeline

(* No step but an offer puts anything into a pipeline, and none moves one  *)
(* message past another.                                                   *)
LEMMA PipelineThins ==
  ASSUME Types, [Next]_vars, NEW c \in Clients,
         ~\E d \in Clients : PublishOffer(d, c)
  PROVE  Thins(Pipeline(c)', Pipeline(c))
<1>1. CASE UNCHANGED <<sendChan[c], hand[c], written[c]>>
  BY <1>1, ThinsItself, PipelineType DEF Pipeline
<1>2. ASSUME NEW d \in Clients, NEW to \in Clients, PublishOffer(d, to)
      PROVE  UNCHANGED <<sendChan[c], hand[c], written[c]>>
  BY <1>2 DEF PublishOffer, Types, TypeOK
<1>3. CASE WriterTakes(c)
  <2> DEFINE x == Head(sendChan[c])
  <2>1. /\ sendChan[c] \in Seq(Numbers) /\ sendChan[c] # <<>>
        /\ sendChan'[c] = Tail(sendChan[c]) /\ hand'[c] = <<x>> /\ hand[c] = <<>>
        /\ written'[c] = written[c] /\ written[c] \in Seq(Numbers)
    BY <1>3 DEF WriterTakes, Types, TypeOK, Numbers
  <2>2. x \in Numbers /\ Tail(sendChan[c]) \in Seq(Numbers) /\ <<x>> \in Seq(Numbers)
    BY <2>1, HeadTailProperties
  <2>3. <<x>> \o Tail(sendChan[c]) = sendChan[c]
    BY <2>1, HeadTailAppend
  <2>4. written[c] \o <<x>> \o Tail(sendChan[c]) = written[c] \o (<<x>> \o Tail(sendChan[c]))
    <3>1. \A h, t \in Seq(Numbers) : \A w \in Seq(Numbers) : w \o h \o t = w \o (h \o t)
      BY ConcatAssociative
    <3> QED
      BY <2>1, <2>2, <3>1, Zenon
  <2>5. written[c] \o <<>> = written[c]
    BY <2>1, ConcatEmptySeq
  <2>6. Pipeline(c)' = Pipeline(c)
    BY <2>1, <2>3, <2>4, <2>5 DEF Pipeline
  <2> QED
    BY <2>6, ThinsItself, PipelineType
<1>4. CASE WriterWrites(c)
  <2>1. /\ sendChan'[c] = sendChan[c] /\ hand'[c] = <<>>
        /\ written'[c] = IF open[c] THEN written[c] \o hand[c] ELSE written[c]
    BY <1>4 DEF WriterWrites, Types, TypeOK
  <2>2. /\ written[c] \o <<>> = written[c]
        /\ written[c] \o hand[c] \o <<>> = written[c] \o hand[c]
    BY PipelineType, ConcatEmptySeq, ConcatProperties
  <2>3. CASE open[c]
    BY <2>1, <2>2, <2>3, ThinsItself, PipelineType DEF Pipeline
  <2>4. CASE ~open[c]
    BY <2>1, <2>2, <2>4, MiddleDropped, PipelineType DEF Pipeline
  <2> QED
    BY <2>3, <2>4
<1>5. ASSUME NEW d \in Clients \ {c}, WriterTakes(d) \/ WriterWrites(d)
      PROVE  UNCHANGED <<sendChan[c], hand[c], written[c]>>
  BY <1>5 DEF WriterTakes, WriterWrites, Types, TypeOK
<1>6. ASSUME NEW d \in Clients, NEW ch \in Channels,
             Subscribe(d, ch) \/ Unsubscribe(d, ch) \/ PublishSnapshot(d, ch)
      PROVE  UNCHANGED <<sendChan[c], hand[c], written[c]>>
  BY <1>6 DEF Subscribe, Unsubscribe, PublishSnapshot, Begun, pipe
<1>7. ASSUME NEW d \in Clients, PublishReply(d) \/ Close(d) \/ HandlerEnds(d)
      PROVE  UNCHANGED <<sendChan[c], hand[c], written[c]>>
  BY <1>7 DEF PublishReply, Close, HandlerEnds, pipe
<1>8. CASE UNCHANGED vars
  BY <1>1, <1>8 DEF vars, pipe
<1> QED
  BY <1>1, <1>2, <1>3, <1>4, <1>5, <1>6, <1>7, <1>8 DEF Next

(* The order is kept: what is offered is not answered, so it cannot be     *)
(* among what was answered before another message.                         *)
LEMMA StepOrder ==
  ASSUME Types, CountInv, OrderInv, [Next]_vars
  PROVE  OrderInv'
<1>1. MessagesStay /\ EarlierAnswered'
  <2>1. CASE Quiet
    BY <2>1 DEF Quiet, MessagesStay, Answered, OrderInv, EarlierAnswered
  <2>2. ASSUME NEW c \in Clients, NEW ch \in Channels, PublishSnapshot(c, ch)
        PROVE  MessagesStay /\ EarlierAnswered'
    BY <2>2, SnapshotMessages DEF OrderInv, EarlierAnswered
  <2>3. ASSUME NEW c \in Clients, NEW to \in Clients, PublishOffer(c, to)
        PROVE  MessagesStay /\ EarlierAnswered'
    BY <2>3 DEF PublishOffer, MessagesStay, Answered, OrderInv, EarlierAnswered
  <2>4. ASSUME NEW c \in Clients, PublishReply(c)
        PROVE  MessagesStay /\ EarlierAnswered'
    <3>1. MessagesStay /\ DOMAIN published' = DOMAIN published
      BY <2>4, ReplyMessages DEF CountInv
    <3> QED
      BY <3>1 DEF MessagesStay, OrderInv, EarlierAnswered
  <2> QED
    BY StepCases, <2>1, <2>2, <2>3, <2>4
<1>2. ASSUME NEW c \in Clients, ~\E d \in Clients : PublishOffer(d, c)
      PROVE  /\ \A i \in DOMAIN Pipeline(c)' : Pipeline(c)'[i] \in DOMAIN published'
             /\ \A i, j \in DOMAIN Pipeline(c)' :
                  i < j => Pipeline(c)'[j] \notin published'[Pipeline(c)'[i]].earlier
  <2> DEFINE p == Pipeline(c)'
             q == Pipeline(c)
  <2>1. PICK f \in [DOMAIN p -> DOMAIN q] :
          /\ \A i \in DOMAIN p : p[i] = q[f[i]]
          /\ \A i, j \in DOMAIN p : i < j => f[i] < f[j]
    BY <1>2, PipelineThins DEF Thins
  <2>2. /\ \A i \in DOMAIN q : q[i] \in DOMAIN published
        /\ \A i, j \in DOMAIN q : i < j => q[j] \notin published[q[i]].earlier
    BY DEF OrderInv, PipelineKnown, NeverOvertakes
  <2> HIDE DEF p, q
  <2>3. \A i \in DOMAIN p : p[i] \in DOMAIN published'
    BY <1>1, <2>1, <2>2 DEF MessagesStay
  <2>4. ASSUME NEW i \in DOMAIN p, NEW j \in DOMAIN p, i < j
        PROVE  p[j] \notin published'[p[i]].earlier
    <3>1. /\ f[i] \in DOMAIN q /\ f[j] \in DOMAIN q /\ f[i] < f[j]
          /\ p[i] = q[f[i]] /\ p[j] = q[f[j]]
      BY <2>1, <2>4
    <3>2. p[i] \in DOMAIN published /\ p[j] \notin published[p[i]].earlier
      BY <2>2, <3>1
    <3> QED
      BY <1>1, <3>2 DEF MessagesStay
  <2> QED
    BY <2>3, <2>4 DEF p, q
<1>3. ASSUME NEW c \in Clients, NEW d \in Clients, PublishOffer(d, c)
      PROVE  /\ \A i \in DOMAIN Pipeline(c)' : Pipeline(c)'[i] \in DOMAIN published'
             /\ \A i, j \in DOMAIN Pipeline(c)' :
                  i < j => Pipeline(c)'[j] \notin published'[Pipeline(c)'[i]].earlier
  <2> DEFINE m == job[d].message
             p == Pipeline(c)'
             q == Pipeline(c)
  <2>1. /\ m \in DOMAIN published /\ m \in Numbers /\ m \notin Answered
        /\ published' = published
    BY <1>3, BoundsAssumption
       DEF CountInv, JobsApart, PublishOffer, Answered, Types, TypeOK, Numbers
  <2>2. /\ \A i \in DOMAIN q : q[i] \in DOMAIN published
        /\ \A i, j \in DOMAIN q : i < j => q[j] \notin published[q[i]].earlier
        /\ \A x \in DOMAIN published : m \notin published[x].earlier
    BY <2>1 DEF OrderInv, PipelineKnown, NeverOvertakes, EarlierAnswered
  <2>3. q \in Seq(Numbers)
    BY PipelineType
  <2>4. p = q \/ p = Append(q, m)
    <3>1. CASE Full(c)
      BY <1>3, <3>1 DEF PublishOffer, Pipeline
    <3>2. CASE ~Full(c)
      <4>1. /\ sendChan[c] \in Seq(Numbers) /\ hand[c] \in Seq(Numbers)
            /\ written[c] \in Seq(Numbers) /\ written[c] \o hand[c] \in Seq(Numbers)
            /\ <<m>> \in Seq(Numbers)
        BY <2>1, PipelineType, ConcatProperties
      <4>2. /\ sendChan'[c] = Append(sendChan[c], m)
            /\ written'[c] = written[c] /\ hand'[c] = hand[c]
        BY <1>3, <3>2 DEF PublishOffer, Types, TypeOK
      <4>3. /\ Append(sendChan[c], m) = sendChan[c] \o <<m>>
            /\ Append(q, m) = q \o <<m>>
        BY <2>1, <2>3, <4>1, AppendIsConcat
      <4>4. \A x, y \in Seq(Numbers) : \A w \in Seq(Numbers) : w \o x \o y = w \o (x \o y)
        BY ConcatAssociative
      <4>5. written[c] \o hand[c] \o sendChan[c] \o <<m>>
              = written[c] \o hand[c] \o (sendChan[c] \o <<m>>)
        BY <4>1, <4>4, Zenon
      <4>6. /\ p = written[c] \o hand[c] \o (sendChan[c] \o <<m>>)
            /\ q = written[c] \o hand[c] \o sendChan[c]
        BY <4>2, <4>3 DEF Pipeline
      <4> QED
        BY <4>3, <4>5, <4>6
    <3> QED
      BY <3>1, <3>2
  <2> HIDE DEF p, q, m
  <2>5. CASE p = q
    BY <2>1, <2>2, <2>5 DEF p, q
  <2>6. CASE p = Append(q, m)
    <3>1. /\ DOMAIN q = 1..Len(q) /\ Len(q) \in Nat /\ DOMAIN p = 1..(Len(q) + 1)
          /\ p[Len(q) + 1] = m /\ \A i \in 1..Len(q) : p[i] = q[i]
      BY <2>1, <2>3, <2>6, AppendProperties
    <3>2. \A i \in DOMAIN p : p[i] \in DOMAIN published
      BY <2>1, <2>2, <3>1
    <3>3. ASSUME NEW i \in DOMAIN p, NEW j \in DOMAIN p, i < j
          PROVE  p[j] \notin published[p[i]].earlier
      <4>1. i \in DOMAIN q
        BY <3>1, <3>3
      <4>2. CASE j = Len(q) + 1
        BY <2>2, <3>1, <3>2, <4>1, <4>2
      <4>3. CASE j \in DOMAIN q
        BY <2>2, <3>1, <3>3, <4>1, <4>3
      <4> QED
        BY <3>1, <4>2, <4>3
    <3> QED
      BY <2>1, <3>2, <3>3 DEF p, q
  <2> QED
    BY <2>4, <2>5, <2>6
<1>4. PipelineKnown'
  BY <1>2, <1>3 DEF PipelineKnown
<1>5. NeverOvertakes'
  BY <1>2, <1>3 DEF NeverOvertakes
<1> QED
  BY <1>1, <1>4, <1>5 DEF OrderInv

-----------------------------------------------------------------------------
(* When a message is lost.                                                 *)

(* sendChan stays the newest part of what was queued: an offer adds to     *)
(* both at the end, the writer takes from its head.                        *)
LEMMA StepSuffix ==
  ASSUME Types, JobsApart, ChanIsSuffix, [Next]_vars
  PROVE  ChanIsSuffix'
<1> SUFFICES ASSUME NEW c \in Clients PROVE SuffixOf(sendChan'[c], queued'[c])
  BY DEF ChanIsSuffix
<1>1. SuffixOf(sendChan[c], queued[c])
  BY DEF ChanIsSuffix
<1>2. sendChan[c] \in Seq(Numbers) /\ queued[c] \in Seq(Numbers)
  BY DEF Types, TypeOK, Numbers
<1>3. CASE sendChan'[c] = sendChan[c] /\ queued'[c] = queued[c]
  BY <1>1, <1>3
<1>4. ASSUME NEW d \in Clients, PublishOffer(d, c), ~Full(c)
      PROVE  SuffixOf(sendChan'[c], queued'[c])
  <2> DEFINE m == job[d].message
  <2>1. m \in Numbers
    BY <1>4, BoundsAssumption DEF Types, TypeOK, JobsApart, PublishOffer, Numbers
  <2>2. sendChan'[c] = Append(sendChan[c], m) /\ queued'[c] = Append(queued[c], m)
    BY <1>4 DEF PublishOffer, Types, TypeOK
  <2> HIDE DEF m
  <2>3. ASSUME NEW s \in Seq(Numbers), NEW q \in Seq(Numbers), SuffixOf(s, q)
        PROVE  SuffixOf(Append(s, m), Append(q, m))
    <3>1. /\ Len(Append(s, m)) = Len(s) + 1 /\ Append(s, m)[Len(s) + 1] = m
          /\ \A i \in 1..Len(s) : Append(s, m)[i] = s[i]
          /\ DOMAIN Append(s, m) = 1..(Len(s) + 1) /\ DOMAIN s = 1..Len(s) /\ Len(s) \in Nat
      BY <2>1, AppendProperties
    <3>2. /\ Len(Append(q, m)) = Len(q) + 1 /\ Append(q, m)[Len(q) + 1] = m
          /\ \A i \in 1..Len(q) : Append(q, m)[i] = q[i] /\ Len(q) \in Nat
      BY <2>1, AppendProperties
    <3>3. Len(s) <= Len(q) /\ \A i \in 1..Len(s) : s[i] = q[Len(q) - Len(s) + i]
      BY <2>3, <3>1 DEF SuffixOf
    <3>4. ASSUME NEW i \in 1..(Len(s) + 1)
          PROVE  Append(s, m)[i] = Append(q, m)[(Len(q) + 1) - (Len(s) + 1) + i]
      <4>1. Len(q) \in Nat /\ (Len(q) + 1) - (Len(s) + 1) + i = Len(q) - Len(s) + i
        BY <3>1, LenProperties
      <4>2. CASE i = Len(s) + 1
        BY <3>1, <3>2, <4>1, <4>2
      <4>3. CASE i \in 1..Len(s)
        <5>1. Len(q) - Len(s) + i \in 1..Len(q)
          BY <3>1, <3>3, <4>1, <4>3
        <5> QED
          BY <3>1, <3>2, <3>3, <4>1, <4>3, <5>1
      <4>4. i = Len(s) + 1 \/ i \in 1..Len(s)
        BY LenProperties
      <4> QED
        BY <4>2, <4>3, <4>4
    <3> QED
      BY <3>1, <3>2, <3>3, <3>4 DEF SuffixOf
  <2> QED
    BY <1>1, <1>2, <2>2, <2>3
<1>5. CASE WriterTakes(c)
  <2>1. /\ sendChan[c] # <<>> /\ sendChan'[c] = Tail(sendChan[c]) /\ queued'[c] = queued[c]
    BY <1>5 DEF WriterTakes, Types, TypeOK
  <2>2. ASSUME NEW s \in Seq(Numbers), NEW q \in Seq(Numbers), SuffixOf(s, q), s # <<>>
        PROVE  SuffixOf(Tail(s), q)
    <3>1. /\ Tail(s) \in Seq(Numbers) /\ Len(Tail(s)) = Len(s) - 1
          /\ \A i \in 1..Len(Tail(s)) : Tail(s)[i] = s[i + 1]
      BY <2>2, HeadTailProperties
    <3>2. /\ DOMAIN Tail(s) = 1..(Len(s) - 1) /\ DOMAIN s = 1..Len(s)
          /\ Len(s) \in Nat /\ Len(q) \in Nat
      BY <3>1, LenProperties
    <3>3. ASSUME NEW i \in 1..(Len(s) - 1)
          PROVE  Tail(s)[i] = q[Len(q) - (Len(s) - 1) + i]
      <4>1. i + 1 \in 1..Len(s) /\ Len(q) - Len(s) + (i + 1) = Len(q) - (Len(s) - 1) + i
        BY <3>2
      <4> QED
        BY <2>2, <3>1, <3>2, <4>1 DEF SuffixOf
    <3> QED
      BY <2>2, <3>1, <3>2, <3>3 DEF SuffixOf
  <2> QED
    BY <1>1, <1>2, <2>1, <2>2
<1>6. ASSUME NEW d \in Clients, NEW to \in Clients, PublishOffer(d, to), to # c \/ Full(to)
      PROVE  sendChan'[c] = sendChan[c] /\ queued'[c] = queued[c]
  BY <1>6 DEF PublishOffer, Types, TypeOK
<1>7. ASSUME NEW d \in Clients, WriterTakes(d), d # c
      PROVE  sendChan'[c] = sendChan[c] /\ queued'[c] = queued[c]
  BY <1>7 DEF WriterTakes, Types, TypeOK
<1>8. ASSUME NEW d \in Clients, NEW ch \in Channels,
             Subscribe(d, ch) \/ Unsubscribe(d, ch) \/ PublishSnapshot(d, ch)
      PROVE  sendChan'[c] = sendChan[c] /\ queued'[c] = queued[c]
  BY <1>8 DEF Subscribe, Unsubscribe, PublishSnapshot, Begun, pipe
<1>9. ASSUME NEW d \in Clients,
             PublishReply(d) \/ WriterWrites(d) \/ Close(d) \/ HandlerEnds(d)
      PROVE  sendChan'[c] = sendChan[c] /\ queued'[c] = queued[c]
  BY <1>9 DEF PublishReply, WriterWrites, Close, HandlerEnds, pipe
<1>10. CASE UNCHANGED vars
  BY <1>3, <1>10 DEF vars, pipe
<1> QED
  BY <1>3, <1>4, <1>5, <1>6, <1>7, <1>8, <1>9, <1>10 DEF Next

(* A full queue holds SendCap different messages, none of which started    *)
(* after the answer of a message that has none.                            *)
LEMMA FullIsBacklog ==
  ASSUME Types, CountInv, OrderInv, ChanIsSuffix, NEW c \in Clients, Full(c),
         NEW m, m \notin Answered
  PROVE  Cardinality(Backlog(m, c)) >= SendCap
<1> DEFINE s == sendChan[c]
           q == queued[c]
           f == [i \in 1..SendCap |-> s[i]]
           B == Backlog(m, c)
<1>1. /\ s \in Seq(Numbers) /\ q \in Seq(Numbers) /\ Len(s) = SendCap
      /\ DOMAIN s = 1..SendCap /\ DOMAIN q = 1..Len(q) /\ Len(q) \in Nat /\ SendCap \in Nat
  BY SendCapAssumption DEF Full, Types, TypeOK, Numbers
<1>2. /\ SendCap <= Len(q)
      /\ \A i \in 1..SendCap : /\ Len(q) - SendCap + i \in 1..Len(q)
                              /\ s[i] = q[Len(q) - SendCap + i]
  <2>1. SuffixOf(s, q)
    BY DEF ChanIsSuffix
  <2> HIDE DEF s, q
  <2>2. SendCap <= Len(q) /\ \A i \in 1..SendCap : s[i] = q[Len(q) - SendCap + i]
    BY <1>1, <2>1 DEF SuffixOf
  <2>3. \A i \in 1..SendCap : Len(q) - SendCap + i \in 1..Len(q)
    BY <1>1, <2>2
  <2> QED
    BY <2>2, <2>3
<1>3. /\ \A i \in 1..Len(q) : q[i] \in DOMAIN published
      /\ \A i, j \in 1..Len(q) : q[i] = q[j] => i = j
  BY <1>1 DEF CountInv, QueuedKnown, QueuedOnce
<1> HIDE DEF s, q
<1>4. ASSUME NEW i \in 1..SendCap PROVE s[i] \in B
  <2>1. s[i] \in ToSet(q) /\ s[i] \in DOMAIN published
    BY <1>1, <1>2, <1>3 DEF ToSet
  <2>2. m \notin published[s[i]].earlier
    BY <2>1 DEF OrderInv, EarlierAnswered
  <2> QED
    BY <2>1, <2>2 DEF Backlog, q
<1>5. \A i, j \in 1..SendCap : s[i] = s[j] => i = j
  <2> SUFFICES ASSUME NEW i \in 1..SendCap, NEW j \in 1..SendCap, s[i] = s[j] PROVE i = j
    OBVIOUS
  <2>1. Len(q) - SendCap + i = Len(q) - SendCap + j
    BY <1>2, <1>3
  <2> QED
    BY <1>1, <2>1
<1> HIDE DEF B
<1>6. f \in Injection(1..SendCap, B)
  BY <1>4, <1>5 DEF Injection, IsInjective
<1>7. IsFiniteSet(B)
  <2>1. B \subseteq Numbers
    BY <1>1 DEF Backlog, ToSet, B, q
  <2> QED
    <3>1. IsFiniteSet(Numbers)
      BY BoundsAssumption, FS_Interval DEF Numbers
    <3> QED
      BY <2>1, <3>1, FS_Subset, Zenon
<1>8. Cardinality(1..SendCap) <= Cardinality(B)
  BY <1>6, <1>7, FS_Injection
<1>9. Cardinality(1..SendCap) = SendCap /\ Cardinality(B) \in Nat
  BY <1>1, <1>7, FS_Interval, FS_CardinalityType
<1> QED
  BY <1>1, <1>8, <1>9 DEF B

(* What the type of the messages says of one.                              *)
LEMMA MessageType ==
  ASSUME Types, NEW m \in DOMAIN published
  PROVE  published[m].audience \subseteq Clients /\ published[m].count \in Int
<1>1. published[m] \in Message
  BY DEF Types, TypeOK
<1>2. Cardinality(Clients) \in Nat
  BY BoundsAssumption, FS_CardinalityType
<1>3. \A x \in Message : x.audience \subseteq Clients /\ x.count \in Int
  BY <1>2 DEF Message
<1> QED
  BY <1>1, <1>3

(* Whoever is left out of the queue of a subscriber still has its turn, or *)
(* was offered to a full queue.                                            *)
LEMMA StepMissed ==
  ASSUME Types, CountInv, OrderInv, LossInv, [Next]_vars
  PROVE  MissedBehind'
<1>1. ASSUME NEW m \in DOMAIN published, NEW c \in Clients,
             ToSet(queued[c]) \subseteq ToSet(queued'[c]),
             \A x \in ToSet(queued[c]) : published'[x].earlier = published[x].earlier,
             Cardinality(Backlog(m, c)) >= SendCap, Types'
      PROVE  Cardinality(Backlog(m, c)') >= SendCap
  <2>1. Backlog(m, c) \subseteq Backlog(m, c)'
    BY <1>1 DEF Backlog
  <2>2. IsFiniteSet(Backlog(m, c)')
    <3>1. Backlog(m, c)' \subseteq Numbers
      <4>1. queued'[c] \in Seq(Numbers)
        BY <1>1 DEF Types
      <4> QED
        BY <4>1 DEF Backlog, ToSet
    <3>2. IsFiniteSet(Numbers)
      BY BoundsAssumption, FS_Interval DEF Numbers
    <3> QED
      BY <3>1, <3>2, FS_Subset, Zenon
  <2>3. /\ Cardinality(Backlog(m, c)) <= Cardinality(Backlog(m, c)')
        /\ IsFiniteSet(Backlog(m, c))
    BY <2>1, <2>2, FS_Subset, Zenon
  <2>4. Cardinality(Backlog(m, c)) \in Nat /\ Cardinality(Backlog(m, c)') \in Nat
    BY <2>2, <2>3, FS_CardinalityType
  <2> QED
    BY <1>1, <2>3, <2>4, SendCapAssumption
<1>2. Types'
  BY StepTypes DEF CountInv
<1>3. \A c \in Clients : ToSet(queued[c]) \subseteq DOMAIN published
  BY DEF CountInv, QueuedKnown, ToSet
<1>4. \A m \in DOMAIN published : published[m].audience \subseteq Clients
  BY MessageType
<1>5. \A m \in DOMAIN published : \A c \in published[m].audience :
        Holds(queued[c], m) \/ HasTurn(m, c) \/ Cardinality(Backlog(m, c)) >= SendCap
  BY DEF LossInv, MissedBehind
<1>6. CASE Quiet
  <2>1. \A m, c : HasTurn(m, c)' <=> HasTurn(m, c)
    BY <1>6 DEF Quiet, HasTurn
  <2>2. \A m, c : Backlog(m, c)' = Backlog(m, c)
    BY <1>6 DEF Quiet, Backlog
  <2> QED
    BY <1>5, <1>6, <2>1, <2>2 DEF Quiet, MissedBehind, Holds
<1>7. ASSUME NEW d \in Clients, NEW ch \in Channels, PublishSnapshot(d, ch)
      PROVE  MissedBehind'
  <2>0. PICK new : new = Len(published) + 1
    OBVIOUS
  <2>1. /\ MessagesStay
        /\ DOMAIN published' = DOMAIN published \cup {new} /\ new \notin DOMAIN published
        /\ published'[new].audience = channels[ch]
    BY <1>7, <2>0, SnapshotMessages
  <2>2. /\ queued' = queued /\ pc[d] = "ready"
        /\ pc'[d] = "publishing" /\ job'[d].message = new /\ job'[d].left = channels[ch]
        /\ \A e \in Clients \ {d} : pc'[e] = pc[e] /\ job'[e] = job[e]
    BY <1>7, <2>0 DEF PublishSnapshot, Begun, pipe, Types, TypeOK
  <2>3. \A c \in published'[new].audience : HasTurn(new, c)'
    BY <2>1, <2>2 DEF HasTurn
  <2>4. ASSUME NEW m \in DOMAIN published, NEW c \in published[m].audience
        PROVE  Holds(queued[c], m)' \/ HasTurn(m, c)' \/ Cardinality(Backlog(m, c)') >= SendCap
    <3>1. HasTurn(m, c) => HasTurn(m, c)'
      BY <2>2 DEF HasTurn
    <3>2. Cardinality(Backlog(m, c)) >= SendCap => Cardinality(Backlog(m, c)') >= SendCap
      BY <1>1, <1>2, <1>3, <1>4, <2>1, <2>2 DEF MessagesStay
    <3> QED
      BY <1>5, <2>2, <3>1, <3>2 DEF Holds
  <2> QED
    BY <2>1, <2>3, <2>4 DEF MissedBehind, MessagesStay
<1>8. ASSUME NEW d \in Clients, NEW to \in Clients, PublishOffer(d, to)
      PROVE  MissedBehind'
  <2> DEFINE n == job[d].message
  <2>1. /\ UNCHANGED <<published, pc>>
        /\ \A e \in Clients \ {d} : job'[e] = job[e]
        /\ job'[d].message = n
        /\ job'[d].left = job[d].left \ {to}
    <3>1. job[d] \in Jobs /\ job'[d] = Offered(job[d], to, ~Full(to))
      BY <1>8 DEF Types, PublishOffer
    <3>2. PICK o : o = Offered(job[d], to, ~Full(to))
      OBVIOUS
    <3>3. o.message = n /\ o.left = job[d].left \ {to}
      BY <3>1, <3>2, OfferedFields
    <3>4. \A e \in Clients \ {d} : job'[e] = job[e]
      BY <1>8 DEF Types, PublishOffer
    <3> QED
      BY <1>8, <3>1, <3>2, <3>3, <3>4 DEF PublishOffer
  <2>2. \A c \in Clients : ToSet(queued[c]) \subseteq ToSet(queued'[c])
    <3>1. ASSUME NEW c \in Clients, c # to PROVE queued'[c] = queued[c]
      BY <1>8, <3>1, OfferQueues DEF CountInv
    <3>2. CASE Full(to)
      BY <1>8, <3>2 DEF PublishOffer
    <3>3. CASE ~Full(to)
      <4>1. /\ Len(queued'[to]) = Len(queued[to]) + 1
            /\ \A i \in 1..Len(queued[to]) : queued'[to][i] = queued[to][i]
        BY <1>8, <3>3, OfferQueues DEF CountInv
      <4>2. /\ DOMAIN queued[to] = 1..Len(queued[to]) /\ Len(queued[to]) \in Nat
            /\ DOMAIN queued'[to] = 1..Len(queued'[to])
        BY <1>2 DEF Types
      <4> QED
        BY <3>1, <4>1, <4>2 DEF ToSet
    <3> QED
      BY <3>2, <3>3
  <2>3. ASSUME NEW m \in DOMAIN published, NEW c \in published[m].audience
        PROVE  Holds(queued[c], m)' \/ HasTurn(m, c)' \/ Cardinality(Backlog(m, c)') >= SendCap
    <3>1. c \in Clients
      BY <1>4
    <3>2. Cardinality(Backlog(m, c)) >= SendCap => Cardinality(Backlog(m, c)') >= SendCap
      BY <1>1, <1>2, <2>1, <2>2, <3>1
    <3>3. Holds(queued[c], m) => Holds(queued[c], m)'
      <4>1. Holds(queued[c], m) <=> m \in ToSet(queued[c])
        BY DEF Holds, ToSet
      <4>2. Holds(queued'[c], m) <=> m \in ToSet(queued'[c])
        BY DEF Holds, ToSet
      <4> QED
        BY <2>2, <3>1, <4>1, <4>2 DEF Holds
    <3>4. ASSUME HasTurn(m, c), m # n \/ c # to PROVE HasTurn(m, c)'
      <4>1. PICK e \in Clients : pc[e] = "publishing" /\ job[e].message = m /\ c \in job[e].left
        BY <3>4 DEF HasTurn
      <4>2. pc'[e] = "publishing" /\ job'[e].message = m /\ c \in job'[e].left
        BY <2>1, <3>4, <4>1
      <4> QED
        BY <4>2 DEF HasTurn
    <3>5. CASE m = n /\ c = to
      <4>1. CASE Full(to)
        <5>1. n \notin Answered
          BY <1>8 DEF CountInv, JobsApart, PublishOffer, Answered
        <5> QED
          BY <3>2, <3>5, <4>1, <5>1, FullIsBacklog DEF LossInv
      <4>2. CASE ~Full(to)
        <5>1. /\ queued'[to][Len(queued[to]) + 1] = n
              /\ Len(queued'[to]) = Len(queued[to]) + 1
          BY <1>8, <4>2, OfferQueues DEF CountInv
        <5>2. DOMAIN queued'[to] = 1..Len(queued'[to]) /\ Len(queued[to]) \in Nat
          BY <1>2 DEF Types
        <5> QED
          BY <3>5, <5>1, <5>2 DEF Holds
      <4> QED
        BY <4>1, <4>2
    <3> QED
      BY <1>5, <3>2, <3>3, <3>4, <3>5
  <2> QED
    BY <2>1, <2>3 DEF MissedBehind
<1>9. ASSUME NEW d \in Clients, PublishReply(d)
      PROVE  MissedBehind'
  <2>1. /\ MessagesStay /\ DOMAIN published' = DOMAIN published
    BY <1>9, ReplyMessages DEF CountInv
  <2>2. /\ queued' = queued /\ job[d].left = {}
        /\ \A e \in Clients \ {d} : pc'[e] = pc[e] /\ job'[e] = job[e]
    BY <1>9 DEF PublishReply, pipe, Types, TypeOK
  <2>3. ASSUME NEW m \in DOMAIN published, NEW c \in published[m].audience
        PROVE  Holds(queued[c], m)' \/ HasTurn(m, c)' \/ Cardinality(Backlog(m, c)') >= SendCap
    <3>1. HasTurn(m, c) => HasTurn(m, c)'
      BY <2>2 DEF HasTurn
    <3>2. Cardinality(Backlog(m, c)) >= SendCap => Cardinality(Backlog(m, c)') >= SendCap
      BY <1>1, <1>2, <1>3, <1>4, <2>1, <2>2 DEF MessagesStay
    <3> QED
      BY <1>5, <2>2, <3>1, <3>2 DEF Holds
  <2> QED
    BY <2>1, <2>3 DEF MissedBehind, MessagesStay
<1> QED
  BY StepCases, <1>6, <1>7, <1>8, <1>9

-----------------------------------------------------------------------------
(* The theorems.                                                           *)

LEMMA InitInv == Init => Inv
<1> SUFFICES ASSUME Init PROVE Inv
  OBVIOUS
<1>1. /\ published = <<>> /\ DOMAIN published = {}
      /\ \A c \in Clients : /\ pc[c] = "ready" /\ queued[c] = <<>> /\ sendChan[c] = <<>>
                          /\ Pipeline(c) = <<>>
  BY DEF Init, Pipeline
<1>2. DOMAIN <<>> = {} /\ Len(<<>>) = 0
  OBVIOUS
<1>3. CountInv
  BY <1>1, <1>2 DEF CountInv, JobsApart, QueuedKnown, QueuedOnce, LeftHasNot, JobCounts,
     AnswerCounts, Answered
<1>4. OrderInv
  BY <1>1, <1>2 DEF OrderInv, EarlierAnswered, PipelineKnown, NeverOvertakes
<1>5. LossInv
  BY <1>1, <1>2 DEF LossInv, ChanIsSuffix, SuffixOf, MissedBehind
<1> QED
  BY <1>3, <1>4, <1>5, InitTypes DEF Inv

(* The invariant of the jobs, the queues and the messages.                 *)
THEOREM PubSubInvariant == Spec => []Inv
<1>1. Inv /\ [Next]_vars => Inv'
  <2> SUFFICES ASSUME Inv, [Next]_vars PROVE Inv'
    OBVIOUS
  <2>1. Types'
    BY StepTypes DEF Inv, CountInv
  <2>2. CountInv'
    BY StepCounts DEF Inv
  <2>3. OrderInv'
    BY StepOrder DEF Inv
  <2>4. ChanIsSuffix' /\ MissedBehind'
    BY StepSuffix, StepMissed DEF Inv, LossInv, CountInv
  <2> QED
    BY <2>1, <2>2, <2>3, <2>4 DEF Inv, LossInv
<1> QED
  BY InitInv, <1>1, PTL DEF Spec

(* What PUBLISH replied is how many connections took the message, each     *)
(* once, whatever went on between its copy of the subscribers and the end  *)
(* of its loop (pubsub.go, Publish).                                       *)
THEOREM ReplyCountsReceivers == Spec => []CountsWhoGotIt
<1>1. Inv => CountsWhoGotIt
  <2> SUFFICES ASSUME Inv, NEW m \in Answered
               PROVE  /\ published[m].count = Cardinality({c \in Clients : Times(m, queued[c]) > 0})
                      /\ \A c \in Clients : Times(m, queued[c]) <= 1
    BY DEF CountsWhoGotIt
  <2>1. \A c \in Clients : queued[c] \in Seq(Numbers)
    BY DEF Inv, Types
  <2>2. {c \in Clients : Times(m, queued[c]) > 0} = Got(queued, m)
    BY <2>1, TimesCounts DEF Got
  <2>3. \A c \in Clients : Times(m, queued[c]) <= 1
    BY <2>1, TimesCounts DEF Inv, CountInv, QueuedOnce
  <2> QED
    BY <2>2, <2>3 DEF Inv, CountInv, AnswerCounts
<1> QED
  BY <1>1, PubSubInvariant, PTL

(* A message never overtakes one that was answered before it started.      *)
THEOREM OrderOfAnswersKept == Spec => []NeverOvertakes
<1>1. Inv => NeverOvertakes
  BY DEF Inv, OrderInv
<1> QED
  BY <1>1, PubSubInvariant, PTL

(* A subscriber misses a message only behind SendCap others.               *)
THEOREM LossIsBacklog == Spec => []LossNeedsBacklog
<1>1. Inv => LossNeedsBacklog
  <2> SUFFICES ASSUME Inv, NEW m \in Answered, NEW c \in published[m].audience,
                      Times(m, queued[c]) = 0
               PROVE  Cardinality(Backlog(m, c)) >= SendCap
    BY DEF LossNeedsBacklog, Backlog, Inv, Types
  <2>1. m \in DOMAIN published /\ published[m].count >= 0 /\ c \in Clients
    BY MessageType DEF Answered, Inv
  <2>2. ~Holds(queued[c], m)
    BY <2>1, TimesCounts DEF Inv, Types
  <2>3. ~HasTurn(m, c)
    BY <2>1 DEF HasTurn, Inv, CountInv, JobsApart
  <2> QED
    BY <2>1, <2>2, <2>3 DEF Inv, LossInv, MissedBehind
<1> QED
  BY <1>1, PubSubInvariant, PTL
-----------------------------------------------------------------------------
(* The reader's half.  The elements of two sequences, one behind the other. *)
LEMMA TwoParts ==
  \A S : \A a, b \in Seq(S) : \A m, n \in Nat : m = Len(a) /\ n = Len(b) =>
    /\ a \o b \in Seq(S) /\ Len(a \o b) = m + n
    /\ \A k \in 1..m : (a \o b)[k] = a[k]
    /\ \A k \in 1..n : (a \o b)[m + k] = b[k]
<1> SUFFICES ASSUME NEW S, NEW a \in Seq(S), NEW b \in Seq(S), NEW m \in Nat, NEW n \in Nat,
                    m = Len(a) /\ n = Len(b)
             PROVE  /\ a \o b \in Seq(S) /\ Len(a \o b) = m + n
                    /\ \A k \in 1..m : (a \o b)[k] = a[k]
                    /\ \A k \in 1..n : (a \o b)[m + k] = b[k]
  BY Zenon
<1>1. /\ a \o b \in Seq(S) /\ Len(a \o b) = Len(a) + Len(b)
      /\ \A k \in 1..Len(a) + Len(b) : (a \o b)[k] = IF k <= Len(a) THEN a[k] ELSE b[k - Len(a)]
  BY ConcatProperties
<1>2. \A k \in 1..m : k \in 1..(m + n) /\ k <= m
  OBVIOUS
<1>3. \A k \in 1..n : m + k \in 1..(m + n) /\ ~(m + k <= m) /\ (m + k) - m = k
  OBVIOUS
<1> QED
  BY <1>1, <1>2, <1>3

(* g[i] is what the first i sequences of s make, one behind the other.     *)
Joins(g, s, n, S) ==
  /\ g \in [0..n -> Seq(S)]
  /\ g[0] = <<>>
  /\ \A i \in 1..n : g[i] = g[i - 1] \o s[i]

LEMMA JoinsExist ==
  ASSUME NEW S, NEW n \in Nat, NEW s \in [1..n -> Seq(S)]
  PROVE  \E g : Joins(g, s, n, S)
<1> DEFINE step == [i \in Nat |-> [t \in Seq(S) |-> IF i \in 1..n THEN t \o s[i] ELSE t]]
<1>1. step \in [Nat -> [Seq(S) -> Seq(S)]] /\ <<>> \in Seq(S)
  <2>1. ASSUME NEW i \in Nat, NEW t \in Seq(S)
        PROVE  (IF i \in 1..n THEN t \o s[i] ELSE t) \in Seq(S)
    <3>1. CASE i \in 1..n
      <4>1. s[i] \in Seq(S)
        BY <3>1
      <4>2. t \o s[i] \in Seq(S)
        BY <4>1, ConcatProperties
      <4> QED
        BY <3>1, <4>2
    <3> QED
      BY <3>1
  <2> QED
    BY <2>1, EmptySeq
<1>2. \A i \in 1..n, t \in Seq(S) : step[i][t] = t \o s[i]
  OBVIOUS
<1> HIDE DEF step
<1>3. PICK g \in [0..n -> Seq(S)] : g[0] = <<>> /\ \A i \in 1..n : g[i] = step[i][g[i - 1]]
  <2>1. Recurses(Seq(S), <<>>, step, n)
    BY <1>1, RecursiveFunction
  <2> QED
    BY <2>1 DEF Recurses
<1>4. \A i \in 1..n : g[i] = g[i - 1] \o s[i]
  <2> SUFFICES ASSUME NEW i \in 1..n PROVE g[i] = g[i - 1] \o s[i]
    OBVIOUS
  <2>1. i - 1 \in 0..n
    OBVIOUS
  <2>2. g[i - 1] \in Seq(S)
    BY <2>1
  <2> QED
    BY <1>2, <1>3, <2>2
<1> QED
  BY <1>3, <1>4 DEF Joins

(* The first parts of g are whole in the later ones.                       *)
Laid(g, s, n, S) ==
  /\ \A i \in 1..n : /\ g[i - 1] \in Seq(S) /\ Len(g[i]) = Len(g[i - 1]) + Len(s[i])
                     /\ \A k \in 1..Len(s[i]) : g[n][Len(g[i - 1]) + k] = s[i][k]
  /\ \A a \in 0..n : \A b \in a..n : /\ g[a] \in Seq(S) /\ Len(g[a]) <= Len(g[b])
                                     /\ \A k \in 1..Len(g[a]) : g[b][k] = g[a][k]

LEMMA JoinsLayout ==
  ASSUME NEW S, NEW n \in Nat, NEW s \in [1..n -> Seq(S)], NEW g, Joins(g, s, n, S)
  PROVE  Laid(g, s, n, S)
<1>1. g \in [0..n -> Seq(S)] /\ \A i \in 1..n : g[i] = g[i - 1] \o s[i]
  BY DEF Joins
<1>2. ASSUME NEW i \in 1..n
      PROVE  /\ g[i - 1] \in Seq(S) /\ g[i] \in Seq(S) /\ s[i] \in Seq(S)
             /\ Len(g[i - 1]) \in Nat /\ Len(s[i]) \in Nat
             /\ Len(g[i]) = Len(g[i - 1]) + Len(s[i])
             /\ \A k \in 1..Len(g[i - 1]) : g[i][k] = g[i - 1][k]
             /\ \A k \in 1..Len(s[i]) : g[i][Len(g[i - 1]) + k] = s[i][k]
  <2>1. i - 1 \in 0..n /\ i \in 0..n
    OBVIOUS
  <2>2. g[i - 1] \in Seq(S) /\ g[i] \in Seq(S) /\ s[i] \in Seq(S) /\ g[i] = g[i - 1] \o s[i]
    BY <1>1, <2>1
  <2>3. PICK a \in Seq(S), b \in Seq(S) : a = g[i - 1] /\ b = s[i] /\ g[i] = a \o b
    BY <2>2
  <2>4. /\ Len(a) \in Nat /\ Len(b) \in Nat /\ Len(a \o b) = Len(a) + Len(b)
        /\ \A k \in 1..Len(a) : (a \o b)[k] = a[k]
        /\ \A k \in 1..Len(b) : (a \o b)[Len(a) + k] = b[k]
    BY LenProperties, TwoParts
  <2> QED
    BY <2>2, <2>3, <2>4
<1>3. ASSUME NEW a \in 0..n, NEW b \in a..n
      PROVE  /\ g[a] \in Seq(S) /\ Len(g[a]) <= Len(g[b])
             /\ \A k \in 1..Len(g[a]) : g[b][k] = g[a][k]
  <2> DEFINE Good(j) == Len(g[a]) <= Len(g[j]) /\ \A k \in 1..Len(g[a]) : g[j][k] = g[a][k]
             I == {j \in a..n : ~Good(j)}
  <2>0. g[a] \in Seq(S) /\ Len(g[a]) \in Nat
    BY <1>1, LenProperties
  <2>1. Good(a)
    BY <2>0
  <2>2. ASSUME NEW j \in a..n, j # a, Good(j - 1) PROVE Good(j)
    <3>1. j \in 1..n
      BY <2>2
    <3>2. /\ Len(g[j - 1]) \in Nat /\ Len(s[j]) \in Nat /\ Len(g[j]) = Len(g[j - 1]) + Len(s[j])
          /\ \A k \in 1..Len(g[j - 1]) : g[j][k] = g[j - 1][k]
      BY <1>2, <3>1
    <3>3. Len(g[a]) <= Len(g[j - 1]) /\ \A k \in 1..Len(g[a]) : g[j - 1][k] = g[a][k]
      BY <2>2
    <3>4. 1..Len(g[a]) \subseteq 1..Len(g[j - 1])
      BY <2>0, <3>2, <3>3
    <3>5. Len(g[a]) <= Len(g[j])
      <4>1. \A x, y, z \in Nat : x <= y => x <= y + z
        OBVIOUS
      <4> QED
        BY <2>0, <3>2, <3>3, <4>1
    <3>6. ASSUME NEW k \in 1..Len(g[a]) PROVE g[j][k] = g[a][k]
      BY <3>2, <3>3, <3>4
    <3> QED
      BY <3>5, <3>6
  <2> HIDE DEF Good
  <2>3. I = {}
    <3> SUFFICES ASSUME I # {} PROVE FALSE
      OBVIOUS
    <3>1. I \in SUBSET Nat
      OBVIOUS
    <3>2. PICK j \in I : \A y \in I : j <= y
      BY <3>1, LeastNumber
    <3>3. j \in a..n /\ ~Good(j) /\ j # a
      BY <2>1, <3>2
    <3>4. j - 1 \in a..n /\ ~(j <= j - 1)
      BY <3>3
    <3>5. Good(j - 1)
      BY <3>2, <3>4
    <3> QED
      BY <2>2, <3>3, <3>5
  <2>4. Good(b)
    BY <2>3
  <2> QED
    BY <2>0, <2>4 DEF Good
<1>4. ASSUME NEW i \in 1..n, NEW k \in 1..Len(s[i])
      PROVE  g[n][Len(g[i - 1]) + k] = s[i][k]
  <2>1. i \in 0..n /\ n \in i..n
    OBVIOUS
  <2>2. Len(g[i - 1]) + k \in 1..Len(g[i])
    BY <1>2
  <2> QED
    BY <1>2, <1>3, <2>1, <2>2
<1> QED
  BY <1>2, <1>3, <1>4 DEF Laid

LEMMA FlattenIs ==
  ASSUME NEW S, NEW n \in Nat, NEW s \in [1..n -> Seq(S)], NEW g, Joins(g, s, n, S)
  PROVE  FlattenSeq(s) = g[n]
<1>1. /\ g \in [0..n -> Seq(S)] /\ g[0] = <<>> /\ \A i \in 1..n : g[i] = g[i - 1] \o s[i]
  BY DEF Joins
<1>2. s \in Seq(Seq(S)) /\ Len(s) = n
  BY LenProperties, SeqDef
<1>3. CASE n = 0
  <2>1. s = <<>>
    BY <1>2, <1>3, EmptySeq
  <2> QED
    BY <1>1, <1>2, <1>3, <2>1 DEF FlattenSeq
<1>4. CASE n # 0
  <2> DEFINE Right(f) == f = [i \in 1..n |-> IF i = 1 THEN s[i] ELSE f[i - 1] \o s[i]]
  <2>1. PICK flatten : flatten = CHOOSE f : Right(f)
    OBVIOUS
  <2>2. FlattenSeq(s) = flatten[n]
    BY <1>2, <1>4, <2>1 DEF FlattenSeq
  <2>3. \E f : Right(f)
    <3> DEFINE h == [i \in 1..n |-> g[i]]
    <3>1. ASSUME NEW i \in 1..n PROVE h[i] = IF i = 1 THEN s[i] ELSE h[i - 1] \o s[i]
      <4>1. CASE i = 1
        <5>1. g[1] = <<>> \o s[1] /\ s[1] \in Seq(S)
          <6>1. 1 \in 1..n /\ 1 - 1 = 0
            BY <4>1
          <6> QED
            BY <1>1, <6>1
        <5>2. <<>> \o s[1] = s[1]
          BY <5>1, ConcatEmptySeq
        <5> QED
          BY <4>1, <5>1, <5>2
      <4>2. CASE i # 1
        <5>1. i - 1 \in 1..n
          BY <4>2
        <5> QED
          BY <1>1, <4>2, <5>1
      <4> QED
        BY <4>1, <4>2
    <3>2. h = [i \in 1..n |-> h[i]]
      OBVIOUS
    <3> HIDE DEF h
    <3>3. h = [i \in 1..n |-> IF i = 1 THEN s[i] ELSE h[i - 1] \o s[i]]
      BY <3>1, <3>2
    <3> QED
      BY <3>3
  <2>4. Right(flatten)
    BY <2>1, <2>3
  <2>5. \A i \in 1..n : flatten[i] = IF i = 1 THEN s[i] ELSE flatten[i - 1] \o s[i]
    BY <2>4
  <2> HIDE DEF Right
  <2> DEFINE I == {i \in 1..n : flatten[i] # g[i]}
  <2>6. I = {}
    <3> SUFFICES ASSUME I # {} PROVE FALSE
      OBVIOUS
    <3>1. I \in SUBSET Nat
      OBVIOUS
    <3>2. PICK i \in I : \A y \in I : i <= y
      BY <3>1, LeastNumber
    <3>3. i \in 1..n /\ flatten[i] # g[i]
      BY <3>2
    <3>4. CASE i = 1
      <4>1. g[1] = <<>> \o s[1] /\ s[1] \in Seq(S)
        <5>1. 1 \in 1..n /\ 1 - 1 = 0
          BY <3>3, <3>4
        <5> QED
          BY <1>1, <5>1
      <4>2. <<>> \o s[1] = s[1]
        BY <4>1, ConcatEmptySeq
      <4> QED
        BY <2>5, <3>3, <3>4, <4>1, <4>2
    <3>5. CASE i # 1
      <4>1. i - 1 \in 1..n /\ ~(i <= i - 1)
        BY <3>3, <3>5
      <4>2. flatten[i - 1] = g[i - 1]
        BY <3>2, <4>1
      <4> QED
        BY <1>1, <2>5, <3>3, <3>5, <4>2
    <3> QED
      BY <3>4, <3>5
  <2>7. n \in 1..n
    BY <1>4
  <2> QED
    BY <2>2, <2>6, <2>7
<1> QED
  BY <1>3, <1>4

(* The beginning of a sequence of sequences, and one behind it.            *)
Starts(t, s, m) == \A i \in 1..m : t[i] = s[i]

LEMMA FlattenStart ==
  \A n, m \in Nat : \A s \in [1..n -> Seq(Nat)], t \in [1..m -> Seq(Nat)] : \A g :
    m <= n /\ Joins(g, s, n, Nat) /\ Starts(t, s, m) => FlattenSeq(t) = g[m]
<1> SUFFICES ASSUME NEW n \in Nat, NEW m \in Nat, NEW s \in [1..n -> Seq(Nat)],
                    NEW t \in [1..m -> Seq(Nat)], NEW g,
                    m <= n, Joins(g, s, n, Nat), Starts(t, s, m)
             PROVE  FlattenSeq(t) = g[m]
  BY Zenon
<1> DEFINE h == [i \in 0..m |-> g[i]]
<1>1. /\ g \in [0..n -> Seq(Nat)] /\ g[0] = <<>> /\ \A i \in 1..n : g[i] = g[i - 1] \o s[i]
  BY DEF Joins
<1>2. h \in [0..m -> Seq(Nat)] /\ h[0] = <<>> /\ h[m] = g[m]
  BY <1>1
<1>3. ASSUME NEW i \in 1..m PROVE h[i] = h[i - 1] \o t[i]
  <2>1. i \in 1..n /\ i \in 0..m /\ i - 1 \in 0..m
    OBVIOUS
  <2> QED
    BY <1>1, <2>1 DEF Starts
<1> HIDE DEF h
<1>4. Joins(h, t, m, Nat) /\ m \in Nat
  <2>1. \A i \in 1..m : h[i] = h[i - 1] \o t[i]
    BY <1>3
  <2>2. m \in Nat
    OBVIOUS
  <2> QED
    BY <1>2, <2>1, <2>2 DEF Joins
<1>5. FlattenSeq(t) = h[m]
  BY <1>4, FlattenIs
<1> QED
  BY <1>2, <1>5

-----------------------------------------------------------------------------
(* The bytes of a bulk string, one by one.                                 *)
LEMMA BulkIs ==
  ASSUME NEW arg \in Seq(Nat)
  PROVE  /\ Len(arg) \in Nat /\ Bulk(arg) \in Seq(Nat) /\ Len(Bulk(arg)) = Len(arg) + 6
         /\ Bulk(arg)[1] = Dollar /\ Bulk(arg)[2] = Zero + Len(arg)
         /\ Bulk(arg)[3] = CR /\ Bulk(arg)[4] = LF
         /\ \A k \in 1..Len(arg) : Bulk(arg)[4 + k] = arg[k]
         /\ Bulk(arg)[Len(arg) + 5] = CR /\ Bulk(arg)[Len(arg) + 6] = LF
<1>1. PICK n \in Nat : n = Len(arg)
  BY LenProperties
<1>2. PICK front, line : front = <<Dollar, Zero + n>> /\ line = CRLF
  OBVIOUS
<1>3. /\ front \in Seq(Nat) /\ Len(front) = 2 /\ front[1] = Dollar /\ front[2] = Zero + n
      /\ line \in Seq(Nat) /\ Len(line) = 2 /\ line[1] = CR /\ line[2] = LF
  BY <1>2 DEF CRLF, Dollar, Zero, CR, LF
<1>4. PICK head : head = front \o line
  OBVIOUS
<1>5. /\ head \in Seq(Nat) /\ Len(head) = 2 + 2
      /\ \A k \in 1..2 : head[k] = front[k]
      /\ \A k \in 1..2 : head[2 + k] = line[k]
  <2>1. PICK i \in Nat, j \in Nat : i = 2 /\ j = 2
    BY <1>3
  <2>2. front \in Seq(Nat) /\ line \in Seq(Nat) /\ i = Len(front) /\ j = Len(line)
    BY <1>3, <2>1
  <2>3. /\ front \o line \in Seq(Nat) /\ Len(front \o line) = i + j
        /\ \A k \in 1..i : (front \o line)[k] = front[k]
        /\ \A k \in 1..j : (front \o line)[i + k] = line[k]
    BY <2>2, TwoParts
  <2> QED
    BY <1>4, <2>1, <2>3
<1>6. Len(head) = 4 /\ head[1] = Dollar /\ head[2] = Zero + n /\ head[3] = CR /\ head[4] = LF
  <2>1. 1 \in 1..2 /\ 2 \in 1..2 /\ 2 + 2 = 4 /\ 2 + 1 = 3
    OBVIOUS
  <2> QED
    BY <1>3, <1>5, <2>1
<1>7. PICK mid : mid = head \o arg
  OBVIOUS
<1>8. /\ mid \in Seq(Nat) /\ Len(mid) = 4 + n
      /\ \A k \in 1..4 : mid[k] = head[k]
      /\ \A k \in 1..n : mid[4 + k] = arg[k]
  <2>1. PICK i \in Nat, j \in Nat : i = 4 /\ j = n
    BY <1>1, <1>5, <1>6
  <2>2. head \in Seq(Nat) /\ arg \in Seq(Nat) /\ i = Len(head) /\ j = Len(arg)
    BY <1>1, <1>5, <1>6, <2>1
  <2>3. /\ head \o arg \in Seq(Nat) /\ Len(head \o arg) = i + j
        /\ \A k \in 1..i : (head \o arg)[k] = head[k]
        /\ \A k \in 1..j : (head \o arg)[i + k] = arg[k]
    BY <2>2, TwoParts
  <2> QED
    BY <1>7, <2>1, <2>3
<1>9. PICK m \in Nat, all \in {mid \o line} : all = mid \o line /\ m = 4 + n
  OBVIOUS
<1>10. /\ all \in Seq(Nat) /\ Len(all) = m + 2
       /\ \A k \in 1..m : all[k] = mid[k]
       /\ \A k \in 1..2 : all[m + k] = line[k]
  <2>1. PICK i \in Nat, j \in Nat : i = m /\ j = 2
    BY <1>3, <1>8, <1>9
  <2>2. mid \in Seq(Nat) /\ line \in Seq(Nat) /\ i = Len(mid) /\ j = Len(line)
    BY <1>3, <1>8, <1>9, <2>1
  <2>3. /\ mid \o line \in Seq(Nat) /\ Len(mid \o line) = i + j
        /\ \A k \in 1..i : (mid \o line)[k] = mid[k]
        /\ \A k \in 1..j : (mid \o line)[i + k] = line[k]
    BY <2>2, TwoParts
  <2> QED
    BY <1>9, <2>1, <2>3
<1>11. Bulk(arg) = all
  BY <1>1, <1>2, <1>4, <1>7, <1>9 DEF Bulk
<1>12. all[1] = Dollar /\ all[2] = Zero + n /\ all[3] = CR /\ all[4] = LF
  <2>1. \A k \in 1..4 : k \in 1..m
    BY <1>9
  <2>2. 1 \in 1..4 /\ 2 \in 1..4 /\ 3 \in 1..4 /\ 4 \in 1..4
    OBVIOUS
  <2> QED
    BY <1>6, <1>8, <1>10, <2>1, <2>2
<1>13. ASSUME NEW k \in 1..n PROVE all[4 + k] = arg[k]
  <2>1. 4 + k \in 1..m
    BY <1>9
  <2> QED
    BY <1>8, <1>10, <2>1
<1>14. all[n + 5] = CR /\ all[n + 6] = LF
  <2>1. n + 5 = m + 1 /\ n + 6 = m + 2 /\ 1 \in 1..2 /\ 2 \in 1..2
    BY <1>9
  <2> QED
    BY <1>3, <1>10, <2>1
<1>15. Len(all) = n + 6
  BY <1>9, <1>10
<1> QED
  BY <1>1, <1>10, <1>11, <1>12, <1>13, <1>14, <1>15

(* A line of one byte ends behind it, as soon as its line end is there.    *)
LEMMA LineEndIs ==
  ASSUME NEW data \in Seq(Nat), NEW pos \in Nat,
         pos + 1 <= Len(data) => data[pos + 1] # CR,
         pos + 2 <= Len(data) => data[pos + 2] = CR,
         pos + 3 <= Len(data) => data[pos + 3] = LF
  PROVE  LineEnd(data, pos) = IF pos + 3 <= Len(data) THEN pos + 2 ELSE 0
<1>1. PICK n \in Nat : n = Len(data)
  BY LenProperties
<1>2. PICK ends : ends = {i \in (pos + 1)..(Len(data) - 1) : data[i] = CR /\ data[i + 1] = LF}
  OBVIOUS
<1>3. LineEnd(data, pos) = IF ends = {} THEN 0 ELSE Min(ends)
  BY <1>2 DEF LineEnd
<1>4. ends \subseteq Nat /\ \A i \in ends : i >= pos + 2 /\ i + 1 <= n
  <2> SUFFICES ASSUME NEW i \in ends PROVE i \in Nat /\ i >= pos + 2 /\ i + 1 <= n
    OBVIOUS
  <2>1. i \in (pos + 1)..(n - 1) /\ data[i] = CR
    BY <1>1, <1>2
  <2>2. i # pos + 1
    BY <1>1, <2>1
  <2> QED
    BY <2>1, <2>2
<1>5. CASE pos + 3 <= n
  <2>1. pos + 2 \in (pos + 1)..(n - 1) /\ (pos + 2) + 1 = pos + 3 /\ pos + 2 <= n
    BY <1>5
  <2>2. pos + 2 \in ends
    BY <1>1, <1>2, <1>5, <2>1
  <2>3. Min(ends) \in ends /\ \A i \in ends : Min(ends) <= i
    BY <1>4, <2>2, LeastNumber DEF Min
  <2>4. Min(ends) = pos + 2
    <3>1. PICK m : m = Min(ends)
      OBVIOUS
    <3>2. m \in Nat /\ m >= pos + 2 /\ m <= pos + 2
      BY <1>4, <2>2, <2>3, <3>1
    <3> QED
      BY <3>1, <3>2
  <2> QED
    BY <1>1, <1>3, <1>5, <2>2, <2>4
<1>6. CASE ~(pos + 3 <= n)
  <2>1. ends = {}
    BY <1>4, <1>6
  <2> QED
    BY <1>1, <1>3, <1>6, <2>1
<1> QED
  BY <1>5, <1>6

(* A bulk string that starts at p is parsed if it is there, and asked for  *)
(* if a part of its data is missing and all before is there.               *)
LEMMA NextBulkIs ==
  ASSUME NEW data \in Seq(Nat), NEW p \in Nat, NEW args \in Seq(Seq(Nat)), NEW arg \in Seq(Nat),
         p <= Len(data),
         \A k \in 1..(Len(arg) + 6) : p + k <= Len(data) => data[p + k] = Bulk(arg)[k]
  PROVE  /\ p + 6 + Len(arg) <= Len(data) =>
              NextBulk(data)[Parsed(args, p)] = Parsed(Append(args, arg), p + 6 + Len(arg))
         /\ ~(p + 6 + Len(arg) <= Len(data)) =>
              \E error \in Errors \ {"none"} :
                /\ NextBulk(data)[Parsed(args, p)] = Failed(error)
                /\ error \in Retried <=> Len(data) \in (p + 4)..(p + 3 + Len(arg))
<1>1. PICK n \in Nat, L \in Nat : n = Len(arg) /\ L = Len(data)
  BY LenProperties
<1>2. PICK r : r = Parsed(args, p)
  OBVIOUS
<1>3. r \in Results /\ r.args = args /\ r.pos = p /\ r.error = "none"
  BY <1>2 DEF Parsed, Results, Errors
<1>4. PICK end, len, pos : end = LineEnd(data, r.pos + 1) /\ len = data[r.pos + 2] - Zero /\ pos = end + 1
  OBVIOUS
<1>5. PICK next : next = NextBulk(data)[r]
  OBVIOUS
<1>6. next = IF r.pos >= Len(data) \/ data[r.pos + 1] # Dollar THEN Failed("expected bulk string")
             ELSE IF end = 0 THEN Failed("no CRLF found")
             ELSE IF pos + len > Len(data) THEN Failed("not enough bytes for bulk string")
             ELSE IF ~AtLineEnd(data, pos + len) THEN Failed("expected CRLF after bulk string")
             ELSE Parsed(Append(r.args, SubSeq(data, pos + 1, pos + len)), PastCRLF(pos, len))
  BY <1>3, <1>4, <1>5 DEF NextBulk
<1>7. /\ Bulk(arg)[1] = Dollar /\ Bulk(arg)[2] = Zero + n /\ Bulk(arg)[3] = CR /\ Bulk(arg)[4] = LF
      /\ \A k \in 1..n : Bulk(arg)[4 + k] = arg[k]
      /\ Bulk(arg)[n + 5] = CR /\ Bulk(arg)[n + 6] = LF
  BY <1>1, BulkIs
<1>8. /\ p + 1 <= L => data[p + 1] = Dollar
      /\ p + 2 <= L => data[p + 2] = Zero + n
      /\ p + 3 <= L => data[p + 3] = CR
      /\ p + 4 <= L => data[p + 4] = LF
      /\ p + (n + 5) <= L => data[p + (n + 5)] = CR
      /\ p + (n + 6) <= L => data[p + (n + 6)] = LF
  <2>1. 1 \in 1..(n + 6) /\ 2 \in 1..(n + 6) /\ 3 \in 1..(n + 6) /\ 4 \in 1..(n + 6)
        /\ n + 5 \in 1..(n + 6) /\ n + 6 \in 1..(n + 6)
    OBVIOUS
  <2> QED
    BY <1>1, <1>7, <2>1
<1>9. \A k \in 1..n : p + (4 + k) <= L => data[p + (4 + k)] = arg[k]
  <2> SUFFICES ASSUME NEW k \in 1..n, p + (4 + k) <= L PROVE data[p + (4 + k)] = arg[k]
    OBVIOUS
  <2>1. 4 + k \in 1..(n + 6)
    OBVIOUS
  <2> QED
    BY <1>1, <1>7, <2>1
<1>10. end = IF p + 4 <= L THEN p + 3 ELSE 0
  <2>1. PICK q \in Nat : q = p + 1 /\ q + 1 = p + 2 /\ q + 2 = p + 3 /\ q + 3 = p + 4
    OBVIOUS
  <2>2. q + 1 <= Len(data) => data[q + 1] # CR
    BY <1>1, <1>8, <2>1 DEF Zero, CR
  <2>3. /\ q + 2 <= Len(data) => data[q + 2] = CR
        /\ q + 3 <= Len(data) => data[q + 3] = LF
    BY <1>1, <1>8, <2>1
  <2>4. LineEnd(data, q) = IF q + 3 <= Len(data) THEN q + 2 ELSE 0
    BY <2>2, <2>3, LineEndIs
  <2> QED
    BY <1>1, <1>3, <1>4, <2>1, <2>4
<1>11. CASE p + 4 <= L
  <2>1. ~(r.pos >= Len(data) \/ data[r.pos + 1] # Dollar)
    BY <1>1, <1>3, <1>8, <1>11
  <2>2. end # 0 /\ pos = p + 4 /\ len = n
    <3>1. p + 2 <= L
      BY <1>11
    <3>2. end = p + 3
      BY <1>10, <1>11
    <3>3. len = (48 + n) - 48
      BY <1>3, <1>4, <1>8, <3>1 DEF Zero
    <3> QED
      BY <1>4, <3>2, <3>3
  <2>3. CASE p + 4 + n > L
    <3>1. next = Failed("not enough bytes for bulk string")
      BY <1>1, <1>6, <2>1, <2>2, <2>3
    <3>2. ~(p + 6 + n <= L) /\ L \in (p + 4)..(p + 3 + n)
      BY <1>11, <2>3
    <3>3. /\ "not enough bytes for bulk string" \in Errors \ {"none"}
          /\ "not enough bytes for bulk string" \in Retried
      BY DEF Errors, Retried
    <3> QED
      BY <1>1, <1>2, <1>5, <3>1, <3>2, <3>3
  <2>4. CASE p + 4 + n <= L /\ ~(p + 6 + n <= L)
    <3>1. ~AtLineEnd(data, pos + len)
      BY <1>1, <2>2, <2>4 DEF AtLineEnd
    <3>2. ~(pos + len > Len(data))
      BY <1>1, <2>2, <2>4
    <3>3. next = Failed("expected CRLF after bulk string")
      BY <1>6, <2>1, <2>2, <3>1, <3>2
    <3>4. L \notin (p + 4)..(p + 3 + n)
      BY <2>4
    <3>5. /\ "expected CRLF after bulk string" \in Errors \ {"none"}
          /\ "expected CRLF after bulk string" \notin Retried
      BY DEF Errors, Retried
    <3> QED
      BY <1>1, <1>2, <1>5, <2>4, <3>3, <3>4, <3>5
  <2>5. CASE p + 6 + n <= L
    <3>1. PICK a \in Nat : a = p + 4 + n /\ a = pos + len /\ a + 1 = p + (n + 5) /\ a + 2 = p + (n + 6)
                           /\ a + 2 <= L /\ a + 1 <= L /\ a = (p + 4) + n
      BY <2>2, <2>5
    <3>2. SubSeq(data, a + 1, a + 2) = CRLF
      <4>1. data[a + 1] = CR /\ data[a + 2] = LF
        BY <1>8, <3>1
      <4>2. /\ a + 1 \in Int /\ a + 2 \in Int /\ a + 1 <= a + 2 /\ (a + 2) - (a + 1) + 1 = 2
            /\ (a + 1) + 1 - 1 = a + 1 /\ (a + 1) + 2 - 1 = a + 2
        OBVIOUS
      <4>3. \A i \in (a + 1)..(a + 2) : data[i] \in Nat
        BY <1>1, <3>1
      <4>4. PICK s : s = SubSeq(data, a + 1, a + 2)
        OBVIOUS
      <4>5. s \in Seq(Nat) /\ Len(s) = 2 /\ \A i \in 1..2 : s[i] = data[(a + 1) + i - 1]
        BY <4>2, <4>3, <4>4, SubSeqProperties
      <4>6. s[1] = CR /\ s[2] = LF
        BY <4>1, <4>2, <4>5
      <4>7. CRLF \in Seq(Nat) /\ Len(CRLF) = 2 /\ CRLF[1] = CR /\ CRLF[2] = LF
        BY DEF CRLF, CR, LF
      <4>8. Len(s) = Len(CRLF) /\ \A i \in 1..Len(s) : s[i] = CRLF[i]
        BY <4>5, <4>6, <4>7
      <4> QED
        BY <4>4, <4>5, <4>7, <4>8, SeqEqual
    <3>3. AtLineEnd(data, pos + len)
      BY <1>1, <3>1, <3>2 DEF AtLineEnd
    <3>4. SubSeq(data, pos + 1, pos + len) = arg
      <4>1. PICK b \in Nat : b = p + 4 /\ a = b + n /\ pos = b
        <5>1. p + 4 \in Nat
          OBVIOUS
        <5> QED
          BY <2>2, <3>1, <5>1
      <4>2. PICK s : s = SubSeq(data, b + 1, a)
        OBVIOUS
      <4>3. /\ s \in Seq(Nat) /\ Len(s) = n
            /\ \A k \in 1..n : s[k] = data[b + k]
        <5>1. \A i \in (b + 1)..a : data[i] \in Nat
          <6> SUFFICES ASSUME NEW i \in (b + 1)..a PROVE data[i] \in Nat
            OBVIOUS
          <6>1. i \in 1..L
            BY <3>1
          <6> QED
            BY <1>1, <6>1
        <5>2. /\ SubSeq(data, b + 1, a) \in Seq(Nat)
              /\ Len(SubSeq(data, b + 1, a)) = IF b + 1 <= a THEN a - (b + 1) + 1 ELSE 0
              /\ \A i \in 1..a - (b + 1) + 1 : SubSeq(data, b + 1, a)[i] = data[(b + 1) + i - 1]
          BY <5>1, SubSeqProperties
        <5>3. a - (b + 1) + 1 = n /\ (n = 0 <=> ~(b + 1 <= a)) /\ \A i \in 1..n : (b + 1) + i - 1 = b + i
          BY <4>1
        <5> QED
          BY <4>2, <5>2, <5>3
      <4>4. \A k \in 1..n : s[k] = arg[k]
        <5> SUFFICES ASSUME NEW k \in 1..n PROVE s[k] = arg[k]
          OBVIOUS
        <5>1. b + k = p + (4 + k) /\ p + (4 + k) <= L
          BY <2>5, <4>1
        <5> QED
          BY <1>9, <4>3, <5>1
      <4>5. s = arg
        BY <1>1, <4>3, <4>4, SeqEqual
      <4> QED
        BY <3>1, <4>1, <4>2, <4>5
    <3>5. PastCRLF(pos, len) = p + 6 + n
      BY <2>2 DEF PastCRLF
    <3>6. ~(pos + len > Len(data))
      BY <1>1, <3>1
    <3>7. next = Parsed(Append(args, arg), p + 6 + n)
      BY <1>3, <1>6, <2>1, <2>2, <3>3, <3>4, <3>5, <3>6
    <3> QED
      BY <1>1, <1>2, <1>5, <2>5, <3>7
  <2> QED
    BY <1>11, <2>3, <2>4, <2>5
<1>12. CASE ~(p + 4 <= L)
  <2>1. L \notin (p + 4)..(p + 3 + n) /\ ~(p + 6 + n <= L)
    BY <1>12
  <2>2. next = Failed("expected bulk string") \/ next = Failed("no CRLF found")
    BY <1>6, <1>10, <1>12
  <2>3. /\ {"expected bulk string", "no CRLF found"} \subseteq Errors \ {"none"}
        /\ "expected bulk string" \notin Retried /\ "no CRLF found" \notin Retried
    BY DEF Errors, Retried
  <2> QED
    BY <1>1, <1>2, <1>5, <2>1, <2>2, <2>3
<1> QED
  BY <1>11, <1>12

(* at[i] is where the first i bulk strings of a command end.               *)
Layout(cmd, at) ==
  /\ at \in [0..Len(cmd) -> Nat]
  /\ Encoded(cmd) \in Seq(Nat)
  /\ at[0] = 4 /\ at[Len(cmd)] = Len(Encoded(cmd))
  /\ Encoded(cmd)[2] = Zero + Len(cmd) /\ Encoded(cmd)[3] = CR /\ Encoded(cmd)[4] = LF
  /\ \A i \in 1..Len(cmd) :
       /\ at[i] = at[i - 1] + 6 + Len(cmd[i])
       /\ \A k \in 1..(Len(cmd[i]) + 6) : Encoded(cmd)[at[i - 1] + k] = Bulk(cmd[i])[k]
  /\ \A i \in 0..Len(cmd) : Len(Encoded(SubSeq(cmd, 1, i))) = at[i]
  /\ \A a \in 0..Len(cmd) : \A b \in a..Len(cmd) : at[a] <= at[b]

LEMMA CommandLayout ==
  ASSUME NEW cmd \in Seq(Seq(Nat))
  PROVE  \E at : Layout(cmd, at)
<1>1. PICK n \in Nat : n = Len(cmd)
  BY LenProperties
<1>2. \A i \in 1..n : /\ cmd[i] \in Seq(Nat) /\ Len(cmd[i]) \in Nat
                      /\ Bulk(cmd[i]) \in Seq(Nat) /\ Len(Bulk(cmd[i])) = Len(cmd[i]) + 6
  <2>1. \A i \in 1..n : cmd[i] \in Seq(Nat)
    BY <1>1
  <2> QED
    BY <2>1, BulkIs
<1> DEFINE bulks == [i \in 1..n |-> Bulk(cmd[i])]
<1>3. bulks \in [1..n -> Seq(Nat)] /\ \A i \in 1..n : bulks[i] = Bulk(cmd[i])
  BY <1>2
<1>4. DOMAIN cmd = 1..n /\ [i \in DOMAIN cmd |-> Bulk(cmd[i])] = bulks
  BY <1>1
<1> HIDE DEF bulks
<1>5. PICK g : Joins(g, bulks, n, Nat)
  BY <1>3, JoinsExist
<1>6. /\ \A i \in 1..n : /\ g[i - 1] \in Seq(Nat) /\ Len(g[i]) = Len(g[i - 1]) + Len(bulks[i])
                         /\ \A k \in 1..Len(bulks[i]) : g[n][Len(g[i - 1]) + k] = bulks[i][k]
      /\ \A a \in 0..n : \A b \in a..n : /\ g[a] \in Seq(Nat) /\ Len(g[a]) <= Len(g[b])
                                         /\ \A k \in 1..Len(g[a]) : g[b][k] = g[a][k]
  <2>1. Laid(g, bulks, n, Nat)
    BY <1>3, <1>5, JoinsLayout
  <2> QED
    BY <2>1 DEF Laid
<1>7. /\ \A i \in 0..n : g[i] \in Seq(Nat) /\ Len(g[i]) \in Nat
      /\ g[0] = <<>> /\ Len(g[0]) = 0 /\ FlattenSeq(bulks) = g[n]
  <2>1. FlattenSeq(bulks) = g[n] /\ g \in [0..n -> Seq(Nat)] /\ g[0] = <<>>
    BY <1>3, <1>5, FlattenIs DEF Joins
  <2> QED
    BY <2>1, LenProperties, EmptySeq
<1>8. ASSUME NEW m \in Nat
      PROVE  /\ <<Star, Zero + m>> \o CRLF \in Seq(Nat) /\ Len(<<Star, Zero + m>> \o CRLF) = 4
             /\ (<<Star, Zero + m>> \o CRLF)[2] = Zero + m /\ (<<Star, Zero + m>> \o CRLF)[3] = CR
             /\ (<<Star, Zero + m>> \o CRLF)[4] = LF
  <2>1. PICK front, line : front = <<Star, Zero + m>> /\ line = CRLF
    OBVIOUS
  <2>2. /\ front \in Seq(Nat) /\ Len(front) = 2 /\ front[2] = Zero + m
        /\ line \in Seq(Nat) /\ Len(line) = 2 /\ line[1] = CR /\ line[2] = LF
    BY <2>1 DEF CRLF, Star, Zero, CR, LF
  <2>3. PICK i \in Nat, j \in Nat : i = 2 /\ j = 2
    OBVIOUS
  <2>4. front \in Seq(Nat) /\ line \in Seq(Nat) /\ i = Len(front) /\ j = Len(line)
    BY <2>2, <2>3
  <2>5. /\ front \o line \in Seq(Nat) /\ Len(front \o line) = i + j
        /\ \A k \in 1..i : (front \o line)[k] = front[k]
        /\ \A k \in 1..j : (front \o line)[i + k] = line[k]
    BY <2>4, TwoParts
  <2>6. 2 \in 1..i /\ 1 \in 1..j /\ 2 \in 1..j /\ i + 1 = 3 /\ i + 2 = 4 /\ i + j = 4
    BY <2>3
  <2>7. (front \o line)[2] = Zero + m /\ (front \o line)[3] = CR /\ (front \o line)[4] = LF
    BY <2>2, <2>5, <2>6
  <2> QED
    BY <2>1, <2>5, <2>6, <2>7
<1>9. PICK head : head = <<Star, Zero + n>> \o CRLF
  OBVIOUS
<1>10. head \in Seq(Nat) /\ Len(head) = 4 /\ head[2] = Zero + n /\ head[3] = CR /\ head[4] = LF
  BY <1>8, <1>9
<1>11. PICK four \in Nat, rest \in Nat : four = 4 /\ rest = Len(g[n])
  <2>1. n \in 0..n /\ 4 \in Nat
    OBVIOUS
  <2> QED
    BY <1>7, <2>1
<1>12. PICK e : e = Encoded(cmd)
  OBVIOUS
<1>13. e = head \o g[n]
  BY <1>1, <1>4, <1>7, <1>9, <1>12 DEF Encoded
<1>14. /\ e \in Seq(Nat) /\ Len(e) = four + rest
       /\ \A k \in 1..four : e[k] = head[k]
       /\ \A k \in 1..rest : e[four + k] = g[n][k]
  <2>1. /\ head \o g[n] \in Seq(Nat) /\ Len(head \o g[n]) = four + rest
        /\ \A k \in 1..four : (head \o g[n])[k] = head[k]
        /\ \A k \in 1..rest : (head \o g[n])[four + k] = g[n][k]
    <3>1. head \in Seq(Nat) /\ g[n] \in Seq(Nat) /\ four = Len(head) /\ rest = Len(g[n])
      BY <1>7, <1>10, <1>11
    <3> QED
      BY <3>1, TwoParts
  <2> QED
    BY <1>13, <2>1
<1> DEFINE at == [i \in 0..n |-> 4 + Len(g[i])]
<1>15. at \in [0..n -> Nat] /\ at[0] = 4 /\ at[n] = Len(e) /\ \A i \in 0..n : at[i] = 4 + Len(g[i])
  <2>1. n \in 0..n /\ 0 \in 0..n
    OBVIOUS
  <2>2. \A i \in 0..n : 4 + Len(g[i]) \in Nat
    BY <1>7
  <2>3. at \in [0..n -> Nat] /\ \A i \in 0..n : at[i] = 4 + Len(g[i])
    BY <2>2
  <2>4. at[0] = 4 /\ at[n] = Len(e)
    BY <1>7, <1>11, <1>14, <2>1
  <2> QED
    BY <2>3, <2>4
<1> HIDE DEF at
<1>16. e[2] = Zero + n /\ e[3] = CR /\ e[4] = LF
  <2>1. 2 \in 1..four /\ 3 \in 1..four /\ 4 \in 1..four
    BY <1>11
  <2> QED
    BY <1>10, <1>14, <2>1
<1>17. ASSUME NEW i \in 1..n
       PROVE  /\ at[i] = at[i - 1] + 6 + Len(cmd[i])
              /\ \A k \in 1..(Len(cmd[i]) + 6) : e[at[i - 1] + k] = Bulk(cmd[i])[k]
  <2>1. i - 1 \in 0..n /\ i \in 0..n /\ n \in i..n
    OBVIOUS
  <2>2. PICK before \in Nat, len \in Nat, upto \in Nat :
          before = Len(g[i - 1]) /\ len = Len(cmd[i]) /\ upto = Len(g[i])
    BY <1>2, <1>7, <2>1
  <2>3. /\ Len(bulks[i]) = len + 6 /\ bulks[i] = Bulk(cmd[i])
        /\ upto = before + (len + 6) /\ upto <= rest
        /\ at[i - 1] = 4 + before /\ at[i] = 4 + upto
    <3>1. Len(bulks[i]) = len + 6 /\ bulks[i] = Bulk(cmd[i])
      BY <1>2, <1>3, <2>2
    <3>2. upto = before + (len + 6)
      BY <1>6, <2>2, <3>1
    <3>3. upto <= rest
      BY <1>6, <1>11, <2>1, <2>2
    <3>4. at[i - 1] = 4 + before /\ at[i] = 4 + upto
      BY <1>15, <2>1, <2>2
    <3> QED
      BY <3>1, <3>2, <3>3, <3>4
  <2>4. ASSUME NEW k \in 1..(len + 6) PROVE e[at[i - 1] + k] = Bulk(cmd[i])[k]
    <3>1. before + k \in 1..rest /\ at[i - 1] + k = four + (before + k)
      BY <1>11, <2>3
    <3>2. e[at[i - 1] + k] = g[n][before + k]
      BY <1>14, <3>1
    <3> QED
      BY <1>6, <2>2, <2>3, <3>2
  <2>5. at[i] = at[i - 1] + 6 + len
    BY <2>3
  <2> QED
    BY <2>2, <2>4, <2>5
<1>18. ASSUME NEW i \in 0..n
       PROVE  Len(Encoded(SubSeq(cmd, 1, i))) = at[i]
  <2>1. PICK part : part = SubSeq(cmd, 1, i)
    OBVIOUS
  <2>2. part \in Seq(Seq(Nat)) /\ Len(part) = i /\ DOMAIN part = 1..i /\ \A j \in 1..i : part[j] = cmd[j]
    BY <1>1, <2>1
  <2> DEFINE some == [j \in DOMAIN part |-> Bulk(part[j])]
  <2>3. some \in [1..i -> Seq(Nat)] /\ \A j \in 1..i : some[j] = bulks[j]
    <3>1. \A j \in 1..i : j \in 1..n
      OBVIOUS
    <3> QED
      BY <1>2, <1>3, <2>2, <3>1
  <2> HIDE DEF some
  <2>4. FlattenSeq(some) = g[i]
    <3>1. /\ n \in Nat /\ i \in Nat /\ i <= n /\ bulks \in [1..n -> Seq(Nat)]
          /\ some \in [1..i -> Seq(Nat)] /\ Joins(g, bulks, n, Nat) /\ Starts(some, bulks, i)
      BY <1>3, <1>5, <2>3 DEF Starts
    <3> QED
      BY <3>1, FlattenStart
  <2>5. PICK first : first = <<Star, Zero + i>> \o CRLF
    OBVIOUS
  <2>6. first \in Seq(Nat) /\ Len(first) = 4
    BY <1>8, <2>5
  <2>7. Encoded(part) = first \o g[i]
    BY <2>2, <2>4, <2>5 DEF Encoded, some
  <2>8. Len(first \o g[i]) = Len(first) + Len(g[i])
    BY <1>7, <2>6, ConcatProperties
  <2> QED
    BY <1>15, <2>1, <2>6, <2>7, <2>8
<1>19. ASSUME NEW a \in 0..n, NEW b \in a..n
       PROVE  at[a] <= at[b]
  <2>1. b \in 0..n /\ Len(g[a]) <= Len(g[b])
    BY <1>6
  <2> QED
    BY <1>7, <1>15, <2>1
<1> QED
  BY <1>1, <1>12, <1>14, <1>15, <1>16, <1>17, <1>18, <1>19 DEF Layout

-----------------------------------------------------------------------------
(* What the parser makes of a buffer that begins like a command.           *)
Begins(data, e) == \A j \in 1..Len(e) : j <= Len(data) => data[j] = e[j]

DataOf(cmd, at, i) == (at[i - 1] + 4)..(at[i - 1] + 3 + Len(cmd[i]))

LEMMA LacksDataIs ==
  ASSUME NEW cmd \in Seq(Seq(Nat)), NEW at, Layout(cmd, at), NEW L \in Nat
  PROVE  L \in LacksData(cmd) <=> \E i \in 1..Len(cmd) : L \in DataOf(cmd, at, i)
<1>1. PICK n \in Nat : n = Len(cmd) /\ DOMAIN cmd = 1..n
  BY LenProperties
<1>2. /\ \A i \in 0..n : Len(Encoded(SubSeq(cmd, 1, i))) = at[i]
      /\ at \in [0..n -> Nat]
  BY <1>1 DEF Layout
<1>3. ASSUME NEW i \in 1..n, NEW before, before = Len(Encoded(SubSeq(cmd, 1, i - 1)))
      PROVE  L \in {before + 4 + k : k \in 0..(Len(cmd[i]) - 1)} <=> L \in DataOf(cmd, at, i)
  <2>1. i - 1 \in 0..n /\ cmd[i] \in Seq(Nat)
    BY <1>1
  <2>2. before = at[i - 1] /\ before \in Nat
    BY <1>2, <1>3, <2>1
  <2>3. PICK len \in Nat : len = Len(cmd[i])
    BY <2>1, LenProperties
  <2>4. L \in (before + 4)..(before + 3 + len) => \E k \in 0..(len - 1) : L = before + 4 + k
    <3> SUFFICES ASSUME L \in (before + 4)..(before + 3 + len)
                 PROVE  \E k \in 0..(len - 1) : L = before + 4 + k
      OBVIOUS
    <3>1. L - (before + 4) \in 0..(len - 1) /\ L = before + 4 + (L - (before + 4))
      BY <2>2
    <3> QED
      BY <3>1
  <2>5. \A k \in 0..(len - 1) : before + 4 + k \in (before + 4)..(before + 3 + len)
    BY <2>2
  <2> QED
    BY <2>2, <2>3, <2>4, <2>5 DEF DataOf
<1>4. LacksData(cmd) = UNION {{Len(Encoded(SubSeq(cmd, 1, i - 1))) + 4 + k : k \in 0..(Len(cmd[i]) - 1)} :
                                i \in 1..n}
  BY <1>1 DEF LacksData
<1> DEFINE lack(i) == {Len(Encoded(SubSeq(cmd, 1, i - 1))) + 4 + k : k \in 0..(Len(cmd[i]) - 1)}
<1>5. \A i \in 1..n : L \in lack(i) <=> L \in DataOf(cmd, at, i)
  BY <1>3
<1>6. LacksData(cmd) = UNION {lack(i) : i \in 1..n}
  BY <1>4
<1> HIDE DEF lack
<1> QED
  BY <1>1, <1>5, <1>6

(* The next bulk string of a command, in a buffer that begins like it.     *)
SoFar(cmd, at, i) == Parsed(SubSeq(cmd, 1, i), at[i])

LEMMA OneMore ==
  ASSUME NEW cmd \in Seq(Seq(Nat)), NEW at, Layout(cmd, at),
         NEW data \in Seq(Nat), Begins(data, Encoded(cmd)),
         NEW i \in 1..Len(cmd), at[i - 1] <= Len(data)
  PROVE  /\ at[i] <= Len(data) => NextBulk(data)[SoFar(cmd, at, i - 1)] = SoFar(cmd, at, i)
         /\ ~(at[i] <= Len(data)) =>
              \E error \in Errors \ {"none"} :
                /\ NextBulk(data)[SoFar(cmd, at, i - 1)] = Failed(error)
                /\ error \in Retried <=> Len(data) \in DataOf(cmd, at, i)
<1>1. PICK n \in Nat, L \in Nat : n = Len(cmd) /\ L = Len(data)
  BY LenProperties
<1>2. i \in 1..n /\ i - 1 \in 0..n /\ i \in 0..n /\ i - 1 \in Nat
  BY <1>1
<1>3. /\ at \in [0..n -> Nat]
      /\ \A k \in 1..n : /\ at[k] = at[k - 1] + 6 + Len(cmd[k])
                         /\ \A j \in 1..(Len(cmd[k]) + 6) : Encoded(cmd)[at[k - 1] + j] = Bulk(cmd[k])[j]
      /\ at[n] = Len(Encoded(cmd))
      /\ \A a \in 0..n : \A b \in a..n : at[a] <= at[b]
  BY <1>1 DEF Layout
<1>4. PICK args, arg : args = SubSeq(cmd, 1, i - 1) /\ arg = cmd[i]
  OBVIOUS
<1>5. args \in Seq(Seq(Nat)) /\ arg \in Seq(Nat) /\ Append(args, arg) = SubSeq(cmd, 1, i)
  <2>1. arg \in Seq(Nat)
    BY <1>4
  <2>2. args \in Seq(Seq(Nat)) /\ Len(args) = i - 1 /\ \A j \in 1..(i - 1) : args[j] = cmd[j]
    BY <1>1, <1>2, <1>4
  <2>3. PICK more, upto : more = Append(args, arg) /\ upto = SubSeq(cmd, 1, i)
    OBVIOUS
  <2>4. more \in Seq(Seq(Nat)) /\ Len(more) = i /\ \A j \in 1..i : more[j] = cmd[j]
    BY <1>4, <2>1, <2>2, <2>3
  <2>5. upto \in Seq(Seq(Nat)) /\ Len(upto) = i /\ \A j \in 1..i : upto[j] = cmd[j]
    BY <1>1, <1>2, <2>3
  <2>6. more = upto
    BY <2>4, <2>5, SeqEqual
  <2> QED
    BY <2>1, <2>2, <2>3, <2>6
<1>6. PICK p \in Nat, m \in Nat : p = at[i - 1] /\ m = Len(arg)
  BY <1>2, <1>3, <1>5, LenProperties
<1>7. at[i] = p + 6 + m /\ p <= L /\ at[i] <= at[n]
  <2>1. n \in i..n
    BY <1>2
  <2> QED
    BY <1>1, <1>2, <1>3, <1>4, <1>6, <2>1
<1>8. ASSUME NEW k \in 1..(Len(arg) + 6), p + k <= Len(data)
      PROVE  data[p + k] = Bulk(arg)[k]
  <2>1. p + k \in 1..at[n] /\ at[n] \in Nat
    <3>1. PICK total \in Nat : total = at[n]
      BY <1>3
    <3>2. k \in 1..(m + 6) /\ p + 6 + m <= total
      BY <1>6, <1>7, <3>1
    <3> QED
      BY <3>1, <3>2
  <2>2. data[p + k] = Encoded(cmd)[p + k]
    BY <1>3, <1>8, <2>1 DEF Begins
  <2> QED
    BY <1>2, <1>3, <1>4, <1>6, <2>2
<1>9. p <= Len(data) /\ \A k \in 1..(Len(arg) + 6) : p + k <= Len(data) => data[p + k] = Bulk(arg)[k]
  BY <1>1, <1>7, <1>8
<1>10. /\ p + 6 + Len(arg) <= Len(data) =>
             NextBulk(data)[Parsed(args, p)] = Parsed(Append(args, arg), p + 6 + Len(arg))
       /\ ~(p + 6 + Len(arg) <= Len(data)) =>
             \E error \in Errors \ {"none"} :
               /\ NextBulk(data)[Parsed(args, p)] = Failed(error)
               /\ error \in Retried <=> Len(data) \in (p + 4)..(p + 3 + Len(arg))
  BY <1>5, <1>9, NextBulkIs
<1> QED
  BY <1>4, <1>5, <1>6, <1>7, <1>10 DEF SoFar, DataOf

(* All of it, or the first bulk string that is not there.                  *)
Outcome(r, cmd, data) ==
  /\ Len(Encoded(cmd)) <= Len(data) => r = Parsed(cmd, Len(Encoded(cmd)))
  /\ ~(Len(Encoded(cmd)) <= Len(data)) =>
       /\ r.error \in Errors \ {"none"}
       /\ r.error \in Retried <=> Len(data) \in LacksData(cmd)

LEMMA BulksAre ==
  ASSUME NEW cmd \in Seq(Seq(Nat)), NEW at, Layout(cmd, at),
         NEW data \in Seq(Nat), Begins(data, Encoded(cmd)), 4 <= Len(data)
  PROVE  Outcome(Bulks(data, 4, Len(cmd)), cmd, data)
<1>1. PICK n \in Nat, L \in Nat : n = Len(cmd) /\ L = Len(data)
  BY LenProperties
<1>2. /\ at \in [0..n -> Nat] /\ at[0] = 4 /\ at[n] = Len(Encoded(cmd))
      /\ \A a \in 0..n : \A b \in a..n : at[a] <= at[b]
  BY <1>1 DEF Layout
<1>3. ASSUME NEW i \in 1..n, at[i - 1] <= L
      PROVE  /\ at[i] <= L => NextBulk(data)[SoFar(cmd, at, i - 1)] = SoFar(cmd, at, i)
             /\ ~(at[i] <= L) =>
                  \E error \in Errors \ {"none"} :
                    /\ NextBulk(data)[SoFar(cmd, at, i - 1)] = Failed(error)
                    /\ error \in Retried <=> L \in DataOf(cmd, at, i)
  <2>1. i \in 1..Len(cmd) /\ at[i - 1] <= Len(data)
    BY <1>1, <1>3
  <2>2. /\ at[i] <= Len(data) => NextBulk(data)[SoFar(cmd, at, i - 1)] = SoFar(cmd, at, i)
        /\ ~(at[i] <= Len(data)) =>
             \E error \in Errors \ {"none"} :
               /\ NextBulk(data)[SoFar(cmd, at, i - 1)] = Failed(error)
               /\ error \in Retried <=> Len(data) \in DataOf(cmd, at, i)
    BY <2>1, OneMore
  <2> QED
    BY <1>1, <2>2
<1>4. ASSUME NEW error \in Errors \ {"none"}
      PROVE  NextBulk(data)[Failed(error)] = Failed(error) /\ Failed(error).error = error
  <2>1. Failed(error) \in Results /\ Failed(error).error = error
    BY EmptySeq DEF Failed, Results
  <2> QED
    BY <2>1 DEF NextBulk
(* The error that ends it, if one does.                                    *)
<1>5. PICK stuck \in Errors \ {"none"} :
        ~(at[n] <= L) =>
          /\ \A i \in 1..n : at[i - 1] <= L /\ ~(at[i] <= L) =>
               NextBulk(data)[SoFar(cmd, at, i - 1)] = Failed(stuck)
          /\ stuck \in Retried <=> L \in LacksData(cmd)
  <2>1. CASE at[n] <= L
    <3>1. "no CRLF found" \in Errors \ {"none"}
      BY DEF Errors
    <3> QED
      BY <2>1, <3>1
  <2>2. CASE ~(at[n] <= L)
    <3> DEFINE I == {i \in 0..n : ~(at[i] <= L)}
    <3>1. I \in SUBSET Nat /\ n \in I
      BY <2>2
    <3>2. PICK j \in I : \A y \in I : j <= y
      BY <3>1, LeastNumber
    <3>3. j \in 0..n /\ ~(at[j] <= L) /\ j # 0
      BY <1>1, <1>2, <3>2
    <3>4. j \in 1..n /\ j - 1 \in 0..n /\ ~(j <= j - 1)
      BY <3>3
    <3>5. at[j - 1] <= L
      BY <3>2, <3>4
    <3>6. PICK error \in Errors \ {"none"} :
             /\ NextBulk(data)[SoFar(cmd, at, j - 1)] = Failed(error)
             /\ error \in Retried <=> L \in DataOf(cmd, at, j)
      BY <1>3, <3>3, <3>4, <3>5
    <3>7. ASSUME NEW i \in 1..n, at[i - 1] <= L, ~(at[i] <= L) PROVE i = j
      <4>1. i \in 0..n /\ i - 1 \in 0..n /\ at[i - 1] \in Nat /\ at[j] \in Nat
        BY <1>2, <3>3
      <4>2. j <= i
        BY <3>2, <3>7, <4>1
      <4>3. CASE j < i
        <5>1. i - 1 \in j..n
          BY <3>4, <4>3
        <5>2. at[j] <= at[i - 1]
          BY <1>2, <3>3, <5>1
        <5> QED
          BY <3>3, <3>7, <4>1, <5>2
      <4> QED
        BY <3>4, <4>2, <4>3
    <3>8. ASSUME NEW i \in 1..n, L \in DataOf(cmd, at, i) PROVE i = j
      <4>1. /\ at[i - 1] \in Nat /\ at[i] \in Nat /\ Len(cmd[i]) \in Nat
            /\ at[i] = at[i - 1] + 6 + Len(cmd[i])
        <5>1. i - 1 \in 0..n /\ i \in 0..n /\ cmd[i] \in Seq(Nat)
          BY <1>1
        <5>2. at[i] = at[i - 1] + 6 + Len(cmd[i])
          BY <1>1 DEF Layout
        <5> QED
          BY <1>2, <5>1, <5>2, LenProperties
      <4>2. at[i - 1] <= L /\ ~(at[i] <= L)
        <5>1. L \in (at[i - 1] + 4)..(at[i - 1] + 3 + Len(cmd[i]))
          BY <3>8 DEF DataOf
        <5>2. \A x, y \in Nat : L \in (x + 4)..(x + 3 + y) => x <= L /\ ~(x + 6 + y <= L)
          OBVIOUS
        <5> QED
          BY <4>1, <5>1, <5>2
      <4> QED
        BY <3>7, <4>2
    <3>9. L \in LacksData(cmd) <=> L \in DataOf(cmd, at, j)
      BY <1>1, <3>4, <3>8, LacksDataIs
    <3> QED
      BY <3>6, <3>7, <3>9
  <2> QED
    BY <2>1, <2>2
<1>6. PICK g : g = [i \in 0..n |-> IF at[i] <= L THEN SoFar(cmd, at, i) ELSE Failed(stuck)]
  OBVIOUS
<1>7. SoFar(cmd, at, 0) = Parsed(<<>>, 4)
  <2>1. SubSeq(cmd, 1, 0) = <<>>
    BY SubSeqEmpty
  <2> QED
    BY <1>2, <2>1 DEF SoFar
<1>8. g[0] = Parsed(<<>>, 4)
  BY <1>1, <1>2, <1>6, <1>7
<1>9. ASSUME NEW i \in 1..n PROVE g[i] = NextBulk(data)[g[i - 1]]
  <2>1. i \in 0..n /\ i - 1 \in 0..n /\ i \in (i - 1)..n /\ n \in i..n /\ n \in 0..n
    OBVIOUS
  <2>2. at[i - 1] \in Nat /\ at[i] \in Nat /\ at[n] \in Nat /\ at[i - 1] <= at[i] /\ at[i] <= at[n]
    BY <1>2, <2>1
  <2>3. g[i] = (IF at[i] <= L THEN SoFar(cmd, at, i) ELSE Failed(stuck))
        /\ g[i - 1] = (IF at[i - 1] <= L THEN SoFar(cmd, at, i - 1) ELSE Failed(stuck))
    BY <1>6, <2>1
  <2>4. CASE at[i] <= L
    <3>1. at[i - 1] <= L
      BY <2>2, <2>4
    <3> QED
      BY <1>3, <2>3, <2>4, <3>1
  <2>5. CASE ~(at[i] <= L)
    <3>1. ~(at[n] <= L)
      BY <2>2, <2>5
    <3>2. CASE at[i - 1] <= L
      BY <1>5, <2>3, <2>5, <3>1, <3>2
    <3>3. CASE ~(at[i - 1] <= L)
      BY <1>4, <2>3, <2>5, <3>3
    <3> QED
      BY <3>2, <3>3
  <2> QED
    BY <2>4, <2>5
<1>10. Bulks(data, 4, n) = g[n]
  <2> DEFINE Right(f) == f = [i \in 0..n |-> IF i = 0 THEN Parsed(<<>>, 4) ELSE NextBulk(data)[f[i - 1]]]
  <2>1. PICK bulks : bulks = CHOOSE f : Right(f)
    OBVIOUS
  <2>2. Bulks(data, 4, n) = bulks[n]
    BY <2>1 DEF Bulks
  <2>3. Right(g)
    <3>1. \A i \in 0..n : g[i] = IF i = 0 THEN Parsed(<<>>, 4) ELSE NextBulk(data)[g[i - 1]]
      <4> SUFFICES ASSUME NEW i \in 0..n, i # 0 PROVE g[i] = NextBulk(data)[g[i - 1]]
        BY <1>8
      <4>1. i \in 1..n
        OBVIOUS
      <4> QED
        BY <1>9, <4>1
    <3>2. g = [i \in 0..n |-> g[i]]
      BY <1>6
    <3> QED
      BY <3>1, <3>2
  <2>4. Right(bulks)
    BY <2>1, <2>3
  <2>5. \A i \in 0..n : bulks[i] = IF i = 0 THEN Parsed(<<>>, 4) ELSE NextBulk(data)[bulks[i - 1]]
    BY <2>4
  <2> HIDE DEF Right
  <2> DEFINE I == {i \in 0..n : bulks[i] # g[i]}
  <2>6. I = {}
    <3> SUFFICES ASSUME I # {} PROVE FALSE
      OBVIOUS
    <3>1. I \in SUBSET Nat
      OBVIOUS
    <3>2. PICK i \in I : \A y \in I : i <= y
      BY <3>1, LeastNumber
    <3>3. i \in 0..n /\ bulks[i] # g[i]
      BY <3>2
    <3>4. i # 0
      BY <1>8, <2>5, <3>3
    <3>5. i \in 1..n /\ i - 1 \in 0..n /\ ~(i <= i - 1)
      BY <3>3, <3>4
    <3>6. bulks[i - 1] = g[i - 1]
      BY <3>2, <3>5
    <3> QED
      BY <1>9, <2>5, <3>3, <3>4, <3>5, <3>6
  <2>7. n \in 0..n
    OBVIOUS
  <2> QED
    BY <2>2, <2>6, <2>7
<1>11. SoFar(cmd, at, n) = Parsed(cmd, Len(Encoded(cmd)))
  BY <1>1, <1>2, SubSeqFull DEF SoFar
<1>12. g[n] = IF at[n] <= L THEN SoFar(cmd, at, n) ELSE Failed(stuck)
  BY <1>6
<1>13. CASE at[n] <= L
  BY <1>1, <1>2, <1>10, <1>11, <1>12, <1>13 DEF Outcome
<1>14. CASE ~(at[n] <= L)
  <2>1. g[n] = Failed(stuck) /\ Failed(stuck).error = stuck
    BY <1>4, <1>12, <1>14
  <2> QED
    BY <1>1, <1>2, <1>5, <1>10, <1>14, <2>1 DEF Outcome
<1> QED
  BY <1>13, <1>14

LEMMA ParseIs ==
  ASSUME NEW cmd \in Seq(Seq(Nat)), NEW data \in Seq(Nat), Begins(data, Encoded(cmd))
  PROVE  Outcome(ParseCommand(data), cmd, data)
<1>1. PICK at : Layout(cmd, at)
  BY CommandLayout
<1>2. PICK n \in Nat, L \in Nat, len \in Nat : n = Len(cmd) /\ L = Len(data) /\ len = Len(Encoded(cmd))
  BY <1>1, LenProperties DEF Layout
<1>3. /\ Encoded(cmd)[2] = Zero + n /\ Encoded(cmd)[3] = CR /\ Encoded(cmd)[4] = LF
      /\ at[0] = 4 /\ at[n] = len /\ at[0] <= at[n]
  <2>1. 0 \in 0..n /\ n \in 0..n
    OBVIOUS
  <2> QED
    BY <1>1, <1>2, <2>1 DEF Layout
<1>4. 4 <= len
  BY <1>3
<1>5. \A j \in 1..4 : j <= L => data[j] = Encoded(cmd)[j]
  <2>1. \A j \in 1..4 : j \in 1..len
    BY <1>4
  <2>2. \A j \in 1..len : j <= L => data[j] = Encoded(cmd)[j]
    BY <1>2 DEF Begins
  <2> QED
    BY <2>1, <2>2
<1>6. /\ 2 <= L => data[2] = Zero + n
      /\ 3 <= L => data[3] = CR
      /\ 4 <= L => data[4] = LF
  BY <1>3, <1>5
<1>7. LineEnd(data, 1) = IF 4 <= L THEN 3 ELSE 0
  <2>1. PICK one \in Nat : one = 1 /\ one + 1 = 2 /\ one + 2 = 3 /\ one + 3 = 4
    OBVIOUS
  <2>2. /\ one + 1 <= Len(data) => data[one + 1] # CR
        /\ one + 2 <= Len(data) => data[one + 2] = CR
        /\ one + 3 <= Len(data) => data[one + 3] = LF
    BY <1>2, <1>6, <2>1 DEF Zero, CR
  <2>3. LineEnd(data, one) = IF one + 3 <= Len(data) THEN one + 2 ELSE 0
    BY <2>2, LineEndIs
  <2> QED
    BY <1>2, <2>1, <2>3
<1>8. CASE 4 <= L
  <2>1. ParseCommand(data) = Bulks(data, 4, n)
    <3>1. LineEnd(data, 1) = 3 /\ 3 + 1 = 4 /\ 2 <= L /\ data[2] - Zero = n
      BY <1>6, <1>7, <1>8 DEF Zero
    <3>2. ParseCommand(data) = Bulks(data, LineEnd(data, 1) + 1, data[2] - Zero)
      <4>1. PICK end : end = LineEnd(data, 1)
        OBVIOUS
      <4>2. end # 0
        BY <3>1, <4>1
      <4> QED
        BY <4>1, <4>2, Zenon DEF ParseCommand
    <3> QED
      BY <3>1, <3>2
  <2>2. Outcome(Bulks(data, 4, Len(cmd)), cmd, data)
    BY <1>1, <1>2, <1>8, BulksAre
  <2> QED
    BY <1>2, <2>1, <2>2
<1>9. CASE ~(4 <= L)
  <2>1. ParseCommand(data) = Failed("no CRLF found")
    BY <1>7, <1>9 DEF ParseCommand
  <2>2. ASSUME NEW i \in 1..n PROVE L \notin DataOf(cmd, at, i)
    <3>1. i - 1 \in 0..n /\ 0 \in 0..n /\ i - 1 \in 0..n
      OBVIOUS
    <3>2. at[i - 1] \in Nat
      BY <1>1, <1>2, <3>1 DEF Layout
    <3> QED
      BY <1>9, <3>2 DEF DataOf
  <2>3. L \notin LacksData(cmd)
    BY <1>1, <1>2, <2>2, LacksDataIs
  <2>4. /\ "no CRLF found" \in Errors \ {"none"} /\ "no CRLF found" \notin Retried
        /\ Failed("no CRLF found").error = "no CRLF found"
    BY DEF Errors, Retried, Failed
  <2>5. ~(len <= L)
    BY <1>4, <1>9
  <2> QED
    BY <1>2, <2>1, <2>3, <2>4, <2>5 DEF Outcome
<1> QED
  BY <1>8, <1>9

-----------------------------------------------------------------------------
(* The bytes of several commands.                                          *)
LEMMA EncodedType ==
  ASSUME NEW cmd \in Seq(Seq(Nat))
  PROVE  Encoded(cmd) \in Seq(Nat) /\ Len(Encoded(cmd)) \in Nat /\ 4 <= Len(Encoded(cmd))
<1>1. PICK at : Layout(cmd, at)
  BY CommandLayout
<1>2. PICK n \in Nat : n = Len(cmd)
  BY LenProperties
<1>3. 0 \in 0..n /\ n \in 0..n
  OBVIOUS
<1>4. at \in [0..n -> Nat] /\ at[0] = 4 /\ at[n] = Len(Encoded(cmd)) /\ at[0] <= at[n]
      /\ Encoded(cmd) \in Seq(Nat)
  BY <1>1, <1>2, <1>3 DEF Layout
<1> QED
  BY <1>3, <1>4

Codes(cmds) == [i \in DOMAIN cmds |-> Encoded(cmds[i])]

LEMMA CodesType ==
  ASSUME NEW cmds \in Seq(Seq(Seq(Nat))), NEW n \in Nat, n = Len(cmds)
  PROVE  /\ Codes(cmds) \in [1..n -> Seq(Nat)]
         /\ \A i \in 1..n : Codes(cmds)[i] = Encoded(cmds[i])
         /\ Stream(cmds) = FlattenSeq(Codes(cmds))
<1>1. DOMAIN cmds = 1..n /\ \A i \in 1..n : cmds[i] \in Seq(Seq(Nat))
  OBVIOUS
<1>2. \A i \in 1..n : Encoded(cmds[i]) \in Seq(Nat)
  BY <1>1, EncodedType
<1> QED
  BY <1>1, <1>2 DEF Codes, Stream

LEMMA StreamAppend ==
  ASSUME NEW cmds \in Seq(Seq(Seq(Nat))), NEW cmd \in Seq(Seq(Nat))
  PROVE  /\ Stream(cmds) \in Seq(Nat) /\ Len(Stream(cmds)) \in Nat
         /\ Stream(Append(cmds, cmd)) = Stream(cmds) \o Encoded(cmd)
<1>1. PICK n \in Nat, m \in Nat : n = Len(cmds) /\ m = n + 1
  BY LenProperties
<1>2. PICK more : more = Append(cmds, cmd)
  OBVIOUS
<1>3. /\ more \in Seq(Seq(Seq(Nat))) /\ Len(more) = m /\ more[m] = cmd
      /\ \A i \in 1..n : more[i] = cmds[i]
  BY <1>1, <1>2
<1>4. PICK s, t : s = Codes(more) /\ t = Codes(cmds)
  OBVIOUS
<1>5. /\ s \in [1..m -> Seq(Nat)] /\ (\A i \in 1..m : s[i] = Encoded(more[i]))
      /\ Stream(more) = FlattenSeq(s)
  BY <1>3, <1>4, CodesType
<1>6. /\ t \in [1..n -> Seq(Nat)] /\ (\A i \in 1..n : t[i] = Encoded(cmds[i]))
      /\ Stream(cmds) = FlattenSeq(t)
  BY <1>1, <1>4, CodesType
<1>7. PICK g : Joins(g, s, m, Nat)
  BY <1>5, JoinsExist
<1>8. /\ g \in [0..m -> Seq(Nat)] /\ \A i \in 1..m : g[i] = g[i - 1] \o s[i]
  BY <1>7 DEF Joins
<1>9. m \in 1..m /\ m - 1 = n /\ n \in 0..m /\ \A i \in 1..n : i \in 1..m
  BY <1>1
<1>10. Starts(t, s, n)
  BY <1>3, <1>5, <1>6, <1>9 DEF Starts
<1>11. FlattenSeq(t) = g[n]
  <2>1. /\ s \in [1..m -> Seq(Nat)] /\ Joins(g, s, m, Nat)
        /\ n <= m /\ t \in [1..n -> Seq(Nat)] /\ Starts(t, s, n)
    BY <1>1, <1>5, <1>6, <1>7, <1>9, <1>10
  <2> QED
    BY <2>1, FlattenStart
<1>12. FlattenSeq(s) = g[m]
  BY <1>5, <1>7, FlattenIs
<1>13. g[m] = g[n] \o s[m] /\ g[n] \in Seq(Nat) /\ s[m] = Encoded(cmd)
  BY <1>3, <1>5, <1>8, <1>9
<1>14. Len(g[n]) \in Nat
  BY <1>13, LenProperties
<1> QED
  BY <1>2, <1>5, <1>6, <1>11, <1>12, <1>13, <1>14

(* The command after the first k, at its place.                            *)
Follows(cmds, k, some, cmd) ==
  k < Len(cmds) /\ some = SubSeq(cmds, 1, k) /\ cmd = cmds[k + 1]

InPlace(cmds, some, cmd) ==
  /\ cmd \in Seq(Seq(Nat))
  /\ Len(Stream(some)) + Len(Encoded(cmd)) <= Len(Stream(cmds))
  /\ \A j \in 1..Len(Encoded(cmd)) : Stream(cmds)[Len(Stream(some)) + j] = Encoded(cmd)[j]

LEMMA StreamNext ==
  ASSUME NEW cmds \in Seq(Seq(Seq(Nat))), NEW k \in Nat, NEW some, NEW cmd,
         Follows(cmds, k, some, cmd)
  PROVE  InPlace(cmds, some, cmd)
<1>0. k < Len(cmds) /\ some = SubSeq(cmds, 1, k) /\ cmd = cmds[k + 1]
  BY DEF Follows
<1>1. PICK n \in Nat, m \in Nat : n = Len(cmds) /\ m = k + 1 /\ m \in 1..n
  BY <1>0, LenProperties
<1>2. cmd \in Seq(Seq(Nat)) /\ cmd = cmds[m]
  BY <1>0, <1>1
<1>3. some \in Seq(Seq(Seq(Nat))) /\ Len(some) = k /\ \A i \in 1..k : some[i] = cmds[i]
  BY <1>0
<1>4. PICK s, t : s = Codes(cmds) /\ t = Codes(some)
  OBVIOUS
<1>5. /\ s \in [1..n -> Seq(Nat)] /\ (\A i \in 1..n : s[i] = Encoded(cmds[i]))
      /\ Stream(cmds) = FlattenSeq(s)
  BY <1>1, <1>4, CodesType
<1>6. /\ t \in [1..k -> Seq(Nat)] /\ (\A i \in 1..k : t[i] = Encoded(some[i]))
      /\ Stream(some) = FlattenSeq(t)
  BY <1>3, <1>4, CodesType
<1>7. PICK g : Joins(g, s, n, Nat)
  BY <1>5, JoinsExist
<1>8. m - 1 = k /\ k \in 0..n /\ m \in 0..n /\ n \in m..n /\ \A i \in 1..k : i \in 1..n
  BY <1>1
<1>9. Starts(t, s, k)
  BY <1>3, <1>5, <1>6, <1>8 DEF Starts
<1>10. FlattenSeq(t) = g[k]
  <2>1. /\ s \in [1..n -> Seq(Nat)] /\ Joins(g, s, n, Nat)
        /\ k <= n /\ t \in [1..k -> Seq(Nat)] /\ Starts(t, s, k)
    BY <1>1, <1>5, <1>6, <1>7, <1>8, <1>9
  <2> QED
    BY <2>1, FlattenStart
<1>11. FlattenSeq(s) = g[n]
  BY <1>5, <1>7, FlattenIs
<1>12. Laid(g, s, n, Nat)
  BY <1>5, <1>7, JoinsLayout
<1>13. /\ Len(g[m]) = Len(g[k]) + Len(s[m]) /\ Len(g[m]) <= Len(g[n])
       /\ \A j \in 1..Len(s[m]) : g[n][Len(g[k]) + j] = s[m][j]
  <2>1. /\ Len(g[m]) = Len(g[m - 1]) + Len(s[m])
        /\ \A j \in 1..Len(s[m]) : g[n][Len(g[m - 1]) + j] = s[m][j]
    BY <1>1, <1>12 DEF Laid
  <2>2. Len(g[m]) <= Len(g[n])
    BY <1>8, <1>12 DEF Laid
  <2> QED
    BY <1>8, <2>1, <2>2
<1>14. s[m] = Encoded(cmd)
  BY <1>1, <1>2, <1>5
<1> QED
  BY <1>2, <1>5, <1>6, <1>10, <1>11, <1>13, <1>14 DEF InPlace

-----------------------------------------------------------------------------
(* The inductive invariant of the loop.                                    *)
FramesTypes ==
  /\ sent \in Seq(Seq(Seq(Nat))) /\ executed \in Seq(Seq(Seq(Nat)))
  /\ wire \in Seq(Nat) /\ buf \in Seq(Nat)
  /\ loop \in {"reads", "parses", "ended"}
  /\ offset \in Nat

FramesInv ==
  /\ FramesTypes /\ InStep /\ CutsEndTheLoop
  /\ loop # "reads" => buf # <<>>

(* The buffer is empty, or begins like the next command.                   *)
NextCommand == sent[Len(executed) + 1]

LEMMA BufferBegins ==
  ASSUME FramesTypes, InStep, buf # <<>>
  PROVE  /\ Len(executed) < Len(sent) /\ Len(executed) \in Nat /\ Len(sent) \in Nat
         /\ NextCommand \in Seq(Seq(Nat)) /\ Begins(buf, Encoded(NextCommand))
<1>1. PICK k, n, S : /\ k = Len(executed) /\ n = Len(sent) /\ S = Stream(executed)
                     /\ k \in Nat /\ n \in Nat
  BY LenProperties DEF FramesTypes
<1>2. PICK a \in Nat, b \in Nat, w \in Nat : a = Len(S) /\ b = Len(buf) /\ w = Len(wire)
  <2>1. <<>> \in Seq(Seq(Nat))
    BY EmptySeq
  <2>2. Len(S) \in Nat
    BY <1>1, <2>1, StreamAppend DEF FramesTypes
  <2> QED
    BY <2>2, LenProperties DEF FramesTypes
<1>3. S \in Seq(Nat)
  <2>1. <<>> \in Seq(Seq(Nat))
    BY EmptySeq
  <2> QED
    BY <1>1, <2>1, StreamAppend DEF FramesTypes
<1>4. PICK front : front = S \o buf
  OBVIOUS
<1>5. /\ front \in Seq(Nat) /\ Len(front) = a + b
      /\ \A j \in 1..a : front[j] = S[j]
      /\ \A j \in 1..b : front[a + j] = buf[j]
  <2>1. S \in Seq(Nat) /\ buf \in Seq(Nat) /\ a = Len(S) /\ b = Len(buf)
    BY <1>2, <1>3 DEF FramesTypes
  <2>2. /\ S \o buf \in Seq(Nat) /\ Len(S \o buf) = a + b
        /\ \A j \in 1..a : (S \o buf)[j] = S[j]
        /\ \A j \in 1..b : (S \o buf)[a + j] = buf[j]
    BY <2>1, TwoParts
  <2> QED
    BY <1>4, <2>2
<1>6. PICK c \in Nat : c = a + b
  BY <1>2
<1>15. PICK all : all = front \o wire
  OBVIOUS
<1>7. /\ all \in Seq(Nat) /\ Len(all) = c + w
      /\ \A j \in 1..c : all[j] = front[j]
  <2>1. front \in Seq(Nat) /\ wire \in Seq(Nat) /\ c = Len(front) /\ w = Len(wire)
    BY <1>2, <1>5, <1>6 DEF FramesTypes
  <2>2. /\ front \o wire \in Seq(Nat) /\ Len(front \o wire) = c + w
        /\ \A j \in 1..c : (front \o wire)[j] = front[j]
    BY <2>1, TwoParts
  <2> QED
    BY <1>15, <2>2
<1>8. all = Stream(sent) /\ k <= n /\ executed = SubSeq(sent, 1, k)
  <2>1. all = Stream(sent) /\ k <= n /\ SubSeq(executed, 1, k) = SubSeq(sent, 1, k)
    BY <1>1, <1>4, <1>15 DEF InStep, IsPrefix
  <2>2. SubSeq(executed, 1, k) = executed
    BY <1>1, SubSeqFull DEF FramesTypes
  <2> QED
    BY <2>1, <2>2
<1>9. b # 0
  BY <1>2, EmptySeq DEF FramesTypes
<1>10. k < n
  <2> SUFFICES ASSUME k = n PROVE FALSE
    BY <1>1, <1>8
  <2>1. SubSeq(sent, 1, n) = sent
    BY <1>1, SubSeqFull DEF FramesTypes
  <2>2. S = all
    BY <1>1, <1>8, <2>1
  <2> QED
    BY <1>2, <1>6, <1>7, <1>9, <2>2
<1>11. PICK cmd : cmd = sent[k + 1]
  OBVIOUS
<1>12. /\ cmd \in Seq(Seq(Nat))
       /\ \A j \in 1..Len(Encoded(cmd)) : all[a + j] = Encoded(cmd)[j]
  <2>1. /\ sent \in Seq(Seq(Seq(Nat))) /\ k < Len(sent) /\ executed = SubSeq(sent, 1, k)
    BY <1>1, <1>8, <1>10 DEF FramesTypes
  <2>2. Follows(sent, k, executed, cmd)
    BY <1>11, <2>1 DEF Follows
  <2>3. InPlace(sent, executed, cmd)
    <3>1. sent \in Seq(Seq(Seq(Nat))) /\ k \in Nat /\ Follows(sent, k, executed, cmd)
      BY <1>1, <2>1, <2>2
    <3> QED
      BY <3>1, StreamNext
  <2>4. /\ cmd \in Seq(Seq(Nat))
        /\ \A j \in 1..Len(Encoded(cmd)) : Stream(sent)[Len(Stream(executed)) + j] = Encoded(cmd)[j]
    BY <2>3 DEF InPlace
  <2> QED
    BY <1>1, <1>2, <1>8, <2>4
<1>13. ASSUME NEW j \in 1..Len(Encoded(cmd)), j <= Len(buf) PROVE buf[j] = Encoded(cmd)[j]
  <2>1. j \in 1..b
    BY <1>2, <1>13, <1>12, EncodedType
  <2>2. a + j \in 1..c
    BY <1>6, <2>1
  <2> QED
    BY <1>5, <1>7, <1>12, <2>1, <2>2
<1>14. Begins(buf, Encoded(cmd)) /\ NextCommand = cmd
  BY <1>1, <1>11, <1>13 DEF Begins, NextCommand
<1> QED
  BY <1>1, <1>10, <1>12, <1>14
(* A sequence cut in two.                                                  *)
LEMMA CutInTwo ==
  \A s \in Seq(Nat) : \A n \in Nat : n <= Len(s) =>
    /\ SubSeq(s, 1, n) \in Seq(Nat) /\ Len(SubSeq(s, 1, n)) = n
    /\ SubSeq(s, n + 1, Len(s)) \in Seq(Nat)
    /\ SubSeq(s, 1, n) \o SubSeq(s, n + 1, Len(s)) = s
<1> SUFFICES ASSUME NEW s \in Seq(Nat), NEW n \in Nat, n <= Len(s)
             PROVE  /\ SubSeq(s, 1, n) \in Seq(Nat) /\ Len(SubSeq(s, 1, n)) = n
                    /\ SubSeq(s, n + 1, Len(s)) \in Seq(Nat)
                    /\ SubSeq(s, 1, n) \o SubSeq(s, n + 1, Len(s)) = s
  BY Zenon
<1>1. PICK l \in Nat, m \in Nat : l = Len(s) /\ m = 1
  BY LenProperties
<1>2. SubSeq(s, 1, n) \in Seq(Nat) /\ Len(SubSeq(s, 1, n)) = n /\ SubSeq(s, n + 1, Len(s)) \in Seq(Nat)
  BY <1>1
<1>3. m \in 1..(Len(s) + 1) /\ n \in (m - 1)..Len(s) /\ l \in n..Len(s)
  BY <1>1
<1>4. SubSeq(s, m, n) \o SubSeq(s, n + 1, l) = SubSeq(s, m, l)
  BY <1>3, ConcatAdjacentSubSeq
<1>5. SubSeq(s, 1, Len(s)) = s
  BY SubSeqFull
<1> QED
  BY <1>1, <1>2, <1>4, <1>5

(* Three pieces one behind the other, bracketed either way.                *)
LEMMA Brackets ==
  \A a, b, c \in Seq(Nat) : (a \o b) \o c = a \o (b \o c)
  BY ConcatAssociative

LEMMA Joined ==
  \A a, b \in Seq(Nat) : a \o b \in Seq(Nat) /\ Len(a \o b) = Len(a) + Len(b)
  BY ConcatProperties

(* Two lists of commands that begin alike.                                 *)
Alike(s, t, k) == k <= Len(s) /\ k <= Len(t) /\ \A i \in 1..k : s[i] = t[i]

LEMMA PrefixAlike ==
  \A s, t \in Seq(Seq(Seq(Nat))) : \A k \in Nat : k = Len(s) => (IsPrefix(s, t) <=> Alike(s, t, k))
<1> SUFFICES ASSUME NEW s \in Seq(Seq(Seq(Nat))), NEW t \in Seq(Seq(Seq(Nat))), NEW k \in Nat,
                    k = Len(s)
             PROVE  IsPrefix(s, t) <=> Alike(s, t, k)
  BY Zenon
<1>1. PICK m \in Nat : m = Len(t)
  BY LenProperties
<1>2. CASE k <= m
  <2>1. PICK u, v : u = SubSeq(s, 1, k) /\ v = SubSeq(t, 1, k)
    OBVIOUS
  <2>2. /\ u \in Seq(Seq(Seq(Nat))) /\ Len(u) = k /\ (\A i \in 1..k : u[i] = s[i])
        /\ v \in Seq(Seq(Seq(Nat))) /\ Len(v) = k /\ (\A i \in 1..k : v[i] = t[i])
    BY <1>1, <1>2, <2>1
  <2>3. ASSUME \A i \in 1..k : u[i] = v[i] PROVE u = v
    BY <2>2, <2>3, SeqEqual
  <2>4. u = v <=> \A i \in 1..k : s[i] = t[i]
    BY <2>2, <2>3
  <2> QED
    BY <1>1, <1>2, <2>1, <2>4 DEF IsPrefix, Alike
<1>3. CASE ~(k <= m)
  BY <1>1, <1>3 DEF IsPrefix, Alike
<1> QED
  BY <1>2, <1>3

LEMMA StreamEmpty == Stream(<<>>) = <<>>
<1>1. PICK cmds : cmds = <<>>
  OBVIOUS
<1>2. cmds \in Seq(Seq(Seq(Nat))) /\ Len(cmds) = 0
  BY <1>1, EmptySeq
<1>3. PICK n \in Nat : n = 0
  OBVIOUS
<1>8. PICK s : s = Codes(cmds)
  OBVIOUS
<1>4. s \in [1..n -> Seq(Nat)] /\ Stream(cmds) = FlattenSeq(s)
  BY <1>2, <1>3, <1>8, CodesType
<1>5. PICK g : Joins(g, s, n, Nat)
  BY <1>4, JoinsExist
<1>6. FlattenSeq(s) = g[n]
  BY <1>4, <1>5, FlattenIs
<1>7. g[n] = <<>>
  BY <1>3, <1>5 DEF Joins
<1> QED
  BY <1>1, <1>4, <1>6, <1>7

LEMMA FramesStart == FramesInit => FramesInv
<1> SUFFICES ASSUME FramesInit PROVE FramesInv
  OBVIOUS
<1>1. /\ sent = <<>> /\ wire = <<>> /\ buf = <<>> /\ loop = "reads" /\ executed = <<>> /\ offset = 0
  BY DEF FramesInit
<1>2. FramesTypes
  BY <1>1, EmptySeq DEF FramesTypes
<1>3. InStep
  <2>1. IsPrefix(executed, sent)
    BY <1>1, EmptySeq DEF IsPrefix
  <2>2. <<>> \o <<>> = <<>> /\ Len(<<>>) = 0
    <3>1. <<>> \in Seq(Nat)
      BY EmptySeq
    <3> QED
      BY <3>1, ConcatEmptySeq, EmptySeq
  <2> QED
    BY <1>1, <2>1, <2>2, StreamEmpty DEF InStep
<1>4. CutsEndTheLoop
  BY <1>1 DEF CutsEndTheLoop
<1> QED
  BY <1>1, <1>2, <1>3, <1>4 DEF FramesInv

(* The streams of the invariant are sequences of bytes.                    *)
LEMMA StreamTypes ==
  ASSUME FramesTypes
  PROVE  /\ Stream(sent) \in Seq(Nat) /\ Stream(executed) \in Seq(Nat)
         /\ Len(Stream(executed)) \in Nat
<1>1. <<>> \in Seq(Seq(Nat))
  BY EmptySeq
<1> QED
  BY <1>1, StreamAppend DEF FramesTypes

LEMMA SendsKeepStep ==
  ASSUME FramesInv, NEW cmd \in Commands, Sends(cmd)
  PROVE  FramesInv'
<1>1. FramesTypes /\ InStep /\ CutsEndTheLoop /\ (loop # "reads" => buf # <<>>)
  BY DEF FramesInv
<1>2. /\ sent' = Append(sent, cmd) /\ wire' = wire \o Encoded(cmd)
      /\ buf' = buf /\ loop' = loop /\ executed' = executed /\ offset' = offset
  BY DEF Sends
<1>3. cmd \in Seq(Seq(Nat)) /\ Encoded(cmd) \in Seq(Nat)
  BY FramesAssumption, EncodedType
<1>4. PICK S, e, n : S = Stream(executed) /\ e = Encoded(cmd) /\ n = Len(sent) /\ n \in Nat
  BY <1>1, LenProperties DEF FramesTypes
<1>5. /\ S \in Seq(Nat) /\ e \in Seq(Nat) /\ buf \in Seq(Nat) /\ wire \in Seq(Nat)
      /\ sent \in Seq(Seq(Seq(Nat))) /\ executed \in Seq(Seq(Seq(Nat)))
  BY <1>1, <1>3, <1>4, StreamTypes DEF FramesTypes
<1>6. FramesTypes'
  <2>1. wire' \in Seq(Nat)
    BY <1>2, <1>4, <1>5, Joined
  <2>2. sent' \in Seq(Seq(Seq(Nat)))
    BY <1>2, <1>3, <1>5
  <2> QED
    BY <1>1, <1>2, <2>1, <2>2 DEF FramesTypes
<1>7. sent' \in Seq(Seq(Seq(Nat))) /\ Len(sent') = n + 1 /\ \A i \in 1..n : sent'[i] = sent[i]
  BY <1>2, <1>3, <1>4, <1>5
<1>8. PICK k \in Nat : k = Len(executed) /\ k <= n
  BY <1>1, <1>4, <1>5, LenProperties DEF InStep, IsPrefix
<1>9. InStep'
  <2>1. Alike(executed, sent, k)
    BY <1>1, <1>5, <1>8, PrefixAlike DEF InStep
  <2>2. IsPrefix(executed', sent')
    <3>1. Alike(executed', sent', k)
      BY <1>2, <1>4, <1>7, <1>8, <2>1 DEF Alike
    <3>2. executed' \in Seq(Seq(Seq(Nat))) /\ sent' \in Seq(Seq(Seq(Nat))) /\ k = Len(executed')
      BY <1>2, <1>5, <1>7, <1>8
    <3> QED
      BY <3>1, <3>2, PrefixAlike
  <2>3. Stream(sent') = Stream(sent) \o e
    BY <1>2, <1>3, <1>4, <1>5, StreamAppend
  <2>4. Stream(sent) = S \o buf \o wire
    BY <1>1, <1>4 DEF InStep
  <2>5. (S \o buf \o wire) \o e = S \o buf \o (wire \o e)
    <3>1. PICK front \in Seq(Nat) : front = S \o buf
      BY <1>5, Joined
    <3>2. front \in Seq(Nat) /\ wire \in Seq(Nat) /\ e \in Seq(Nat)
      BY <1>5, <3>1
    <3>3. (front \o wire) \o e = front \o (wire \o e)
      BY <3>2, Brackets
    <3> QED
      BY <3>1, <3>3
  <2>6. Stream(executed') \o buf' \o wire' = Stream(sent')
    BY <1>2, <1>4, <2>3, <2>4, <2>5
  <2>7. offset' = Len(Stream(executed'))
    BY <1>1, <1>2 DEF InStep
  <2> QED
    BY <2>2, <2>6, <2>7 DEF InStep
<1>10. CutsEndTheLoop'
  <2>1. CASE buf = <<>>
    BY <1>1, <1>2, <2>1 DEF CutsEndTheLoop
  <2>2. CASE buf # <<>>
    <3>1. k < n
      BY <1>1, <1>4, <1>8, <2>2, BufferBegins
    <3>2. sent'[Len(executed') + 1] = sent[Len(executed) + 1]
      BY <1>2, <1>4, <1>7, <1>8, <3>1
    <3> QED
      BY <1>1, <1>2, <3>2 DEF CutsEndTheLoop
  <2> QED
    BY <2>1, <2>2
<1> QED
  BY <1>1, <1>2, <1>6, <1>9, <1>10 DEF FramesInv

LEMMA ReadsKeepsStep ==
  ASSUME FramesInv, NEW m \in 1..ReadSize, Reads(m)
  PROVE  FramesInv'
<1>1. FramesTypes /\ InStep
  BY DEF FramesInv
<1>2. /\ m <= Len(wire) /\ buf' = buf \o SubSeq(wire, 1, m) /\ wire' = SubSeq(wire, m + 1, Len(wire))
      /\ loop' = "parses" /\ sent' = sent /\ executed' = executed /\ offset' = offset
  BY DEF Reads
<1>3. PICK S, a, b : S = Stream(executed) /\ a = SubSeq(wire, 1, m) /\ b = SubSeq(wire, m + 1, Len(wire))
  OBVIOUS
<1>4. /\ S \in Seq(Nat) /\ buf \in Seq(Nat) /\ wire \in Seq(Nat)
  BY <1>1, <1>3, StreamTypes DEF FramesTypes
<1>5. m \in Nat /\ m # 0
  BY FramesAssumption
<1>6. a \in Seq(Nat) /\ b \in Seq(Nat) /\ Len(a) = m /\ a \o b = wire
  BY <1>2, <1>3, <1>4, <1>5, CutInTwo
<1>7. buf \o a \in Seq(Nat) /\ buf \o a # <<>>
  <2>1. a # <<>>
    BY <1>5, <1>6, EmptySeq
  <2> QED
    BY <1>4, <1>6, <2>1, Joined, ConcatEqualIffEmpty
<1>8. FramesTypes'
  BY <1>1, <1>2, <1>3, <1>6, <1>7 DEF FramesTypes
<1>9. S \o (buf \o a) \o b = S \o buf \o wire
  <2>1. S \o (buf \o a) = (S \o buf) \o a /\ S \o buf \in Seq(Nat)
    <3>1. S \in Seq(Nat) /\ buf \in Seq(Nat) /\ a \in Seq(Nat)
      BY <1>4, <1>6
    <3>2. (S \o buf) \o a = S \o (buf \o a)
      BY <3>1, Brackets
    <3>3. S \o buf \in Seq(Nat)
      BY <3>1, Joined
    <3> QED
      BY <3>2, <3>3
  <2>2. PICK front \in Seq(Nat) : front = S \o buf
    BY <2>1
  <2>3. (front \o a) \o b = front \o (a \o b)
    BY <1>6, <2>2, Brackets
  <2> QED
    BY <1>6, <2>1, <2>2, <2>3
<1>10. InStep'
  BY <1>1, <1>2, <1>3, <1>9 DEF InStep
<1>11. CutsEndTheLoop'
  BY <1>2 DEF CutsEndTheLoop
<1> QED
  BY <1>2, <1>3, <1>7, <1>8, <1>10, <1>11 DEF FramesInv

(* What the parser makes of the buffer.                                    *)
LEMMA BufferParsed ==
  ASSUME FramesInv, loop = "parses"
  PROVE  /\ NextCommand \in Seq(Seq(Nat))
         /\ Begins(buf, Encoded(NextCommand))
         /\ Outcome(ParseCommand(buf), NextCommand, buf)
         /\ Len(executed) < Len(sent)
         /\ buf # <<>>
<1>1. FramesTypes /\ InStep /\ buf # <<>>
  BY DEF FramesInv
<1>2. /\ NextCommand \in Seq(Seq(Nat)) /\ Begins(buf, Encoded(NextCommand)) /\ buf \in Seq(Nat)
      /\ Len(executed) < Len(sent)
  BY <1>1, BufferBegins DEF FramesTypes
<1>3. Outcome(ParseCommand(buf), NextCommand, buf)
  BY <1>2, ParseIs
<1> QED
  BY <1>1, <1>2, <1>3

LEMMA WaitingKeepsStep ==
  ASSUME FramesInv, ReadsOn \/ Ends
  PROVE  FramesInv'
<1>1. FramesTypes /\ InStep /\ loop = "parses"
  BY DEF FramesInv, ReadsOn, Ends
<1>2. /\ sent' = sent /\ wire' = wire /\ buf' = buf /\ executed' = executed /\ offset' = offset
      /\ loop' \in {"reads", "ended"}
      /\ loop' = "reads" <=> ParseCommand(buf).error \in Retried
      /\ ParseCommand(buf).error # "none"
  BY DEF ReadsOn, Ends, Retried
<1>3. FramesTypes' /\ InStep'
  BY <1>1, <1>2 DEF FramesTypes, InStep
<1>4. PICK cmd, r : cmd = NextCommand /\ r = ParseCommand(buf)
  OBVIOUS
<1>5. Outcome(r, cmd, buf) /\ buf # <<>>
  BY <1>1, <1>4, BufferParsed
<1>6. ~(Len(Encoded(cmd)) <= Len(buf))
  BY <1>2, <1>4, <1>5 DEF Outcome, Parsed
<1>7. r.error \in Retried <=> Len(buf) \in LacksData(cmd)
  BY <1>5, <1>6 DEF Outcome
<1>8. CutsEndTheLoop'
  BY <1>2, <1>4, <1>5, <1>7 DEF CutsEndTheLoop, NextCommand
<1> QED
  BY <1>2, <1>3, <1>5, <1>8 DEF FramesInv

LEMMA ExecutesKeepsStep ==
  ASSUME FramesInv, Executes
  PROVE  FramesInv'
<1>1. FramesTypes /\ InStep /\ loop = "parses"
  BY DEF FramesInv, Executes
<1>2. PICK cmd, r, e : cmd = NextCommand /\ r = ParseCommand(buf) /\ e = Encoded(cmd)
  OBVIOUS
<1>3. /\ r.error = "none" /\ executed' = Append(executed, r.args) /\ offset' = offset + r.pos
      /\ buf' = SubSeq(buf, r.pos + 1, Len(buf)) /\ loop' = NextTurn(buf')
      /\ sent' = sent /\ wire' = wire
  BY <1>2, Zenon DEF Executes
<1>4. cmd \in Seq(Seq(Nat)) /\ Begins(buf, e) /\ Outcome(r, cmd, buf) /\ Len(executed) < Len(sent)
  BY <1>1, <1>2, BufferParsed
<1>5. Len(e) <= Len(buf)
  BY <1>2, <1>3, <1>4 DEF Outcome
<1>6. r.args = cmd /\ r.pos = Len(e)
  BY <1>2, <1>4, <1>5 DEF Outcome, Parsed
<1>7. PICK S, rest, l, k :
        /\ S = Stream(executed) /\ rest = SubSeq(buf, Len(e) + 1, Len(buf))
        /\ l = Len(e) /\ k = Len(executed) /\ l \in Nat /\ k \in Nat
  BY <1>1, <1>2, <1>4, EncodedType, LenProperties DEF FramesTypes
<1>8. /\ S \in Seq(Nat) /\ buf \in Seq(Nat) /\ wire \in Seq(Nat) /\ e \in Seq(Nat) /\ Len(S) \in Nat
      /\ executed \in Seq(Seq(Seq(Nat))) /\ sent \in Seq(Seq(Seq(Nat)))
  BY <1>1, <1>2, <1>4, <1>7, StreamTypes, EncodedType DEF FramesTypes
<1>9. rest \in Seq(Nat) /\ e \o rest = buf
  <2>1. /\ SubSeq(buf, 1, l) \in Seq(Nat) /\ Len(SubSeq(buf, 1, l)) = l /\ rest \in Seq(Nat)
        /\ SubSeq(buf, 1, l) \o rest = buf
    BY <1>5, <1>7, <1>8, CutInTwo
  <2>2. ASSUME NEW i \in 1..l PROVE SubSeq(buf, 1, l)[i] = e[i]
    <3>1. PICK b \in Nat : b = Len(buf) /\ l <= b
      BY <1>5, <1>7, <1>8, LenProperties
    <3>2. buf[i] = e[i]
      BY <1>4, <1>7, <3>1 DEF Begins
    <3> QED
      BY <1>7, <1>8, <3>1, <3>2
  <2>3. SubSeq(buf, 1, l) = e
    BY <1>7, <1>8, <2>1, <2>2, SeqEqual
  <2> QED
    BY <2>1, <2>3
<1>10. /\ executed' = Append(executed, cmd) /\ offset' = offset + l /\ buf' = rest
       /\ loop' = NextTurn(rest)
  BY <1>3, <1>6, <1>7
<1>11. FramesTypes'
  <2>1. executed' \in Seq(Seq(Seq(Nat)))
    BY <1>4, <1>8, <1>10
  <2>2. offset' \in Nat
    BY <1>1, <1>7, <1>10 DEF FramesTypes
  <2>3. loop' \in {"reads", "parses", "ended"}
    BY <1>10 DEF NextTurn
  <2> QED
    BY <1>1, <1>3, <1>9, <1>10, <2>1, <2>2, <2>3 DEF FramesTypes
<1>12. Stream(executed') = S \o e
  BY <1>2, <1>4, <1>7, <1>8, <1>10, StreamAppend
<1>13. InStep'
  <2>1. IsPrefix(executed', sent')
    <3>1. PICK n \in Nat, m \in Nat : n = Len(sent) /\ m = k + 1 /\ m <= n
      BY <1>4, <1>7, <1>8, LenProperties
    <3>2. Alike(executed, sent, k) /\ cmd = sent[m]
      BY <1>1, <1>2, <1>7, <1>8, <3>1, PrefixAlike DEF InStep, NextCommand
    <3>3. /\ executed' \in Seq(Seq(Seq(Nat))) /\ Len(executed') = m /\ executed'[m] = cmd
          /\ \A i \in 1..k : executed'[i] = executed[i]
      BY <1>4, <1>7, <1>8, <1>10, <3>1
    <3>4. \A i \in 1..m : executed'[i] = sent[i]
      <4> SUFFICES ASSUME NEW i \in 1..m PROVE executed'[i] = sent[i]
        OBVIOUS
      <4>1. CASE i = m
        BY <3>2, <3>3, <4>1
      <4>2. CASE i # m
        <5>1. i \in 1..k
          BY <1>7, <3>1, <4>2
        <5> QED
          BY <3>2, <3>3, <5>1 DEF Alike
      <4> QED
        BY <4>1, <4>2
    <3>5. Alike(executed', sent', m)
      BY <1>3, <3>1, <3>3, <3>4 DEF Alike
    <3>6. sent' \in Seq(Seq(Seq(Nat)))
      BY <1>3, <1>8
    <3> QED
      BY <3>1, <3>3, <3>5, <3>6, PrefixAlike
  <2>2. Stream(executed') \o buf' \o wire' = Stream(sent')
    <3>1. (S \o e) \o rest = S \o (e \o rest)
      <4>1. S \in Seq(Nat) /\ e \in Seq(Nat) /\ rest \in Seq(Nat)
        BY <1>8, <1>9
      <4> QED
        BY <4>1, Brackets
    <3> QED
      BY <1>1, <1>3, <1>7, <1>9, <1>10, <1>12, <3>1 DEF InStep
  <2>3. offset' = Len(Stream(executed'))
    <3>1. Len(S \o e) = Len(S) + Len(e)
      BY <1>8, ConcatProperties
    <3> QED
      BY <1>1, <1>7, <1>10, <1>12, <3>1 DEF InStep
  <2> QED
    BY <2>1, <2>2, <2>3 DEF InStep
<1>14. CutsEndTheLoop' /\ (loop' # "reads" => buf' # <<>>)
  BY <1>10 DEF CutsEndTheLoop, NextTurn
<1> QED
  BY <1>11, <1>13, <1>14 DEF FramesInv

LEMMA FramesStep == FramesInv /\ [FramesNext]_frameVars => FramesInv'
<1> SUFFICES ASSUME FramesInv, [FramesNext]_frameVars PROVE FramesInv'
  OBVIOUS
<1>1. CASE UNCHANGED frameVars
  BY <1>1 DEF frameVars, FramesInv, FramesTypes, InStep, CutsEndTheLoop
<1>2. CASE \E cmd \in Commands : Sends(cmd)
  BY <1>2, SendsKeepStep
<1>3. CASE \E n \in 1..ReadSize : Reads(n)
  BY <1>3, ReadsKeepsStep
<1>4. CASE Executes
  BY <1>4, ExecutesKeepsStep
<1>5. CASE ReadsOn \/ Ends
  BY <1>5, WaitingKeepsStep
<1> QED
  BY <1>1, <1>2, <1>3, <1>4, <1>5 DEF FramesNext

(* The invariant of the connection's loop.                                 *)
THEOREM FramesInvariant == FramesSpec => []FramesInv
<1>1. FramesInit => FramesInv
  BY FramesStart
<1>2. FramesInv /\ [FramesNext]_frameVars => FramesInv'
  BY FramesStep
<1> QED
  BY <1>1, <1>2, PTL DEF FramesSpec

(* Wherever the reads are cut, the commands executed are the first ones    *)
(* sent, the buffer and the bytes not read go on where they end, and the   *)
(* offset counts exactly their bytes (commands.go:1144-1161).              *)
THEOREM CommandsStayInStep == FramesSpec => []InStep
<1>1. FramesInv => InStep
  BY DEF FramesInv
<1> QED
  BY <1>1, FramesInvariant, PTL

(* A loop that has stopped parsing reads on exactly when the read ended    *)
(* between two commands or inside the data of a bulk string: any other cut *)
(* ends it (commands.go:1146-1157, parser.go:31-65).                       *)
THEOREM OtherCutsEndTheLoop == FramesSpec => []CutsEndTheLoop
<1>1. FramesInv => CutsEndTheLoop
  BY DEF FramesInv
<1> QED
  BY <1>1, FramesInvariant, PTL
=============================================================================
