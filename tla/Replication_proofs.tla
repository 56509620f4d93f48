-------------------------- MODULE Replication_proofs --------------------------
(***************************************************************************)
(* Proofs about Replication, for any clients, any finite number of         *)
(* replicas and any bounds: the order in which a replica executes writes,  *)
(* that none is missing, what GlobalOffset counts, and what WAIT claims.   *)
(***************************************************************************)
EXTENDS Replication, SequenceFacts

-----------------------------------------------------------------------------
(* The inductive invariant, part by part.                                  *)

Acks == [offset : Nat, credit : Nat]
Claims == [counted : SUBSET Replicas, writes : SUBSET (1..MaxWrites)]

(* The types of the variables TypeOK does not look into.                   *)
Types ==
  /\ TypeOK
  /\ acks \in [Replicas -> Seq(Acks)]
  /\ recorded \in [Replicas -> BOOLEAN]
  /\ num \in [Clients -> Nat]
  /\ earlier \in Seq(SUBSET (1..MaxWrites)) /\ Len(earlier) <= MaxWrites
  /\ masterLog \in Seq(1..MaxWrites)
  /\ credit \in [Replicas -> Nat]
  /\ ackCredit \in [Replicas -> Nat]
  /\ claim \in [Clients -> Claims]
  /\ stolen \in [Clients -> BOOLEAN]

(* A write that has started is answered or in one client's hands.          *)
Writing(c) == pc[c] \in {"propagate", "add", "execute"}
WritersApart ==
  /\ \A c \in Clients : Writing(c) => num[c] \in DOMAIN earlier \ answered
  /\ \A c, d \in Clients : Writing(c) /\ Writing(d) /\ num[c] = num[d] => c = d
Accounted ==
  /\ answered \subseteq DOMAIN earlier
  /\ \A w \in DOMAIN earlier \ answered : \E c \in Clients : Writing(c) /\ num[c] = w
EarlierAnswered == \A w \in DOMAIN earlier : earlier[w] \subseteq answered

(* The master executes writes that have started.                           *)
MasterOrdered == ToSet(masterLog) \subseteq DOMAIN earlier /\ ~Inverted(masterLog)

(* Only writes are executed or on their way to a replica, it gets none     *)
(* twice, and in an order that no answer contradicts.                      *)
Turn(c, r) == pc[c] = "propagate" /\ r \in left[c]
SentOnce(r) ==
  /\ ToSet(log[r]) \subseteq DOMAIN earlier
  /\ \A w \in ToSet(link[r]) : w > 0 => w \in DOMAIN earlier
  /\ \A c \in Clients : Turn(c, r) => num[c] \notin ToSet(log[r]) \cup ToSet(link[r])

(* v is ahead of w in what a replica executed and then has to execute.     *)
Ahead(done, coming, v, w) ==
  \/ \E i, j \in DOMAIN done : i < j /\ done[i] = v /\ done[j] = w
  \/ v \in ToSet(done) /\ w \in ToSet(coming)
  \/ \E i, j \in DOMAIN coming : i < j /\ coming[i] = v /\ coming[j] = w
PipelineOrdered(r) ==
  \A v, w \in 1..MaxWrites : Ahead(log[r], link[r], v, w) => v # w /\ w \notin earlier[v]

(* A replica in step has, or will get, every write that has started.       *)
EveryWriteComes(r) ==
  InStep(r) => \A w \in DOMAIN earlier :
                 \/ w \in ToSet(log[r]) \cup ToSet(link[r])
                 \/ \E c \in Clients : Turn(c, r) /\ num[c] = w

Pipe(r) == SentOnce(r) /\ PipelineOrdered(r) /\ EveryWriteComes(r)

(* GlobalOffset counts no write that is still being propagated, and every  *)
(* other one as long as no two overlap.                                    *)
Added == DOMAIN earlier \ {num[c] : c \in Propagating}
OffsetBounded ==
  /\ GlobalOffset <= Cardinality(Added)
  /\ \A c \in Clients : pc[c] = "add" => tmp[c] <= Cardinality(Added)
OneByOne ==
  ~overlapped =>
    /\ \A c, d \in Clients : Writing(c) /\ Writing(d) => c = d
    /\ \A w \in DOMAIN earlier : \A v \in 1..(w - 1) : v \in earlier[w]
    /\ GlobalOffset = Cardinality(Added)
    /\ \A c \in Clients : pc[c] = "add" => tmp[c] = GlobalOffset

(* A replica's offset is the writes it executed and its credit, or less    *)
(* when updates were lost; an ACK on its way, or recorded, says no more    *)
(* than the replica has done since.                                        *)
Consistent(writes, offset, extra, known, knownExtra, reports) ==
  /\ offset <= writes + extra
  /\ known <= writes + knownExtra /\ knownExtra <= extra
  /\ \A i \in DOMAIN reports :
       /\ reports[i].offset <= writes + reports[i].credit
       /\ knownExtra <= reports[i].credit /\ reports[i].credit <= extra
  /\ \A i, j \in DOMAIN reports : i < j => reports[i].credit <= reports[j].credit
Reports(r) ==
  Consistent(Len(log[r]), replOffset[r], credit[r], Offset[r], ackCredit[r], acks[r])

(* Nor does an offset as += has read it say more, or one that += still has *)
(* to add to.                                                              *)
Pending(r) == due[r]["link"] + due[r]["client"]
Counted(r) ==
  /\ replOffset[r] + Pending(r) <= Len(log[r]) + credit[r]
  /\ \A h \in Handlers : read[r][h] # -1 =>
       due[r][h] > 0 /\ read[r][h] + Pending(r) <= Len(log[r]) + credit[r]

(* A replica that is not registered has acknowledged nothing, and WAIT     *)
(* asks for something.                                                     *)
Waiting(c) == pc[c] \in {"broadcast", "getack", "check", "select"}
Unregistered == \A r \in Replicas : /\ psync[r] # -1 <=> r \in registered
                                    /\ r \notin registered => Offset[r] = 0
AsksForSome == \A c \in Clients : Waiting(c) => tmp[c] > 0

(* What WAIT claims: every replica it counted has executed as many writes  *)
(* as it had to, or has the credit.                                        *)
Initial(ws) == \A w \in ws : \A v \in 1..w : v \in ws
ClaimsBacked ==
  ~overlapped =>
    \A c \in Clients :
      /\ Initial(claim[c].writes)
      /\ Waiting(c) => Cardinality(claim[c].writes) <= tmp[c]
      /\ \A r \in claim[c].counted :
           Cardinality(claim[c].writes) <= Len(log[r]) + ackCredit[r]

HandsInv == WritersApart /\ Accounted /\ EarlierAnswered /\ OffsetBounded /\ OneByOne
WaitInv == Unregistered /\ AsksForSome /\ NoOversleep /\ ClaimsBacked
Inv == /\ Types /\ HandsInv /\ MasterOrdered /\ WaitInv
       /\ \A r \in Replicas : Pipe(r) /\ Reports(r) /\ Counted(r)

(* What happens at a replica besides what its link to the master brings.   *)
LocalStep(r) == (\E length \in Lengths : ReplicaServes(r, length)) \/ TrackOffset(r)

-----------------------------------------------------------------------------
(* Sequences and sets of writes.                                           *)

Cells == RDB..MaxWrites
Writes == 1..MaxWrites

LEMMA Bounds ==
  /\ MaxWrites \in Nat /\ AckCap \in Nat /\ AckCap > 0 /\ IsFiniteSet(Replicas)
  /\ AckLength \in Nat /\ AckLength > 0 /\ \A x \in Lengths : x \in Nat /\ x > 0
  /\ GetAck \in Cells /\ FullResync \in Cells /\ Header \in Cells /\ RDB \in Cells
  /\ Writes \subseteq Cells /\ \A x \in Cells : x > 0 => x \in Writes
BY ReplicationAssumption DEF GetAck, FullResync, Header, RDB, Cells, Writes

LEMMA AppendSet ==
  ASSUME NEW S, NEW s \in Seq(S), NEW x \in S
  PROVE  /\ Append(s, x) \in Seq(S)
         /\ Len(Append(s, x)) = Len(s) + 1
         /\ ToSet(Append(s, x)) = ToSet(s) \cup {x}
<1>1. /\ Append(s, x) \in Seq(S) /\ Len(Append(s, x)) = Len(s) + 1
      /\ \A i \in 1..Len(s) : Append(s, x)[i] = s[i]
      /\ Append(s, x)[Len(s) + 1] = x
      /\ Len(s) \in Nat /\ DOMAIN s = 1..Len(s)
  BY AppendProperties, LenProperties
<1>2. PICK t : t = Append(s, x)
  OBVIOUS
<1>3. DOMAIN t = 1..(Len(s) + 1)
  BY <1>1, <1>2, LenProperties
<1>4. /\ \A y \in ToSet(t) : y \in ToSet(s) \cup {x}
      /\ \A i \in DOMAIN s : i \in DOMAIN t /\ t[i] = s[i]
      /\ Len(s) + 1 \in DOMAIN t /\ t[Len(s) + 1] = x
  <2>1. \A i \in 1..(Len(s) + 1) : i \in 1..Len(s) \/ i = Len(s) + 1
    BY <1>1
  <2>2. \A i \in 1..Len(s) : i \in 1..(Len(s) + 1)
    BY <1>1
  <2>3. Len(s) + 1 \in 1..(Len(s) + 1)
    BY <1>1
  <2> QED
    BY <1>1, <1>2, <1>3, <2>1, <2>2, <2>3 DEF ToSet
<1>5. ToSet(t) = ToSet(s) \cup {x}
  BY <1>4 DEF ToSet
<1> QED
  BY <1>1, <1>2, <1>5

LEMMA TailSet ==
  ASSUME NEW S, NEW s \in Seq(S), s # <<>>
  PROVE  /\ Tail(s) \in Seq(S) /\ Head(s) \in S
         /\ Len(s) \in Nat /\ Len(s) > 0 /\ Len(Tail(s)) = Len(s) - 1
         /\ s[1] = Head(s) /\ \A i \in 1..(Len(s) - 1) : Tail(s)[i] = s[i + 1]
         /\ ToSet(s) = ToSet(Tail(s)) \cup {Head(s)}
<1>1. /\ Tail(s) \in Seq(S) /\ Head(s) \in S
      /\ Len(s) \in Nat /\ Len(s) > 0 /\ Len(Tail(s)) = Len(s) - 1
      /\ s[1] = Head(s) /\ \A i \in 1..(Len(s) - 1) : Tail(s)[i] = s[i + 1]
  <2>1. Tail(s) \in Seq(S) /\ Head(s) \in S /\ Len(Tail(s)) = Len(s) - 1 /\ Head(s) = s[1]
    BY HeadTailProperties
  <2>2. Len(s) \in Nat /\ Len(s) > 0
    <3>1. Len(s) \in Nat \ {0}
      BY EmptySeq
    <3> QED
      BY <3>1
  <2> QED
    BY <2>1, <2>2
<1>2. PICK t : t = Tail(s)
  OBVIOUS
<1>3. DOMAIN t = 1..(Len(s) - 1) /\ DOMAIN s = 1..Len(s)
  BY <1>1, <1>2, LenProperties
<1>4. /\ \A i \in DOMAIN t : i + 1 \in DOMAIN s /\ t[i] = s[i + 1]
      /\ \A i \in DOMAIN s : i = 1 \/ (i - 1 \in DOMAIN t /\ t[i - 1] = s[i])
      /\ 1 \in DOMAIN s
  BY <1>1, <1>2, <1>3
<1>5. ToSet(s) = ToSet(t) \cup {Head(s)}
  BY <1>1, <1>4 DEF ToSet
<1> QED
  BY <1>1, <1>2, <1>5

(* Sending puts a write behind all others; executing or dropping the first *)
(* one leaves the order.                                                   *)
LEMMA AheadAppend ==
  ASSUME NEW S, NEW done \in Seq(S), NEW coming \in Seq(S), NEW x \in S, NEW v, NEW w,
         Ahead(done, Append(coming, x), v, w)
  PROVE  Ahead(done, coming, v, w) \/ (w = x /\ v \in ToSet(done) \cup ToSet(coming))
<1> DEFINE t == Append(coming, x)
<1>1. /\ Len(coming) \in Nat /\ DOMAIN coming = 1..Len(coming)
      /\ DOMAIN t = 1..(Len(coming) + 1)
      /\ \A i \in 1..Len(coming) : t[i] = coming[i]
      /\ t[Len(coming) + 1] = x
      /\ ToSet(t) = ToSet(coming) \cup {x}
  <2>1. t \in Seq(S) /\ Len(t) = Len(coming) + 1
    BY AppendProperties
  <2>2. DOMAIN t = 1..(Len(coming) + 1)
    BY <2>1, LenProperties
  <2> QED
    BY <2>2, AppendProperties, AppendSet, LenProperties
<1> HIDE DEF t
<1>2. CASE v \in ToSet(done) /\ w \in ToSet(t)
  BY <1>1, <1>2 DEF Ahead
<1>3. ASSUME NEW i \in DOMAIN t, NEW j \in DOMAIN t, i < j, t[i] = v, t[j] = w
      PROVE  Ahead(done, coming, v, w) \/ (w = x /\ v \in ToSet(done) \cup ToSet(coming))
  <2>1. i \in DOMAIN coming /\ coming[i] = v
    BY <1>1, <1>3
  <2>2. CASE j = Len(coming) + 1
    BY <1>1, <1>3, <2>1, <2>2 DEF ToSet
  <2>3. CASE j # Len(coming) + 1
    <3>1. j \in DOMAIN coming /\ coming[j] = w
      BY <1>1, <1>3, <2>3
    <3> QED
      BY <1>3, <2>1, <3>1 DEF Ahead
  <2> QED
    BY <2>2, <2>3
<1> QED
  BY <1>2, <1>3 DEF Ahead, t

LEMMA AheadDrops ==
  ASSUME NEW S, NEW done \in Seq(S), NEW coming \in Seq(S), coming # <<>>, NEW v, NEW w,
         Ahead(done, Tail(coming), v, w)
  PROVE  Ahead(done, coming, v, w)
<1> DEFINE t == Tail(coming)
<1>1. /\ Len(coming) \in Nat /\ DOMAIN coming = 1..Len(coming)
      /\ DOMAIN t = 1..(Len(coming) - 1)
      /\ \A i \in 1..(Len(coming) - 1) : t[i] = coming[i + 1]
      /\ ToSet(t) \subseteq ToSet(coming)
  <2>1. t \in Seq(S) /\ Len(t) = Len(coming) - 1
    BY TailSet
  <2>2. DOMAIN t = 1..(Len(coming) - 1)
    BY <2>1, LenProperties
  <2> QED
    BY <2>2, TailSet, LenProperties
<1> HIDE DEF t
<1>2. ASSUME NEW i \in DOMAIN t, NEW j \in DOMAIN t, i < j, t[i] = v, t[j] = w
      PROVE  Ahead(done, coming, v, w)
  <2>1. /\ i + 1 \in DOMAIN coming /\ j + 1 \in DOMAIN coming /\ i + 1 < j + 1
        /\ coming[i + 1] = v /\ coming[j + 1] = w
    BY <1>1, <1>2
  <2> QED
    BY <2>1 DEF Ahead
<1> QED
  BY <1>1, <1>2 DEF Ahead, t

LEMMA AheadMoves ==
  ASSUME NEW S, NEW done \in Seq(S), NEW coming \in Seq(S), coming # <<>>, NEW v, NEW w,
         Ahead(Append(done, Head(coming)), Tail(coming), v, w)
  PROVE  Ahead(done, coming, v, w)
<1> DEFINE t == Tail(coming)
           d == Append(done, Head(coming))
<1>1. /\ Len(coming) \in Nat /\ DOMAIN coming = 1..Len(coming) /\ 1 \in DOMAIN coming
      /\ DOMAIN t = 1..(Len(coming) - 1)
      /\ coming[1] = Head(coming)
      /\ \A i \in 1..(Len(coming) - 1) : t[i] = coming[i + 1]
      /\ ToSet(coming) = ToSet(t) \cup {Head(coming)} /\ Head(coming) \in S
  <2>1. t \in Seq(S) /\ Len(t) = Len(coming) - 1 /\ Len(coming) \in Nat /\ Len(coming) > 0
    BY TailSet
  <2>2. DOMAIN t = 1..(Len(coming) - 1)
    BY <2>1, LenProperties
  <2>3. DOMAIN coming = 1..Len(coming)
    BY LenProperties
  <2>4. 1 \in DOMAIN coming
    BY <2>1, <2>3
  <2> QED
    BY <2>1, <2>2, <2>3, <2>4, TailSet
<1>2. /\ Len(done) \in Nat /\ DOMAIN done = 1..Len(done)
      /\ DOMAIN d = 1..(Len(done) + 1)
      /\ \A i \in 1..Len(done) : d[i] = done[i]
      /\ d[Len(done) + 1] = Head(coming)
      /\ ToSet(d) = ToSet(done) \cup {Head(coming)}
  <2>1. d \in Seq(S) /\ Len(d) = Len(done) + 1
    BY <1>1, AppendProperties
  <2>2. DOMAIN d = 1..(Len(done) + 1)
    BY <2>1, LenProperties
  <2> QED
    BY <1>1, <2>2, AppendProperties, AppendSet, LenProperties
<1> HIDE DEF t, d
<1>3. ASSUME NEW i \in DOMAIN d, NEW j \in DOMAIN d, i < j, d[i] = v, d[j] = w
      PROVE  Ahead(done, coming, v, w)
  <2>1. i \in DOMAIN done /\ done[i] = v
    BY <1>2, <1>3
  <2>2. CASE j = Len(done) + 1
    BY <1>1, <1>2, <1>3, <2>1, <2>2 DEF Ahead, ToSet
  <2>3. CASE j # Len(done) + 1
    <3>1. j \in DOMAIN done /\ done[j] = w
      BY <1>2, <1>3, <2>3
    <3> QED
      BY <1>3, <2>1, <3>1 DEF Ahead
  <2> QED
    BY <2>2, <2>3
<1>4. ASSUME v \in ToSet(d), w \in ToSet(t) PROVE Ahead(done, coming, v, w)
  <2>1. PICK j \in DOMAIN t : t[j] = w
    BY <1>4 DEF ToSet
  <2>2. j + 1 \in DOMAIN coming /\ coming[j + 1] = w /\ 1 < j + 1
    BY <1>1, <2>1
  <2> QED
    BY <1>1, <1>2, <1>4, <2>2 DEF Ahead
<1>5. ASSUME NEW i \in DOMAIN t, NEW j \in DOMAIN t, i < j, t[i] = v, t[j] = w
      PROVE  Ahead(done, coming, v, w)
  <2>1. /\ i + 1 \in DOMAIN coming /\ j + 1 \in DOMAIN coming /\ i + 1 < j + 1
        /\ coming[i + 1] = v /\ coming[j + 1] = w
    BY <1>1, <1>5
  <2> QED
    BY <2>1 DEF Ahead
<1> QED
  BY <1>3, <1>4, <1>5 DEF Ahead, t, d

-----------------------------------------------------------------------------
(* The types.                                                              *)

LEMMA InitTypes == Init => Types
<1> SUFFICES ASSUME Init PROVE Types
  OBVIOUS
<1>1. /\ <<>> \in Seq(Cells) /\ <<>> \in Seq(Writes) /\ <<>> \in Seq(Acks)
      /\ <<>> \in Seq(SUBSET Writes) /\ Len(<<>>) = 0
  OBVIOUS
<1>2. TypeOK
  BY <1>1, Bounds DEF Init, TypeOK, Propagating, Cells, Writes
<1>3. claim \in [Clients -> Claims]
  BY DEF Init, NoClaim, Claims
<1> QED
  BY <1>1, <1>2, <1>3, Bounds DEF Init, Types, Writes

LEMMA LinkTypes ==
  ASSUME Types
  PROVE  \A r \in Replicas :
           /\ link[r] \in Seq(Cells) /\ log[r] \in Seq(Cells) /\ log[r] \in Seq(Writes)
           /\ Len(log[r]) \in Nat /\ Len(link[r]) \in Nat /\ acks[r] \in Seq(Acks)
<1> SUFFICES ASSUME NEW r \in Replicas
             PROVE  /\ link[r] \in Seq(Cells) /\ log[r] \in Seq(Cells) /\ log[r] \in Seq(Writes)
                    /\ Len(log[r]) \in Nat /\ Len(link[r]) \in Nat /\ acks[r] \in Seq(Acks)
  OBVIOUS
<1>1. link[r] \in Seq(Cells) /\ log[r] \in Seq(Writes) /\ acks[r] \in Seq(Acks)
  BY DEF Types, TypeOK, Cells, Writes
<1>2. log[r] \in Seq(Cells)
  BY <1>1, Bounds
<1> QED
  BY <1>1, <1>2, LenProperties

LEMMA StartedTypes ==
  ASSUME Types
  PROVE  /\ Len(earlier) \in Nat /\ Len(earlier) <= MaxWrites
         /\ DOMAIN earlier = 1..Len(earlier) /\ DOMAIN earlier \subseteq Writes
         /\ Accounted => answered \in SUBSET Writes
<1>1. Len(earlier) \in Nat /\ DOMAIN earlier = 1..Len(earlier) /\ Len(earlier) <= MaxWrites
  BY DEF Types
<1>2. \A w \in DOMAIN earlier : w \in Writes
  BY <1>1, Bounds DEF Writes
<1> QED
  BY <1>1, <1>2 DEF Accounted

LEMMA WriteStartsTypes ==
  ASSUME Types, Accounted, NEW c \in Clients, WriteStarts(c)
  PROVE  Types'
<1>1. readers' = Propagating'
  BY DEF WriteStarts, Goes, Types, TypeOK, Propagating
<1>2. Len(earlier) \in Nat /\ Len(earlier) + 1 \in Nat
  BY StartedTypes
<1>3. answered \in SUBSET Writes
  BY StartedTypes
<1>4. earlier' \in Seq(SUBSET Writes) /\ Len(earlier') = Len(earlier) + 1
  BY <1>3, AppendProperties DEF WriteStarts, Types, Writes
<1>5. TypeOK'
  BY <1>1 DEF WriteStarts, Goes, Targets, Types, TypeOK, linkVars, remoteVars
<1>6. Len(earlier') <= MaxWrites
  BY <1>2, <1>4, Bounds DEF WriteStarts
<1> QED
  BY <1>2, <1>4, <1>5, <1>6 DEF WriteStarts, Types, linkVars, remoteVars, Writes

LEMMA SendTypes ==
  ASSUME Types, NEW r \in Replicas, NEW x \in Cells, Sends(r, x)
  PROVE  link' \in [Replicas -> Seq(Cells)]
<1>1. Append(link[r], x) \in Seq(Cells)
  BY LinkTypes, AppendSet
<1> QED
  BY <1>1 DEF Sends, Types, TypeOK, Cells

LEMMA PropagatesTypes ==
  ASSUME Types, WritersApart, NEW c \in Clients, NEW r \in Replicas, Propagates(c, r)
  PROVE  Types'
<1>1. num[c] \in Cells
  <2>1. num[c] \in DOMAIN earlier
    BY DEF Propagates, WritersApart, Writing
  <2> QED
    BY <2>1, StartedTypes, Bounds
<1>2. link' \in [Replicas -> Seq(Cells)]
  BY <1>1, SendTypes DEF Propagates
<1>3. TypeOK'
  BY <1>2 DEF Propagates, Types, TypeOK, nodeVars, remoteVars, pastVars, Propagating, Cells
<1> QED
  BY <1>3 DEF Propagates, Types, nodeVars, remoteVars, pastVars

LEMMA ReadsOffsetTypes ==
  ASSUME Types, NEW c \in Clients, ReadsOffset(c)
  PROVE  Types'
<1>1. readers' = Propagating'
  BY DEF ReadsOffset, Goes, Types, TypeOK, Propagating, nodeVars
<1>2. GlobalOffset \in Nat
  BY Bounds DEF Types, TypeOK
<1>3. TypeOK'
  BY <1>1, <1>2 DEF ReadsOffset, Goes, Types, TypeOK, nodeVars, linkVars, remoteVars, pastVars
<1> QED
  BY <1>3 DEF ReadsOffset, Types, nodeVars, linkVars, remoteVars, pastVars

LEMMA AddsOffsetTypes ==
  ASSUME Types, NEW c \in Clients, AddsOffset(c), tmp[c] + 1 <= MaxWrites
  PROVE  Types'
<1>1. readers' = Propagating'
  BY DEF AddsOffset, Goes, Types, TypeOK, Propagating
<1>2. GlobalOffset' \in 0..MaxWrites
  BY Bounds DEF AddsOffset, PlusOne, Types, TypeOK
<1>3. TypeOK'
  BY <1>1, <1>2 DEF AddsOffset, Goes, Types, TypeOK, linkVars, remoteVars, pastVars
<1> QED
  BY <1>3 DEF AddsOffset, Types, linkVars, remoteVars, pastVars

LEMMA ExecutesTypes ==
  ASSUME Types, WritersApart, NEW c \in Clients, Executes(c)
  PROVE  Types'
<1>1. readers' = Propagating'
  BY DEF Executes, Goes, Types, TypeOK, Propagating, nodeVars
<1>2. num[c] \in Writes
  <2>1. num[c] \in DOMAIN earlier
    BY DEF Executes, WritersApart, Writing
  <2> QED
    BY <2>1, StartedTypes
<1>3. masterLog' \in Seq(Writes)
  BY <1>2, AppendSet DEF Executes, Types, Writes
<1>4. TypeOK'
  BY <1>1 DEF Executes, Goes, Types, TypeOK, nodeVars, linkVars, remoteVars
<1> QED
  BY <1>3, <1>4 DEF Executes, Types, nodeVars, linkVars, remoteVars, Writes

LEMMA ClaimTypes ==
  ASSUME NEW x \in Claims, NEW rs \in SUBSET Replicas
  PROVE  LET y == [x EXCEPT !.counted = rs]
         IN  y \in Claims /\ y.counted = rs /\ y.writes = x.writes
BY DEF Claims

LEMMA SyncedTypes == ASSUME Types, NEW t PROVE Synced(t) \in SUBSET Replicas
BY DEF Types, TypeOK, Synced

LEMMA AnswersTypes ==
  ASSUME Types, NEW c \in Clients, NEW t, Answers(c, t)
  PROVE  /\ claim' \in [Clients -> Claims]
         /\ claim'[c].counted = Synced(t) /\ claim'[c].writes = claim[c].writes
         /\ \A d \in Clients \ {c} : claim'[d] = claim[d]
<1>1. claim \in [Clients -> Claims] /\ Synced(t) \in SUBSET Replicas
  BY SyncedTypes DEF Types
<1>2. PICK y : y = [claim[c] EXCEPT !.counted = Synced(t)]
  OBVIOUS
<1>3. y \in Claims /\ y.counted = Synced(t) /\ y.writes = claim[c].writes
  BY <1>1, <1>2, ClaimTypes
<1>4. claim' = [claim EXCEPT ![c] = y]
  BY <1>2 DEF Answers
<1> QED
  BY <1>1, <1>3, <1>4

LEMMA WaitStartsTypes ==
  ASSUME Types, Accounted, NEW c \in Clients, NEW n \in Nat, NEW h \in BOOLEAN,
         WaitStarts(c, n, h)
  PROVE  Types'
<1>1. readers' = Propagating'
  BY DEF WaitStarts, Goes, Types, TypeOK, Propagating, nodeVars
<1>2. answered \in SUBSET Writes /\ Synced(GlobalOffset) \in SUBSET Replicas
  BY SyncedTypes, StartedTypes
<1>3. GlobalOffset \in Nat
  BY Bounds DEF Types, TypeOK
<1>4. claim' \in [Clients -> Claims]
  <2>1. /\ [counted |-> Synced(GlobalOffset), writes |-> answered] \in Claims
        /\ [counted |-> {}, writes |-> answered] \in Claims
    BY <1>2 DEF Claims, Writes
  <2> QED
    BY <2>1 DEF WaitStarts, Types
<1>5. TypeOK'
  BY <1>1, <1>3 DEF WaitStarts, Goes, Types, TypeOK, nodeVars, linkVars, remoteVars
<1>6. num' \in [Clients -> Nat] /\ stolen' \in [Clients -> BOOLEAN]
  BY DEF WaitStarts, Types
<1> QED
  BY <1>4, <1>5, <1>6 DEF WaitStarts, Types, nodeVars, linkVars, remoteVars

LEMMA WaitTypes ==
  ASSUME Types, NEW c \in Clients, WaitProgress(c)
  PROVE  Types'
<1>1. CASE Broadcasts(c)
  <2>1. readers' = Propagating'
    BY <1>1 DEF Broadcasts, Goes, Types, TypeOK, Propagating, nodeVars
  <2>2. TypeOK'
    BY <1>1, <2>1 DEF Broadcasts, Goes, Targets, Types, TypeOK, nodeVars, linkVars, remoteVars, pastVars
  <2> QED
    BY <1>1, <2>2 DEF Broadcasts, Types, nodeVars, linkVars, remoteVars, pastVars
<1>2. ASSUME NEW r \in Replicas, SendsGetAck(c, r) PROVE Types'
  <2>1. link' \in [Replicas -> Seq(Cells)]
    BY <1>2, SendTypes, Bounds DEF SendsGetAck
  <2>2. TypeOK'
    BY <1>2, <2>1 DEF SendsGetAck, Types, TypeOK, nodeVars, remoteVars, pastVars, Propagating, Cells
  <2> QED
    BY <1>2, <2>2 DEF SendsGetAck, Types, nodeVars, remoteVars, pastVars
<1>3. CASE WaitChecks(c)
  <2>1. readers' = Propagating'
    BY <1>3 DEF WaitChecks, Answers, Goes, Types, TypeOK, Propagating, nodeVars
  <2>2. TypeOK'
    BY <1>3, <2>1 DEF WaitChecks, Answers, Goes, Types, TypeOK, nodeVars, linkVars, remoteVars
  <2>3. claim' \in [Clients -> Claims]
    BY <1>3, AnswersTypes DEF WaitChecks, Types
  <2> QED
    BY <1>3, <2>2, <2>3 DEF WaitChecks, Types, nodeVars, linkVars, remoteVars
<1>4. CASE WaitWakes(c)
  <2>1. readers' = Propagating'
    BY <1>4 DEF WaitWakes, Goes, Types, TypeOK, Propagating, nodeVars
  <2>2. AckChan' \in 0..AckCap
    BY <1>4, Bounds DEF WaitWakes, Types, TypeOK
  <2>3. TypeOK'
    BY <1>4, <2>1, <2>2 DEF WaitWakes, Goes, Types, TypeOK, nodeVars, linkVars, remoteVars
  <2>4. stolen' \in [Clients -> BOOLEAN]
    BY <1>4 DEF WaitWakes, Types
  <2> QED
    BY <1>4, <2>3, <2>4 DEF WaitWakes, Types, nodeVars, linkVars, remoteVars
<1>5. CASE WaitTimesOut(c)
  <2>1. readers' = Propagating'
    BY <1>5 DEF WaitTimesOut, Answers, Goes, Types, TypeOK, Propagating, nodeVars
  <2>2. TypeOK'
    BY <1>5, <2>1 DEF WaitTimesOut, Answers, Goes, Types, TypeOK, nodeVars, linkVars, remoteVars
  <2>3. claim' \in [Clients -> Claims]
    BY <1>5, AnswersTypes DEF WaitTimesOut
  <2> QED
    BY <1>5, <2>2, <2>3 DEF WaitTimesOut, Types, nodeVars, linkVars, remoteVars
<1> QED
  BY <1>1, <1>2, <1>3, <1>4, <1>5 DEF WaitProgress

LEMMA ServeTypes ==
  ASSUME Types, NEW r \in Replicas, PsyncRegisters(r) \/ ServeReplica(r)
  PROVE  Types'
<1>1. CASE PsyncRegisters(r)
  <2>1. UNCHANGED <<sync, log, replOffset, due, read, readers, pc, left, tmp, GlobalOffset, AckChan,
                    Offset, link>>
    BY <1>1 DEF PsyncRegisters, remoteVars, clientVars
  <2>2. psync' \in [Replicas -> -1..3] /\ registered' \subseteq Replicas
    BY <1>1 DEF PsyncRegisters, Types, TypeOK
  <2>3. TypeOK'
    BY <2>1, <2>2 DEF Types, TypeOK, Propagating
  <2> QED
    BY <1>1, <2>3 DEF PsyncRegisters, Types, remoteVars, clientVars, pastVars
<1>2. CASE PsyncAnswers(r)
  <2>1. Resync[psync[r] + 1] \in Cells /\ psync[r] + 1 \in -1..3
    <3>1. psync[r] + 1 \in {1, 2, 3}
      BY <1>2 DEF PsyncAnswers
    <3>2. Resync[1] = FullResync /\ Resync[2] = Header /\ Resync[3] = RDB
      BY DEF Resync
    <3> QED
      BY <3>1, <3>2, Bounds
  <2>2. link' \in [Replicas -> Seq(Cells)]
    BY <1>2, <2>1, SendTypes DEF PsyncAnswers
  <2>3. TypeOK'
    BY <1>2, <2>1, <2>2 DEF PsyncAnswers, Types, TypeOK, nodeVars, remoteVars, clientVars,
      pastVars, Propagating, Cells
  <2> QED
    BY <1>2, <2>3 DEF PsyncAnswers, Types, nodeVars, remoteVars, clientVars, pastVars
<1>3. CASE AckArrives(r)
  <2>1. acks[r] \in Seq(Acks) /\ acks[r] # <<>>
    BY <1>3, LinkTypes DEF AckArrives
  <2>2. Head(acks[r]) \in Acks /\ Tail(acks[r]) \in Seq(Acks)
    BY <2>1, TailSet
  <2>3. Head(acks[r]).offset \in Nat /\ Head(acks[r]).credit \in Nat
    BY <2>2 DEF Acks
  <2>4. TypeOK'
    BY <1>3, <2>3 DEF AckArrives, Types, TypeOK, remoteVars, clientVars, pastVars, Propagating
  <2> QED
    BY <1>3, <2>2, <2>3, <2>4 DEF AckArrives, Types, remoteVars, clientVars, pastVars
<1>4. CASE AckTokens(r)
  <2>1. AckChan' \in 0..AckCap
    BY <1>4, Bounds DEF AckTokens, WithToken, Types, TypeOK
  <2>2. TypeOK'
    BY <1>4, <2>1 DEF AckTokens, Types, TypeOK, nodeVars, remoteVars, clientVars, pastVars, Propagating
  <2> QED
    BY <1>4, <2>2 DEF AckTokens, Types, nodeVars, remoteVars, clientVars, pastVars
<1> QED
  BY <1>1, <1>2, <1>3, <1>4 DEF ServeReplica

LEMMA ReadTypes ==
  ASSUME Types, NEW r \in Replicas, Reads(r)
  PROVE  /\ link' \in [Replicas -> Seq(Cells)] /\ Head(link[r]) \in Cells
         /\ link'[r] = Tail(link[r]) /\ \A q \in Replicas \ {r} : link'[q] = link[q]
<1>1. link[r] \in Seq(Cells) /\ link[r] # <<>>
  BY LinkTypes DEF Reads
<1>2. Tail(link[r]) \in Seq(Cells) /\ Head(link[r]) \in Cells
  BY <1>1, TailSet
<1> QED
  BY <1>2 DEF Reads, Types, TypeOK, Cells

LEMMA HandledTypes ==
  ASSUME Types, NEW r \in Replicas, NEW h \in Handlers, NEW length \in Nat,
         Handled(r, h, length)
  PROVE  /\ due' \in [Replicas -> [Handlers -> Nat]] /\ due[r][h] = 0 /\ due'[r][h] = length
         /\ \A g \in Handlers \ {h} : due'[r][g] = due[r][g]
         /\ \A q \in Replicas \ {r} : due'[q] = due[q]
         /\ read' = read
BY DEF Handled, Types, TypeOK

LEMMA TrackTypes ==
  ASSUME Types, NEW r \in Replicas, NEW h \in Handlers, TrackReads(r, h) \/ TrackAdds(r, h)
  PROVE  /\ due' \in [Replicas -> [Handlers -> Nat]]
         /\ read' \in [Replicas -> [Handlers -> Nat \cup {-1}]]
         /\ replOffset' \in [Replicas -> Nat]
<1>1. CASE TrackReads(r, h)
  BY <1>1 DEF TrackReads, Types, TypeOK
<1>2. CASE TrackAdds(r, h)
  <2>1. read[r][h] \in Nat /\ due[r][h] \in Nat
    BY <1>2 DEF TrackAdds, Types, TypeOK
  <2>2. read[r][h] + due[r][h] \in Nat
    BY <2>1
  <2>3. replOffset' \in [Replicas -> Nat]
    BY <1>2, <2>2 DEF TrackAdds, Types, TypeOK
  <2> QED
    BY <1>2, <2>3 DEF TrackAdds, Types, TypeOK
<1> QED
  BY <1>1, <1>2

LEMMA ReplicaTypes ==
  ASSUME Types, NEW r \in Replicas, ReplicaStep(r) \/ LocalStep(r)
  PROVE  Types'
<1>0. "link" \in Handlers /\ "client" \in Handlers
  BY DEF Handlers
<1>1. CASE Synchronizes(r)
  <2>1. link' \in [Replicas -> Seq(Cells)]
    BY <1>1, ReadTypes DEF Synchronizes
  <2>2. TypeOK'
    BY <1>1, <2>1 DEF Synchronizes, Types, TypeOK, nodeVars, clientVars, pastVars, Propagating, Cells
  <2> QED
    BY <1>1, <2>2 DEF Synchronizes, Types, nodeVars, clientVars, pastVars
<1>2. CASE ReplicaWrites(r)
  <2>1. link' \in [Replicas -> Seq(Cells)] /\ Head(link[r]) \in Writes
    BY <1>2, ReadTypes, Bounds DEF ReplicaWrites
  <2>2. Append(log[r], Head(link[r])) \in Seq(Writes)
    BY <2>1, LinkTypes, AppendSet
  <2>3. due' \in [Replicas -> [Handlers -> Nat]]
    BY <1>0, <1>2, HandledTypes DEF ReplicaWrites
  <2>4. log' \in [Replicas -> Seq(Writes)]
    BY <1>2, <2>2 DEF ReplicaWrites, Types, TypeOK, Writes
  <2>5. TypeOK'
    BY <1>2, <2>1, <2>3, <2>4 DEF ReplicaWrites, Handled, Types, TypeOK, nodeVars, clientVars,
      pastVars, Propagating, Cells, Writes
  <2> QED
    BY <1>2, <2>5 DEF ReplicaWrites, Handled, Types, nodeVars, clientVars, pastVars
<1>3. CASE ReplicaAcks(r)
  <2>1. link' \in [Replicas -> Seq(Cells)]
    BY <1>3, ReadTypes DEF ReplicaAcks
  <2>2. [offset |-> Reported(r), credit |-> credit[r]] \in Acks
    BY DEF Reported, Types, TypeOK, Acks
  <2>3. acks' \in [Replicas -> Seq(Acks)]
    <3>1. Append(acks[r], [offset |-> Reported(r), credit |-> credit[r]]) \in Seq(Acks)
      BY <2>2, LinkTypes, AppendSet
    <3> QED
      BY <1>3, <3>1 DEF ReplicaAcks, Types
  <2>4. due' \in [Replicas -> [Handlers -> Nat]]
    BY <1>0, <1>3, Bounds, HandledTypes DEF ReplicaAcks
  <2>5. credit' \in [Replicas -> Nat]
    BY <1>3, Bounds DEF ReplicaAcks, Types, TypeOK
  <2>6. TypeOK'
    BY <1>3, <2>1, <2>4 DEF ReplicaAcks, Handled, Types, TypeOK, nodeVars, clientVars, pastVars,
      Propagating, Cells
  <2> QED
    BY <1>3, <2>3, <2>5, <2>6 DEF ReplicaAcks, Handled, Types, nodeVars, clientVars, pastVars
<1>4. ASSUME NEW length \in Lengths, ReplicaServes(r, length) PROVE Types'
  <2>1. due' \in [Replicas -> [Handlers -> Nat]]
    BY <1>0, <1>4, Bounds, HandledTypes DEF ReplicaServes
  <2>2. credit' \in [Replicas -> Nat]
    BY <1>4, Bounds DEF ReplicaServes, Types, TypeOK
  <2>3. TypeOK'
    BY <1>4, <2>1 DEF ReplicaServes, Handled, Types, TypeOK, nodeVars, clientVars, pastVars,
      Propagating
  <2> QED
    BY <1>4, <2>2, <2>3 DEF ReplicaServes, Handled, Types, nodeVars, clientVars, pastVars
<1>5. ASSUME NEW h \in Handlers, TrackReads(r, h) \/ TrackAdds(r, h) PROVE Types'
  <2>1. TypeOK'
    BY <1>5, TrackTypes DEF TrackReads, TrackAdds, Types, TypeOK, nodeVars, linkVars, clientVars,
      pastVars, Propagating
  <2> QED
    BY <1>5, <2>1 DEF TrackReads, TrackAdds, Types, nodeVars, linkVars, clientVars, pastVars
<1> QED
  BY <1>1, <1>2, <1>3, <1>4, <1>5 DEF ReplicaStep, LocalStep, TrackOffset

-----------------------------------------------------------------------------
(* Writes in the hands of clients, and what GlobalOffset counts.           *)

(* What a step does that is none of a write's.                             *)
WritesRest ==
  /\ UNCHANGED <<earlier, answered, masterLog, GlobalOffset, overlapped>>
  /\ \A c \in Clients :
       /\ Writing(c)' <=> Writing(c)
       /\ Writing(c) => pc'[c] = pc[c] /\ num'[c] = num[c] /\ tmp'[c] = tmp[c]

LEMMA AddedTypes ==
  ASSUME Types
  PROVE  /\ IsFiniteSet(Added) /\ Cardinality(Added) \in Nat
         /\ \A ws : ws \subseteq DOMAIN earlier =>
              /\ IsFiniteSet(ws) /\ Cardinality(ws) \in Nat
              /\ Cardinality(ws) <= Len(earlier) /\ Cardinality(ws) <= MaxWrites
<1>1. DOMAIN earlier = 1..Len(earlier) /\ Len(earlier) \in Nat /\ Len(earlier) <= MaxWrites
  BY StartedTypes
<1>2. IsFiniteSet(DOMAIN earlier) /\ Cardinality(DOMAIN earlier) = Len(earlier)
  <2>1. IsFiniteSet(1..Len(earlier)) /\ Cardinality(1..Len(earlier)) = Len(earlier)
    <3>1. /\ IsFiniteSet(1..Len(earlier))
          /\ Cardinality(1..Len(earlier))
               = IF 1 > Len(earlier) THEN 0 ELSE Len(earlier) - 1 + 1
      BY <1>1, FS_Interval
    <3> QED
      BY <1>1, <3>1
  <2> QED
    BY <1>1, <2>1
<1>3. ASSUME NEW ws, ws \subseteq DOMAIN earlier
      PROVE  /\ IsFiniteSet(ws) /\ Cardinality(ws) \in Nat
             /\ Cardinality(ws) <= Len(earlier) /\ Cardinality(ws) <= MaxWrites
  <2>1. IsFiniteSet(ws) /\ Cardinality(ws) <= Cardinality(DOMAIN earlier)
    BY <1>2, <1>3, FS_Subset, Zenon
  <2>2. Cardinality(ws) \in Nat
    BY <2>1, FS_CardinalityType
  <2> QED
    BY <1>1, <1>2, <2>1, <2>2, Bounds
<1>4. Added \subseteq DOMAIN earlier
  BY DEF Added
<1> QED
  BY <1>3, <1>4

LEMMA HandsRest ==
  ASSUME HandsInv, WritesRest
  PROVE  HandsInv'
<1>1. /\ earlier' = earlier /\ answered' = answered
      /\ GlobalOffset' = GlobalOffset /\ overlapped' = overlapped
  BY DEF WritesRest
<1>2. \A c \in Clients :
        /\ Writing(c)' <=> Writing(c)
        /\ Writing(c) => pc'[c] = pc[c] /\ num'[c] = num[c] /\ tmp'[c] = tmp[c]
        /\ pc'[c] = "add" <=> pc[c] = "add"
        /\ c \in Propagating' <=> c \in Propagating
        /\ c \in Propagating => Writing(c)
  BY DEF WritesRest, Writing, Propagating
<1>3. WritersApart' /\ Accounted' /\ EarlierAnswered'
  BY <1>1, <1>2 DEF HandsInv, WritersApart, Accounted, EarlierAnswered
<1>4. Added' = Added
  <2>1. {num'[c] : c \in Propagating'} = {num[c] : c \in Propagating}
    BY <1>2 DEF Propagating
  <2> QED
    BY <1>1, <2>1 DEF Added
<1>5. \A c \in Clients : pc[c] = "add" => tmp'[c] = tmp[c]
  BY <1>2 DEF Writing
<1>6. OffsetBounded' /\ OneByOne'
  BY <1>1, <1>2, <1>4, <1>5 DEF HandsInv, OffsetBounded, OneByOne
<1> QED
  BY <1>3, <1>6 DEF HandsInv

(* The new write: its number, and what is new in the functions.            *)
LEMMA StartFacts ==
  ASSUME Types, WritersApart, NEW c \in Clients, WriteStarts(c)
  PROVE  LET n == Len(earlier) + 1 IN
         /\ n \in Nat /\ n \in Writes /\ n \notin DOMAIN earlier
         /\ DOMAIN earlier' = DOMAIN earlier \cup {n}
         /\ \A w \in DOMAIN earlier : earlier'[w] = earlier[w]
         /\ earlier'[n] = answered
         /\ ~Writing(c) /\ pc'[c] = "propagate" /\ Writing(c)' /\ num'[c] = n
         /\ \A d \in Clients \ {c} :
              pc'[d] = pc[d] /\ num'[d] = num[d] /\ (Writing(d)' <=> Writing(d))
         /\ answered' = answered /\ GlobalOffset' = GlobalOffset /\ tmp' = tmp
         /\ overlapped' = (overlapped \/ \E d \in Clients \ {c} : Writing(d))
<1> DEFINE n == Len(earlier) + 1
<1>1. /\ Len(earlier) \in Nat /\ DOMAIN earlier = 1..Len(earlier) /\ Len(earlier) < MaxWrites
  BY StartedTypes DEF WriteStarts
<1>2. n \in Nat /\ n \in Writes /\ n \notin DOMAIN earlier /\ 1..n = DOMAIN earlier \cup {n}
  BY <1>1, Bounds DEF Writes
<1>3. earlier' = Append(earlier, answered)
  BY DEF WriteStarts
<1>4. /\ DOMAIN earlier' = 1..n
      /\ \A w \in 1..Len(earlier) : earlier'[w] = earlier[w]
      /\ earlier'[n] = answered
  <2>1. earlier \in Seq(SUBSET Writes)
    BY DEF Types, Writes
  <2> QED
    BY <1>1, <1>3, <2>1, AppendProperties
<1>5. /\ pc[c] = "idle" /\ pc'[c] = "propagate" /\ num'[c] = n
      /\ \A d \in Clients \ {c} : pc'[d] = pc[d] /\ num'[d] = num[d]
  BY DEF WriteStarts, Goes, Types, TypeOK
<1>6. /\ answered' = answered /\ GlobalOffset' = GlobalOffset /\ tmp' = tmp
      /\ overlapped' = (overlapped \/ \E d \in Clients \ {c} : Writing(d))
  BY DEF WriteStarts, Writing
<1>7. ~Writing(c) /\ Writing(c)' /\ \A d \in Clients \ {c} : Writing(d)' <=> Writing(d)
  BY <1>5 DEF Writing
<1> QED
  BY <1>1, <1>2, <1>4, <1>5, <1>6, <1>7

LEMMA WriteStartsHands ==
  ASSUME Types, HandsInv, NEW c \in Clients, WriteStarts(c)
  PROVE  HandsInv'
<1> DEFINE n == Len(earlier) + 1
<1>0. WritersApart /\ Accounted /\ EarlierAnswered /\ OffsetBounded /\ OneByOne
  BY DEF HandsInv
<1>1. /\ n \in Nat /\ n \in Writes /\ n \notin DOMAIN earlier
      /\ DOMAIN earlier' = DOMAIN earlier \cup {n}
      /\ \A w \in DOMAIN earlier : earlier'[w] = earlier[w]
      /\ earlier'[n] = answered
  BY <1>0, StartFacts
<1>2. /\ ~Writing(c) /\ pc'[c] = "propagate" /\ Writing(c)' /\ num'[c] = n
      /\ \A d \in Clients \ {c} :
           pc'[d] = pc[d] /\ num'[d] = num[d] /\ (Writing(d)' <=> Writing(d))
  BY <1>0, StartFacts
<1>3. /\ answered' = answered /\ GlobalOffset' = GlobalOffset /\ tmp' = tmp
      /\ overlapped' = (overlapped \/ \E d \in Clients \ {c} : Writing(d))
  BY <1>0, StartFacts
<1>a. DOMAIN earlier = 1..(n - 1) /\ answered \subseteq DOMAIN earlier /\ n - 1 \in Nat
  BY <1>0, StartedTypes DEF Accounted
<1> HIDE DEF n
<1>4. WritersApart'
  BY <1>0, <1>1, <1>2, <1>3, <1>a DEF WritersApart
<1>5. Accounted'
  <2> SUFFICES ASSUME NEW w \in DOMAIN earlier' \ answered
               PROVE  \E d \in Clients : Writing(d)' /\ num'[d] = w
    BY <1>1, <1>3, <1>a DEF Accounted
  <2>1. CASE w = n
    BY <1>2, <2>1
  <2>2. CASE w # n
    <3>1. PICK d \in Clients : Writing(d) /\ num[d] = w
      BY <1>0, <1>1, <2>2 DEF Accounted
    <3> QED
      BY <1>2, <3>1
  <2> QED
    BY <2>1, <2>2
<1>6. EarlierAnswered'
  BY <1>0, <1>1, <1>3 DEF EarlierAnswered
<1>7. Added' = Added
  <2>1. Propagating' = Propagating \cup {c} /\ c \notin Propagating
    BY <1>2 DEF Propagating, Writing
  <2>2. \A d \in Propagating : num'[d] = num[d]
    BY <1>2, <2>1 DEF Propagating
  <2>3. {num'[d] : d \in Propagating'} = {num[d] : d \in Propagating} \cup {n}
    BY <1>2, <2>1, <2>2
  <2> QED
    BY <1>1, <2>3 DEF Added
<1>8. \A d \in Clients : pc'[d] = "add" => d # c /\ pc[d] = "add" /\ Writing(d)
  BY <1>2 DEF Writing
<1>9. OffsetBounded'
  BY <1>0, <1>3, <1>7, <1>8 DEF OffsetBounded
<1>10. OneByOne'
  <2> SUFFICES ASSUME ~overlapped'
               PROVE  /\ \A d, e \in Clients : Writing(d)' /\ Writing(e)' => d = e
                      /\ \A w \in DOMAIN earlier' : \A v \in 1..(w - 1) : v \in earlier'[w]
                      /\ GlobalOffset' = Cardinality(Added')
                      /\ \A d \in Clients : pc'[d] = "add" => tmp'[d] = GlobalOffset'
    BY DEF OneByOne
  <2>1. ~overlapped /\ \A d \in Clients : ~Writing(d)
    BY <1>2, <1>3
  <2>2. answered = 1..(n - 1)
    BY <1>0, <1>a, <2>1 DEF Accounted
  <2>3. \A w \in DOMAIN earlier' : \A v \in 1..(w - 1) : v \in earlier'[w]
    BY <1>0, <1>1, <2>1, <2>2 DEF OneByOne
  <2> QED
    BY <1>0, <1>2, <1>3, <1>7, <1>8, <2>1, <2>3 DEF OneByOne
<1> QED
  BY <1>4, <1>5, <1>6, <1>9, <1>10 DEF HandsInv

LEMMA ReadsOffsetHands ==
  ASSUME Types, HandsInv, NEW c \in Clients, ReadsOffset(c)
  PROVE  HandsInv'
<1>1. /\ earlier' = earlier /\ answered' = answered /\ num' = num
      /\ GlobalOffset' = GlobalOffset /\ overlapped' = overlapped
  BY DEF ReadsOffset, nodeVars, pastVars
<1>2. /\ pc[c] = "propagate" /\ pc'[c] = "add" /\ tmp'[c] = GlobalOffset
      /\ \A d \in Clients \ {c} : pc'[d] = pc[d] /\ tmp'[d] = tmp[d]
  BY DEF ReadsOffset, Goes, Types, TypeOK
<1>3. \A d \in Clients : Writing(d)' <=> Writing(d)
  BY <1>2 DEF Writing
<1>4. Propagating' = Propagating
  BY <1>2 DEF Propagating
<1>5. Added' = Added
  BY <1>1, <1>4 DEF Added
<1>6. WritersApart' /\ Accounted' /\ EarlierAnswered'
  BY <1>1, <1>3 DEF HandsInv, WritersApart, Accounted, EarlierAnswered
<1>7. OffsetBounded' /\ OneByOne'
  BY <1>1, <1>2, <1>3, <1>5 DEF HandsInv, OffsetBounded, OneByOne
<1> QED
  BY <1>6, <1>7 DEF HandsInv

(* A write that is counted makes one more, which fits.                     *)
LEMMA AddFacts ==
  ASSUME Types, HandsInv, NEW c \in Clients, AddsOffset(c)
  PROVE  /\ Cardinality(Added') = Cardinality(Added) + 1
         /\ tmp[c] + 1 <= MaxWrites
<1>1. /\ earlier' = earlier /\ num' = num
      /\ pc[c] = "add" /\ pc'[c] = "execute" /\ \A d \in Clients \ {c} : pc'[d] = pc[d]
  BY DEF AddsOffset, Goes, Types, TypeOK, pastVars
<1>2. num[c] \in DOMAIN earlier /\ num[c] \notin Added /\ c \in Propagating
  BY <1>1 DEF HandsInv, WritersApart, Writing, Added, Propagating
<1>3. Propagating' = Propagating \ {c}
  BY <1>1 DEF Propagating
<1>4. \A d \in Propagating \ {c} : num[d] # num[c]
  BY <1>1 DEF HandsInv, WritersApart, Writing, Propagating
<1>5. Added' = Added \cup {num[c]}
  <2>1. {num[d] : d \in Propagating \ {c}} = {num[d] : d \in Propagating} \ {num[c]}
    BY <1>4
  <2> QED
    BY <1>1, <1>2, <1>3, <2>1 DEF Added
<1>6. IsFiniteSet(Added) /\ Cardinality(Added) \in Nat
  BY AddedTypes
<1>7. Cardinality(Added \cup {num[c]}) = Cardinality(Added) + 1
  BY <1>2, <1>6, FS_AddElement
<1>8. Cardinality(Added \cup {num[c]}) <= MaxWrites
  <2>1. Added \cup {num[c]} \subseteq DOMAIN earlier
    BY <1>2 DEF Added
  <2> QED
    BY <2>1, AddedTypes
<1>9. tmp[c] <= Cardinality(Added) /\ tmp[c] \in Nat
  BY <1>1 DEF HandsInv, OffsetBounded, Types, TypeOK
<1> QED
  BY <1>5, <1>6, <1>7, <1>8, <1>9, Bounds

LEMMA AddsOffsetHands ==
  ASSUME Types, HandsInv, NEW c \in Clients, AddsOffset(c)
  PROVE  HandsInv'
<1>1. /\ earlier' = earlier /\ answered' = answered /\ num' = num /\ tmp' = tmp
      /\ GlobalOffset' = tmp[c] + 1 /\ overlapped' = overlapped
  BY DEF AddsOffset, PlusOne, pastVars
<1>2. /\ pc[c] = "add" /\ pc'[c] = "execute"
      /\ \A d \in Clients \ {c} : pc'[d] = pc[d]
  BY DEF AddsOffset, Goes, Types, TypeOK
<1>3. /\ \A d \in Clients : Writing(d)' <=> Writing(d)
      /\ Writing(c)
  BY <1>2 DEF Writing
<1>4. WritersApart' /\ Accounted' /\ EarlierAnswered'
  BY <1>1, <1>3 DEF HandsInv, WritersApart, Accounted, EarlierAnswered
<1>5. Cardinality(Added') = Cardinality(Added) + 1 /\ Cardinality(Added) \in Nat
  BY AddFacts, AddedTypes
<1>6. \A d \in Clients : pc'[d] = "add" => pc[d] = "add" /\ d # c /\ Writing(d)
  BY <1>2 DEF Writing
<1>7. tmp \in [Clients -> Nat]
  BY DEF Types, TypeOK
<1>8. OffsetBounded'
  BY <1>1, <1>2, <1>5, <1>6, <1>7 DEF HandsInv, OffsetBounded
<1>9. OneByOne'
  BY <1>1, <1>2, <1>3, <1>5, <1>6 DEF HandsInv, OneByOne
<1> QED
  BY <1>4, <1>8, <1>9 DEF HandsInv

LEMMA ExecutesHands ==
  ASSUME Types, HandsInv, NEW c \in Clients, Executes(c)
  PROVE  HandsInv'
<1>1. /\ earlier' = earlier /\ answered' = answered \cup {num[c]} /\ num' = num /\ tmp' = tmp
      /\ GlobalOffset' = GlobalOffset /\ overlapped' = overlapped
  BY DEF Executes, nodeVars
<1>2. /\ pc[c] = "execute" /\ pc'[c] = "idle"
      /\ \A d \in Clients \ {c} : pc'[d] = pc[d]
  BY DEF Executes, Goes, Types, TypeOK
<1>3. /\ \A d \in Clients : Writing(d)' <=> Writing(d) /\ d # c
      /\ Writing(c)
  BY <1>2 DEF Writing
<1>4. WritersApart' /\ Accounted' /\ EarlierAnswered'
  BY <1>1, <1>3 DEF HandsInv, WritersApart, Accounted, EarlierAnswered
<1>5. Propagating' = Propagating
  BY <1>2 DEF Propagating
<1>6. Added' = Added
  BY <1>1, <1>5 DEF Added
<1>7. OffsetBounded' /\ OneByOne'
  BY <1>1, <1>2, <1>3, <1>6 DEF HandsInv, OffsetBounded, OneByOne
<1> QED
  BY <1>4, <1>7 DEF HandsInv

LEMMA OtherSteps ==
  ASSUME Types,
         \/ UNCHANGED vars
         \/ \E c \in Clients : \/ \E r \in Replicas : Propagates(c, r)
                               \/ \E n \in Nat, h \in BOOLEAN : WaitStarts(c, n, h)
                               \/ WaitProgress(c)
         \/ \E r \in Replicas : \/ PsyncRegisters(r) \/ ServeReplica(r)
                                \/ ReplicaStep(r) \/ LocalStep(r)
  PROVE  WritesRest
<1>1. CASE UNCHANGED vars
  BY <1>1 DEF vars, nodeVars, clientVars, pastVars, WritesRest, Writing
<1>2. ASSUME NEW c \in Clients, NEW r \in Replicas, Propagates(c, r) PROVE WritesRest
  BY <1>2 DEF Propagates, nodeVars, pastVars, WritesRest, Writing
<1>3. ASSUME NEW c \in Clients, NEW n \in Nat, NEW h \in BOOLEAN, WaitStarts(c, n, h)
      PROVE  WritesRest
  BY <1>3 DEF WaitStarts, Goes, nodeVars, Types, TypeOK, WritesRest, Writing
<1>4. ASSUME NEW c \in Clients, WaitProgress(c) PROVE WritesRest
  <2>1. CASE Broadcasts(c)
    BY <2>1 DEF Broadcasts, Goes, nodeVars, pastVars, Types, TypeOK, WritesRest, Writing
  <2>2. ASSUME NEW r \in Replicas, SendsGetAck(c, r) PROVE WritesRest
    BY <2>2 DEF SendsGetAck, nodeVars, pastVars, WritesRest, Writing
  <2>3. CASE WaitChecks(c)
    BY <2>3 DEF WaitChecks, Answers, Goes, nodeVars, Types, TypeOK, WritesRest, Writing
  <2>4. CASE WaitWakes(c)
    BY <2>4 DEF WaitWakes, Goes, nodeVars, Types, TypeOK, WritesRest, Writing
  <2>5. CASE WaitTimesOut(c)
    BY <2>5 DEF WaitTimesOut, Answers, Goes, nodeVars, Types, TypeOK, WritesRest, Writing
  <2> QED
    BY <1>4, <2>1, <2>2, <2>3, <2>4, <2>5 DEF WaitProgress
<1>5. ASSUME NEW r \in Replicas,
             PsyncRegisters(r) \/ ServeReplica(r) \/ ReplicaStep(r) \/ LocalStep(r)
      PROVE  WritesRest
  BY <1>5 DEF PsyncRegisters, ServeReplica, PsyncAnswers, AckArrives, AckTokens, ReplicaStep,
    Synchronizes, ReplicaWrites, ReplicaAcks, Handled, LocalStep, ReplicaServes,
    TrackOffset, TrackReads, TrackAdds, nodeVars, clientVars, pastVars,
    WritesRest, Writing
<1> QED
  BY <1>1, <1>2, <1>3, <1>4, <1>5

-----------------------------------------------------------------------------
(* What the master executes.                                               *)

LEMMA MasterKeeps ==
  ASSUME Types, HandsInv, MasterOrdered, NEW c \in Clients, WriteStarts(c) \/ Executes(c)
  PROVE  MasterOrdered'
<1>1. /\ masterLog \in Seq(Writes)
      /\ \A i \in DOMAIN masterLog : masterLog[i] \in DOMAIN earlier
      /\ Len(masterLog) \in Nat /\ DOMAIN masterLog = 1..Len(masterLog)
  BY LenProperties DEF Types, Writes, MasterOrdered, ToSet
<1>2. CASE WriteStarts(c)
  <2>1. /\ masterLog' = masterLog
        /\ \A w \in DOMAIN earlier : w \in DOMAIN earlier' /\ earlier'[w] = earlier[w]
    BY <1>2, StartFacts DEF WriteStarts, HandsInv
  <2> QED
    BY <1>1, <2>1 DEF MasterOrdered, Inverted, ToSet
<1>3. CASE Executes(c)
  <2>1. /\ earlier' = earlier /\ masterLog' = Append(masterLog, num[c])
        /\ num[c] \in DOMAIN earlier \ answered
    BY <1>3 DEF Executes, HandsInv, WritersApart, Writing
  <2>2. num[c] \in Writes
    BY <2>1, StartedTypes
  <2>3. /\ DOMAIN masterLog' = 1..(Len(masterLog) + 1)
        /\ \A i \in 1..Len(masterLog) : masterLog'[i] = masterLog[i]
        /\ masterLog'[Len(masterLog) + 1] = num[c]
        /\ ToSet(masterLog') = ToSet(masterLog) \cup {num[c]}
    BY <1>1, <2>1, <2>2, AppendSet, AppendProperties
  <2>4. \A i \in DOMAIN masterLog : num[c] \notin earlier[masterLog[i]]
    BY <1>1, <2>1 DEF HandsInv, EarlierAnswered
  <2>5. ASSUME NEW i \in DOMAIN masterLog', NEW j \in DOMAIN masterLog', i < j,
               masterLog'[j] \in earlier[masterLog'[i]]
        PROVE  FALSE
    <3>1. i \in DOMAIN masterLog /\ masterLog'[i] = masterLog[i]
      BY <1>1, <2>3, <2>5
    <3>2. CASE j = Len(masterLog) + 1
      BY <2>3, <2>4, <2>5, <3>1, <3>2
    <3>3. CASE j # Len(masterLog) + 1
      <4>1. j \in DOMAIN masterLog /\ masterLog'[j] = masterLog[j]
        BY <1>1, <2>3, <3>3
      <4> QED
        BY <2>5, <3>1, <4>1 DEF MasterOrdered, Inverted
    <3> QED
      BY <3>2, <3>3
  <2>6. ~Inverted(masterLog)'
    BY <2>1, <2>5 DEF Inverted
  <2> QED
    BY <2>1, <2>3, <2>6 DEF MasterOrdered
<1> QED
  BY <1>2, <1>3

-----------------------------------------------------------------------------
(* The way of the writes to a replica.                                     *)

(* Nothing changes for r, but that it may fall out of step.                *)
Still(r) ==
  /\ log'[r] = log[r] /\ link'[r] = link[r]
  /\ InStep(r)' => InStep(r)
  /\ \A c \in Clients : /\ Turn(c, r)' <=> Turn(c, r)
                        /\ Turn(c, r) => num'[c] = num[c]

LEMMA StillKeeps ==
  ASSUME NEW r \in Replicas, Pipe(r), Still(r), earlier' = earlier
  PROVE  Pipe(r)'
<1>1. SentOnce(r)'
  BY DEF Pipe, SentOnce, Still
<1>2. PipelineOrdered(r)'
  BY DEF Pipe, PipelineOrdered, Still
<1>3. EveryWriteComes(r)'
  BY DEF Pipe, EveryWriteComes, Still
<1> QED
  BY <1>1, <1>2, <1>3 DEF Pipe

LEMMA AheadKnown ==
  ASSUME NEW done, NEW coming, NEW v, NEW w, Ahead(done, coming, v, w)
  PROVE  v \in ToSet(done) \cup ToSet(coming) /\ w \in ToSet(done) \cup ToSet(coming)
BY DEF Ahead, ToSet

LEMMA KnownWrites ==
  ASSUME NEW r \in Replicas, SentOnce(r), NEW v \in ToSet(log[r]) \cup ToSet(link[r]), v > 0
  PROVE  v \in DOMAIN earlier
BY DEF SentOnce

LEMMA WriteStartsPipe ==
  ASSUME Types, WritersApart, NEW c \in Clients, WriteStarts(c), NEW r \in Replicas, Pipe(r)
  PROVE  Pipe(r)'
<1> DEFINE n == Len(earlier) + 1
<1>1. /\ n \in Writes /\ n \notin DOMAIN earlier
      /\ DOMAIN earlier' = DOMAIN earlier \cup {n}
      /\ \A w \in DOMAIN earlier : earlier'[w] = earlier[w]
      /\ ~Writing(c) /\ pc'[c] = "propagate" /\ num'[c] = n
      /\ \A d \in Clients \ {c} : pc'[d] = pc[d] /\ num'[d] = num[d]
  BY StartFacts
<1>2. /\ log' = log /\ link' = link /\ registered' = registered /\ late' = late /\ sync' = sync
      /\ left'[c] = registered /\ \A d \in Clients \ {c} : left'[d] = left[d]
  BY DEF WriteStarts, Targets, linkVars, remoteVars, Types, TypeOK
<1> HIDE DEF n
<1>3. \A d \in Clients \ {c} : Turn(d, r)' <=> Turn(d, r)
  BY <1>1, <1>2 DEF Turn
<1>4. ~Turn(c, r) /\ (Turn(c, r)' <=> r \in registered)
  BY <1>1, <1>2 DEF Turn, Writing
<1>5. n \notin ToSet(log[r]) \cup ToSet(link[r])
  <2>1. n > 0
    BY <1>1 DEF Writes
  <2> QED
    BY <1>1, <2>1, KnownWrites DEF Pipe
<1>6. SentOnce(r)'
  BY <1>1, <1>2, <1>3, <1>4, <1>5 DEF Pipe, SentOnce
<1>7. PipelineOrdered(r)'
  <2> SUFFICES ASSUME NEW v \in 1..MaxWrites, NEW w \in 1..MaxWrites, Ahead(log[r], link[r], v, w)
               PROVE  v # w /\ w \notin earlier'[v]
    BY <1>2 DEF PipelineOrdered
  <2>1. v \in DOMAIN earlier
    BY AheadKnown, KnownWrites DEF Pipe
  <2> QED
    BY <1>1, <2>1 DEF Pipe, PipelineOrdered
<1>8. EveryWriteComes(r)'
  <2>1. InStep(r)' <=> InStep(r)
    BY <1>2 DEF InStep
  <2> SUFFICES ASSUME InStep(r), NEW w \in DOMAIN earlier'
               PROVE  \/ w \in ToSet(log[r]) \cup ToSet(link[r])
                      \/ \E d \in Clients : Turn(d, r)' /\ num'[d] = w
    BY <1>2, <2>1 DEF EveryWriteComes
  <2>2. CASE w = n
    BY <1>1, <1>4, <2>2 DEF InStep
  <2>3. CASE w # n
    <3>1. \/ w \in ToSet(log[r]) \cup ToSet(link[r])
          \/ \E d \in Clients : Turn(d, r) /\ num[d] = w
      BY <1>1, <2>3 DEF Pipe, EveryWriteComes
    <3> QED
      BY <1>1, <1>3, <1>4, <3>1
  <2> QED
    BY <2>2, <2>3
<1> QED
  BY <1>6, <1>7, <1>8 DEF Pipe

LEMMA PropagatesPipe ==
  ASSUME Types, HandsInv, NEW c \in Clients, NEW q \in Replicas, Propagates(c, q),
         NEW r \in Replicas, Pipe(r)
  PROVE  Pipe(r)'
<1>1. /\ earlier' = earlier /\ log' = log /\ pc' = pc /\ num' = num
      /\ registered' = registered /\ late' = late /\ sync' = sync
      /\ pc[c] = "propagate" /\ q \in left[c]
      /\ left'[c] = left[c] \ {q} /\ \A d \in Clients \ {c} : left'[d] = left[d]
      /\ link'[q] = Append(link[q], num[c]) /\ \A x \in Replicas \ {q} : link'[x] = link[x]
  BY DEF Propagates, Sends, nodeVars, remoteVars, pastVars, Types, TypeOK
<1>2. InStep(r)' <=> InStep(r)
  BY <1>1 DEF InStep
<1>3. CASE r # q
  <2>1. \A d \in Clients : Turn(d, r)' <=> Turn(d, r)
    BY <1>1, <1>3 DEF Turn
  <2>2. Still(r)
    BY <1>1, <1>2, <1>3, <2>1 DEF Still
  <2> QED
    BY <1>1, <2>2, StillKeeps
<1>4. CASE r = q
  <2>1. num[c] \in DOMAIN earlier /\ num[c] \notin answered /\ num[c] \in Cells
    <3>1. num[c] \in DOMAIN earlier \ answered
      BY <1>1 DEF HandsInv, WritersApart, Writing
    <3> QED
      BY <3>1, StartedTypes, Bounds
  <2>2. /\ link[r] \in Seq(Cells) /\ log[r] \in Seq(Cells)
        /\ link'[r] = Append(link[r], num[c])
        /\ ToSet(link'[r]) = ToSet(link[r]) \cup {num[c]}
    <3>1. link[r] \in Seq(Cells) /\ log[r] \in Seq(Cells)
      BY LinkTypes
    <3>2. link'[r] = Append(link[r], num[c])
      BY <1>1, <1>4
    <3>3. ToSet(Append(link[r], num[c])) = ToSet(link[r]) \cup {num[c]}
      BY <2>1, <3>1, AppendSet
    <3> QED
      BY <3>1, <3>2, <3>3
  <2>3. \A d \in Clients : Turn(d, r)' <=> Turn(d, r) /\ d # c
    BY <1>1, <1>4 DEF Turn
  <2>4. \A d \in Clients : Turn(d, r)' => num[d] # num[c]
    BY <1>1, <2>3 DEF Turn, HandsInv, WritersApart, Writing
  <2>5. Turn(c, r)
    BY <1>1, <1>4 DEF Turn
  <2>6. SentOnce(r)'
    BY <1>1, <2>1, <2>2, <2>3, <2>4 DEF Pipe, SentOnce
  <2>7. PipelineOrdered(r)'
    <3> SUFFICES ASSUME NEW v \in 1..MaxWrites, NEW w \in 1..MaxWrites,
                        Ahead(log[r], Append(link[r], num[c]), v, w)
                 PROVE  v # w /\ w \notin earlier[v]
      BY <1>1, <2>2 DEF PipelineOrdered
    <3>1. Ahead(log[r], link[r], v, w) \/ (w = num[c] /\ v \in ToSet(log[r]) \cup ToSet(link[r]))
      BY <2>1, <2>2, AheadAppend
    <3>2. CASE w = num[c] /\ v \in ToSet(log[r]) \cup ToSet(link[r])
      <4>1. v # num[c]
        BY <2>5, <3>2 DEF Pipe, SentOnce
      <4>2. v \in DOMAIN earlier
        BY <3>2, KnownWrites DEF Pipe
      <4> QED
        BY <2>1, <3>2, <4>1, <4>2 DEF HandsInv, EarlierAnswered
    <3> QED
      BY <3>1, <3>2 DEF Pipe, PipelineOrdered
  <2>8. EveryWriteComes(r)'
    BY <1>1, <1>2, <2>2, <2>3 DEF Pipe, EveryWriteComes
  <2> QED
    BY <2>6, <2>7, <2>8 DEF Pipe
<1> QED
  BY <1>3, <1>4

(* The master sends something that is not a write.                         *)
LEMMA ControlPipe ==
  ASSUME Types, WritersApart,
         NEW q \in Replicas, NEW x \in Cells, x \notin Writes, Sends(q, x),
         UNCHANGED <<earlier, log, registered, late, sync, num>>,
         \A c \in Clients, r \in Replicas : Turn(c, r)' <=> Turn(c, r),
         NEW r \in Replicas, Pipe(r)
  PROVE  Pipe(r)'
<1>1. link'[q] = Append(link[q], x) /\ \A y \in Replicas \ {q} : link'[y] = link[y]
  BY DEF Sends, Types, TypeOK
<1>2. InStep(r)' <=> InStep(r)
  BY DEF InStep
<1>3. CASE r # q
  <2>1. Still(r)
    BY <1>1, <1>2, <1>3 DEF Still
  <2> QED
    BY <2>1, StillKeeps
<1>4. CASE r = q
  <2>1. /\ link[r] \in Seq(Cells) /\ log[r] \in Seq(Cells)
        /\ link'[r] = Append(link[r], x)
        /\ ToSet(link'[r]) = ToSet(link[r]) \cup {x}
    <3>1. link[r] \in Seq(Cells) /\ log[r] \in Seq(Cells)
      BY LinkTypes
    <3>2. link'[r] = Append(link[r], x)
      BY <1>1, <1>4
    <3>3. ToSet(Append(link[r], x)) = ToSet(link[r]) \cup {x}
      BY <3>1, AppendSet
    <3> QED
      BY <3>1, <3>2, <3>3
  <2>2. ~(x > 0)
    BY Bounds
  <2>3. \A c \in Clients : Turn(c, r) => num[c] # x
    BY StartedTypes DEF Turn, WritersApart, Writing
  <2>4. SentOnce(r)'
    BY <2>1, <2>2, <2>3 DEF Pipe, SentOnce
  <2>5. PipelineOrdered(r)'
    <3> SUFFICES ASSUME NEW v \in 1..MaxWrites, NEW w \in 1..MaxWrites,
                        Ahead(log[r], Append(link[r], x), v, w)
                 PROVE  v # w /\ w \notin earlier[v]
      BY <2>1 DEF PipelineOrdered
    <3>1. Ahead(log[r], link[r], v, w)
      BY <2>1, AheadAppend DEF Writes
    <3> QED
      BY <3>1 DEF Pipe, PipelineOrdered
  <2>6. EveryWriteComes(r)'
    BY <1>2, <2>1 DEF Pipe, EveryWriteComes
  <2> QED
    BY <2>4, <2>5, <2>6 DEF Pipe
<1> QED
  BY <1>3, <1>4

(* A replica reads what it does not execute: no write, or it falls out of  *)
(* step.                                                                   *)
LEMMA DropsPipe ==
  ASSUME Types, NEW q \in Replicas, Reads(q),
         UNCHANGED <<earlier, log, num, pc, left>>,
         \A r \in Replicas : InStep(r)' => InStep(r),
         InStep(q)' => Head(link[q]) \notin Writes,
         NEW r \in Replicas, Pipe(r)
  PROVE  Pipe(r)'
<1>1. link'[q] = Tail(link[q]) /\ \A y \in Replicas \ {q} : link'[y] = link[y]
  BY ReadTypes
<1>2. \A c \in Clients : Turn(c, r)' <=> Turn(c, r)
  BY DEF Turn
<1>3. CASE r # q
  <2>1. Still(r)
    BY <1>1, <1>2, <1>3 DEF Still
  <2> QED
    BY <2>1, StillKeeps
<1>4. CASE r = q
  <2>1. link[r] \in Seq(Cells) /\ log[r] \in Seq(Cells) /\ link[r] # <<>>
    BY <1>4, LinkTypes DEF Reads
  <2>2. link'[r] = Tail(link[r])
    BY <1>1, <1>4
  <2>3. ToSet(link[r]) = ToSet(Tail(link[r])) \cup {Head(link[r])}
    BY <2>1, TailSet
  <2>4. SentOnce(r)'
    BY <1>2, <2>2, <2>3 DEF Pipe, SentOnce
  <2>5. PipelineOrdered(r)'
    <3> SUFFICES ASSUME NEW v \in 1..MaxWrites, NEW w \in 1..MaxWrites,
                        Ahead(log[r], Tail(link[r]), v, w)
                 PROVE  v # w /\ w \notin earlier[v]
      BY <2>2 DEF PipelineOrdered
    <3>1. Ahead(log[r], link[r], v, w)
      BY <2>1, AheadDrops
    <3> QED
      BY <3>1 DEF Pipe, PipelineOrdered
  <2>6. EveryWriteComes(r)'
    <3> SUFFICES ASSUME InStep(r)', InStep(r), NEW w \in DOMAIN earlier
                 PROVE  \/ w \in ToSet(log[r]) \cup ToSet(link'[r])
                        \/ \E c \in Clients : Turn(c, r) /\ num[c] = w
      BY <1>2 DEF EveryWriteComes
    <3>1. w \in Writes
      BY StartedTypes
    <3>2. w # Head(link[r])
      BY <1>4, <3>1
    <3> QED
      BY <2>2, <2>3, <3>2 DEF Pipe, EveryWriteComes
  <2> QED
    BY <2>4, <2>5, <2>6 DEF Pipe
<1> QED
  BY <1>3, <1>4

LEMMA ReplicaWritesPipe ==
  ASSUME Types, NEW q \in Replicas, ReplicaWrites(q), NEW r \in Replicas, Pipe(r)
  PROVE  Pipe(r)'
<1>0. /\ earlier' = earlier /\ num' = num /\ pc' = pc /\ left' = left
      /\ registered' = registered /\ late' = late /\ sync' = sync
  BY DEF ReplicaWrites, Handled, nodeVars, clientVars, pastVars
<1>1. link'[q] = Tail(link[q]) /\ \A y \in Replicas \ {q} : link'[y] = link[y]
  BY ReadTypes DEF ReplicaWrites
<1>2. log'[q] = Append(log[q], Head(link[q])) /\ \A y \in Replicas \ {q} : log'[y] = log[y]
  BY DEF ReplicaWrites, Types, TypeOK
<1>3. InStep(r)' <=> InStep(r)
  BY <1>0 DEF InStep
<1>4. \A c \in Clients : Turn(c, r)' <=> Turn(c, r)
  BY <1>0 DEF Turn
<1>5. CASE r # q
  <2>1. Still(r)
    BY <1>0, <1>1, <1>2, <1>3, <1>4, <1>5 DEF Still
  <2> QED
    BY <1>0, <2>1, StillKeeps
<1>6. CASE r = q
  <2>1. link[r] \in Seq(Cells) /\ log[r] \in Seq(Cells) /\ link[r] # <<>> /\ Head(link[r]) > 0
    BY <1>6, LinkTypes DEF ReplicaWrites, Reads
  <2>2. link'[r] = Tail(link[r]) /\ log'[r] = Append(log[r], Head(link[r]))
    BY <1>1, <1>2, <1>6
  <2>3. Head(link[r]) \in Cells /\ ToSet(link[r]) = ToSet(Tail(link[r])) \cup {Head(link[r])}
    BY <2>1, TailSet
  <2>4. ToSet(Append(log[r], Head(link[r]))) = ToSet(log[r]) \cup {Head(link[r])}
    BY <2>1, <2>3, AppendSet
  <2>5. ToSet(log'[r]) \cup ToSet(link'[r]) = ToSet(log[r]) \cup ToSet(link[r])
    BY <2>2, <2>3, <2>4
  <2>6. SentOnce(r)'
    <3>1. Head(link[r]) \in DOMAIN earlier
      BY <2>1, <2>3 DEF Pipe, SentOnce
    <3> QED
      BY <1>0, <1>4, <2>2, <2>3, <2>4, <2>5, <3>1 DEF Pipe, SentOnce
  <2>7. PipelineOrdered(r)'
    <3> SUFFICES ASSUME NEW v \in 1..MaxWrites, NEW w \in 1..MaxWrites,
                        Ahead(Append(log[r], Head(link[r])), Tail(link[r]), v, w)
                 PROVE  v # w /\ w \notin earlier[v]
      BY <1>0, <2>2 DEF PipelineOrdered
    <3>1. Ahead(log[r], link[r], v, w)
      BY <2>1, AheadMoves
    <3> QED
      BY <3>1 DEF Pipe, PipelineOrdered
  <2>8. EveryWriteComes(r)'
    BY <1>0, <1>3, <1>4, <2>5 DEF Pipe, EveryWriteComes
  <2> QED
    BY <2>6, <2>7, <2>8 DEF Pipe
<1> QED
  BY <1>5, <1>6

LEMMA PsyncRegistersPipe ==
  ASSUME Types, NEW q \in Replicas, PsyncRegisters(q), NEW r \in Replicas, Pipe(r)
  PROVE  Pipe(r)'
<1>0. /\ earlier' = earlier /\ num' = num /\ pc' = pc /\ left' = left
      /\ link' = link /\ log' = log /\ sync' = sync
      /\ registered' = registered \cup {q}
      /\ late' = IF earlier = <<>> THEN late ELSE late \cup {q}
  BY DEF PsyncRegisters, remoteVars, clientVars, pastVars
<1>1. \A c \in Clients : Turn(c, r)' <=> Turn(c, r)
  BY <1>0 DEF Turn
<1>2. CASE earlier # <<>>
  <2>1. InStep(r)' => InStep(r)
    BY <1>0, <1>2 DEF InStep
  <2>2. Still(r)
    BY <1>0, <1>1, <2>1 DEF Still
  <2> QED
    BY <1>0, <2>2, StillKeeps
<1>3. CASE earlier = <<>>
  <2>1. SentOnce(r)' /\ PipelineOrdered(r)'
    BY <1>0, <1>1 DEF Pipe, SentOnce, PipelineOrdered
  <2>2. EveryWriteComes(r)'
    <3>1. DOMAIN earlier = {}
      BY <1>3
    <3> QED
      BY <1>0, <3>1 DEF EveryWriteComes
  <2> QED
    BY <2>1, <2>2 DEF Pipe
<1> QED
  BY <1>2, <1>3

(* Any step.                                                               *)
LEMMA QuietPipe ==
  ASSUME UNCHANGED <<earlier, log, link, registered, late, sync>>,
         \A c \in Clients, r \in Replicas : /\ Turn(c, r)' <=> Turn(c, r)
                                            /\ Turn(c, r) => num'[c] = num[c],
         NEW r \in Replicas, Pipe(r)
  PROVE  Pipe(r)'
<1>1. InStep(r)' <=> InStep(r)
  BY DEF InStep
<1>2. Still(r)
  BY <1>1 DEF Still
<1> QED
  BY <1>2, StillKeeps

LEMMA StepPipe ==
  ASSUME Types, HandsInv, [Next]_vars, NEW r \in Replicas, Pipe(r)
  PROVE  Pipe(r)'
<1>1. CASE UNCHANGED vars
  BY <1>1, QuietPipe DEF vars, nodeVars, linkVars, remoteVars, clientVars, pastVars, Turn
<1>2. ASSUME NEW c \in Clients, WriteStarts(c) PROVE Pipe(r)'
  BY <1>2, WriteStartsPipe DEF HandsInv
<1>3. ASSUME NEW c \in Clients, WriteProgress(c) PROVE Pipe(r)'
  <2>1. ASSUME NEW q \in Replicas, Propagates(c, q) PROVE Pipe(r)'
    BY <2>1, PropagatesPipe
  <2>2. CASE ReadsOffset(c)
    <3>1. \A d \in Clients, q \in Replicas : Turn(d, q)' <=> Turn(d, q)
      BY <2>2 DEF ReadsOffset, Goes, Turn, Types, TypeOK
    <3> QED
      BY <2>2, <3>1, QuietPipe DEF ReadsOffset, nodeVars, linkVars, remoteVars, pastVars
  <2>3. CASE AddsOffset(c)
    <3>1. \A d \in Clients, q \in Replicas : Turn(d, q)' <=> Turn(d, q)
      BY <2>3 DEF AddsOffset, Goes, Turn, Types, TypeOK
    <3> QED
      BY <2>3, <3>1, QuietPipe DEF AddsOffset, linkVars, remoteVars, pastVars
  <2>4. CASE Executes(c)
    <3>1. \A d \in Clients, q \in Replicas : Turn(d, q)' <=> Turn(d, q)
      BY <2>4 DEF Executes, Goes, Turn, Types, TypeOK
    <3> QED
      BY <2>4, <3>1, QuietPipe DEF Executes, nodeVars, linkVars, remoteVars
  <2> QED
    BY <1>3, <2>1, <2>2, <2>3, <2>4 DEF WriteProgress
<1>4. ASSUME NEW c \in Clients, NEW n \in Nat, NEW h \in BOOLEAN, WaitStarts(c, n, h)
      PROVE  Pipe(r)'
  <2>1. \A d \in Clients, q \in Replicas : /\ Turn(d, q)' <=> Turn(d, q)
                                           /\ Turn(d, q) => num'[d] = num[d]
    BY <1>4 DEF WaitStarts, Goes, Turn, Types, TypeOK
  <2> QED
    BY <1>4, <2>1, QuietPipe DEF WaitStarts, nodeVars, linkVars, remoteVars
<1>5. ASSUME NEW c \in Clients, WaitProgress(c) PROVE Pipe(r)'
  <2>1. CASE Broadcasts(c)
    <3>1. \A d \in Clients, q \in Replicas : Turn(d, q)' <=> Turn(d, q)
      BY <2>1 DEF Broadcasts, Goes, Turn, Types, TypeOK
    <3> QED
      BY <2>1, <3>1, QuietPipe DEF Broadcasts, nodeVars, linkVars, remoteVars, pastVars
  <2>2. ASSUME NEW q \in Replicas, SendsGetAck(c, q) PROVE Pipe(r)'
    <3>1. \A d \in Clients, x \in Replicas : Turn(d, x)' <=> Turn(d, x)
      BY <2>2 DEF SendsGetAck, Turn, Types, TypeOK
    <3>2. /\ Sends(q, GetAck) /\ UNCHANGED <<earlier, log, registered, late, sync, num>>
      BY <2>2 DEF SendsGetAck, nodeVars, remoteVars, pastVars
    <3>3. GetAck \in Cells /\ GetAck \notin Writes
      BY Bounds DEF GetAck, Writes
    <3> QED
      BY <3>1, <3>2, <3>3, ControlPipe DEF HandsInv
  <2>3. CASE WaitChecks(c) \/ WaitTimesOut(c)
    <3>1. \A d \in Clients, q \in Replicas : Turn(d, q)' <=> Turn(d, q)
      BY <2>3 DEF WaitChecks, WaitTimesOut, Answers, Goes, Turn, Types, TypeOK
    <3> QED
      BY <2>3, <3>1, QuietPipe DEF WaitChecks, WaitTimesOut, nodeVars, linkVars, remoteVars
  <2>4. CASE WaitWakes(c)
    <3>1. \A d \in Clients, q \in Replicas : Turn(d, q)' <=> Turn(d, q)
      BY <2>4 DEF WaitWakes, Goes, Turn, Types, TypeOK
    <3> QED
      BY <2>4, <3>1, QuietPipe DEF WaitWakes, nodeVars, linkVars, remoteVars
  <2> QED
    BY <1>5, <2>1, <2>2, <2>3, <2>4 DEF WaitProgress
<1>6. ASSUME NEW q \in Replicas, PsyncRegisters(q) PROVE Pipe(r)'
  BY <1>6, PsyncRegistersPipe
<1>7. ASSUME NEW q \in Replicas, ServeReplica(q) PROVE Pipe(r)'
  <2>1. CASE PsyncAnswers(q)
    <3>1. /\ Resync[psync[q] + 1] \in Cells /\ Resync[psync[q] + 1] \notin Writes
      <4>1. psync[q] + 1 \in {1, 2, 3}
        BY <2>1 DEF PsyncAnswers
      <4>2. Resync[1] = FullResync /\ Resync[2] = Header /\ Resync[3] = RDB
        BY DEF Resync
      <4> QED
        BY <4>1, <4>2, Bounds DEF Writes, FullResync, Header, RDB
    <3>2. /\ Sends(q, Resync[psync[q] + 1])
          /\ UNCHANGED <<earlier, log, registered, late, sync, num>>
          /\ \A d \in Clients, x \in Replicas : Turn(d, x)' <=> Turn(d, x)
      BY <2>1 DEF PsyncAnswers, nodeVars, remoteVars, clientVars, pastVars, Turn
    <3> QED
      BY <3>1, <3>2, ControlPipe DEF HandsInv
  <2>2. CASE AckArrives(q)
    BY <2>2, QuietPipe DEF AckArrives, remoteVars, clientVars, pastVars, Turn
  <2>3. CASE AckTokens(q)
    BY <2>3, QuietPipe DEF AckTokens, nodeVars, remoteVars, clientVars, pastVars, Turn
  <2> QED
    BY <1>7, <2>1, <2>2, <2>3 DEF ServeReplica
<1>8. ASSUME NEW q \in Replicas, ReplicaStep(q) PROVE Pipe(r)'
  <2>1. CASE Synchronizes(q)
    <3>1. Reads(q) /\ UNCHANGED <<earlier, log, num, pc, left, registered>>
      BY <2>1 DEF Synchronizes, nodeVars, clientVars, pastVars
    <3>2. /\ \A x \in Replicas : InStep(x)' => InStep(x)
          /\ InStep(q)' => Head(link[q]) \notin Writes
      <4>1. \A x \in Writes : x # FullResync /\ x # Header /\ x # RDB
        BY Bounds DEF Writes, FullResync, Header, RDB
      <4>2. sync[q] \in {"resync", "header", "rdb"}
        BY <2>1 DEF Synchronizes
      <4>3. sync'[q] # "broken" => q \in late' \/ Head(link[q]) \in {FullResync, Header, RDB}
        BY <2>1 DEF Synchronizes, Types, TypeOK
      <4>4. late \subseteq late' /\ \A x \in Replicas \ {q} : sync'[x] = sync[x]
        BY <2>1 DEF Synchronizes, Types, TypeOK
      <4> QED
        BY <3>1, <4>1, <4>2, <4>3, <4>4 DEF InStep
    <3> QED
      BY <3>1, <3>2, DropsPipe
  <2>2. CASE ReplicaWrites(q)
    BY <2>2, ReplicaWritesPipe
  <2>3. CASE ReplicaAcks(q)
    <3>1. /\ Reads(q) /\ UNCHANGED <<earlier, log, num, pc, left, registered, late, sync>>
          /\ Head(link[q]) = GetAck
      BY <2>3 DEF ReplicaAcks, Handled, nodeVars, clientVars, pastVars
    <3>2. GetAck \notin Writes
      BY Bounds DEF Writes, GetAck
    <3>3. \A x \in Replicas : InStep(x)' => InStep(x)
      BY <3>1 DEF InStep
    <3> QED
      BY <3>1, <3>2, <3>3, DropsPipe
  <2> QED
    BY <1>8, <2>1, <2>2, <2>3 DEF ReplicaStep
<1>9. ASSUME NEW q \in Replicas, LocalStep(q) PROVE Pipe(r)'
  <2>1. ASSUME NEW length \in Lengths, ReplicaServes(q, length) PROVE Pipe(r)'
    BY <2>1, QuietPipe DEF ReplicaServes, Handled, nodeVars, clientVars, pastVars, Turn
  <2>2. ASSUME NEW h \in Handlers, TrackReads(q, h) \/ TrackAdds(q, h) PROVE Pipe(r)'
    BY <2>2, QuietPipe DEF TrackReads, TrackAdds, nodeVars, linkVars, clientVars, pastVars, Turn
  <2> QED
    BY <1>9, <2>1, <2>2 DEF LocalStep, TrackOffset
<1> QED
  <2>1. Cardinality(Replicas) \in Nat
    BY Bounds, FS_CardinalityType
  <2>2. \A n \in 0..Cardinality(Replicas) : n \in Nat
    BY <2>1
  <2> QED
    BY <1>1, <1>2, <1>3, <1>4, <1>5, <1>6, <1>7, <1>8, <1>9, <2>2 DEF Next, LocalStep

-----------------------------------------------------------------------------
(* Offsets and credits.                                                    *)

LEMMA OffsetTypes ==
  ASSUME Types, NEW r \in Replicas
  PROVE  /\ replOffset[r] \in Nat /\ credit[r] \in Nat /\ Offset[r] \in Nat
         /\ ackCredit[r] \in Nat /\ Len(log[r]) \in Nat
         /\ acks[r] \in Seq(Acks) /\ Len(acks[r]) \in Nat /\ DOMAIN acks[r] = 1..Len(acks[r])
         /\ \A i \in DOMAIN acks[r] : acks[r][i].offset \in Nat /\ acks[r][i].credit \in Nat
<1>1. acks[r] \in Seq(Acks) /\ Len(log[r]) \in Nat
  BY LinkTypes
<1>2. Len(acks[r]) \in Nat /\ DOMAIN acks[r] = 1..Len(acks[r])
  BY <1>1, LenProperties
<1>3. \A i \in DOMAIN acks[r] : acks[r][i] \in Acks
  BY <1>1, <1>2
<1> QED
  BY <1>1, <1>2, <1>3 DEF Types, TypeOK, Acks

(* What a replica executed, and what the master knows of its credit, only  *)
(* grows.                                                                  *)
Grows(r) == Len(log[r]) <= Len(log'[r]) /\ ackCredit[r] <= ackCredit'[r]

LEMMA ReportsKept ==
  ASSUME Types, NEW r \in Replicas, Reports(r),
         Len(log'[r]) = Len(log[r]), replOffset'[r] = replOffset[r], credit'[r] = credit[r],
         Offset'[r] = Offset[r], ackCredit'[r] = ackCredit[r], acks'[r] = acks[r]
  PROVE  Reports(r)' /\ Grows(r)
<1>1. Reports(r)'
  BY DEF Reports
<1> QED
  BY <1>1, OffsetTypes DEF Grows

LEMMA ReportTypes ==
  ASSUME NEW a \in Seq(Acks)
  PROVE  /\ Len(a) \in Nat /\ DOMAIN a = 1..Len(a)
         /\ \A i \in DOMAIN a : a[i].offset \in Nat /\ a[i].credit \in Nat
<1>1. Len(a) \in Nat /\ DOMAIN a = 1..Len(a)
  BY LenProperties
<1>2. \A i \in DOMAIN a : a[i] \in Acks
  BY <1>1
<1> QED
  BY <1>1, <1>2 DEF Acks

(* It executes a write, serves a client, counts, reports, and is heard.    *)
LEMMA ConsistentWrite ==
  ASSUME NEW n \in Nat, NEW own \in Nat, NEW extra \in Nat, NEW known \in Nat,
         NEW heard \in Nat, NEW a \in Seq(Acks), Consistent(n, own, extra, known, heard, a)
  PROVE  Consistent(n + 1, own, extra, known, heard, a)
<1>1. \A i \in DOMAIN a : a[i].offset \in Nat /\ a[i].credit \in Nat
  BY ReportTypes
<1> QED
  BY <1>1 DEF Consistent

LEMMA ConsistentCredit ==
  ASSUME NEW n \in Nat, NEW own \in Nat, NEW extra \in Nat, NEW known \in Nat,
         NEW heard \in Nat, NEW a \in Seq(Acks), Consistent(n, own, extra, known, heard, a),
         NEW more \in Nat
  PROVE  Consistent(n, own, extra + more, known, heard, a)
<1>1. \A i \in DOMAIN a : a[i].offset \in Nat /\ a[i].credit \in Nat
  BY ReportTypes
<1> QED
  BY <1>1 DEF Consistent

LEMMA ConsistentCount ==
  ASSUME NEW n, NEW own, NEW extra, NEW known, NEW heard, NEW a,
         Consistent(n, own, extra, known, heard, a), NEW other, other <= n + extra
  PROVE  Consistent(n, other, extra, known, heard, a)
BY DEF Consistent

LEMMA ConsistentReport ==
  ASSUME NEW n \in Nat, NEW own \in Nat, NEW extra \in Nat, NEW known \in Nat,
         NEW heard \in Nat, NEW a \in Seq(Acks), Consistent(n, own, extra, known, heard, a),
         NEW more \in Nat
  PROVE  Consistent(n, own, extra + more, known, heard,
                    Append(a, [offset |-> own, credit |-> extra]))
<1> DEFINE ack == [offset |-> own, credit |-> extra]
           t == Append(a, ack)
<1>1. ack \in Acks /\ ack.offset = own /\ ack.credit = extra
  BY DEF Acks
<1>2. /\ Len(a) \in Nat /\ DOMAIN a = 1..Len(a)
      /\ \A i \in DOMAIN a : a[i].offset \in Nat /\ a[i].credit \in Nat
  BY ReportTypes
<1> HIDE DEF ack
<1>3. /\ DOMAIN t = 1..(Len(a) + 1) /\ t[Len(a) + 1] = ack
      /\ \A i \in 1..Len(a) : t[i] = a[i]
  <2>1. t \in Seq(Acks) /\ Len(t) = Len(a) + 1
    BY <1>1, AppendSet
  <2>2. DOMAIN t = 1..(Len(a) + 1)
    BY <2>1, LenProperties
  <2> QED
    BY <1>1, <2>2, AppendProperties
<1> HIDE DEF t
<1>4. \A i \in DOMAIN t : (i \in DOMAIN a /\ t[i] = a[i]) \/ (i = Len(a) + 1 /\ t[i] = ack)
  BY <1>2, <1>3
<1>5. \A i \in DOMAIN t : /\ t[i].offset <= n + t[i].credit
                         /\ heard <= t[i].credit /\ t[i].credit <= extra + more
  BY <1>1, <1>2, <1>4 DEF Consistent
<1>6. ASSUME NEW i \in DOMAIN t, NEW j \in DOMAIN t, i < j
      PROVE  t[i].credit <= t[j].credit
  <2>1. i \in DOMAIN a /\ t[i] = a[i]
    BY <1>2, <1>3, <1>6
  <2> QED
    BY <1>1, <1>2, <1>4, <1>6, <2>1 DEF Consistent
<1>7. own <= n + (extra + more) /\ known <= n + heard /\ heard <= extra + more
  BY DEF Consistent
<1> QED
  BY <1>5, <1>6, <1>7 DEF Consistent, t, ack

LEMMA ConsistentHearing ==
  ASSUME NEW n \in Nat, NEW own \in Nat, NEW extra \in Nat, NEW known \in Nat,
         NEW heard \in Nat, NEW a \in Seq(Acks), Consistent(n, own, extra, known, heard, a),
         a # <<>>
  PROVE  /\ Consistent(n, own, extra, Head(a).offset, Head(a).credit, Tail(a))
         /\ heard <= Head(a).credit
<1> DEFINE t == Tail(a)
<1>1. /\ Len(a) \in Nat /\ Len(a) > 0 /\ DOMAIN a = 1..Len(a) /\ 1 \in DOMAIN a
      /\ Head(a) = a[1] /\ DOMAIN t = 1..(Len(a) - 1)
      /\ \A i \in 1..(Len(a) - 1) : t[i] = a[i + 1]
  <2>1. /\ Len(a) \in Nat /\ Len(a) > 0 /\ Head(a) = a[1] /\ t \in Seq(Acks)
        /\ Len(t) = Len(a) - 1 /\ \A i \in 1..(Len(a) - 1) : t[i] = a[i + 1]
    BY TailSet
  <2>2. DOMAIN a = 1..Len(a) /\ DOMAIN t = 1..(Len(a) - 1)
    BY <2>1, LenProperties
  <2> QED
    BY <2>1, <2>2
<1> HIDE DEF t
<1>2. \A i \in DOMAIN t : i \in Int /\ i + 1 \in DOMAIN a /\ t[i] = a[i + 1] /\ 1 < i + 1
  BY <1>1
<1>3. \A i \in DOMAIN t : /\ t[i].offset <= n + t[i].credit
                         /\ a[1].credit <= t[i].credit /\ t[i].credit <= extra
  BY <1>1, <1>2 DEF Consistent
<1>4. ASSUME NEW i \in DOMAIN t, NEW j \in DOMAIN t, i < j
      PROVE  t[i].credit <= t[j].credit
  <2>1. i + 1 < j + 1
    BY <1>2, <1>4
  <2> QED
    BY <1>2, <2>1 DEF Consistent
<1>5. /\ own <= n + extra /\ a[1].offset <= n + a[1].credit
      /\ heard <= a[1].credit /\ a[1].credit <= extra
  BY <1>1 DEF Consistent
<1> QED
  BY <1>1, <1>3, <1>4, <1>5 DEF Consistent, t

LEMMA AckArrivesReports ==
  ASSUME Types, NEW q \in Replicas, AckArrives(q), NEW r \in Replicas, Reports(r)
  PROVE  Reports(r)' /\ Grows(r)
<1>0. replOffset' = replOffset /\ log' = log /\ credit' = credit
  BY DEF AckArrives, remoteVars
<1>1. /\ Offset'[q] = Head(acks[q]).offset /\ ackCredit'[q] = Head(acks[q]).credit
      /\ acks'[q] = Tail(acks[q])
      /\ \A y \in Replicas \ {q} : /\ Offset'[y] = Offset[y] /\ ackCredit'[y] = ackCredit[y]
                                  /\ acks'[y] = acks[y]
  BY DEF AckArrives, Types, TypeOK
<1>2. CASE r # q
  BY <1>0, <1>1, <1>2, ReportsKept
<1>3. CASE r = q
  <2>1. acks[r] # <<>>
    BY <1>3 DEF AckArrives
  <2>2. /\ Consistent(Len(log[r]), replOffset[r], credit[r],
                      Head(acks[r]).offset, Head(acks[r]).credit, Tail(acks[r]))
        /\ ackCredit[r] <= Head(acks[r]).credit
    BY <2>1, OffsetTypes, ConsistentHearing DEF Reports
  <2> QED
    BY <1>0, <1>1, <1>3, <2>2, OffsetTypes DEF Reports, Grows
<1> QED
  BY <1>2, <1>3

LEMMA CommandReports ==
  ASSUME Types, NEW q \in Replicas,
         \/ ReplicaWrites(q)
         \/ ReplicaAcks(q)
         \/ \E length \in Lengths : ReplicaServes(q, length),
         NEW r \in Replicas, Reports(r)
  PROVE  Reports(r)' /\ Grows(r)
<1>0. Offset' = Offset /\ ackCredit' = ackCredit /\ replOffset' = replOffset
  BY DEF ReplicaWrites, ReplicaAcks, ReplicaServes, Handled, nodeVars
<1>t. /\ replOffset[r] \in Nat /\ credit[r] \in Nat /\ Offset[r] \in Nat
      /\ ackCredit[r] \in Nat /\ Len(log[r]) \in Nat /\ acks[r] \in Seq(Acks)
  BY OffsetTypes
<1>1. CASE r # q
  <2>1. log'[r] = log[r] /\ credit'[r] = credit[r] /\ acks'[r] = acks[r]
    BY <1>1 DEF ReplicaWrites, ReplicaAcks, ReplicaServes, Types, TypeOK
  <2> QED
    BY <1>0, <2>1, ReportsKept
<1>2. CASE r = q /\ ReplicaWrites(q)
  <2>1. log'[r] = Append(log[r], Head(link[r])) /\ log[r] \in Seq(Cells) /\ Head(link[r]) \in Cells
    BY <1>2, LinkTypes, ReadTypes DEF ReplicaWrites, Types, TypeOK
  <2>2. Len(log'[r]) = Len(log[r]) + 1
    BY <2>1, AppendSet
  <2>3. credit' = credit /\ acks' = acks
    BY <1>2 DEF ReplicaWrites
  <2>4. Consistent(Len(log[r]) + 1, replOffset[r], credit[r], Offset[r], ackCredit[r], acks[r])
    BY <1>t, ConsistentWrite DEF Reports
  <2> QED
    BY <1>0, <1>t, <2>2, <2>3, <2>4 DEF Reports, Grows
<1>3. ASSUME NEW length \in Lengths, r = q, ReplicaServes(q, length) PROVE Reports(r)' /\ Grows(r)
  <2>1. log' = log /\ credit'[r] = credit[r] + length /\ acks' = acks /\ length \in Nat
    BY <1>3, Bounds DEF ReplicaServes, Types, TypeOK
  <2>2. Consistent(Len(log[r]), replOffset[r], credit[r] + length, Offset[r], ackCredit[r], acks[r])
    BY <1>t, <2>1, ConsistentCredit DEF Reports
  <2> QED
    BY <1>0, <1>t, <2>1, <2>2 DEF Reports, Grows
<1>4. CASE r = q /\ ReplicaAcks(q)
  <2>1. /\ log' = log /\ credit'[r] = credit[r] + AckLength
        /\ acks'[r] = Append(acks[r], [offset |-> replOffset[r], credit |-> credit[r]])
    BY <1>4 DEF ReplicaAcks, Reported, Types, TypeOK
  <2>2. Consistent(Len(log[r]), replOffset[r], credit[r] + AckLength, Offset[r], ackCredit[r],
                   Append(acks[r], [offset |-> replOffset[r], credit |-> credit[r]]))
    BY <1>t, Bounds, ConsistentReport DEF Reports
  <2> QED
    BY <1>0, <1>t, <2>1, <2>2 DEF Reports, Grows
<1> QED
  BY <1>1, <1>2, <1>3, <1>4

LEMMA CountTypes ==
  ASSUME Types, NEW r \in Replicas
  PROVE  /\ due[r]["link"] \in Nat /\ due[r]["client"] \in Nat /\ Pending(r) \in Nat
         /\ replOffset[r] \in Nat /\ Len(log[r]) \in Nat /\ credit[r] \in Nat
         /\ \A g \in Handlers : read[r][g] \in Int /\ due[r][g] \in Nat /\ due[r][g] <= Pending(r)
<1>1. /\ due[r] \in [Handlers -> Nat] /\ read[r] \in [Handlers -> Nat \cup {-1}]
      /\ "link" \in Handlers /\ "client" \in Handlers
      /\ \A g \in Handlers : g = "link" \/ g = "client"
  BY DEF Types, TypeOK, Handlers
<1>2. /\ due[r]["link"] \in Nat /\ due[r]["client"] \in Nat
      /\ \A g \in Handlers : read[r][g] \in Int /\ due[r][g] \in Nat
  BY <1>1
<1>3. Pending(r) \in Nat /\ \A g \in Handlers : due[r][g] <= Pending(r)
  BY <1>1, <1>2 DEF Pending
<1> QED
  BY <1>2, <1>3, OffsetTypes

(* += adds nothing twice.                                                  *)
LEMMA TrackReports ==
  ASSUME Types, NEW q \in Replicas, TrackOffset(q), NEW r \in Replicas, Reports(r), Counted(r)
  PROVE  Reports(r)' /\ Grows(r)
<1>0. UNCHANGED <<Offset, ackCredit, log, credit, acks>>
  BY DEF TrackOffset, TrackReads, TrackAdds, nodeVars, linkVars
<1>1. CASE replOffset'[r] = replOffset[r]
  BY <1>0, <1>1, ReportsKept
<1>2. CASE replOffset'[r] # replOffset[r]
  <2>1. PICK h \in Handlers : TrackAdds(q, h)
    BY <1>2 DEF TrackOffset, TrackReads
  <2>2. r = q
    BY <1>2, <2>1 DEF TrackAdds, Types, TypeOK
  <2>3. /\ read[r][h] # -1 /\ replOffset'[r] = read[r][h] + due[r][h]
        /\ read[r][h] \in Nat
    BY <2>1, <2>2 DEF TrackAdds, Types, TypeOK
  <2>4. read[r][h] + Pending(r) <= Len(log[r]) + credit[r]
    BY <2>3 DEF Counted
  <2>5. /\ due[r][h] \in Nat /\ due[r][h] <= Pending(r) /\ Pending(r) \in Nat
        /\ Len(log[r]) \in Nat /\ credit[r] \in Nat
    BY CountTypes
  <2>6. replOffset'[r] <= Len(log[r]) + credit[r]
    BY <2>3, <2>4, <2>5
  <2>7. Consistent(Len(log[r]), replOffset'[r], credit[r], Offset[r], ackCredit[r], acks[r])
    BY <2>6, ConsistentCount DEF Reports
  <2> QED
    BY <1>0, <2>7, OffsetTypes DEF Reports, Grows
<1> QED
  BY <1>1, <1>2

LEMMA StepReports ==
  ASSUME Types, [Next]_vars, NEW r \in Replicas, Reports(r), Counted(r)
  PROVE  Reports(r)' /\ Grows(r)
<1>1. CASE \E q \in Replicas : \/ AckArrives(q) \/ ReplicaWrites(q) \/ ReplicaAcks(q)
                               \/ LocalStep(q)
  BY <1>1, AckArrivesReports, CommandReports, TrackReports DEF LocalStep
<1>2. CASE ~ \E q \in Replicas : \/ AckArrives(q) \/ ReplicaWrites(q) \/ ReplicaAcks(q)
                                 \/ LocalStep(q)
  <2>1. UNCHANGED <<replOffset, log, credit, Offset, ackCredit, acks>>
    BY <1>2 DEF Next, vars, nodeVars, linkVars, remoteVars, WriteStarts, WriteProgress,
      Propagates, ReadsOffset, AddsOffset, Executes, WaitStarts, WaitProgress, Broadcasts,
      SendsGetAck, WaitChecks, WaitWakes, WaitTimesOut, PsyncRegisters, ServeReplica,
      PsyncAnswers, AckTokens, ReplicaStep, Synchronizes, LocalStep
  <2> QED
    BY <2>1, ReportsKept
<1> QED
  BY <1>1, <1>2

(* What a handler has still to count is covered from the start.            *)
LEMMA HandledCounted ==
  ASSUME Types, NEW q \in Replicas, NEW h \in Handlers, NEW length \in Nat, length > 0,
         Handled(q, h, length), NEW r \in Replicas, Counted(r),
         Len(log'[r]) \in Nat, credit'[r] \in Nat,
         Len(log'[r]) + credit'[r] = Len(log[r]) + credit[r] + (IF r = q THEN length ELSE 0)
  PROVE  Counted(r)'
<1>1. /\ due[q][h] = 0 /\ due'[q][h] = length
      /\ \A g \in Handlers \ {h} : due'[q][g] = due[q][g]
      /\ \A x \in Replicas \ {q} : due'[x] = due[x]
      /\ read' = read /\ replOffset' = replOffset
  BY HandledTypes DEF Handled
<1>t. /\ due[r]["link"] \in Nat /\ due[r]["client"] \in Nat /\ replOffset[r] \in Nat
      /\ Len(log[r]) \in Nat /\ credit[r] \in Nat
      /\ \A g \in Handlers : read[r][g] \in Int /\ due[r][g] \in Nat
  BY CountTypes
<1>2. CASE r # q
  BY <1>1, <1>2, <1>t DEF Counted, Pending
<1>3. CASE r = q
  <2>1. Pending(r)' = Pending(r) + length /\ Pending(r) \in Nat
    <3>1. CASE h = "link"
      <4>1. due[r]["link"] = 0 /\ due'[r]["link"] = length /\ due'[r]["client"] = due[r]["client"]
        BY <1>1, <1>3, <3>1 DEF Handlers
      <4> QED
        BY <1>t, <4>1 DEF Pending
    <3>2. CASE h = "client"
      <4>1. due[r]["client"] = 0 /\ due'[r]["client"] = length /\ due'[r]["link"] = due[r]["link"]
        BY <1>1, <1>3, <3>2 DEF Handlers
      <4> QED
        BY <1>t, <4>1 DEF Pending
    <3> QED
      BY <3>1, <3>2 DEF Handlers
  <2>2. replOffset'[r] + Pending(r)' <= Len(log'[r]) + credit'[r]
    BY <1>1, <1>3, <1>t, <2>1 DEF Counted
  <2>3. ASSUME NEW g \in Handlers, read'[r][g] # -1
        PROVE  due'[r][g] > 0 /\ read'[r][g] + Pending(r)' <= Len(log'[r]) + credit'[r]
    <3>1. /\ read'[r][g] = read[r][g]
          /\ due[r][g] > 0 /\ read[r][g] + Pending(r) <= Len(log[r]) + credit[r]
      BY <1>1, <2>3 DEF Counted
    <3>2. g # h
      BY <1>1, <1>3, <3>1
    <3>3. due'[r][g] = due[r][g]
      BY <1>1, <1>3, <3>2
    <3> QED
      BY <1>3, <1>t, <2>1, <3>1, <3>3
  <2> QED
    BY <2>2, <2>3 DEF Counted
<1> QED
  BY <1>2, <1>3

LEMMA TrackCounted ==
  ASSUME Types, NEW q \in Replicas, TrackOffset(q), NEW r \in Replicas, Counted(r)
  PROVE  Counted(r)'
<1>0. log' = log /\ credit' = credit
  BY DEF TrackOffset, TrackReads, TrackAdds
<1>t. /\ due[r]["link"] \in Nat /\ due[r]["client"] \in Nat /\ replOffset[r] \in Nat
      /\ Len(log[r]) \in Nat /\ credit[r] \in Nat
      /\ \A g \in Handlers : read[r][g] \in Int /\ due[r][g] \in Nat
      /\ Pending(r) \in Nat
  BY CountTypes
<1>1. CASE r # q
  <2>1. replOffset'[r] = replOffset[r] /\ due'[r] = due[r] /\ read'[r] = read[r]
    BY <1>1 DEF TrackOffset, TrackReads, TrackAdds, Types, TypeOK
  <2> QED
    BY <1>0, <2>1 DEF Counted, Pending
<1>2. ASSUME NEW h \in Handlers, TrackReads(q, h), r = q PROVE Counted(r)'
  <2>1. /\ replOffset' = replOffset /\ due' = due /\ due[r][h] > 0
        /\ read'[r][h] = replOffset[r]
        /\ \A g \in Handlers \ {h} : read'[r][g] = read[r][g]
    BY <1>2 DEF TrackReads, Types, TypeOK
  <2>2. ASSUME NEW g \in Handlers, read'[r][g] # -1
        PROVE  due'[r][g] > 0 /\ read'[r][g] + Pending(r)' <= Len(log'[r]) + credit'[r]
    BY <1>0, <2>1, <2>2 DEF Counted, Pending
  <2> QED
    BY <1>0, <2>1, <2>2 DEF Counted, Pending
<1>3. ASSUME NEW h \in Handlers, TrackAdds(q, h), r = q PROVE Counted(r)'
  <2>1. /\ replOffset'[r] = read[r][h] + due[r][h] /\ read[r][h] # -1
        /\ read'[r][h] = -1 /\ due'[r][h] = 0
        /\ \A g \in Handlers \ {h} : read'[r][g] = read[r][g] /\ due'[r][g] = due[r][g]
    BY <1>3 DEF TrackAdds, Types, TypeOK
  <2>2. Pending(r)' = Pending(r) - due[r][h]
    <3>1. CASE h = "link"
      <4>1. due'[r]["link"] = 0 /\ due'[r]["client"] = due[r]["client"]
        BY <2>1, <3>1 DEF Handlers
      <4> QED
        BY <1>t, <3>1, <4>1 DEF Pending
    <3>2. CASE h = "client"
      <4>1. due'[r]["client"] = 0 /\ due'[r]["link"] = due[r]["link"]
        BY <2>1, <3>2 DEF Handlers
      <4> QED
        BY <1>t, <3>2, <4>1 DEF Pending
    <3> QED
      BY <3>1, <3>2 DEF Handlers
  <2>3. read[r][h] + Pending(r) <= Len(log[r]) + credit[r]
    BY <2>1 DEF Counted
  <2>4. replOffset'[r] + Pending(r)' <= Len(log'[r]) + credit'[r]
    BY <1>0, <1>t, <2>1, <2>2, <2>3
  <2>5. ASSUME NEW g \in Handlers, read'[r][g] # -1
        PROVE  due'[r][g] > 0 /\ read'[r][g] + Pending(r)' <= Len(log'[r]) + credit'[r]
    <3>1. g # h /\ read'[r][g] = read[r][g] /\ due'[r][g] = due[r][g]
      BY <2>1, <2>5
    <3>2. due[r][g] > 0 /\ read[r][g] + Pending(r) <= Len(log[r]) + credit[r]
      BY <2>5, <3>1 DEF Counted
    <3>3. /\ read[r][g] \in Int /\ due[r][h] \in Nat /\ Pending(r) \in Nat
          /\ Len(log'[r]) + credit'[r] = Len(log[r]) + credit[r]
          /\ Len(log[r]) \in Nat /\ credit[r] \in Nat
      BY <1>0, <1>t
    <3> QED
      BY <2>2, <3>1, <3>2, <3>3
  <2> QED
    BY <2>4, <2>5 DEF Counted
<1> QED
  BY <1>1, <1>2, <1>3 DEF TrackOffset

LEMMA StepCounted ==
  ASSUME Types, Types', [Next]_vars, NEW r \in Replicas, Counted(r)
  PROVE  Counted(r)'
<1>0. "link" \in Handlers /\ "client" \in Handlers
  BY DEF Handlers
<1>t. /\ Len(log'[r]) \in Nat /\ credit'[r] \in Nat /\ Len(log[r]) \in Nat /\ credit[r] \in Nat
  <2>1. log'[r] \in Seq(Writes)
    BY DEF Types, TypeOK, Writes
  <2> QED
    BY <2>1, LenProperties, OffsetTypes DEF Types
<1>1. ASSUME NEW q \in Replicas, ReplicaWrites(q) PROVE Counted(r)'
  <2>1. r # q => Len(log'[r]) = Len(log[r])
    BY <1>1 DEF ReplicaWrites, Types, TypeOK
  <2>2. r = q => Len(log'[r]) = Len(log[r]) + 1
    <3>1. log'[q] = Append(log[q], Head(link[q])) /\ log[q] \in Seq(Cells) /\ Head(link[q]) \in Cells
      BY <1>1, LinkTypes, ReadTypes DEF ReplicaWrites, Types, TypeOK
    <3> QED
      BY <3>1, AppendSet
  <2>3. credit' = credit /\ Handled(q, "link", 1)
    BY <1>1 DEF ReplicaWrites
  <2> QED
    <3>1. Len(log'[r]) + credit'[r] = Len(log[r]) + credit[r] + (IF r = q THEN 1 ELSE 0)
      BY <1>t, <2>1, <2>2, <2>3
    <3>2. 1 \in Nat /\ 1 > 0
      OBVIOUS
    <3> QED
      BY <1>0, <1>t, <2>3, <3>1, <3>2, HandledCounted
<1>2. ASSUME NEW q \in Replicas, ReplicaAcks(q) PROVE Counted(r)'
  <2>0. log' = log /\ Handled(q, "link", AckLength)
    BY <1>2 DEF ReplicaAcks
  <2>1. credit'[r] = credit[r] + (IF r = q THEN AckLength ELSE 0)
    <3>1. CASE r = q
      BY <1>2, <1>t, <3>1 DEF ReplicaAcks, Types
    <3>2. CASE r # q
      BY <1>2, <1>t, <3>2 DEF ReplicaAcks, Types
    <3> QED
      BY <3>1, <3>2
  <2>2. AckLength \in Nat /\ AckLength > 0
    BY Bounds
  <2>3. Len(log'[r]) + credit'[r] = Len(log[r]) + credit[r] + (IF r = q THEN AckLength ELSE 0)
    BY <1>t, <2>0, <2>1, <2>2
  <2> QED
    BY <1>0, <1>t, <2>0, <2>2, <2>3, HandledCounted
<1>3. ASSUME NEW q \in Replicas, NEW length \in Lengths, ReplicaServes(q, length) PROVE Counted(r)'
  <2>0. log' = log /\ Handled(q, "client", length)
    BY <1>3 DEF ReplicaServes
  <2>1. credit'[r] = credit[r] + (IF r = q THEN length ELSE 0)
    <3>1. CASE r = q
      BY <1>3, <1>t, <3>1 DEF ReplicaServes, Types
    <3>2. CASE r # q
      BY <1>3, <1>t, <3>2 DEF ReplicaServes, Types
    <3> QED
      BY <3>1, <3>2
  <2>2. length \in Nat /\ length > 0
    BY Bounds
  <2>3. Len(log'[r]) + credit'[r] = Len(log[r]) + credit[r] + (IF r = q THEN length ELSE 0)
    BY <1>t, <2>0, <2>1, <2>2
  <2> QED
    BY <1>0, <1>t, <2>0, <2>2, <2>3, HandledCounted
<1>4. CASE ~ \E q \in Replicas : ReplicaWrites(q) \/ ReplicaAcks(q) \/ LocalStep(q)
  <2>1. UNCHANGED <<replOffset, log, credit, due, read>>
    BY <1>4 DEF Next, vars, nodeVars, linkVars, remoteVars, WriteStarts, WriteProgress,
      Propagates, ReadsOffset, AddsOffset, Executes, WaitStarts, WaitProgress, Broadcasts,
      SendsGetAck, WaitChecks, WaitWakes, WaitTimesOut, PsyncRegisters, ServeReplica,
      PsyncAnswers, AckArrives, AckTokens, ReplicaStep, Synchronizes, LocalStep
  <2> QED
    BY <2>1 DEF Counted, Pending
<1> QED
  BY <1>1, <1>2, <1>3, <1>4, TrackCounted DEF LocalStep

-----------------------------------------------------------------------------
(* WAIT.                                                                   *)

(* What a step does that leaves the WAITs under way where they are.        *)
WaitsRest ==
  /\ UNCHANGED <<claim, stolen>>
  /\ \A c \in Clients :
       /\ Waiting(c)' <=> Waiting(c)
       /\ pc'[c] = "select" <=> pc[c] = "select"
       /\ Waiting(c) => tmp'[c] = tmp[c] /\ num'[c] = num[c]

LEMMA MostStepsRest ==
  ASSUME Types,
         \/ UNCHANGED vars
         \/ \E c \in Clients : \/ WriteStarts(c) \/ WriteProgress(c) \/ Broadcasts(c)
                               \/ \E r \in Replicas : SendsGetAck(c, r)
         \/ \E r \in Replicas : \/ PsyncRegisters(r) \/ ServeReplica(r)
                                \/ ReplicaStep(r) \/ LocalStep(r)
  PROVE  WaitsRest
<1>1. CASE UNCHANGED vars
  BY <1>1 DEF vars, clientVars, pastVars, WaitsRest, Waiting
<1>2. ASSUME NEW c \in Clients, WriteStarts(c) PROVE WaitsRest
  BY <1>2 DEF WriteStarts, Goes, Types, TypeOK, WaitsRest, Waiting
<1>3. ASSUME NEW c \in Clients, WriteProgress(c) PROVE WaitsRest
  <2>1. ASSUME NEW r \in Replicas, Propagates(c, r) PROVE WaitsRest
    BY <2>1 DEF Propagates, pastVars, WaitsRest, Waiting
  <2>2. CASE ReadsOffset(c)
    BY <2>2 DEF ReadsOffset, Goes, pastVars, Types, TypeOK, WaitsRest, Waiting
  <2>3. CASE AddsOffset(c)
    BY <2>3 DEF AddsOffset, Goes, pastVars, Types, TypeOK, WaitsRest, Waiting
  <2>4. CASE Executes(c)
    BY <2>4 DEF Executes, Goes, Types, TypeOK, WaitsRest, Waiting
  <2> QED
    BY <1>3, <2>1, <2>2, <2>3, <2>4 DEF WriteProgress
<1>4. ASSUME NEW c \in Clients, Broadcasts(c) PROVE WaitsRest
  BY <1>4 DEF Broadcasts, Goes, pastVars, Types, TypeOK, WaitsRest, Waiting
<1>5. ASSUME NEW c \in Clients, NEW r \in Replicas, SendsGetAck(c, r) PROVE WaitsRest
  BY <1>5 DEF SendsGetAck, pastVars, WaitsRest, Waiting
<1>6. ASSUME NEW r \in Replicas,
             PsyncRegisters(r) \/ ServeReplica(r) \/ ReplicaStep(r) \/ LocalStep(r)
      PROVE  WaitsRest
  BY <1>6 DEF PsyncRegisters, ServeReplica, PsyncAnswers, AckArrives, AckTokens, ReplicaStep,
    Synchronizes, ReplicaWrites, ReplicaAcks, Handled, LocalStep, ReplicaServes,
    TrackOffset, TrackReads, TrackAdds, clientVars, pastVars,
    WaitsRest, Waiting
<1> QED
  BY <1>1, <1>2, <1>3, <1>4, <1>5, <1>6

LEMMA UnregisteredKept ==
  ASSUME Types, Unregistered, [Next]_vars
  PROVE  Unregistered'
<1>1. ASSUME NEW r \in Replicas, PsyncRegisters(r) PROVE Unregistered'
  BY <1>1 DEF PsyncRegisters, Unregistered, Types, TypeOK
<1>2. ASSUME NEW r \in Replicas, PsyncAnswers(r) PROVE Unregistered'
  <2>1. /\ psync[r] # -1 /\ psync'[r] # -1 /\ \A q \in Replicas \ {r} : psync'[q] = psync[q]
        /\ registered' = registered /\ Offset' = Offset
    BY <1>2 DEF PsyncAnswers, nodeVars, Types, TypeOK
  <2> QED
    BY <2>1 DEF Unregistered
<1>3. ASSUME NEW r \in Replicas, AckArrives(r) PROVE Unregistered'
  <2>1. /\ psync' = psync /\ registered' = registered /\ psync[r] = 3
        /\ \A q \in Replicas \ {r} : Offset'[q] = Offset[q]
    BY <1>3 DEF AckArrives, Types, TypeOK
  <2> QED
    BY <2>1 DEF Unregistered
<1>4. CASE ~ \E r \in Replicas : PsyncRegisters(r) \/ PsyncAnswers(r) \/ AckArrives(r)
  <2>1. UNCHANGED <<psync, registered, Offset>>
    BY <1>4 DEF Next, vars, nodeVars, linkVars, WriteStarts, WriteProgress, Propagates,
      ReadsOffset, AddsOffset, Executes, WaitStarts, WaitProgress, Broadcasts, SendsGetAck,
      WaitChecks, WaitWakes, WaitTimesOut, ServeReplica, AckTokens, ReplicaStep, Synchronizes,
      ReplicaWrites, ReplicaAcks, Handled, LocalStep, ReplicaServes, TrackOffset, TrackReads,
      TrackAdds
  <2> QED
    BY <2>1 DEF Unregistered
<1> QED
  BY <1>1, <1>2, <1>3, <1>4

(* Steps that neither start a WAIT nor bring it further: the replicas it   *)
(* would count are the same, or it is about to be told.                    *)
LEMMA SleepersTold ==
  ASSUME Types, Unregistered, AsksForSome, NoOversleep, WaitsRest, [Next]_vars
  PROVE  NoOversleep'
<1>1. ASSUME NEW r \in Replicas, AckArrives(r) PROVE NoOversleep'
  BY <1>1 DEF AckArrives, Types, NoOversleep
<1>2. ASSUME NEW r \in Replicas, AckTokens(r) PROVE NoOversleep'
  <2>1. AckChan' > 0
    BY <1>2, Bounds DEF AckTokens, WithToken, Types, TypeOK
  <2> QED
    BY <2>1 DEF NoOversleep
<1>3. ASSUME NEW r \in Replicas, PsyncRegisters(r) PROVE NoOversleep'
  <2>1. /\ registered' = registered \cup {r} /\ Offset' = Offset /\ Offset[r] = 0
        /\ AckChan' = AckChan /\ recorded' = recorded /\ stolen' = stolen
    BY <1>3 DEF PsyncRegisters, Unregistered, WaitsRest
  <2>2. \A c \in Clients : pc'[c] = "select" =>
          pc[c] = "select" /\ tmp'[c] = tmp[c] /\ num'[c] = num[c] /\ tmp[c] > 0
    BY DEF WaitsRest, Waiting, AsksForSome
  <2>3. ASSUME NEW t \in Nat, t > 0
        PROVE  {q \in registered' : Offset'[q] >= t} = Synced(t)
    BY <2>1, <2>3 DEF Synced
  <2>4. \A c \in Clients : pc'[c] = "select" => (Enough(c)' <=> Enough(c))
    <3> SUFFICES ASSUME NEW c \in Clients, pc'[c] = "select"
                 PROVE  Enough(c)' <=> Enough(c)
      OBVIOUS
    <3>1. tmp[c] \in Nat /\ tmp[c] > 0 /\ tmp'[c] = tmp[c] /\ num'[c] = num[c]
      BY <2>2 DEF Types, TypeOK
    <3>2. {q \in registered' : Offset'[q] >= tmp'[c]} = Synced(tmp[c])
      BY <2>3, <3>1
    <3> QED
      BY <3>1, <3>2 DEF Enough, Synced
  <2> QED
    BY <2>1, <2>2, <2>4 DEF NoOversleep
<1>4. CASE ~ \E r \in Replicas : AckArrives(r) \/ AckTokens(r) \/ PsyncRegisters(r)
  <2>1. CASE \E c \in Clients : WaitWakes(c)
    BY <2>1 DEF WaitWakes, Goes, WaitsRest, Types, TypeOK
  <2>2. CASE ~ \E c \in Clients : WaitWakes(c)
    <3>1. UNCHANGED <<registered, Offset, AckChan, recorded>>
      BY <1>4, <2>2 DEF Next, vars, nodeVars, linkVars, WriteStarts, WriteProgress, Propagates,
        ReadsOffset, AddsOffset, Executes, WaitStarts, WaitProgress, Broadcasts, SendsGetAck,
        WaitChecks, WaitTimesOut, ServeReplica, PsyncAnswers, ReplicaStep, Synchronizes,
        ReplicaWrites, ReplicaAcks, Handled, LocalStep, ReplicaServes, TrackOffset, TrackReads,
        TrackAdds
    <3>2. \A c \in Clients : pc'[c] = "select" =>
            pc[c] = "select" /\ tmp'[c] = tmp[c] /\ num'[c] = num[c]
      BY DEF WaitsRest, Waiting
    <3>3. \A c \in Clients : pc'[c] = "select" => (Enough(c)' <=> Enough(c))
      BY <3>1, <3>2 DEF Enough, Synced
    <3> QED
      BY <3>1, <3>2, <3>3 DEF NoOversleep, WaitsRest
  <2> QED
    BY <2>1, <2>2
<1> QED
  BY <1>1, <1>2, <1>3, <1>4

LEMMA AsksKept ==
  ASSUME Types, AsksForSome,
         \/ WaitsRest
         \/ \E c \in Clients : \/ \E n \in Nat, h \in BOOLEAN : WaitStarts(c, n, h)
                               \/ WaitChecks(c) \/ WaitWakes(c) \/ WaitTimesOut(c)
  PROVE  AsksForSome'
<1>1. CASE WaitsRest
  BY <1>1 DEF WaitsRest, AsksForSome
<1>2. ASSUME NEW c \in Clients, NEW n \in Nat, NEW h \in BOOLEAN, WaitStarts(c, n, h)
      PROVE  AsksForSome'
  <2>1. \A d \in Clients \ {c} : pc'[d] = pc[d] /\ tmp'[d] = tmp[d]
    BY <1>2 DEF WaitStarts, Goes, Types, TypeOK
  <2>2. Waiting(c)' => tmp'[c] = GlobalOffset /\ GlobalOffset # 0
    BY <1>2 DEF WaitStarts, Goes, Waiting, Types, TypeOK
  <2>3. GlobalOffset \in Nat
    BY Bounds DEF Types, TypeOK
  <2> QED
    BY <2>1, <2>2, <2>3 DEF AsksForSome, Waiting
<1>3. ASSUME NEW c \in Clients, WaitChecks(c) \/ WaitWakes(c) \/ WaitTimesOut(c)
      PROVE  AsksForSome'
  <2>1. tmp' = tmp /\ \A d \in Clients \ {c} : pc'[d] = pc[d]
    BY <1>3 DEF WaitChecks, WaitWakes, WaitTimesOut, Answers, Goes, Types, TypeOK
  <2>2. Waiting(c)
    BY <1>3 DEF WaitChecks, WaitWakes, WaitTimesOut, Waiting
  <2> QED
    BY <2>1, <2>2 DEF AsksForSome, Waiting
<1> QED
  BY <1>1, <1>2, <1>3

(* The WAIT that moves does not fall asleep with enough replicas, and      *)
(* takes a token from the others only in their sight.                      *)
LEMMA WaitersOwnSteps ==
  ASSUME Types, NoOversleep, NEW c \in Clients,
         \/ \E n \in Nat, h \in BOOLEAN : WaitStarts(c, n, h)
         \/ WaitChecks(c) \/ WaitWakes(c) \/ WaitTimesOut(c)
  PROVE  NoOversleep'
<1>1. CASE WaitWakes(c)
  <2>1. pc'[c] = "check" /\ \A d \in Clients \ {c} : stolen'[d]
    BY <1>1 DEF WaitWakes, Goes, Types, TypeOK
  <2> QED
    BY <2>1 DEF NoOversleep
<1>2. CASE ~WaitWakes(c)
  <2>1. UNCHANGED <<registered, Offset, AckChan, recorded>>
    BY <1>2 DEF WaitStarts, WaitChecks, WaitTimesOut, nodeVars, linkVars
  <2>2. \A d \in Clients \ {c} : /\ pc'[d] = pc[d] /\ tmp'[d] = tmp[d]
                                 /\ num'[d] = num[d] /\ stolen'[d] = stolen[d]
    BY <1>2 DEF WaitStarts, WaitChecks, WaitTimesOut, Answers, Goes, Types, TypeOK
  <2>3. \A d \in Clients \ {c} : Enough(d)' <=> Enough(d)
    BY <2>1, <2>2 DEF Enough, Synced
  <2>4. pc'[c] = "select" => ~Enough(c)'
    <3>1. CASE WaitChecks(c)
      <4>1. tmp' = tmp /\ num' = num
        BY <3>1 DEF WaitChecks
      <4>2. Enough(c)' <=> Enough(c)
        BY <2>1, <4>1 DEF Enough, Synced
      <4> QED
        BY <3>1, <4>2 DEF WaitChecks, Answers, Goes, Types, TypeOK
    <3>2. CASE ~WaitChecks(c)
      BY <1>2, <3>2 DEF WaitStarts, WaitTimesOut, Answers, Goes, Types, TypeOK
    <3> QED
      BY <3>1, <3>2
  <2> QED
    BY <2>1, <2>2, <2>3, <2>4 DEF NoOversleep
<1> QED
  BY <1>1, <1>2

(* The set of the answered writes is what GlobalOffset counts.             *)
LEMMA AnsweredAdded ==
  ASSUME Types, HandsInv
  PROVE  /\ answered \subseteq Added /\ answered \subseteq DOMAIN earlier
         /\ Cardinality(answered) <= Cardinality(Added)
         /\ Cardinality(answered) \in Nat
         /\ ~overlapped => Cardinality(answered) <= GlobalOffset /\ Initial(answered)
<1>1. answered \subseteq DOMAIN earlier
  BY DEF HandsInv, Accounted
<1>2. answered \subseteq Added
  BY <1>1 DEF HandsInv, WritersApart, Writing, Added, Propagating
<1>3. IsFiniteSet(Added) /\ Cardinality(answered) \in Nat
  BY <1>1, AddedTypes
<1>4. Cardinality(answered) <= Cardinality(Added)
  BY <1>2, <1>3, FS_Subset, Zenon
<1>5. ASSUME ~overlapped PROVE Cardinality(answered) <= GlobalOffset
  BY <1>4, <1>5 DEF HandsInv, OneByOne
<1>6. ASSUME ~overlapped PROVE Initial(answered)
  <2> SUFFICES ASSUME NEW w \in answered, NEW v \in 1..w PROVE v \in answered
    BY DEF Initial
  <2>1. w \in DOMAIN earlier /\ w \in Nat
    BY <1>1, StartedTypes
  <2>2. CASE v = w
    BY <2>2
  <2>3. CASE v # w
    <3>1. v \in 1..(w - 1)
      BY <2>1, <2>3
    <3>2. v \in earlier[w]
      BY <1>6, <2>1, <3>1 DEF HandsInv, OneByOne
    <3> QED
      BY <2>1, <3>2 DEF HandsInv, EarlierAnswered
  <2> QED
    BY <2>2, <2>3
<1> QED
  BY <1>1, <1>2, <1>3, <1>4, <1>5, <1>6

(* A replica that is counted for a target has that many writes or credit.  *)
LEMMA CountedHave ==
  ASSUME Types, \A q \in Replicas : Reports(q), NEW t \in Nat, NEW n \in Nat, n <= t,
         NEW r \in Synced(t)
  PROVE  n <= Len(log[r]) + ackCredit[r]
<1>1. r \in Replicas /\ Offset[r] >= t
  BY DEF Synced, Types, TypeOK
<1>2. /\ Offset[r] \in Nat /\ ackCredit[r] \in Nat /\ Len(log[r]) \in Nat
      /\ Offset[r] <= Len(log[r]) + ackCredit[r]
  BY <1>1, OffsetTypes DEF Reports, Consistent
<1> QED
  BY <1>1, <1>2

ClaimBacked(c) ==
  /\ Initial(claim[c].writes)
  /\ Waiting(c) => Cardinality(claim[c].writes) <= tmp[c]
  /\ \A r \in claim[c].counted :
       Cardinality(claim[c].writes) <= Len(log[r]) + ackCredit[r]

LEMMA ClaimStays ==
  ASSUME Types, \A r \in Replicas : Grows(r), Types', NEW c \in Clients, ClaimBacked(c),
         claim'[c] = claim[c], Waiting(c)' => Waiting(c) /\ tmp'[c] = tmp[c]
  PROVE  ClaimBacked(c)'
<1>1. claim[c].writes \subseteq Writes /\ claim[c].counted \subseteq Replicas
  BY DEF Types, Claims, Writes
<1>2. Cardinality(claim[c].writes) \in Nat
  <2>1. IsFiniteSet(Writes)
    BY Bounds, FS_Interval DEF Writes
  <2> QED
    BY <1>1, <2>1, FS_Subset, FS_CardinalityType
<1>3. \A r \in Replicas : /\ Len(log[r]) \in Nat /\ ackCredit[r] \in Nat
                          /\ Len(log'[r]) \in Nat /\ ackCredit'[r] \in Nat
                          /\ Len(log[r]) <= Len(log'[r]) /\ ackCredit[r] <= ackCredit'[r]
  <2>1. \A r \in Replicas : Len(log[r]) \in Nat /\ ackCredit[r] \in Nat
    BY OffsetTypes
  <2>2. \A r \in Replicas : ackCredit'[r] \in Nat /\ log'[r] \in Seq(1..MaxWrites)
    BY DEF Types, TypeOK
  <2>3. \A r \in Replicas : Len(log'[r]) \in Nat
    BY <2>2, LenProperties
  <2> QED
    BY <2>1, <2>2, <2>3 DEF Grows
<1>4. \A r \in claim[c].counted : Cardinality(claim[c].writes) <= Len(log'[r]) + ackCredit'[r]
  BY <1>1, <1>2, <1>3 DEF ClaimBacked
<1> QED
  BY <1>4 DEF ClaimBacked, Initial

LEMMA AnswerBacked ==
  ASSUME Types, Types', \A r \in Replicas : Reports(r), NEW c \in Clients,
         WaitChecks(c) \/ WaitTimesOut(c), ClaimBacked(c), \A r \in Replicas : Grows(r)
  PROVE  \A d \in Clients : ClaimBacked(d) => ClaimBacked(d)'
<1>0. UNCHANGED <<log, ackCredit, tmp>> /\ \A d \in Clients \ {c} : pc'[d] = pc[d]
  BY DEF WaitChecks, WaitTimesOut, Answers, Goes, nodeVars, remoteVars, Types, TypeOK
<1>1. Waiting(c) /\ tmp[c] \in Nat
  BY DEF WaitChecks, WaitTimesOut, Waiting, Types, TypeOK
<1>2. CASE claim' = claim
  BY <1>0, <1>1, <1>2, ClaimStays DEF Waiting
<1>3. CASE Answers(c, tmp[c])
  <2>1. /\ claim'[c].counted = Synced(tmp[c]) /\ claim'[c].writes = claim[c].writes
        /\ \A d \in Clients \ {c} : claim'[d] = claim[d]
    BY <1>3, AnswersTypes
  <2>2. \A d \in Clients \ {c} : ClaimBacked(d) => ClaimBacked(d)'
    BY <1>0, <2>1, ClaimStays DEF Waiting
  <2>3. Cardinality(claim[c].writes) \in Nat
    <3>1. IsFiniteSet(Writes) /\ claim[c].writes \subseteq Writes
      BY Bounds, FS_Interval DEF Writes, Types, Claims
    <3> QED
      BY <3>1, FS_Subset, FS_CardinalityType
  <2>4. \A r \in Synced(tmp[c]) : Cardinality(claim[c].writes) <= Len(log[r]) + ackCredit[r]
    BY <1>1, <2>3, CountedHave DEF ClaimBacked
  <2>5. ~Waiting(c)'
    BY <1>3 DEF Answers, Goes, Waiting, Types, TypeOK
  <2>6. ClaimBacked(c)'
    BY <1>0, <2>1, <2>4, <2>5 DEF ClaimBacked, Initial
  <2> QED
    BY <2>2, <2>6
<1> QED
  BY <1>2, <1>3 DEF WaitChecks, WaitTimesOut

LEMMA StartBacked ==
  ASSUME Types, Types', HandsInv, \A r \in Replicas : Reports(r) /\ Grows(r), ~overlapped,
         NEW c \in Clients, NEW n \in Nat, NEW h \in BOOLEAN, WaitStarts(c, n, h)
  PROVE  \A d \in Clients : ClaimBacked(d) => ClaimBacked(d)'
<1>0. /\ UNCHANGED <<log, ackCredit>>
      /\ \A d \in Clients \ {c} : pc'[d] = pc[d] /\ claim'[d] = claim[d] /\ tmp'[d] = tmp[d]
  <2>1. UNCHANGED <<log, ackCredit>>
    BY DEF WaitStarts, nodeVars, remoteVars
  <2>2. \A d \in Clients \ {c} : pc'[d] = pc[d] /\ claim'[d] = claim[d] /\ tmp'[d] = tmp[d]
    <3>1. /\ pc \in [Clients -> {"idle", "propagate", "add", "execute",
                                "broadcast", "getack", "check", "select"}]
          /\ claim \in [Clients -> Claims] /\ tmp \in [Clients -> Nat]
      BY DEF Types, TypeOK
    <3>2. \A d \in Clients \ {c} : pc'[d] = pc[d]
      BY <3>1 DEF WaitStarts, Goes
    <3>3. \A d \in Clients \ {c} : claim'[d] = claim[d]
      BY <3>1 DEF WaitStarts
    <3>4. \A d \in Clients \ {c} : tmp'[d] = tmp[d]
      BY <3>1 DEF WaitStarts
    <3> QED
      BY <3>2, <3>3, <3>4
  <2> QED
    BY <2>1, <2>2
<1>1. /\ Cardinality(answered) <= GlobalOffset /\ Initial(answered)
      /\ Cardinality(answered) \in Nat /\ GlobalOffset \in Nat
  <2>1. GlobalOffset \in Nat
    BY Bounds DEF Types, TypeOK
  <2> QED
    BY <2>1, AnsweredAdded
<1>2. /\ claim'[c].writes = answered
      /\ Waiting(c)' => tmp'[c] = GlobalOffset
      /\ claim'[c].counted \subseteq Synced(GlobalOffset)
  <2>1. claim \in [Clients -> Claims] /\ tmp \in [Clients -> Nat] /\ c \in DOMAIN pc
    BY DEF Types, TypeOK
  <2>2. CASE GlobalOffset = 0 \/ registered = {} \/ n = 0
    <3>1. /\ claim' = [claim EXCEPT ![c] =
                        [counted |-> Synced(GlobalOffset), writes |-> answered]]
          /\ pc' = [pc EXCEPT ![c] = "idle"]
      BY <2>2 DEF WaitStarts, Goes
    <3>2. claim'[c] = [counted |-> Synced(GlobalOffset), writes |-> answered] /\ pc'[c] = "idle"
      BY <2>1, <3>1
    <3> QED
      BY <3>2 DEF Waiting
  <2>3. CASE ~(GlobalOffset = 0 \/ registered = {} \/ n = 0)
    <3>1. /\ claim' = [claim EXCEPT ![c] = [counted |-> {}, writes |-> answered]]
          /\ tmp' = [tmp EXCEPT ![c] = GlobalOffset]
      BY <2>3 DEF WaitStarts
    <3>2. claim'[c] = [counted |-> {}, writes |-> answered] /\ tmp'[c] = GlobalOffset
      BY <2>1, <3>1
    <3> QED
      BY <3>2
  <2> QED
    BY <2>2, <2>3
<1>3. \A r \in Synced(GlobalOffset) : Cardinality(answered) <= Len(log[r]) + ackCredit[r]
  BY <1>1, CountedHave
<1>4. ClaimBacked(c)'
  BY <1>0, <1>1, <1>2, <1>3 DEF ClaimBacked, Initial
<1>5. \A d \in Clients \ {c} : ClaimBacked(d) => ClaimBacked(d)'
  BY <1>0, ClaimStays DEF Waiting
<1> QED
  BY <1>4, <1>5

LEMMA ClaimsKept ==
  ASSUME Types, Types', HandsInv, \A r \in Replicas : Reports(r) /\ Grows(r), ClaimsBacked,
         overlapped => overlapped',
         \/ WaitsRest
         \/ \E c \in Clients : \/ \E n \in Nat, h \in BOOLEAN : WaitStarts(c, n, h)
                               \/ WaitChecks(c) \/ WaitWakes(c) \/ WaitTimesOut(c)
  PROVE  ClaimsBacked'
<1> SUFFICES ASSUME ~overlapped' PROVE \A d \in Clients : ClaimBacked(d)'
  BY DEF ClaimsBacked, ClaimBacked
<1>1. \A d \in Clients : ClaimBacked(d)
  BY DEF ClaimsBacked, ClaimBacked
<1>2. CASE WaitsRest
  BY <1>1, <1>2, ClaimStays DEF WaitsRest
<1>3. ASSUME NEW c \in Clients, NEW n \in Nat, NEW h \in BOOLEAN, WaitStarts(c, n, h)
      PROVE  \A d \in Clients : ClaimBacked(d)'
  BY <1>1, <1>3, StartBacked
<1>4. ASSUME NEW c \in Clients, WaitChecks(c) \/ WaitTimesOut(c)
      PROVE  \A d \in Clients : ClaimBacked(d)'
  BY <1>1, <1>4, AnswerBacked
<1>5. ASSUME NEW c \in Clients, WaitWakes(c) PROVE \A d \in Clients : ClaimBacked(d)'
  <2>1. claim' = claim /\ tmp' = tmp /\ \A d \in Clients : Waiting(d)' <=> Waiting(d)
    BY <1>5 DEF WaitWakes, Goes, Waiting, Types, TypeOK
  <2> QED
    BY <1>1, <2>1, ClaimStays
<1> QED
  BY <1>2, <1>3, <1>4, <1>5

-----------------------------------------------------------------------------
(* The invariant.                                                          *)

LEMMA InitInv == Init => Inv
<1> SUFFICES ASSUME Init PROVE Inv
  OBVIOUS
<1>1. Types
  BY InitTypes
<1>2. /\ earlier = <<>> /\ DOMAIN earlier = {} /\ answered = {} /\ ToSet(<<>>) = {}
      /\ DOMAIN <<>> = {} /\ Len(<<>>) = 0
  BY DEF Init, ToSet
<1>3. \A c \in Clients : pc[c] = "idle" /\ ~Writing(c) /\ ~Waiting(c)
  BY DEF Init, Writing, Waiting
<1>4. HandsInv
  <2>1. Propagating = {} /\ Added = {}
    BY <1>2, <1>3 DEF Propagating, Writing, Added
  <2>2. Cardinality(Added) = 0 /\ GlobalOffset = 0
    BY <2>1, FS_EmptySet DEF Init
  <2>3. WritersApart /\ Accounted /\ EarlierAnswered
    BY <1>2, <1>3 DEF WritersApart, Accounted, EarlierAnswered
  <2>4. OffsetBounded /\ OneByOne
    BY <1>2, <1>3, <2>2 DEF OffsetBounded, OneByOne
  <2> QED
    BY <2>3, <2>4 DEF HandsInv
<1>5. MasterOrdered
  BY <1>2 DEF Init, MasterOrdered, Inverted
<1>6. WaitInv
  <2>1. Unregistered /\ AsksForSome /\ NoOversleep
    BY <1>3 DEF Init, Unregistered, AsksForSome, NoOversleep
  <2>2. \A c \in Clients : claim[c].writes = {} /\ claim[c].counted = {}
    BY DEF Init, NoClaim
  <2>3. ClaimsBacked
    BY <1>3, <2>2 DEF ClaimsBacked, Initial
  <2> QED
    BY <2>1, <2>3 DEF WaitInv
<1>7. ASSUME NEW r \in Replicas PROVE Pipe(r) /\ Reports(r) /\ Counted(r)
  <2>1. /\ log[r] = <<>> /\ link[r] = <<>> /\ acks[r] = <<>> /\ replOffset[r] = 0
        /\ credit[r] = 0 /\ Offset[r] = 0 /\ ackCredit[r] = 0 /\ registered = {}
    BY <1>7 DEF Init
  <2>2. Reports(r)
    BY <1>2, <2>1 DEF Reports, Consistent
  <2>5. Counted(r)
    BY <1>2, <1>7, <2>1 DEF Init, Counted, Pending, Handlers
  <2>3. SentOnce(r) /\ EveryWriteComes(r)
    BY <1>2, <1>3, <2>1 DEF SentOnce, EveryWriteComes, InStep, Turn
  <2>4. PipelineOrdered(r)
    BY <1>2, <2>1 DEF PipelineOrdered, Ahead
  <2> QED
    BY <2>2, <2>3, <2>4, <2>5 DEF Pipe
<1> QED
  BY <1>1, <1>4, <1>5, <1>6, <1>7 DEF Inv

LEMMA NextCases ==
  ASSUME [Next]_vars
  PROVE  \/ UNCHANGED vars
         \/ \E c \in Clients : \/ WriteStarts(c) \/ WriteProgress(c)
                               \/ \E n \in Nat, h \in BOOLEAN : WaitStarts(c, n, h)
                               \/ WaitProgress(c)
         \/ \E r \in Replicas : \/ PsyncRegisters(r) \/ ServeReplica(r)
                                \/ ReplicaStep(r) \/ LocalStep(r)
<1>1. Cardinality(Replicas) \in Nat
  BY Bounds, FS_CardinalityType
<1>2. \A n \in 0..Cardinality(Replicas) : n \in Nat
  BY <1>1
<1> QED
  BY <1>2 DEF Next, LocalStep

(* The parts of the state that the writes move.                            *)
LEMMA StepHands ==
  ASSUME Types, HandsInv, MasterOrdered, [Next]_vars
  PROVE  HandsInv' /\ MasterOrdered' /\ (overlapped => overlapped')
<1>1. ASSUME WritesRest PROVE HandsInv' /\ MasterOrdered' /\ (overlapped => overlapped')
  <2>1. earlier' = earlier /\ masterLog' = masterLog /\ overlapped' = overlapped
    BY <1>1 DEF WritesRest
  <2> QED
    BY <1>1, <2>1, HandsRest DEF MasterOrdered, Inverted
<1>2. ASSUME NEW c \in Clients, WriteStarts(c)
      PROVE  HandsInv' /\ MasterOrdered' /\ (overlapped => overlapped')
  <2>1. overlapped => overlapped'
    BY <1>2 DEF WriteStarts
  <2> QED
    BY <1>2, <2>1, WriteStartsHands, MasterKeeps
<1>3. ASSUME NEW c \in Clients, ReadsOffset(c) \/ AddsOffset(c)
      PROVE  HandsInv' /\ MasterOrdered' /\ (overlapped => overlapped')
  <2>1. earlier' = earlier /\ masterLog' = masterLog /\ overlapped' = overlapped
    BY <1>3 DEF ReadsOffset, AddsOffset, pastVars
  <2> QED
    BY <1>3, <2>1, ReadsOffsetHands, AddsOffsetHands DEF MasterOrdered, Inverted
<1>4. ASSUME NEW c \in Clients, Executes(c)
      PROVE  HandsInv' /\ MasterOrdered' /\ (overlapped => overlapped')
  <2>1. overlapped' = overlapped
    BY <1>4 DEF Executes
  <2> QED
    BY <1>4, <2>1, ExecutesHands, MasterKeeps
<1> QED
  BY <1>1, <1>2, <1>3, <1>4, NextCases, OtherSteps DEF WriteProgress

LEMMA StepTypes == ASSUME Types, HandsInv, [Next]_vars PROVE Types'
<1>0. WritersApart /\ Accounted
  BY DEF HandsInv
<1>1. CASE UNCHANGED vars
  BY <1>1 DEF vars, nodeVars, linkVars, remoteVars, clientVars, pastVars, Types, TypeOK,
    Propagating
<1>2. ASSUME NEW c \in Clients, WriteStarts(c) PROVE Types'
  BY <1>0, <1>2, WriteStartsTypes
<1>3. ASSUME NEW c \in Clients, WriteProgress(c) PROVE Types'
  BY <1>0, <1>3, PropagatesTypes, ReadsOffsetTypes, AddsOffsetTypes, AddFacts, ExecutesTypes
  DEF WriteProgress
<1>4. ASSUME NEW c \in Clients, NEW n \in Nat, NEW h \in BOOLEAN, WaitStarts(c, n, h)
      PROVE  Types'
  BY <1>0, <1>4, WaitStartsTypes
<1>5. ASSUME NEW c \in Clients, WaitProgress(c) PROVE Types'
  BY <1>5, WaitTypes
<1>6. ASSUME NEW r \in Replicas,
             PsyncRegisters(r) \/ ServeReplica(r) \/ ReplicaStep(r) \/ LocalStep(r)
      PROVE  Types'
  BY <1>6, ServeTypes, ReplicaTypes
<1> QED
  BY <1>1, <1>2, <1>3, <1>4, <1>5, <1>6, NextCases

LEMMA StepWaits ==
  ASSUME Types, Types', HandsInv, \A r \in Replicas : Reports(r) /\ Grows(r), WaitInv,
         overlapped => overlapped', [Next]_vars
  PROVE  WaitInv'
<1>0. Unregistered /\ AsksForSome /\ NoOversleep /\ ClaimsBacked
  BY DEF WaitInv
<1>1. Unregistered'
  BY <1>0, UnregisteredKept
<1>2. \/ WaitsRest
      \/ \E c \in Clients : \/ \E n \in Nat, h \in BOOLEAN : WaitStarts(c, n, h)
                            \/ WaitChecks(c) \/ WaitWakes(c) \/ WaitTimesOut(c)
  BY NextCases, MostStepsRest DEF WaitProgress
<1>3. AsksForSome'
  BY <1>0, <1>2, AsksKept
<1>4. NoOversleep'
  BY <1>0, <1>2, SleepersTold, WaitersOwnSteps
<1>5. ClaimsBacked'
  BY <1>0, <1>2, ClaimsKept
<1> QED
  BY <1>1, <1>3, <1>4, <1>5 DEF WaitInv

LEMMA StepInv == Inv /\ [Next]_vars => Inv'
<1> SUFFICES ASSUME Inv, [Next]_vars PROVE Inv'
  OBVIOUS
<1>0. /\ Types /\ HandsInv /\ MasterOrdered /\ WaitInv
      /\ \A r \in Replicas : Pipe(r) /\ Reports(r) /\ Counted(r)
  BY DEF Inv
<1>1. Types'
  BY <1>0, StepTypes
<1>2. HandsInv' /\ MasterOrdered' /\ (overlapped => overlapped')
  BY <1>0, StepHands
<1>3. \A r \in Replicas : Pipe(r)'
  BY <1>0, StepPipe
<1>4. \A r \in Replicas : Reports(r)' /\ Grows(r)
  BY <1>0, StepReports
<1>5. \A r \in Replicas : Counted(r)'
  BY <1>0, <1>1, StepCounted
<1>6. WaitInv'
  BY <1>0, <1>1, <1>2, <1>4, StepWaits
<1> QED
  BY <1>1, <1>2, <1>3, <1>4, <1>5, <1>6 DEF Inv

(* The invariant of a master and its replicas (commands.go:635-688,        *)
(* 1165-1203, replica.go).                                                 *)
THEOREM ReplicationInvariant == Spec => []Inv
<1>1. Init => Inv
  BY InitInv
<1>2. Inv /\ [Next]_vars => Inv'
  BY StepInv
<1> QED
  BY <1>1, <1>2, PTL DEF Spec

(* Writes that do not overlap are executed in the same order on the master *)
(* and on every replica: none before one that was answered before it       *)
(* started (commands.go:1191-1203).                                        *)
THEOREM WritesKeepOrder == Spec => []OrderKept
<1>1. Inv => OrderKept
  <2> SUFFICES ASSUME Inv, NEW r \in Replicas, NEW i \in DOMAIN log[r],
                      NEW j \in DOMAIN log[r], i < j, log[r][j] \in earlier[log[r][i]]
               PROVE  FALSE
    BY DEF OrderKept, Inv, MasterOrdered, Inverted
  <2>1. log[r][i] \in Writes /\ log[r][j] \in Writes
    <3>1. log[r] \in Seq(Writes)
      BY DEF Inv, Types, TypeOK, Writes
    <3> QED
      BY <3>1
  <2>2. Ahead(log[r], link[r], log[r][i], log[r][j])
    BY DEF Ahead
  <2> QED
    BY <2>1, <2>2 DEF Inv, Pipe, PipelineOrdered, Writes
<1> QED
  BY <1>1, ReplicationInvariant, PTL

(* A replica in step misses no write that was answered: it has executed    *)
(* it, or the connection holds it (commands.go:665-688).                   *)
LEMMA AnsweredComes ==
  ASSUME Inv, NEW r \in Replicas, InStep(r), NEW w \in answered
  PROVE  w \in ToSet(log[r]) \cup ToSet(link[r])
<1>1. w \in DOMAIN earlier
  BY DEF Inv, HandsInv, Accounted
<1>2. \A c \in Clients : Turn(c, r) => num[c] # w
  BY DEF Inv, HandsInv, WritersApart, Writing, Turn
<1> QED
  BY <1>1, <1>2 DEF Inv, Pipe, EveryWriteComes

(* A replica that was registered before the first write, and whose         *)
(* handshake no write ran into, has executed every write that was          *)
(* answered, or it is on its way there (commands.go:665-688, 1191-1203).   *)
THEOREM EveryAnsweredWriteComes == Spec => []NoGap
<1>1. Inv => NoGap
  BY AnsweredComes DEF NoGap
<1> QED
  BY <1>1, ReplicationInvariant, PTL

(* Every variable keeps its type, for AckChan its capacity, and            *)
(* GlobalOffset counts every answered write unless propagations overlapped *)
(* (commands.go:1192, 1202).                                               *)
THEOREM GlobalOffsetCounts == Spec => []OffsetCountsWrites
<1>1. Inv => OffsetCountsWrites
  <2> SUFFICES ASSUME Inv PROVE OffsetCountsWrites
    OBVIOUS
  <2>1. ~overlapped => Cardinality(answered) <= GlobalOffset
    BY AnsweredAdded DEF Inv
  <2>2. Cardinality(answered) \in Nat /\ GlobalOffset \in Nat
    BY AnsweredAdded, Bounds DEF Inv, Types, TypeOK
  <2> QED
    BY <2>1, <2>2 DEF OffsetCountsWrites, Inv, Types
<1> QED
  BY <1>1, ReplicationInvariant, PTL

(* A WAIT does not sleep while enough replicas have acknowledged, unless   *)
(* another WAIT took its token (commands.go:635-662).                      *)
THEOREM SleepsForAReason == Spec => []NoOversleep
<1>1. Inv => NoOversleep
  BY DEF Inv, WaitInv
<1> QED
  BY <1>1, ReplicationInvariant, PTL

(* Without overlapping writes, a replica in step has executed the first    *)
(* writes there are, as many as its log is long.                           *)
LEMMA LogIsInitial ==
  ASSUME Inv, ~overlapped, NEW r \in Replicas, InStep(r)
  PROVE  /\ Initial(ToSet(log[r])) /\ ToSet(log[r]) \subseteq Writes
         /\ IsFiniteSet(ToSet(log[r])) /\ Cardinality(ToSet(log[r])) >= Len(log[r])
<1> DEFINE L == ToSet(log[r])
<1>1. /\ log[r] \in Seq(Writes) /\ Len(log[r]) \in Nat /\ DOMAIN log[r] = 1..Len(log[r])
      /\ \A i \in DOMAIN log[r] : log[r][i] \in Writes
  <2>1. log[r] \in Seq(Writes)
    BY DEF Inv, Types, TypeOK, Writes
  <2> QED
    BY <2>1, LenProperties
<1>2. L \subseteq Writes /\ L \subseteq DOMAIN earlier
  BY <1>1 DEF Inv, Pipe, SentOnce, ToSet
<1>3. IsFiniteSet(L) /\ Cardinality(L) \in Nat
  BY <1>2, AddedTypes DEF Inv
<1>4. Initial(L)
  <2> SUFFICES ASSUME NEW w \in L, NEW v \in 1..w PROVE v \in L
    BY DEF Initial
  <2>1. w \in DOMAIN earlier /\ w \in Nat /\ w \in Writes
    BY <1>2, StartedTypes DEF Inv
  <2>2. CASE v = w
    BY <2>2
  <2>3. CASE v # w
    <3>1. v \in 1..(w - 1) /\ v \in Writes
      BY <2>1, <2>3, Bounds DEF Writes
    <3>2. v \in earlier[w]
      BY <2>1, <3>1 DEF Inv, HandsInv, OneByOne
    <3>3. v \in answered
      BY <2>1, <3>2 DEF Inv, HandsInv, EarlierAnswered
    <3>4. v \notin ToSet(link[r])
      <4>1. v \in ToSet(link[r]) => Ahead(log[r], link[r], w, v)
        BY DEF Ahead
      <4> QED
        BY <2>1, <3>1, <3>2, <4>1 DEF Inv, Pipe, PipelineOrdered, Writes
    <3> QED
      BY <3>3, <3>4, AnsweredComes
  <2> QED
    BY <2>2, <2>3
<1>5. ASSUME Cardinality(L) < Len(log[r]) PROVE FALSE
  <2>1. IsFiniteSet(1..Len(log[r])) /\ Cardinality(1..Len(log[r])) = Len(log[r])
    <3>1. /\ IsFiniteSet(1..Len(log[r]))
          /\ Cardinality(1..Len(log[r]))
               = IF 1 > Len(log[r]) THEN 0 ELSE Len(log[r]) - 1 + 1
      BY <1>1, FS_Interval
    <3> QED
      BY <1>1, <3>1
  <2>2. log[r] \in [1..Len(log[r]) -> L]
    BY <1>1 DEF ToSet
  <2> HIDE DEF L
  <2>3. PICK i, j \in 1..Len(log[r]) : i # j /\ log[r][i] = log[r][j]
    BY <1>3, <1>5, <2>1, <2>2, FS_PigeonHole
  <2>4. i < j \/ j < i
    BY <2>3
  <2>5. Ahead(log[r], link[r], log[r][i], log[r][i])
    BY <1>1, <2>3, <2>4 DEF Ahead
  <2> QED
    BY <1>1, <2>5 DEF Inv, Pipe, PipelineOrdered, Writes
<1> QED
  BY <1>1, <1>2, <1>3, <1>4, <1>5

(* Of two initial sets one holds the other.                                *)
LEMMA InitialDifference ==
  ASSUME NEW W, NEW L, W \subseteq Writes, L \subseteq Writes, Initial(W), Initial(L)
  PROVE  /\ IsFiniteSet(W) /\ IsFiniteSet(L) /\ Cardinality(W) \in Nat /\ Cardinality(L) \in Nat
         /\ Cardinality(W \ L) \in Nat
         /\ \/ Cardinality(W \ L) = 0
            \/ Cardinality(W \ L) = Cardinality(W) - Cardinality(L)
<1>1. IsFiniteSet(Writes)
  BY Bounds, FS_Interval DEF Writes
<1>2. /\ IsFiniteSet(W) /\ IsFiniteSet(L) /\ Cardinality(W) \in Nat /\ Cardinality(L) \in Nat
      /\ IsFiniteSet(W \ L) /\ Cardinality(W \ L) \in Nat
  <2>1. IsFiniteSet(W) /\ IsFiniteSet(L) /\ IsFiniteSet(W \ L)
    <3>1. W \ L \subseteq Writes
      OBVIOUS
    <3> QED
      BY <1>1, <3>1, FS_Subset
  <2> QED
    BY <2>1, FS_CardinalityType
<1>3. CASE W \subseteq L
  <2>1. W \ L = {}
    BY <1>3
  <2> QED
    BY <1>2, <2>1, FS_EmptySet
<1>4. CASE ~(W \subseteq L)
  <2>1. PICK x \in W : x \notin L
    BY <1>4
  <2>2. \A y \in L : y \in 1..x
    <3> SUFFICES ASSUME NEW y \in L, ~(y \in 1..x) PROVE FALSE
      OBVIOUS
    <3>1. x \in Nat /\ x > 0 /\ y \in Nat /\ y > 0
      BY <2>1, Bounds DEF Writes
    <3>2. x \in 1..y
      BY <3>1
    <3> QED
      BY <2>1, <3>2 DEF Initial
  <2>3. L \subseteq W
    BY <2>1, <2>2 DEF Initial
  <2>4. W \cap L = L
    BY <2>3
  <2>5. Cardinality(W \ L) = Cardinality(W) - Cardinality(W \cap L)
    BY <1>2, FS_Difference
  <2> QED
    BY <1>2, <2>4, <2>5
<1> QED
  BY <1>3, <1>4

(* WAIT counts a replica that misses writes only as far as its offset was  *)
(* swollen by other commands (commands.go:1171-1175).                      *)
THEOREM WaitClaimsLittle == Spec => []WaitMissesAtMostCredit
<1>1. Inv => WaitMissesAtMostCredit
  <2> SUFFICES ASSUME Inv, ~overlapped, NEW c \in Clients, NEW r \in claim[c].counted, InStep(r)
               PROVE  Missing(r, claim[c].writes) <= ackCredit[r]
    BY DEF WaitMissesAtMostCredit
  <2> DEFINE W == claim[c].writes
             L == ToSet(log[r])
  <2>1. r \in Replicas /\ W \subseteq Writes
    BY DEF Inv, Types, Claims, Writes
  <2>2. Initial(W) /\ Cardinality(W) <= Len(log[r]) + ackCredit[r]
    BY DEF Inv, WaitInv, ClaimsBacked
  <2>3. Initial(L) /\ L \subseteq Writes /\ Cardinality(L) >= Len(log[r])
    BY <2>1, LogIsInitial
  <2>4. Len(log[r]) \in Nat /\ ackCredit[r] \in Nat
    BY <2>1, OffsetTypes DEF Inv
  <2> HIDE DEF W, L
  <2>5. /\ Cardinality(W) \in Nat /\ Cardinality(L) \in Nat /\ Cardinality(W \ L) \in Nat
        /\ \/ Cardinality(W \ L) = 0
           \/ Cardinality(W \ L) = Cardinality(W) - Cardinality(L)
    BY <2>1, <2>2, <2>3, InitialDifference
  <2>6. Cardinality(W \ L) <= ackCredit[r]
    BY <2>2, <2>3, <2>4, <2>5
  <2> QED
    BY <2>6 DEF Missing, W, L
<1> QED
  BY <1>1, ReplicationInvariant, PTL
=============================================================================
