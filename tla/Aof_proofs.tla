----------------------------- MODULE Aof_proofs ------------------------------
(***************************************************************************)
(* Proofs about module Aof: what was answered is there again after a       *)
(* restart, the first restart brings back the list the crash left, and a   *)
(* restart doubles the log, and what is executed of it, at most.           *)
(***************************************************************************)
EXTENDS Aof, SequenceFacts

Records == [id : Ids, whole : BOOLEAN]
Requests == [kind : Kinds, link : BOOLEAN, born : Nat]
Places == {"closed", "joining", "rebuilding", "idle", "writing", "executing", "popping", "blocked"}
Busy(c) == pc[c] \in {"writing", "executing", "popping", "blocked"}

(* The types of what the argument looks at.                                *)
ProcessTypes ==
  /\ waiters \in Seq(Conns)
  /\ done \in BOOLEAN /\ skipped \in BOOLEAN
  /\ rebuilder \in Clients \cup {Nobody}
  /\ data \in Seq(Records)
  /\ applied \in [Ids -> Nat]
ConnTypes ==
  /\ pc \in [Conns -> Places]
  /\ cmd \in [Conns -> Ids \cup {0}]
  /\ aofBuffer \in [Conns -> Seq(Ids)]
LogTypes ==
  /\ file \in Seq(Records)
  /\ issued \in Seq(Requests) /\ Len(issued) <= MaxCommands
  /\ crashes \in Nat

(* What is written, read or at work was issued.                            *)
OnlyIssued ==
  /\ \A n \in DOMAIN file : file[n].id \in DOMAIN issued
  /\ \A n \in DOMAIN data : data[n].id \in DOMAIN issued
  /\ \A c \in Conns : \A n \in DOMAIN aofBuffer[c] : aofBuffer[c][n] \in DOMAIN issued
  /\ \A c \in Conns : Busy(c) => cmd[c] \in DOMAIN issued

(* What was answered is an RPUSH of a client.                              *)
OnlyPushes ==
  \A i \in answered : i \in DOMAIN issued /\ issued[i].kind = "rpush" /\ ~issued[i].link

(* What a connection may be at.  Only the one that rebuilds works on       *)
(* commands of others; links log their own alone, and never wait for it.   *)
Handlers ==
  /\ rebuilder # Nobody => ~done /\ (pc[rebuilder] = "rebuilding" \/ Busy(rebuilder))
  /\ \A c \in Conns : pc[c] = "rebuilding" => rebuilder = c
  /\ \A c \in Conns : pc[c] = "blocked" => issued[cmd[c]].kind # "rpush"
  /\ \A c \in Clients : Busy(c) /\ rebuilder # c => ~issued[cmd[c]].link
  /\ \A c \in Links : pc[c] # "joining"
  /\ \A c \in Links : \A n \in DOMAIN aofBuffer[c] : issued[aofBuffer[c][n]].link

(* Whoever waits is blocked, and waits once.                               *)
Queue ==
  /\ \A n \in DOMAIN waiters : pc[waiters[n]] = "blocked"
  /\ \A m, n \in DOMAIN waiters : m # n => waiters[m] # waiters[n]

(* A command has a record, will have one, or counts as lost.               *)
Kept == \A i \in DOMAIN issued : i \in lost \/ i \in IdsOf(file) \/ i \in Buffered

(* Before the rebuild is over, clients wait and have nothing to write.     *)
Quiet ==
  ~done => \A c \in Clients : c # rebuilder => pc[c] = "joining" /\ aofBuffer[c] = <<>>

(* During a rebuild, what was answered is there, is still to be read, or   *)
(* is what the rebuild is at.                                              *)
AtWork(i) == cmd[rebuilder] = i /\ pc[rebuilder] \in {"writing", "executing"}
Replaying ==
  rebuilder # Nobody =>
    \A i \in answered :
      \/ applied[i] > 0 \/ i \in lost \/ BehindACut(i)
      \/ i \in Readable(data) \/ AtWork(i)

Types == ProcessTypes /\ ConnTypes /\ LogTypes
Control == OnlyIssued /\ OnlyPushes /\ Handlers /\ Queue /\ Quiet
LogInv == Types /\ Control /\ Kept /\ Replaying /\ AnsweredIsRestored

-----------------------------------------------------------------------------
(* Records and buffers.                                                    *)

LEMMA InIdsOf ==
  ASSUME NEW s \in Seq(Records), NEW i
  PROVE  i \in IdsOf(s) <=> \E n \in DOMAIN s : s[n].whole /\ s[n].id = i
BY DEF IdsOf, Range

LEMMA InReadable ==
  ASSUME NEW s \in Seq(Records), NEW i
  PROVE  i \in Readable(s) <=>
           \E n \in DOMAIN s : s[n].id = i /\ \A k \in 1..n : s[k].whole
BY DEF Readable

LEMMA InBuffered ==
  ASSUME NEW i
  PROVE  i \in Buffered <=> \E c \in Conns : \E n \in DOMAIN aofBuffer[c] : aofBuffer[c][n] = i
BY DEF Buffered, Range

(* A record more: its command is in the file, and so is what was.          *)
LEMMA AppendIds ==
  ASSUME NEW s \in Seq(Records), NEW r \in Records, NEW i
  PROVE  /\ Append(s, r) \in Seq(Records)
         /\ i \in IdsOf(Append(s, r)) <=> i \in IdsOf(s) \/ (r.whole /\ r.id = i)
<1> DEFINE t == Append(s, r)
<1>1. /\ t \in Seq(Records) /\ Len(t) = Len(s) + 1 /\ t[Len(s) + 1] = r
      /\ \A n \in 1..Len(s) : t[n] = s[n]
      /\ DOMAIN t = 1..(Len(s) + 1) /\ DOMAIN s = 1..Len(s)
  OBVIOUS
<1> HIDE DEF t
<1>2. i \in IdsOf(t) <=> \E n \in DOMAIN t : t[n].whole /\ t[n].id = i
  BY <1>1, InIdsOf
<1>3. i \in IdsOf(s) <=> \E n \in DOMAIN s : s[n].whole /\ s[n].id = i
  BY InIdsOf
<1> QED
  BY <1>1, <1>2, <1>3 DEF t

(* What stands behind a cut stays behind it, whatever is written.          *)
LEMMA CutStays ==
  ASSUME NEW s \in Seq(Records), NEW r \in Records, NEW i \in IdsOf(s) \ Readable(s)
  PROVE  i \in IdsOf(Append(s, r)) \ Readable(Append(s, r))
<1> DEFINE t == Append(s, r)
<1>1. /\ t \in Seq(Records) /\ Len(s) \in Nat /\ t[Len(s) + 1] = r
      /\ \A n \in 1..Len(s) : t[n] = s[n]
      /\ DOMAIN t = 1..(Len(s) + 1) /\ DOMAIN s = 1..Len(s)
  OBVIOUS
<1> HIDE DEF t
<1>2. i \in IdsOf(t)
  BY AppendIds DEF t
<1>3. ASSUME NEW m \in DOMAIN t, t[m].id = i, \A k \in 1..m : t[k].whole
      PROVE  FALSE
  <2>1. PICK n \in DOMAIN s : s[n].whole /\ s[n].id = i
    BY InIdsOf
  <2>2. CASE m \in 1..Len(s)
    <3>1. s[m].id = i /\ \A k \in 1..m : s[k].whole
      BY <1>1, <1>3, <2>2
    <3> QED
      BY <1>1, <2>2, <3>1, InReadable
  <2>3. CASE m = Len(s) + 1
    <3>1. \A k \in 1..n : s[k].whole
      BY <1>1, <1>3, <2>1, <2>3
    <3> QED
      BY <2>1, <3>1, InReadable
  <2> QED
    BY <1>1, <2>2, <2>3
<1>4. i \notin Readable(t)
  BY <1>1, <1>3, InReadable
<1> QED
  BY <1>2, <1>4 DEF t

(* Reading one record: the rest can be read as before.                     *)
LEMMA TailReads ==
  ASSUME NEW s \in Seq(Records), s # <<>>, NEW i \in Readable(s)
  PROVE  i = Head(s).id \/ i \in Readable(Tail(s))
<1> DEFINE t == Tail(s)
<1>1. /\ t \in Seq(Records) /\ Len(s) \in Nat \ {0} /\ Head(s) = s[1]
      /\ \A n \in 1..(Len(s) - 1) : t[n] = s[n + 1]
      /\ DOMAIN t = 1..(Len(s) - 1) /\ DOMAIN s = 1..Len(s)
  OBVIOUS
<1> HIDE DEF t
<1>2. PICK n \in DOMAIN s : s[n].id = i /\ \A k \in 1..n : s[k].whole
  BY InReadable
<1>3. CASE n = 1
  BY <1>1, <1>2, <1>3
<1>4. CASE n # 1
  <2>1. n - 1 \in DOMAIN t /\ t[n - 1].id = i
    BY <1>1, <1>2, <1>4
  <2>2. \A k \in 1..(n - 1) : t[k].whole
    BY <1>1, <1>2, <1>4
  <2> QED
    BY <1>1, <2>1, <2>2, InReadable DEF t
<1> QED
  BY <1>3, <1>4

(* The replay stops at a cut.                                              *)
LEMMA NothingLeft ==
  ASSUME NEW s \in Seq(Records), s # <<>> => ~Head(s).whole
  PROVE  Readable(s) = {}
<1>1. ASSUME NEW n \in DOMAIN s, \A k \in 1..n : s[k].whole
      PROVE  FALSE
  <2>1. s # <<>> /\ 1 \in 1..n /\ Head(s) = s[1]
    BY <1>1
  <2> QED
    BY <1>1, <2>1
<1> QED
  BY <1>1, InReadable

(* A connection that gives up waiting leaves the others in the queue.      *)
LEMMA LeavesQueue ==
  ASSUME NEW q \in Seq(Conns), NEW n \in DOMAIN q,
         \A i, j \in DOMAIN q : i # j => q[i] # q[j]
  PROVE  LET r == RemoveAt(q, n)
         IN  /\ r \in Seq(Conns)
             /\ \A i \in DOMAIN r : r[i] # q[n] /\ \E m \in DOMAIN q : r[i] = q[m]
             /\ \A i, j \in DOMAIN r : i # j => r[i] # r[j]
<1> DEFINE a == SubSeq(q, 1, n - 1)
           b == SubSeq(q, n + 1, Len(q))
           r == a \o b
<1>0. DOMAIN q = 1..Len(q) /\ Len(q) \in Nat /\ n \in 1..Len(q)
  OBVIOUS
<1>1. /\ a \in Seq(Conns) /\ Len(a) = n - 1
      /\ \A i \in 1..(n - 1) : a[i] = q[i]
  <2>1. n - 1 \in Int /\ \A i \in 1..(n - 1) : q[i] \in Conns
    BY <1>0
  <2> QED
    BY <1>0, <2>1, SubSeqProperties
<1>2. /\ b \in Seq(Conns) /\ Len(b) = Len(q) - n
      /\ \A i \in 1..(Len(q) - n) : b[i] = q[i + n]
  <2>1. n + 1 \in Int /\ \A i \in (n + 1)..Len(q) : q[i] \in Conns
    BY <1>0
  <2> QED
    BY <1>0, <2>1, SubSeqProperties
<1> HIDE DEF a, b
<1>3. /\ r \in Seq(Conns) /\ DOMAIN r = 1..(Len(q) - 1)
      /\ \A i \in 1..(Len(q) - 1) : r[i] = IF i < n THEN q[i] ELSE q[i + 1]
  <2>1. /\ r \in Seq(Conns) /\ Len(r) = Len(a) + Len(b)
        /\ \A i \in 1..(Len(a) + Len(b)) :
             r[i] = IF i <= Len(a) THEN a[i] ELSE b[i - Len(a)]
    BY <1>1, <1>2, ConcatProperties
  <2>2. ASSUME NEW i \in 1..(Len(q) - 1)
        PROVE  r[i] = IF i < n THEN q[i] ELSE q[i + 1]
    <3>1. CASE i < n
      BY <1>0, <1>1, <1>2, <2>1, <3>1
    <3>2. CASE ~(i < n)
      <4>1. i - (n - 1) \in 1..(Len(q) - n) /\ i \in 1..(Len(a) + Len(b)) /\ ~(i <= Len(a))
        BY <1>0, <1>1, <1>2, <3>2
      <4>2. r[i] = b[i - (n - 1)]
        BY <1>1, <2>1, <4>1
      <4>3. b[i - (n - 1)] = q[(i - (n - 1)) + n]
        BY <1>2, <4>1
      <4> QED
        BY <1>0, <3>2, <4>2, <4>3
    <3> QED
      BY <3>1, <3>2
  <2> HIDE DEF r
  <2>3. Len(r) = Len(q) - 1
    BY <1>0, <1>1, <1>2, <2>1
  <2>4. r \in Seq(Conns)
    BY <2>1
  <2>5. DOMAIN r = 1..(Len(q) - 1)
    BY <2>3, <2>4
  <2> QED
    BY <2>2, <2>4, <2>5
<1>4. RemoveAt(q, n) = r
  BY DEF RemoveAt, a, b
<1> HIDE DEF r
<1>5. ASSUME NEW i \in DOMAIN r
      PROVE  \E m \in DOMAIN q : m # n /\ r[i] = q[m] /\ m = IF i < n THEN i ELSE i + 1
  BY <1>0, <1>3
<1>6. ASSUME NEW i \in DOMAIN r, NEW j \in DOMAIN r, i # j
      PROVE  r[i] # r[j]
  <2>1. PICK m \in DOMAIN q : m # n /\ r[i] = q[m] /\ m = IF i < n THEN i ELSE i + 1
    BY <1>5
  <2>2. PICK k \in DOMAIN q : k # n /\ r[j] = q[k] /\ k = IF j < n THEN j ELSE j + 1
    BY <1>5
  <2>3. m # k
    BY <1>0, <1>3, <1>6, <2>1, <2>2
  <2> QED
    BY <2>1, <2>2, <2>3
<1> QED
  BY <1>3, <1>4, <1>5, <1>6

-----------------------------------------------------------------------------
LEMMA Apart == Clients \cap Links = {} /\ Nobody \notin Conns /\ Conns = Clients \cup Links
BY AofAssumption DEF Conns

(* Steps that change neither the records nor what was answered.            *)
SameRecords == UNCHANGED <<file, aofBuffer, issued, answered, lost, applied>>
LEMMA RecordsStay ==
  ASSUME SameRecords
  PROVE  /\ Kept => Kept'
         /\ OnlyPushes => OnlyPushes'
         /\ \A i : BehindACut(i)' = BehindACut(i)
<1>1. Buffered' = Buffered
  BY DEF SameRecords, Buffered
<1>2. Kept => Kept'
  BY <1>1 DEF SameRecords, Kept
<1>3. OnlyPushes => OnlyPushes'
  BY DEF SameRecords, OnlyPushes
<1>4. \A i : BehindACut(i)' = BehindACut(i)
  BY DEF SameRecords, BehindACut
<1> QED
  BY <1>2, <1>3, <1>4

(* A replica's link to its master opens.                                   *)
LEMMA LinkConnectsHolds ==
  ASSUME LogInv, NEW c \in Conns, LinkConnects(c)
  PROVE  LogInv'
<1> USE DEF LogInv, Types, Control
<1>1. /\ c \in Links /\ pc[c] = "closed" /\ pc' = [pc EXCEPT ![c] = "idle"]
      /\ SameRecords /\ UNCHANGED <<waiters, done, rebuilder, data, cmd, crashes, skipped>>
  BY DEF LinkConnects, processVars, historyVars, SameRecords
<1>2. Types'
  BY <1>1 DEF ProcessTypes, ConnTypes, LogTypes, Places, SameRecords
<1>3. OnlyIssued'
  BY <1>1 DEF OnlyIssued, Busy, ConnTypes, SameRecords
<1>4. Handlers'
  BY <1>1, Apart DEF Handlers, Busy, ConnTypes, ProcessTypes, SameRecords
<1>5. Queue'
  BY <1>1 DEF Queue, ConnTypes, ProcessTypes
<1>6. Quiet'
  BY <1>1, Apart DEF Quiet, ConnTypes, SameRecords
<1>7. Kept' /\ OnlyPushes'
  BY <1>1, RecordsStay
<1>8. Replaying'
  BY <1>1, RecordsStay, Apart DEF Replaying, AtWork, ConnTypes, ProcessTypes, SameRecords
<1>9. AnsweredIsRestored'
  BY <1>1, RecordsStay DEF AnsweredIsRestored, SameRecords
<1> QED
  BY <1>2, <1>3, <1>4, <1>5, <1>6, <1>7, <1>8, <1>9

(* A rebuild starts, or is found to be over.                               *)
LEMMA JoinsHolds ==
  ASSUME LogInv, NEW c \in Conns, Joins(c)
  PROVE  LogInv'
<1> USE DEF LogInv, Types, Control
<1>1. /\ pc[c] = "joining" /\ rebuilder = Nobody /\ SameRecords
      /\ UNCHANGED <<waiters, done, cmd, crashes, skipped>>
  BY DEF Joins, SameRecords
<1>2. CASE done
  <2>1. pc' = [pc EXCEPT ![c] = "idle"] /\ UNCHANGED <<rebuilder, data>>
    BY <1>2 DEF Joins
  <2>2. Types'
    BY <1>1, <2>1 DEF ProcessTypes, ConnTypes, LogTypes, Places, SameRecords
  <2>3. OnlyIssued'
    BY <1>1, <2>1 DEF OnlyIssued, Busy, ConnTypes, SameRecords
  <2>4. Handlers'
    BY <1>1, <2>1 DEF Handlers, Busy, ConnTypes, ProcessTypes, SameRecords
  <2>5. Queue'
    BY <1>1, <2>1 DEF Queue, ConnTypes, ProcessTypes
  <2>6. Quiet'
    BY <1>1, <1>2 DEF Quiet
  <2>7. Replaying'
    BY <1>1, <2>1 DEF Replaying
  <2>8. AnsweredIsRestored'
    BY <1>1, RecordsStay DEF AnsweredIsRestored, SameRecords
  <2> QED
    BY <1>1, <2>2, <2>3, <2>4, <2>5, <2>6, <2>7, <2>8, RecordsStay
<1>3. CASE ~done
  <2>1. pc' = [pc EXCEPT ![c] = "rebuilding"] /\ rebuilder' = c /\ data' = file
    BY <1>3 DEF Joins, ReadAll
  <2>a. c \in Clients
    BY <1>1, Apart DEF Handlers
  <2>2. Types'
    BY <1>1, <2>1, <2>a DEF ProcessTypes, ConnTypes, LogTypes, Places, SameRecords
  <2>3. OnlyIssued'
    BY <1>1, <2>1 DEF OnlyIssued, Busy, ConnTypes, SameRecords
  <2>4. Handlers'
    BY <1>1, <1>3, <2>1, Apart DEF Handlers, Busy, ConnTypes, ProcessTypes, SameRecords
  <2>5. Queue'
    BY <1>1, <2>1 DEF Queue, ConnTypes, ProcessTypes
  <2>6. Quiet'
    BY <1>1, <1>3, <2>1, Apart DEF Quiet, ConnTypes, SameRecords
  <2>7. ASSUME NEW i \in answered
        PROVE  i \in lost \/ i \in IdsOf(file)
    <3>1. i \notin Buffered
      BY <1>1, <1>3, Apart, InBuffered DEF Quiet, OnlyPushes, Handlers
    <3> QED
      BY <3>1 DEF Kept, OnlyPushes
  <2>8. Replaying'
    BY <1>1, <2>1, <2>7, RecordsStay DEF Replaying, BehindACut, SameRecords
  <2>9. AnsweredIsRestored'
    BY <1>1, <1>3 DEF AnsweredIsRestored
  <2> QED
    BY <1>1, <2>2, <2>3, <2>4, <2>5, <2>6, <2>8, <2>9, RecordsStay
<1> QED
  BY <1>2, <1>3

(* The end of a client's connection.                                       *)
LEMMA ReconnectsHolds ==
  ASSUME LogInv, NEW c \in Conns, Reconnects(c)
  PROVE  LogInv'
<1> USE DEF LogInv, Types, Control
<1>1. /\ c \in Clients /\ pc[c] = "idle" /\ pc' = [pc EXCEPT ![c] = "joining"]
      /\ aofBuffer' = [aofBuffer EXCEPT ![c] = <<>>]
      /\ lost' = lost \cup (Range(aofBuffer[c]) \ IdsOf(file))
      /\ UNCHANGED <<file, waiters, done, rebuilder, data, cmd, issued, answered, applied,
                     crashes, skipped>>
  BY DEF Reconnects, processVars
<1>2. rebuilder # c
  BY <1>1, Apart DEF Handlers, Busy
<1>3. Types'
  BY <1>1 DEF ProcessTypes, ConnTypes, LogTypes, Places
<1>4. OnlyIssued'
  BY <1>1 DEF OnlyIssued, Busy, ConnTypes
<1>5. Handlers'
  BY <1>1, <1>2, Apart DEF Handlers, Busy, ConnTypes, ProcessTypes
<1>6. Queue'
  BY <1>1 DEF Queue, ConnTypes, ProcessTypes
<1>7. Quiet'
  BY <1>1, Apart DEF Quiet, ConnTypes
<1>8. Kept'
  <2>1. ASSUME NEW i \in Buffered
        PROVE  i \in lost' \/ i \in IdsOf(file) \/ i \in Buffered'
    <3>1. PICK d \in Conns : \E n \in DOMAIN aofBuffer[d] : aofBuffer[d][n] = i
      BY InBuffered
    <3>2. CASE d = c
      BY <1>1, <3>1, <3>2 DEF Range
    <3>3. CASE d # c
      BY <1>1, <3>1, <3>3 DEF Buffered, Range, ConnTypes
    <3> QED
      BY <3>2, <3>3
  <2> QED
    BY <1>1, <2>1 DEF Kept
<1>9. Replaying'
  BY <1>1, <1>2, Apart DEF Replaying, AtWork, ConnTypes, ProcessTypes, BehindACut
<1>10. AnsweredIsRestored' /\ OnlyPushes'
  BY <1>1 DEF AnsweredIsRestored, BehindACut, OnlyPushes
<1> QED
  BY <1>3, <1>4, <1>5, <1>6, <1>7, <1>8, <1>9, <1>10

(* The file cannot be opened for the rebuild.                              *)
LEMMA JoinFailsHolds ==
  ASSUME LogInv, NEW c \in Conns, JoinFails(c)
  PROVE  LogInv'
<1> USE DEF LogInv, Types, Control
<1>1. /\ pc[c] = "joining" /\ rebuilder = Nobody /\ pc' = [pc EXCEPT ![c] = "idle"]
      /\ done' = TRUE /\ skipped' = TRUE /\ SameRecords
      /\ UNCHANGED <<waiters, rebuilder, data, cmd, crashes>>
  BY DEF JoinFails, SameRecords
<1>2. Types'
  BY <1>1 DEF ProcessTypes, ConnTypes, LogTypes, Places, SameRecords
<1>3. OnlyIssued'
  BY <1>1 DEF OnlyIssued, Busy, ConnTypes, SameRecords
<1>4. Handlers'
  BY <1>1 DEF Handlers, Busy, ConnTypes, ProcessTypes, SameRecords
<1>5. Queue'
  BY <1>1 DEF Queue, ConnTypes, ProcessTypes
<1>6. Quiet' /\ Replaying' /\ AnsweredIsRestored'
  BY <1>1 DEF Quiet, Replaying, AnsweredIsRestored
<1> QED
  BY <1>1, <1>2, <1>3, <1>4, <1>5, <1>6, RecordsStay

(* The rebuild ends.                                                       *)
LEMMA ReplayEndsHolds ==
  ASSUME LogInv, NEW c \in Conns, ReplayEnds(c)
  PROVE  LogInv'
<1> USE DEF LogInv, Types, Control
<1>1. /\ pc[c] = "rebuilding" /\ (data # <<>> => ~Head(data).whole)
      /\ pc' = [pc EXCEPT ![c] = "idle"] /\ done' = TRUE /\ rebuilder' = Nobody
      /\ data' = <<>> /\ SameRecords /\ UNCHANGED <<waiters, cmd, crashes, skipped>>
  BY DEF ReplayEnds, NowDone, Unlocked, historyVars, SameRecords
<1>2. rebuilder = c
  BY <1>1 DEF Handlers
<1>3. Types'
  BY <1>1 DEF ProcessTypes, ConnTypes, LogTypes, Places, SameRecords
<1>4. OnlyIssued'
  BY <1>1 DEF OnlyIssued, Busy, ConnTypes, SameRecords
<1>5. Handlers'
  BY <1>1, <1>2, Apart DEF Handlers, Busy, ConnTypes, ProcessTypes, SameRecords
<1>6. Queue'
  BY <1>1 DEF Queue, ConnTypes, ProcessTypes
<1>7. Quiet' /\ Replaying'
  BY <1>1 DEF Quiet, Replaying
<1>8. Readable(data) = {}
  BY <1>1, NothingLeft DEF ProcessTypes
<1>9. AnsweredIsRestored'
  BY <1>1, <1>2, <1>8, RecordsStay, Apart
  DEF AnsweredIsRestored, Replaying, AtWork, SameRecords
<1> QED
  BY <1>1, <1>3, <1>4, <1>5, <1>6, <1>7, <1>9, RecordsStay

-----------------------------------------------------------------------------
(* Logging a command puts it at the end of the buffer.                     *)
LEMMA LogsBuffer ==
  ASSUME ConnTypes, NEW c \in Conns, NEW i \in Ids, Logs(c, i)
  PROVE  /\ aofBuffer' \in [Conns -> Seq(Ids)]
         /\ \A d \in Conns \ {c} : aofBuffer'[d] = aofBuffer[d]
         /\ \A n \in DOMAIN aofBuffer'[c] :
              aofBuffer'[c][n] = i \/ \E m \in DOMAIN aofBuffer[c] : aofBuffer'[c][n] = aofBuffer[c][m]
         /\ \A j : j \in Buffered \/ j = i => j \in Buffered'
<1> DEFINE b == aofBuffer[c]
           t == Append(b, i)
<1>1. aofBuffer' = [aofBuffer EXCEPT ![c] = t]
  BY DEF Logs
<1>2. b \in Seq(Ids)
  BY DEF ConnTypes
<1>3. /\ t \in Seq(Ids) /\ DOMAIN b = 1..Len(b) /\ DOMAIN t = 1..(Len(b) + 1) /\ Len(b) \in Nat
      /\ t[Len(b) + 1] = i /\ \A n \in 1..Len(b) : t[n] = b[n]
  BY <1>2
<1> HIDE DEF b, t
<1>4. aofBuffer'[c] = t /\ \A d \in Conns \ {c} : aofBuffer'[d] = aofBuffer[d]
  BY <1>1 DEF ConnTypes
<1>5. aofBuffer' \in [Conns -> Seq(Ids)]
  BY <1>1, <1>3 DEF ConnTypes
<1>6. \A n \in DOMAIN t : t[n] = i \/ \E m \in DOMAIN b : t[n] = b[m]
  BY <1>3
<1>7. ASSUME NEW j, j \in Buffered \/ j = i
      PROVE  j \in Buffered'
  <2>1. CASE j = i
    <3>1. i \in Range(t)
      BY <1>3 DEF Range
    <3> QED
      BY <1>4, <2>1, <3>1 DEF Buffered
  <2>2. CASE j \in Buffered
    <3>1. PICK d \in Conns : \E n \in DOMAIN aofBuffer[d] : aofBuffer[d][n] = j
      BY <2>2, InBuffered
    <3>2. j \in Range(aofBuffer'[d])
      <4>1. CASE d = c
        BY <1>3, <1>4, <3>1, <4>1 DEF Range, b
      <4>2. CASE d # c
        BY <1>4, <3>1, <4>2 DEF Range
      <4> QED
        BY <4>1, <4>2
    <3> QED
      BY <3>2 DEF Buffered
  <2> QED
    BY <1>7, <2>1, <2>2
<1> QED
  BY <1>4, <1>5, <1>6, <1>7 DEF b

(* A client, or a link, sends a command.                                   *)
LEMMA IssuesHolds ==
  ASSUME LogInv, NEW c \in Conns, NEW kind \in Kinds, Issues(c, kind)
  PROVE  LogInv'
<1> DEFINE i == Len(issued) + 1
           r == [kind |-> kind, link |-> c \in Links, born |-> crashes]
<1> USE DEF LogInv, Types, Control
<1>1. /\ pc[c] = "idle" /\ Len(issued) < MaxCommands /\ issued' = Append(issued, r)
      /\ Logs(c, i)
      /\ UNCHANGED <<file, waiters, done, rebuilder, data, answered, lost, applied,
                     crashes, skipped>>
  BY DEF Issues, processVars
<1>2. i \in Ids /\ r \in Requests
  BY <1>1, AofAssumption DEF LogTypes, Ids, Requests
<1>3. /\ issued' \in Seq(Requests) /\ Len(issued') = Len(issued) + 1
      /\ issued'[i] = r /\ \A n \in DOMAIN issued : issued'[n] = issued[n]
      /\ DOMAIN issued' = DOMAIN issued \cup {i} /\ i \notin DOMAIN issued
  BY <1>1, <1>2 DEF LogTypes
<1>4. /\ cmd' = [cmd EXCEPT ![c] = i]
      /\ pc' = [pc EXCEPT ![c] = "writing"] \/ pc' = [pc EXCEPT ![c] = "executing"]
  BY <1>1 DEF Logs
<1>5. /\ aofBuffer' \in [Conns -> Seq(Ids)]
      /\ \A d \in Conns \ {c} : aofBuffer'[d] = aofBuffer[d]
      /\ \A n \in DOMAIN aofBuffer'[c] :
           aofBuffer'[c][n] = i \/ \E m \in DOMAIN aofBuffer[c] : aofBuffer'[c][n] = aofBuffer[c][m]
      /\ \A j : j \in Buffered \/ j = i => j \in Buffered'
  BY <1>1, <1>2, LogsBuffer
<1> HIDE DEF i
<1>6. rebuilder # c
  BY <1>1, Apart DEF Handlers, Busy
<1>7. Types'
  <2>1. ProcessTypes'
    BY <1>1 DEF ProcessTypes
  <2>2. ConnTypes'
    BY <1>2, <1>4, <1>5 DEF ConnTypes, Places
  <2>3. Len(issued) + 1 <= MaxCommands
    BY <1>1, AofAssumption DEF LogTypes
  <2>4. LogTypes'
    BY <1>1, <1>3, <2>3 DEF LogTypes
  <2> QED
    BY <2>1, <2>2, <2>4
<1>8. OnlyIssued'
  <2>1. \A d \in Conns : \A n \in DOMAIN aofBuffer'[d] : aofBuffer'[d][n] \in DOMAIN issued'
    BY <1>3, <1>5 DEF OnlyIssued
  <2>2. \A d \in Conns : Busy(d)' => cmd'[d] \in DOMAIN issued'
    BY <1>3, <1>4 DEF OnlyIssued, Busy, ConnTypes
  <2> QED
    BY <1>1, <1>3, <2>1, <2>2 DEF OnlyIssued
<1>9. OnlyPushes'
  BY <1>1, <1>3 DEF OnlyPushes
<1>10. Handlers'
  <2>1. rebuilder' # Nobody => ~done' /\ (pc'[rebuilder'] = "rebuilding" \/ Busy(rebuilder)')
    BY <1>1, <1>4, <1>6, Apart DEF Handlers, Busy, ConnTypes, ProcessTypes
  <2>2. /\ \A d \in Conns : pc'[d] = "rebuilding" => rebuilder' = d
        /\ \A d \in Links : pc'[d] # "joining"
    BY <1>1, <1>4, Apart DEF Handlers, ConnTypes
  <2>3. \A d \in Conns : pc'[d] = "blocked" => issued'[cmd'[d]].kind # "rpush"
    BY <1>3, <1>4 DEF Handlers, ConnTypes, OnlyIssued, Busy
  <2>4. \A d \in Clients : Busy(d)' /\ rebuilder' # d => ~issued'[cmd'[d]].link
    <3>1. \A d \in Clients \ {c} : Busy(d)' /\ rebuilder' # d => ~issued'[cmd'[d]].link
      BY <1>1, <1>3, <1>4, Apart DEF Handlers, ConnTypes, OnlyIssued, Busy
    <3>2. cmd'[c] = i /\ issued'[i].link = (c \in Links)
      BY <1>3, <1>4 DEF ConnTypes
    <3> QED
      BY <3>1, <3>2, Apart
  <2>5. \A d \in Links : \A n \in DOMAIN aofBuffer'[d] : issued'[aofBuffer'[d][n]].link
    <3>1. \A d \in Links \ {c} : \A n \in DOMAIN aofBuffer'[d] : issued'[aofBuffer'[d][n]].link
      BY <1>3, <1>5, Apart DEF Handlers, OnlyIssued
    <3>2. issued'[i].link = (c \in Links)
      BY <1>3
    <3>3. ASSUME c \in Links, NEW n \in DOMAIN aofBuffer'[c]
          PROVE  issued'[aofBuffer'[c][n]].link
      <4>1. CASE aofBuffer'[c][n] = i
        BY <3>2, <3>3, <4>1
      <4>2. CASE \E m \in DOMAIN aofBuffer[c] : aofBuffer'[c][n] = aofBuffer[c][m]
        <5>1. PICK m \in DOMAIN aofBuffer[c] : aofBuffer'[c][n] = aofBuffer[c][m]
          BY <4>2
        <5>2. aofBuffer[c][m] \in DOMAIN issued /\ issued[aofBuffer[c][m]].link
          BY <3>3 DEF Handlers, OnlyIssued
        <5> QED
          BY <1>3, <5>1, <5>2
      <4> QED
        BY <1>5, <4>1, <4>2
    <3> QED
      BY <3>1, <3>3
  <2> QED
    BY <2>1, <2>2, <2>3, <2>4, <2>5 DEF Handlers
<1>11. Queue'
  BY <1>1, <1>4 DEF Queue, ConnTypes, ProcessTypes
<1>12. Quiet'
  BY <1>1, <1>4, <1>5, <1>6, Apart DEF Quiet, ConnTypes
<1>13. Kept'
  BY <1>1, <1>3, <1>5 DEF Kept
<1>14. Replaying'
  BY <1>1, <1>4, <1>6, Apart DEF Replaying, AtWork, BehindACut, ConnTypes, ProcessTypes
<1>15. AnsweredIsRestored'
  BY <1>1 DEF AnsweredIsRestored, BehindACut
<1> QED
  BY <1>7, <1>8, <1>9, <1>10, <1>11, <1>12, <1>13, <1>14, <1>15

(* The rebuild takes the next record.                                      *)
LEMMA ReplaysHolds ==
  ASSUME LogInv, NEW c \in Conns, Replays(c)
  PROVE  LogInv'
<1> DEFINE i == Head(data).id
<1> USE DEF LogInv, Types, Control
<1>1. /\ pc[c] = "rebuilding" /\ data # <<>> /\ data' = Tail(data) /\ Logs(c, i)
      /\ UNCHANGED <<file, waiters, done, rebuilder, issued, answered, lost, applied,
                     crashes, skipped>>
  BY DEF Replays
<1>2. rebuilder = c /\ c \in Clients
  BY <1>1, Apart DEF Handlers, ProcessTypes
<1>3. /\ Head(data) \in Records /\ Tail(data) \in Seq(Records)
      /\ Head(data) = data[1] /\ 1 \in DOMAIN data
      /\ \A n \in DOMAIN Tail(data) : n + 1 \in DOMAIN data /\ Tail(data)[n] = data[n + 1]
  BY <1>1 DEF ProcessTypes
<1>4. i \in Ids /\ i \in DOMAIN issued
  BY <1>3 DEF OnlyIssued, Records
<1>5. /\ cmd' = [cmd EXCEPT ![c] = i]
      /\ pc' = [pc EXCEPT ![c] = "writing"] \/ pc' = [pc EXCEPT ![c] = "executing"]
  BY <1>1 DEF Logs
<1>6. /\ aofBuffer' \in [Conns -> Seq(Ids)]
      /\ \A d \in Conns \ {c} : aofBuffer'[d] = aofBuffer[d]
      /\ \A n \in DOMAIN aofBuffer'[c] :
           aofBuffer'[c][n] = i \/ \E m \in DOMAIN aofBuffer[c] : aofBuffer'[c][n] = aofBuffer[c][m]
      /\ \A j : j \in Buffered \/ j = i => j \in Buffered'
  BY <1>1, <1>4, LogsBuffer
<1>7. \A j \in Readable(data) : j = i \/ j \in Readable(data')
  BY <1>1, TailReads DEF ProcessTypes
<1> HIDE DEF i
<1>8. Types'
  BY <1>1, <1>3, <1>4, <1>5, <1>6 DEF ProcessTypes, ConnTypes, LogTypes, Places
<1>9. OnlyIssued'
  <2>1. \A d \in Conns : \A n \in DOMAIN aofBuffer'[d] : aofBuffer'[d][n] \in DOMAIN issued'
    BY <1>1, <1>4, <1>6 DEF OnlyIssued
  <2>2. \A d \in Conns : Busy(d)' => cmd'[d] \in DOMAIN issued'
    BY <1>1, <1>4, <1>5 DEF OnlyIssued, Busy, ConnTypes
  <2> QED
    BY <1>1, <1>3, <2>1, <2>2 DEF OnlyIssued
<1>10. Handlers'
  <2>1. \A d \in Links : \A n \in DOMAIN aofBuffer'[d] : issued'[aofBuffer'[d][n]].link
    BY <1>1, <1>2, <1>6, Apart DEF Handlers
  <2> QED
    BY <1>1, <1>2, <1>5, <2>1, Apart DEF Handlers, Busy, ConnTypes
<1>11. Queue' /\ OnlyPushes'
  BY <1>1, <1>5 DEF Queue, OnlyPushes, ConnTypes, ProcessTypes
<1>12. Quiet'
  BY <1>1, <1>2, <1>5, <1>6, Apart DEF Quiet, ConnTypes
<1>13. Kept'
  BY <1>1, <1>6 DEF Kept
<1>14. Replaying'
  BY <1>1, <1>2, <1>5, <1>7, Apart DEF Replaying, AtWork, BehindACut, ConnTypes
<1>15. AnsweredIsRestored'
  BY <1>1 DEF AnsweredIsRestored, BehindACut
<1> QED
  BY <1>8, <1>9, <1>10, <1>11, <1>12, <1>13, <1>14, <1>15

-----------------------------------------------------------------------------
(* A record of the buffer goes to the file, whole or cut.                  *)
LEMMA WroteHolds ==
  ASSUME LogInv, NEW c \in Conns, aofBuffer[c] # <<>>,
         NEW r \in Records, r.id = Head(aofBuffer[c]),
         NEW f, Wrote(c, f), f = Append(file, r) \/ f = file,
         \A i \in lost : i \in lost',
         (r.whole /\ f = Append(file, r)) \/ r.id \in lost' \/ r.id \in IdsOf(file),
         UNCHANGED <<processVars, cmd, issued, answered, applied, crashes, skipped>>
  PROVE  LogInv'
<1> DEFINE b == aofBuffer[c]
           t == Tail(b)
<1> USE DEF LogInv, Types, Control
<1>1. /\ pc[c] = "writing" /\ file' = f
      /\ aofBuffer' = [aofBuffer EXCEPT ![c] = t]
      /\ pc' = [pc EXCEPT ![c] = "executing"] \/ pc' = [pc EXCEPT ![c] = "writing"]
      /\ UNCHANGED <<waiters, done, rebuilder, data>>
  BY DEF Wrote, processVars
<1>2. b \in Seq(Ids) /\ b # <<>>
  BY DEF ConnTypes
<1>3. /\ t \in Seq(Ids) /\ Head(b) = b[1] /\ 1 \in DOMAIN b
      /\ \A n \in DOMAIN t : n + 1 \in DOMAIN b /\ t[n] = b[n + 1]
      /\ \A n \in DOMAIN b : n = 1 \/ (n - 1 \in DOMAIN t /\ t[n - 1] = b[n])
  BY <1>2
<1>4. r.id \in DOMAIN issued
  BY <1>3 DEF OnlyIssued
<1> HIDE DEF t
<1>5. aofBuffer'[c] = t /\ \A d \in Conns \ {c} : aofBuffer'[d] = aofBuffer[d]
  BY <1>1 DEF ConnTypes
<1>6. /\ file' \in Seq(Records)
      /\ \A n \in DOMAIN file' : file'[n] = r \/ \E m \in DOMAIN file : file'[n] = file[m]
  <2>1. file \in Seq(Records)
    BY DEF LogTypes
  <2>2. CASE f = Append(file, r)
    BY <1>1, <2>1, <2>2
  <2>3. CASE f = file
    BY <1>1, <2>1, <2>3
  <2> QED
    BY <2>2, <2>3
<1>7. /\ \A i : i \in IdsOf(file) => i \in IdsOf(file')
      /\ r.whole /\ f = Append(file, r) => r.id \in IdsOf(file')
      /\ \A i : BehindACut(i) => BehindACut(i)'
  BY <1>1, AppendIds, CutStays DEF LogTypes, BehindACut
<1>8. Types'
  <2>1. ProcessTypes' /\ LogTypes'
    BY <1>1, <1>6 DEF ProcessTypes, LogTypes
  <2>2. ConnTypes'
    BY <1>1, <1>3 DEF ConnTypes, Places
  <2> QED
    BY <2>1, <2>2
<1>9. OnlyIssued'
  <2>1. \A n \in DOMAIN file' : file'[n].id \in DOMAIN issued
    BY <1>4, <1>6 DEF OnlyIssued
  <2>2. \A d \in Conns : \A n \in DOMAIN aofBuffer'[d] : aofBuffer'[d][n] \in DOMAIN issued
    BY <1>3, <1>5 DEF OnlyIssued
  <2>3. \A d \in Conns : Busy(d)' => cmd'[d] \in DOMAIN issued
    BY <1>1 DEF OnlyIssued, Busy, ConnTypes
  <2> QED
    BY <1>1, <2>1, <2>2, <2>3 DEF OnlyIssued
<1>10. Handlers'
  <2>1. /\ rebuilder' # Nobody => ~done' /\ (pc'[rebuilder'] = "rebuilding" \/ Busy(rebuilder)')
        /\ \A d \in Conns : pc'[d] = "rebuilding" => rebuilder' = d
        /\ \A d \in Links : pc'[d] # "joining"
    BY <1>1, Apart DEF Handlers, Busy, ConnTypes, ProcessTypes
  <2>2. /\ \A d \in Conns : pc'[d] = "blocked" => issued'[cmd'[d]].kind # "rpush"
        /\ \A d \in Clients : Busy(d)' /\ rebuilder' # d => ~issued'[cmd'[d]].link
    BY <1>1, Apart DEF Handlers, Busy, ConnTypes
  <2>3. \A d \in Links : \A n \in DOMAIN aofBuffer'[d] : issued'[aofBuffer'[d][n]].link
    BY <1>3, <1>5, Apart DEF Handlers
  <2> QED
    BY <2>1, <2>2, <2>3 DEF Handlers
<1>11. Queue' /\ OnlyPushes'
  BY <1>1 DEF Queue, OnlyPushes, ConnTypes, ProcessTypes
<1>12. Quiet'
  BY <1>1, <1>5, Apart DEF Quiet, ConnTypes
<1>13. Kept'
  <2>1. ASSUME NEW i \in Buffered
        PROVE  i = r.id \/ i \in Buffered'
    <3>1. PICK d \in Conns : \E n \in DOMAIN aofBuffer[d] : aofBuffer[d][n] = i
      BY InBuffered
    <3>2. CASE d = c
      <4>1. i = r.id \/ i \in Range(t)
        BY <1>3, <3>1, <3>2 DEF Range
      <4> QED
        BY <1>5, <4>1 DEF Buffered
    <3>3. CASE d # c
      BY <1>5, <3>1, <3>3 DEF Buffered, Range
    <3> QED
      BY <3>2, <3>3
  <2> QED
    BY <1>7, <2>1 DEF Kept
<1>14. Replaying'
  BY <1>1, <1>7, Apart DEF Replaying, AtWork, ConnTypes, ProcessTypes
<1>15. AnsweredIsRestored'
  BY <1>1, <1>7 DEF AnsweredIsRestored
<1> QED
  BY <1>8, <1>9, <1>10, <1>11, <1>12, <1>13, <1>14, <1>15

LEMMA WritesHolds ==
  ASSUME LogInv, NEW c \in Conns, Writes(c)
  PROVE  LogInv'
<1> DEFINE r == [id |-> Head(aofBuffer[c]), whole |-> TRUE]
<1>1. aofBuffer[c] # <<>> /\ Head(aofBuffer[c]) \in Ids
  BY DEF Writes, LogInv, Types, ConnTypes
<1>2. /\ r \in Records /\ Wrote(c, Append(file, r)) /\ r.id = Head(aofBuffer[c]) /\ r.whole
  BY <1>1 DEF Writes, Record, Records
<1>3. lost' = lost /\ UNCHANGED <<processVars, cmd, issued, answered, applied, crashes, skipped>>
  BY DEF Writes
<1> HIDE DEF r
<1> QED
  BY <1>1, <1>2, <1>3, WroteHolds

LEMMA WritesShortHolds ==
  ASSUME LogInv, NEW c \in Conns, WritesShort(c)
  PROVE  LogInv'
<1> DEFINE r == [id |-> Head(aofBuffer[c]), whole |-> FALSE]
<1>1. aofBuffer[c] # <<>> /\ Head(aofBuffer[c]) \in Ids
  BY DEF WritesShort, LogInv, Types, ConnTypes
<1>2. /\ r \in Records /\ r.id = Head(aofBuffer[c])
      /\ Wrote(c, Append(file, r)) \/ Wrote(c, file)
  BY <1>1 DEF WritesShort, Record, Records
<1>3. /\ lost' = lost \cup ({Head(aofBuffer[c])} \ IdsOf(file))
      /\ UNCHANGED <<processVars, cmd, issued, answered, applied, crashes, skipped>>
  BY DEF WritesShort
<1> HIDE DEF r
<1>4. (\A i \in lost : i \in lost') /\ (r.id \in lost' \/ r.id \in IdsOf(file))
  BY <1>2, <1>3
<1> QED
  BY <1>1, <1>2, <1>3, <1>4, WroteHolds

-----------------------------------------------------------------------------
(* Handlers go on, with an answer or back to the rebuild.                  *)
LEMMA AnswersHolds ==
  ASSUME LogInv, NEW conns \in SUBSET Conns, \A c \in conns : Busy(c), Answers(conns),
         applied' \in [Ids -> Nat], \A i \in Ids : applied[i] > 0 => applied'[i] > 0,
         \A c \in conns : issued[cmd[c]].kind = "rpush" => applied'[cmd[c]] > 0,
         waiters' \in Seq(Conns), Queue',
         UNCHANGED <<file, done, rebuilder, data, aofBuffer, issued, lost, crashes, skipped>>
  PROVE  LogInv'
<1> USE DEF LogInv, Types, Control
<1>1. /\ \A d \in Conns : pc'[d] = IF d \notin conns THEN pc[d]
                                   ELSE IF rebuilder = d THEN "rebuilding" ELSE "idle"
      /\ \A d \in Conns : cmd'[d] = IF d \in conns THEN 0 ELSE cmd[d]
      /\ ConnTypes'
  BY DEF Answers, ConnTypes, Places
<1>2. ASSUME NEW i \in answered'
      PROVE  \/ i \in answered
             \/ rebuilder = Nobody /\ \E c \in conns \cap Clients :
                  cmd[c] = i /\ issued[i].kind = "rpush"
  BY <1>2 DEF Answers
<1>3. Types'
  BY <1>1 DEF ProcessTypes, LogTypes
<1>4. OnlyIssued'
  BY <1>1 DEF OnlyIssued, Busy
<1>5. OnlyPushes'
  <2>1. ASSUME NEW i \in answered'
        PROVE  i \in DOMAIN issued /\ issued[i].kind = "rpush" /\ ~issued[i].link
    <3>1. CASE i \in answered
      BY <3>1 DEF OnlyPushes
    <3>2. CASE rebuilder = Nobody /\ \E c \in conns \cap Clients :
                 cmd[c] = i /\ issued[i].kind = "rpush"
      BY <3>2, Apart DEF OnlyIssued, Handlers
    <3> QED
      BY <1>2, <3>1, <3>2
  <2> QED
    BY <2>1 DEF OnlyPushes
<1>6. Handlers'
  <2>1. rebuilder' # Nobody => ~done' /\ (pc'[rebuilder'] = "rebuilding" \/ Busy(rebuilder)')
    BY <1>1, Apart DEF Handlers, Busy, ProcessTypes
  <2>2. /\ \A d \in Conns : pc'[d] = "rebuilding" => rebuilder' = d
        /\ \A d \in Links : pc'[d] # "joining"
    BY <1>1, Apart DEF Handlers
  <2>3. /\ \A d \in Conns : pc'[d] = "blocked" => issued'[cmd'[d]].kind # "rpush"
        /\ \A d \in Clients : Busy(d)' /\ rebuilder' # d => ~issued'[cmd'[d]].link
    BY <1>1, Apart DEF Handlers, Busy
  <2> QED
    BY <2>1, <2>2, <2>3 DEF Handlers
<1>7. Quiet'
  BY <1>1, Apart DEF Quiet, Busy
<1>8. Kept'
  BY DEF Kept, Buffered
<1>9. ASSUME NEW i \in answered
      PROVE  i \in Ids /\ issued[i].kind = "rpush"
  BY AofAssumption DEF OnlyPushes, LogTypes, Ids
<1>10. Replaying'
  <2>1. ASSUME rebuilder # Nobody, NEW i \in answered'
        PROVE  \/ applied'[i] > 0 \/ i \in lost \/ BehindACut(i)'
               \/ i \in Readable(data) \/ AtWork(i)'
    <3>1. i \in answered
      BY <1>2, <2>1
    <3>2. CASE AtWork(i) /\ rebuilder \in conns
      BY <1>9, <3>1, <3>2 DEF AtWork
    <3>3. CASE AtWork(i) /\ rebuilder \notin conns
      BY <1>1, <2>1, <3>3, Apart DEF AtWork, ProcessTypes
    <3>4. CASE ~AtWork(i)
      BY <1>9, <2>1, <3>1, <3>4 DEF Replaying, BehindACut
    <3> QED
      BY <3>2, <3>3, <3>4
  <2> QED
    BY <2>1 DEF Replaying
<1>11. AnsweredIsRestored'
  BY <1>2, <1>9 DEF AnsweredIsRestored, BehindACut
<1> QED
  BY <1>3, <1>4, <1>5, <1>6, <1>7, <1>8, <1>10, <1>11

(* RPUSH, into the list or to the client that waits longest.               *)
LEMMA RPushHolds ==
  ASSUME LogInv, NEW c \in Conns, RPush(c)
  PROVE  LogInv'
<1> USE DEF LogInv, Types, Control
<1>1. /\ pc[c] = "executing" /\ applied' = [applied EXCEPT ![cmd[c]] = @ + 1]
      /\ UNCHANGED <<file, done, rebuilder, data, aofBuffer, issued, lost, crashes, skipped>>
  BY DEF RPush, Executes
<1>2. cmd[c] \in Ids
  BY <1>1, AofAssumption DEF OnlyIssued, Busy, LogTypes, Ids
<1>3. /\ applied' \in [Ids -> Nat] /\ applied'[cmd[c]] > 0
      /\ \A i \in Ids : applied[i] > 0 => applied'[i] > 0
  BY <1>1, <1>2 DEF ProcessTypes
<1>4. CASE waiters = <<>>
  <2>1. Answers({c}) /\ waiters' = waiters
    BY <1>4 DEF RPush
  <2>2. Queue'
    BY <1>4, <2>1 DEF Queue
  <2> QED
    BY <1>1, <1>3, <2>1, <2>2, AnswersHolds DEF Busy, ProcessTypes
<1>5. CASE waiters # <<>>
  <2> DEFINE w == Head(waiters)
             t == Tail(waiters)
  <2>1. waiters' = t /\ Answers({c, w})
    BY <1>5 DEF RPush
  <2>2. /\ t \in Seq(Conns) /\ w = waiters[1] /\ 1 \in DOMAIN waiters /\ w \in Conns
        /\ \A n \in DOMAIN t : n + 1 \in DOMAIN waiters /\ t[n] = waiters[n + 1] /\ n + 1 # 1
        /\ \A m, n \in DOMAIN t : m # n => m + 1 # n + 1
    BY <1>5 DEF ProcessTypes
  <2> HIDE DEF t, w
  <2>3. pc[w] = "blocked" /\ issued[cmd[w]].kind # "rpush"
    BY <2>2 DEF Queue, Handlers
  <2>4. \A n \in DOMAIN t : t[n] # w /\ t[n] # c /\ pc[t[n]] = "blocked" /\ t[n] \in Conns
    BY <1>1, <2>2 DEF Queue
  <2>5. \A m, n \in DOMAIN t : m # n => t[m] # t[n]
    BY <2>2 DEF Queue
  <2>6. \A n \in DOMAIN t : pc'[t[n]] = "blocked"
    BY <2>1, <2>4 DEF Answers
  <2>7. Queue'
    BY <2>1, <2>5, <2>6 DEF Queue
  <2>8. /\ \A d \in {c, w} : Busy(d)
        /\ \A d \in {c, w} : issued[cmd[d]].kind = "rpush" => applied'[cmd[d]] > 0
    BY <1>1, <1>3, <2>3 DEF Busy
  <2> QED
    BY <1>1, <1>3, <2>1, <2>2, <2>7, <2>8, AnswersHolds
<1> QED
  BY <1>4, <1>5

(* LPOP stores, or a pop is over at once.                                  *)
LEMMA PopsHold ==
  ASSUME LogInv, NEW c \in Conns, LPopStores(c) \/ PopsAtOnce(c)
  PROVE  LogInv'
<1> USE DEF LogInv, Types, Control
<1>1. /\ pc[c] \in {"executing", "popping"} /\ Answers({c}) /\ issued[cmd[c]].kind # "rpush"
      /\ UNCHANGED <<file, waiters, done, rebuilder, data, aofBuffer, issued, lost, applied,
                     crashes, skipped>>
  BY DEF LPopStores, PopsAtOnce, Executes
<1>2. Queue'
  BY <1>1 DEF Queue, Answers, ProcessTypes
<1> QED
  BY <1>1, <1>2, AnswersHolds DEF Busy, ProcessTypes

(* LPOP has read the list.                                                 *)
LEMMA LPopReadsHolds ==
  ASSUME LogInv, NEW c \in Conns, LPopReads(c)
  PROVE  LogInv'
<1> USE DEF LogInv, Types, Control
<1>1. /\ pc[c] = "executing" /\ pc' = [pc EXCEPT ![c] = "popping"]
      /\ issued[cmd[c]].kind # "rpush" /\ SameRecords
      /\ UNCHANGED <<waiters, done, rebuilder, data, cmd, crashes, skipped>>
  BY DEF LPopReads, processVars, historyVars, SameRecords
<1>2. Types'
  BY <1>1 DEF ProcessTypes, ConnTypes, LogTypes, Places, SameRecords
<1>3. OnlyIssued'
  BY <1>1 DEF OnlyIssued, Busy, ConnTypes, SameRecords
<1>4. Handlers'
  <2>1. rebuilder' # Nobody => ~done' /\ (pc'[rebuilder'] = "rebuilding" \/ Busy(rebuilder)')
    BY <1>1, Apart DEF Handlers, Busy, ConnTypes, ProcessTypes
  <2>2. /\ \A d \in Conns : pc'[d] = "rebuilding" => rebuilder' = d
        /\ \A d \in Links : pc'[d] # "joining"
        /\ \A d \in Links : \A n \in DOMAIN aofBuffer'[d] : issued'[aofBuffer'[d][n]].link
    BY <1>1, Apart DEF Handlers, ConnTypes, SameRecords
  <2>3. /\ \A d \in Conns : pc'[d] = "blocked" => issued'[cmd'[d]].kind # "rpush"
        /\ \A d \in Clients : Busy(d)' /\ rebuilder' # d => ~issued'[cmd'[d]].link
    BY <1>1, Apart DEF Handlers, Busy, ConnTypes, SameRecords
  <2> QED
    BY <2>1, <2>2, <2>3 DEF Handlers
<1>5. Queue'
  BY <1>1 DEF Queue, ConnTypes, ProcessTypes
<1>6. Quiet'
  BY <1>1, Apart DEF Quiet, ConnTypes, SameRecords
<1>7. Replaying'
  <2>1. \A i \in answered : issued[i].kind = "rpush"
    BY DEF OnlyPushes
  <2> QED
    BY <1>1, <2>1, RecordsStay, Apart DEF Replaying, AtWork, ConnTypes, ProcessTypes, SameRecords
<1>8. AnsweredIsRestored'
  BY <1>1, RecordsStay DEF AnsweredIsRestored, SameRecords
<1> QED
  BY <1>1, <1>2, <1>3, <1>4, <1>5, <1>6, <1>7, <1>8, RecordsStay

(* BLPOP comes to its timeout.                                             *)
LEMMA TimesOutHolds ==
  ASSUME LogInv, NEW c \in Conns, TimesOut(c)
  PROVE  LogInv'
<1> USE DEF LogInv, Types, Control
<1>1. /\ pc[c] = "blocked" /\ Answers({c}) /\ issued[cmd[c]].kind # "rpush"
      /\ UNCHANGED <<file, done, rebuilder, data, aofBuffer, issued, lost, applied,
                     crashes, skipped>>
  BY DEF TimesOut
<1>2. PICK n \in DOMAIN waiters : waiters[n] = c /\ waiters' = RemoveAt(waiters, n)
  BY DEF TimesOut
<1>3. /\ waiters' \in Seq(Conns)
      /\ \A i \in DOMAIN waiters' : waiters'[i] # c
                                   /\ \E m \in DOMAIN waiters : waiters'[i] = waiters[m]
      /\ \A i, j \in DOMAIN waiters' : i # j => waiters'[i] # waiters'[j]
  BY <1>2, LeavesQueue DEF Queue, ProcessTypes
<1>4. \A i \in DOMAIN waiters' : pc'[waiters'[i]] = "blocked"
  BY <1>1, <1>3 DEF Queue, Answers, ProcessTypes
<1>5. Queue'
  BY <1>3, <1>4 DEF Queue
<1> QED
  BY <1>1, <1>3, <1>5, AnswersHolds DEF Busy, ProcessTypes

(* BLPOP has to wait.                                                      *)
LEMMA BlocksHolds ==
  ASSUME LogInv, NEW c \in Conns, Blocks(c)
  PROVE  LogInv'
<1> USE DEF LogInv, Types, Control
<1>1. /\ pc[c] = "executing" /\ pc' = [pc EXCEPT ![c] = "blocked"]
      /\ issued[cmd[c]].kind # "rpush"
      /\ waiters' = Append(waiters, c) /\ SameRecords
      /\ UNCHANGED <<done, rebuilder, data, cmd, crashes, skipped>>
  BY DEF Blocks, SameRecords
<1>2. /\ waiters' \in Seq(Conns)
      /\ \A n \in DOMAIN waiters' : n \in DOMAIN waiters \/ n = Len(waiters) + 1
      /\ \A n \in DOMAIN waiters : waiters'[n] = waiters[n] /\ n # Len(waiters) + 1
      /\ waiters'[Len(waiters) + 1] = c
  BY <1>1 DEF ProcessTypes
<1>3. Types'
  BY <1>1, <1>2 DEF ProcessTypes, ConnTypes, LogTypes, Places, SameRecords
<1>4. OnlyIssued'
  BY <1>1 DEF OnlyIssued, Busy, ConnTypes, SameRecords
<1>5. Handlers'
  <2>1. rebuilder' # Nobody => ~done' /\ (pc'[rebuilder'] = "rebuilding" \/ Busy(rebuilder)')
    BY <1>1, Apart DEF Handlers, Busy, ConnTypes, ProcessTypes
  <2>2. /\ \A d \in Conns : pc'[d] = "rebuilding" => rebuilder' = d
        /\ \A d \in Links : pc'[d] # "joining"
        /\ \A d \in Links : \A n \in DOMAIN aofBuffer'[d] : issued'[aofBuffer'[d][n]].link
    BY <1>1, Apart DEF Handlers, ConnTypes, SameRecords
  <2>3. /\ \A d \in Conns : pc'[d] = "blocked" => issued'[cmd'[d]].kind # "rpush"
        /\ \A d \in Clients : Busy(d)' /\ rebuilder' # d => ~issued'[cmd'[d]].link
    BY <1>1, Apart DEF Handlers, Busy, ConnTypes, SameRecords
  <2> QED
    BY <2>1, <2>2, <2>3 DEF Handlers
<1>6. Queue'
  <2>1. \A n \in DOMAIN waiters : waiters[n] # c /\ waiters[n] \in Conns
    BY <1>1 DEF Queue, ProcessTypes
  <2> QED
    BY <1>1, <1>2, <2>1 DEF Queue, ConnTypes
<1>7. Quiet'
  BY <1>1, Apart DEF Quiet, ConnTypes, SameRecords
<1>8. Replaying'
  <2>1. \A i \in answered : issued[i].kind = "rpush"
    BY DEF OnlyPushes
  <2> QED
    BY <1>1, <2>1, RecordsStay, Apart DEF Replaying, AtWork, ConnTypes, ProcessTypes, SameRecords
<1>9. AnsweredIsRestored'
  BY <1>1, RecordsStay DEF AnsweredIsRestored, SameRecords
<1> QED
  BY <1>1, <1>3, <1>4, <1>5, <1>6, <1>7, <1>8, <1>9, RecordsStay

-----------------------------------------------------------------------------
(* A new process starts with what is left of the file.                     *)
LEMMA RestartsHolds ==
  ASSUME LogInv, NEW rest \in Seq(Records), Restarts(rest),
         \A n \in DOMAIN rest : rest[n].id \in DOMAIN issued
  PROVE  LogInv'
<1> USE DEF LogInv, Types, Control
<1>1. /\ crashes' = crashes + 1 /\ file' = rest
      /\ lost' = lost \cup ((IdsOf(file) \cup Buffered) \ IdsOf(rest))
      /\ waiters' = <<>> /\ done' = FALSE /\ rebuilder' = Nobody /\ data' = <<>>
      /\ pc' = NewConnections
      /\ cmd' = [d \in Conns |-> 0] /\ aofBuffer' = [d \in Conns |-> <<>>]
      /\ applied' = [i \in Ids |-> 0] /\ skipped' = FALSE
      /\ UNCHANGED <<issued, answered>>
  BY DEF Restarts
<1>2. \A d \in Conns : pc'[d] = IF d \in Clients THEN "joining" ELSE "closed"
  BY <1>1 DEF NewConnections
<1>3. Types'
  <2>1. ProcessTypes'
    <3>1. done' \in BOOLEAN /\ skipped' \in BOOLEAN
      BY <1>1
    <3>2. waiters' \in Seq(Conns) /\ data' \in Seq(Records) /\ applied' \in [Ids -> Nat]
      BY <1>1
    <3> QED
      BY <1>1, <3>1, <3>2 DEF ProcessTypes
  <2>2. ConnTypes'
    BY <1>1 DEF NewConnections, ConnTypes, Places
  <2>3. LogTypes'
    BY <1>1 DEF LogTypes
  <2> QED
    BY <2>1, <2>2, <2>3
<1>4. OnlyIssued' /\ OnlyPushes'
  BY <1>1, <1>2 DEF OnlyIssued, OnlyPushes, Busy
<1>5. Handlers' /\ Quiet' /\ Queue'
  BY <1>1, <1>2, Apart DEF Handlers, Quiet, Queue, Busy
<1>6. Kept'
  BY <1>1 DEF Kept
<1>7. Replaying' /\ AnsweredIsRestored'
  BY <1>1 DEF Replaying, AnsweredIsRestored
<1> QED
  BY <1>3, <1>4, <1>5, <1>6, <1>7

(* A crash of the machine leaves a part of the file, whose last record may *)
(* be cut.                                                                 *)
LEMMA MachineCrashesHolds ==
  ASSUME LogInv, NEW n \in 0..(Len(file) - 1), NEW cut \in BOOLEAN, MachineCrashes(n, cut)
  PROVE  LogInv'
<1> DEFINE a == SubSeq(file, 1, n)
           r == [file[n + 1] EXCEPT !.whole = FALSE]
           rest == a \o (IF cut THEN <<r>> ELSE <<>>)
<1>1. file \in Seq(Records) /\ \A m \in 1..Len(file) : file[m].id \in DOMAIN issued
  BY DEF LogInv, Types, Control, LogTypes, OnlyIssued
<1>2. n \in Nat /\ n + 1 \in 1..Len(file) /\ Len(file) \in Nat
  BY <1>1
<1>3. r \in Records /\ r.id \in DOMAIN issued
  <2>1. file[n + 1] \in Records /\ file[n + 1].id \in DOMAIN issued
    BY <1>1, <1>2
  <2> QED
    BY <2>1 DEF Records
<1>4. /\ a \in Seq(Records) /\ Len(a) = n
      /\ \A m \in 1..n : a[m] = file[m]
  <2>1. \A m \in 1..n : file[m] \in Records
    BY <1>1, <1>2
  <2> QED
    BY <1>2, <2>1, SubSeqProperties
<1> HIDE DEF a, r
<1>5. rest \in Seq(Records)
  BY <1>3, <1>4
<1>6. \A m \in DOMAIN rest : rest[m].id \in DOMAIN issued
  <2>1. CASE cut
    <3>1. rest = Append(a, r)
      BY <1>3, <1>4, <2>1
    <3> QED
      BY <1>1, <1>2, <1>3, <1>4, <3>1
  <2>2. CASE ~cut
    <3>1. rest = a
      BY <1>4, <2>2
    <3> QED
      BY <1>1, <1>2, <1>4, <3>1
  <2> QED
    BY <2>1, <2>2
<1>7. Restarts(rest)
  BY DEF MachineCrashes, a, r
<1> HIDE DEF rest
<1> QED
  BY <1>5, <1>6, <1>7, RestartsHolds

LEMMA ProcessCrashesHolds ==
  ASSUME LogInv, ProcessCrashes
  PROVE  LogInv'
BY RestartsHolds DEF ProcessCrashes, LogInv, Types, Control, LogTypes, OnlyIssued

-----------------------------------------------------------------------------
LEMMA InitHolds == Init => LogInv
<1> SUFFICES ASSUME Init PROVE LogInv
  OBVIOUS
<1>1. Types
  <2>1. ProcessTypes
    <3>1. done \in BOOLEAN /\ skipped \in BOOLEAN
      BY DEF Init
    <3>2. waiters \in Seq(Conns) /\ data \in Seq(Records) /\ applied \in [Ids -> Nat]
      BY DEF Init
    <3>3. rebuilder \in Clients \cup {Nobody}
      BY DEF Init
    <3> QED
      BY <3>1, <3>2, <3>3 DEF ProcessTypes
  <2>2. ConnTypes
    BY DEF Init, ConnTypes, NewConnections, Places
  <2>3. LogTypes
    BY AofAssumption DEF Init, LogTypes
  <2> QED
    BY <2>1, <2>2, <2>3 DEF Types
<1>2. Control
  BY Apart DEF Init, Control, OnlyIssued, OnlyPushes, Handlers, Queue, Quiet, Busy, NewConnections
<1>3. Kept /\ Replaying /\ AnsweredIsRestored
  BY DEF Init, Kept, Replaying, AnsweredIsRestored
<1> QED
  BY <1>1, <1>2, <1>3 DEF LogInv

LEMMA StutterHolds ==
  ASSUME LogInv, UNCHANGED vars
  PROVE  LogInv'
<1> USE DEF LogInv, Types, Control
<1>1. SameRecords /\ UNCHANGED <<waiters, done, rebuilder, data, pc, cmd, crashes, skipped>>
  BY DEF vars, processVars, connVars, historyVars, SameRecords
<1>2. Types' /\ OnlyIssued'
  BY <1>1 DEF ProcessTypes, ConnTypes, LogTypes, OnlyIssued, Busy, SameRecords
<1>3. Handlers' /\ Queue' /\ Quiet'
  BY <1>1 DEF Handlers, Queue, Quiet, Busy, SameRecords
<1>4. Replaying' /\ AnsweredIsRestored'
  BY <1>1, RecordsStay DEF Replaying, AtWork, AnsweredIsRestored, SameRecords
<1> QED
  BY <1>1, <1>2, <1>3, <1>4, RecordsStay

(* Every step preserves LogInv.                                            *)
LEMMA StepHolds ==
  ASSUME LogInv, [Next]_vars
  PROVE  LogInv'
<1>1. ASSUME NEW c \in Conns, Steps(c)
      PROVE  LogInv'
  BY <1>1, JoinsHolds, ReplaysHolds, ReplayEndsHolds, WritesHolds, RPushHolds,
     LPopReadsHolds, PopsHold, BlocksHolds, TimesOutHolds DEF Steps
<1>2. ASSUME NEW c \in Conns,
             LinkConnects(c) \/ Reconnects(c) \/ JoinFails(c) \/ WritesShort(c)
      PROVE  LogInv'
  BY <1>2, LinkConnectsHolds, ReconnectsHolds, JoinFailsHolds, WritesShortHolds
<1>3. ASSUME NEW c \in Conns, NEW kind \in Kinds, Issues(c, kind)
      PROVE  LogInv'
  BY <1>3, IssuesHolds
<1>4. ASSUME NEW n \in 0..(Len(file) - 1), NEW cut \in BOOLEAN, MachineCrashes(n, cut)
      PROVE  LogInv'
  BY <1>4, MachineCrashesHolds
<1> QED
  BY <1>1, <1>2, <1>3, <1>4, ProcessCrashesHolds, StutterHolds DEF Next

(* The invariant that follows an answered RPUSH through its places:        *)
(* buffer, file, what is still to be replayed, list.                       *)
THEOREM LogInvHolds == Spec => []LogInv
BY InitHolds, StepHolds, PTL DEF Spec

(* Once a process has replayed the log, every RPUSH that a client ever had *)
(* an answer to has been executed in it, but those whose record was not    *)
(* written, was lost with the machine or stands behind a cut one.          *)
THEOREM AnsweredComesBack == Spec => []AnsweredIsRestored
<1>1. LogInv => AnsweredIsRestored
  BY DEF LogInv
<1> QED
  BY <1>1, LogInvHolds, PTL

(* While the log is not replayed, clients wait: no command of a client is  *)
(* logged or executed in a process before the rebuild, except by the one   *)
(* that replays.                                                           *)
THEOREM ClientsWaitForRebuild == Spec => []Quiet
<1>1. LogInv => Quiet
  BY DEF LogInv, Control
<1> QED
  BY <1>1, LogInvHolds, PTL

-----------------------------------------------------------------------------
(* What a log makes of a list, by the commands that were issued.           *)
Result(log, s, i) == IF log[i].kind = "rpush" THEN Append(s, i) ELSE Pop(s)
After(log, s, ids) ==
  LET after[n \in 0..Len(ids)] == IF n = 0 THEN s ELSE Result(log, after[n - 1], ids[n])
  IN  after[Len(ids)]

(* The lists on the way.                                                   *)
Traces(log, s, ids, f) ==
  f[0] = s /\ \A n \in 1..Len(ids) : f[n] = Result(log, f[n - 1], ids[n])
Runs(log, s, ids, f) == f \in [0..Len(ids) -> Seq(Ids)] /\ Traces(log, s, ids, f)
Arrives(log, s, ids, t) == \E f : Runs(log, s, ids, f) /\ f[Len(ids)] = t

LEMMA OutcomeIsAfter ==
  ASSUME NEW s, NEW ids
  PROVE  Outcome(s, ids) = After(issued, s, ids)
BY DEF Outcome, After, Effect, Result

LEMMA ResultType ==
  ASSUME NEW log, NEW s \in Seq(Ids), NEW i \in Ids
  PROVE  Result(log, s, i) \in Seq(Ids)
<1>1. Append(s, i) \in Seq(Ids)
  OBVIOUS
<1>2. Pop(s) \in Seq(Ids)
  <2>1. CASE s = <<>>
    BY <2>1 DEF Pop
  <2>2. CASE s # <<>>
    BY <2>2 DEF Pop
  <2> QED
    BY <2>1, <2>2
<1> QED
  BY <1>1, <1>2 DEF Result

LEMMA RunsOnce ==
  ASSUME NEW log, NEW s, NEW ids \in Seq(Ids), NEW f, NEW g,
         Traces(log, s, ids, f), Traces(log, s, ids, g)
  PROVE  f[Len(ids)] = g[Len(ids)]
<1> DEFINE Wrong == {n \in 0..Len(ids) : f[n] # g[n]}
<1>0. Len(ids) \in 0..Len(ids)
  OBVIOUS
<1>1. SUFFICES ASSUME Wrong # {} PROVE FALSE
  BY <1>0
<1>2. Wrong \in SUBSET Nat /\ Len(ids) \in Nat
  OBVIOUS
<1>3. PICK m \in Wrong : \A n \in Wrong : m <= n
  BY <1>1, <1>2, LeastNumber
<1>4. m # 0
  BY <1>3 DEF Runs, Traces
<1>5. m \in 1..Len(ids) /\ m - 1 \in 0..Len(ids) /\ ~(m <= m - 1)
  BY <1>3, <1>4
<1>6. f[m - 1] = g[m - 1]
  BY <1>3, <1>5
<1> QED
  BY <1>3, <1>5, <1>6 DEF Runs, Traces

LEMMA AfterRuns ==
  ASSUME NEW log, NEW s \in Seq(Ids), NEW ids \in Seq(Ids)
  PROVE  Arrives(log, s, ids, After(log, s, ids))
<1> DEFINE step == [n \in Nat |-> [q \in Seq(Ids) |->
                      IF n \in 1..Len(ids) THEN Result(log, q, ids[n]) ELSE q]]
           Def(f) == [n \in 0..Len(ids) |-> IF n = 0 THEN s ELSE Result(log, f[n - 1], ids[n])]
           after == CHOOSE f : f = Def(f)
<1>1. PICK f : Runs(log, s, ids, f)
  <2>1. \A n \in Nat : \A q \in Seq(Ids) : step[n][q] \in Seq(Ids)
    <3> SUFFICES ASSUME NEW n \in Nat, NEW q \in Seq(Ids) PROVE step[n][q] \in Seq(Ids)
      OBVIOUS
    <3>1. CASE n \in 1..Len(ids)
      <4>1. ids[n] \in Ids
        BY <3>1, ElementOfSeq
      <4> QED
        BY <3>1, <4>1, ResultType
    <3>2. CASE n \notin 1..Len(ids)
      BY <3>2
    <3> QED
      BY <3>1, <3>2
  <2>2. step \in [Nat -> [Seq(Ids) -> Seq(Ids)]]
    BY <2>1
  <2>3. \A n \in 1..Len(ids) : \A q \in Seq(Ids) : step[n][q] = Result(log, q, ids[n])
    OBVIOUS
  <2>4. Len(ids) \in Nat /\ \A n \in 1..Len(ids) : n - 1 \in 0..Len(ids)
    OBVIOUS
  <2> HIDE DEF step
  <2>5. Recurses(Seq(Ids), s, step, Len(ids))
    BY <2>2, <2>4, RecursiveFunction
  <2> QED
    <3>1. PICK h \in [0..Len(ids) -> Seq(Ids)] :
            h[0] = s /\ \A n \in 1..Len(ids) : h[n] = step[n][h[n - 1]]
      BY <2>5 DEF Recurses
    <3>2. \A n \in 1..Len(ids) : h[n] = Result(log, h[n - 1], ids[n])
      BY <2>3, <2>4, <3>1
    <3> QED
      BY <3>1, <3>2 DEF Runs, Traces
<1>2. f = Def(f)
  <2>1. \A n \in 0..Len(ids) : f[n] = Def(f)[n]
    BY <1>1 DEF Runs, Traces
  <2>2. f = [n \in 0..Len(ids) |-> f[n]]
    BY <1>1 DEF Runs, Traces
  <2> QED
    BY <2>1, <2>2
<1>3. after = Def(after)
  BY <1>2, Zenon
<1>4. After(log, s, ids) = after[Len(ids)]
  BY DEF After
<1> HIDE DEF after
<1>5. after[0] = s /\ \A n \in 1..Len(ids) : after[n] = Result(log, after[n - 1], ids[n])
  <2>1. \A n \in 0..Len(ids) : after[n] = IF n = 0 THEN s ELSE Result(log, after[n - 1], ids[n])
    BY <1>3
  <2> QED
    BY <2>1
<1>6. after[Len(ids)] = f[Len(ids)]
  <2>1. Traces(log, s, ids, after)
    BY <1>5 DEF Traces
  <2>2. Traces(log, s, ids, f)
    BY <1>1 DEF Runs
  <2> QED
    BY <2>1, <2>2, RunsOnce
<1> QED
  BY <1>1, <1>4, <1>6 DEF Arrives

(* So whatever runs arrives there.                                         *)
LEMMA AfterIs ==
  ASSUME NEW log, NEW s \in Seq(Ids), NEW ids \in Seq(Ids), NEW g, Runs(log, s, ids, g)
  PROVE  After(log, s, ids) = g[Len(ids)]
<1>1. PICK f : Runs(log, s, ids, f) /\ f[Len(ids)] = After(log, s, ids)
  <2>1. Arrives(log, s, ids, After(log, s, ids))
    BY AfterRuns
  <2> QED
    BY <2>1 DEF Arrives
<1> QED
  BY <1>1, RunsOnce DEF Runs

LEMMA AfterNothing ==
  ASSUME NEW log, NEW s \in Seq(Ids)
  PROVE  After(log, s, <<>>) = s
<1>1. PICK f : Runs(log, s, <<>>, f) /\ f[0] = After(log, s, <<>>)
  <2>1. Arrives(log, s, <<>>, After(log, s, <<>>))
    BY AfterRuns, EmptySeq
  <2> QED
    BY <2>1 DEF Arrives
<1> QED
  BY <1>1 DEF Runs, Traces

(* One command more at the end of the log,                                 *)
LEMMA AfterOneMore ==
  ASSUME NEW log, NEW s \in Seq(Ids), NEW ids \in Seq(Ids), NEW i \in Ids
  PROVE  After(log, s, Append(ids, i)) = Result(log, After(log, s, ids), i)
<1>1. PICK n \in Nat : n = Len(ids)
  OBVIOUS
<1>2. PICK f : Runs(log, s, ids, f) /\ f[n] = After(log, s, ids)
  <2>1. Arrives(log, s, ids, After(log, s, ids))
    BY AfterRuns
  <2> QED
    BY <1>1, <2>1 DEF Arrives
<1>3. PICK t \in Seq(Ids) : t = Append(ids, i)
  BY AppendProperties
<1>4. Len(t) = n + 1 /\ t[n + 1] = i /\ \A m \in 1..n : t[m] = ids[m]
  BY <1>1, <1>3, AppendProperties
<1> DEFINE g == [m \in 0..(n+1) |-> IF m = n + 1 THEN Result(log, f[n], i) ELSE f[m]]
<1>5. \A m \in 0..n : f[m] \in Seq(Ids) /\ g[m] = f[m]
  <2>1. f \in [0..n -> Seq(Ids)]
    BY <1>1, <1>2 DEF Runs
  <2>2. \A m \in 0..n : m \in 0..(n+1) /\ m # n + 1
    OBVIOUS
  <2> QED
    BY <2>1, <2>2
<1>6. Result(log, f[n], i) \in Seq(Ids) /\ g[n + 1] = Result(log, f[n], i)
  <2>1. n \in 0..n /\ n + 1 \in 0..(n+1)
    OBVIOUS
  <2>2. f[n] \in Seq(Ids)
    BY <1>5, <2>1
  <2> QED
    BY <2>1, <2>2, ResultType
<1>7. g \in [0..Len(t) -> Seq(Ids)]
  <2>1. \A m \in 0..(n+1) : m \in 0..n \/ m = n + 1
    OBVIOUS
  <2>2. \A m \in 0..(n+1) : g[m] \in Seq(Ids)
    BY <1>5, <1>6, <2>1
  <2> QED
    BY <1>4, <2>2
<1> HIDE DEF g
<1>8. \A m \in 1..Len(t) : g[m] = Result(log, g[m - 1], t[m])
  <2> SUFFICES ASSUME NEW m \in 1..(n+1) PROVE g[m] = Result(log, g[m - 1], t[m])
    BY <1>4
  <2>1. CASE m = n + 1
    BY <1>4, <1>5, <1>6, <2>1
  <2>2. CASE m \in 1..n
    <3>1. m \in 0..n /\ m - 1 \in 0..n
      BY <2>2
    <3> QED
      BY <1>1, <1>2, <1>4, <1>5, <2>2, <3>1 DEF Runs, Traces
  <2> QED
    BY <2>1, <2>2
<1>9. Runs(log, s, t, g)
  BY <1>2, <1>5, <1>7, <1>8 DEF Runs, Traces
<1>10. After(log, s, t) = g[n + 1]
  BY <1>4, <1>9, AfterIs
<1> QED
  BY <1>2, <1>3, <1>6, <1>10

(* and the first one executed.                                             *)
LEMMA AfterFirst ==
  ASSUME NEW log, NEW s \in Seq(Ids), NEW ids \in Seq(Ids), ids # <<>>
  PROVE  After(log, s, ids) = After(log, Result(log, s, Head(ids)), Tail(ids))
<1>1. PICK n \in Nat : n + 1 = Len(ids)
  <2>1. Len(ids) \in Nat \ {0}
    BY EmptySeq
  <2>2. Len(ids) - 1 \in Nat /\ (Len(ids) - 1) + 1 = Len(ids)
    BY <2>1
  <2> QED
    BY <2>2
<1>2. PICK f : Runs(log, s, ids, f) /\ f[n + 1] = After(log, s, ids)
  <2>1. Arrives(log, s, ids, After(log, s, ids))
    BY AfterRuns
  <2> QED
    BY <1>1, <2>1 DEF Arrives
<1>3. PICK t \in Seq(Ids) : t = Tail(ids)
  BY HeadTailProperties
<1>4. /\ Len(t) = n /\ \A m \in 1..n : t[m] = ids[m + 1]
      /\ Head(ids) = ids[1] /\ ids[1] \in Ids
  BY <1>1, <1>3, HeadTailProperties
<1> DEFINE g == [m \in 0..n |-> f[m + 1]]
<1>5. \A m \in 0..n : f[m + 1] \in Seq(Ids) /\ g[m] = f[m + 1]
  <2>1. \A m \in 0..n : m + 1 \in 0..(n+1)
    OBVIOUS
  <2> QED
    BY <1>1, <1>2, <2>1 DEF Runs, Traces
<1>6. g \in [0..Len(t) -> Seq(Ids)]
  BY <1>4, <1>5
<1> HIDE DEF g
<1>7. g[0] = Result(log, s, Head(ids))
  <2>1. 1 \in 1..(n+1) /\ 0 \in 0..n
    OBVIOUS
  <2> QED
    BY <1>1, <1>2, <1>4, <1>5, <2>1 DEF Runs, Traces
<1>8. \A m \in 1..Len(t) : g[m] = Result(log, g[m - 1], t[m])
  <2> SUFFICES ASSUME NEW m \in 1..n PROVE g[m] = Result(log, g[m - 1], t[m])
    BY <1>4
  <2>1. m + 1 \in 1..(n+1) /\ m \in 0..n /\ m - 1 \in 0..n /\ (m + 1) - 1 = m /\ (m - 1) + 1 = m
    OBVIOUS
  <2>2. f[m + 1] = Result(log, f[m], ids[m + 1])
    BY <1>1, <1>2, <2>1 DEF Runs, Traces
  <2> QED
    BY <1>4, <1>5, <2>1, <2>2
<1>9. Runs(log, Result(log, s, Head(ids)), t, g)
  BY <1>6, <1>7, <1>8 DEF Runs, Traces
<1>10. Result(log, s, Head(ids)) \in Seq(Ids)
  BY <1>4, ResultType
<1>11. g[n] = f[n + 1]
  BY <1>5
<1>12. After(log, Result(log, s, Head(ids)), t) = g[n]
  BY <1>4, <1>9, <1>10, AfterIs
<1> QED
  BY <1>2, <1>3, <1>11, <1>12

(* A log that agrees on the commands makes the same of them.               *)
LEMMA AfterSame ==
  ASSUME NEW log, NEW more, NEW s \in Seq(Ids), NEW ids \in Seq(Ids),
         \A n \in 1..Len(ids) : more[ids[n]] = log[ids[n]]
  PROVE  After(more, s, ids) = After(log, s, ids)
<1>1. PICK f : Runs(log, s, ids, f) /\ f[Len(ids)] = After(log, s, ids)
  <2>1. Arrives(log, s, ids, After(log, s, ids))
    BY AfterRuns
  <2> QED
    BY <2>1 DEF Arrives
<1>2. Runs(more, s, ids, f)
  BY <1>1 DEF Runs, Traces, Result
<1> QED
  BY <1>1, <1>2, AfterIs

LEMMA AfterType ==
  ASSUME NEW log, NEW s \in Seq(Ids), NEW ids \in Seq(Ids)
  PROVE  After(log, s, ids) \in Seq(Ids)
<1>1. PICK f : Runs(log, s, ids, f) /\ f[Len(ids)] = After(log, s, ids)
  <2>1. Arrives(log, s, ids, After(log, s, ids))
    BY AfterRuns
  <2> QED
    BY <2>1 DEF Arrives
<1>2. Len(ids) \in 0..Len(ids)
  OBVIOUS
<1> QED
  BY <1>1, <1>2 DEF Runs, Traces

-----------------------------------------------------------------------------
(* The commands of a log's records.                                        *)
IdSeq(records) == [n \in DOMAIN records |-> records[n].id]

LEMMA IdSeqType ==
  ASSUME NEW s \in Seq(Records)
  PROVE  /\ IdSeq(s) \in Seq(Ids) /\ Len(IdSeq(s)) = Len(s)
         /\ \A n \in 1..Len(s) : IdSeq(s)[n] = s[n].id
<1>1. DOMAIN s = 1..Len(s) /\ Len(s) \in Nat /\ \A n \in 1..Len(s) : s[n].id \in Ids
  <2>1. \A n \in 1..Len(s) : s[n] \in Records
    OBVIOUS
  <2> QED
    BY <2>1, LenProperties DEF Records
<1>2. IdSeq(s) = [n \in 1..Len(s) |-> s[n].id]
  BY <1>1 DEF IdSeq
<1> QED
  BY <1>1, <1>2

LEMMA IdSeqAppend ==
  ASSUME NEW s \in Seq(Records), NEW r \in Records
  PROVE  IdSeq(Append(s, r)) = Append(IdSeq(s), r.id)
<1>1. PICK t \in Seq(Records) : t = Append(s, r)
  BY AppendProperties
<1>2. /\ Len(t) = Len(s) + 1 /\ t[Len(s) + 1] = r /\ Len(s) \in Nat
      /\ \A n \in 1..Len(s) : t[n] = s[n]
  BY <1>1, AppendProperties
<1>3. PICK a \in Seq(Ids) : a = IdSeq(s)
  BY IdSeqType
<1>4. /\ Len(a) = Len(s) /\ \A n \in 1..Len(s) : a[n] = s[n].id
  BY <1>3, IdSeqType
<1>5. PICK b \in Seq(Ids) : b = IdSeq(t)
  BY IdSeqType
<1>6. /\ Len(b) = Len(t) /\ \A n \in 1..Len(t) : b[n] = t[n].id
  BY <1>5, IdSeqType
<1>7. r.id \in Ids
  BY DEF Records
<1>8. PICK e \in Seq(Ids) : e = Append(a, r.id)
  BY <1>7, AppendProperties
<1>9. Len(e) = Len(a) + 1 /\ e[Len(a) + 1] = r.id /\ \A n \in 1..Len(a) : e[n] = a[n]
  BY <1>7, <1>8, AppendProperties
<1>10. Len(b) = Len(e) /\ \A n \in 1..Len(b) : b[n] = e[n]
  <2>1. Len(b) = Len(s) + 1 /\ Len(e) = Len(s) + 1
    BY <1>2, <1>4, <1>6, <1>9
  <2>2. ASSUME NEW n \in 1..(Len(s) + 1)
        PROVE  b[n] = e[n]
    <3>1. CASE n = Len(s) + 1
      BY <1>2, <1>4, <1>6, <1>9, <3>1
    <3>2. CASE n # Len(s) + 1
      <4>1. n \in 1..Len(s) /\ n \in 1..Len(t) /\ n \in 1..Len(a)
        BY <1>2, <1>4, <3>2
      <4>2. b[n] = s[n].id
        BY <1>2, <1>6, <4>1
      <4>3. e[n] = s[n].id
        BY <1>4, <1>9, <4>1
      <4> QED
        BY <4>2, <4>3
    <3> QED
      BY <3>1, <3>2
  <2> QED
    BY <2>1, <2>2
<1>11. b = e
  BY <1>10, SeqEqual
<1> QED
  BY <1>1, <1>3, <1>5, <1>8, <1>11

LEMMA IdSeqHead ==
  ASSUME NEW s \in Seq(Records), s # <<>>
  PROVE  /\ IdSeq(s) # <<>> /\ Head(IdSeq(s)) = Head(s).id
         /\ Tail(IdSeq(s)) = IdSeq(Tail(s))
<1>1. PICK t \in Seq(Records) : t = Tail(s)
  BY HeadTailProperties
<1>2. /\ Len(s) \in Nat \ {0} /\ Head(s) = s[1] /\ Len(t) = Len(s) - 1
      /\ \A n \in 1..Len(t) : t[n] = s[n + 1]
  BY <1>1, HeadTailProperties, EmptySeq
<1>3. PICK a \in Seq(Ids) : a = IdSeq(s)
  BY IdSeqType
<1>4. /\ Len(a) = Len(s) /\ \A n \in 1..Len(s) : a[n] = s[n].id
  BY <1>3, IdSeqType
<1>5. PICK b \in Seq(Ids) : b = IdSeq(t)
  BY IdSeqType
<1>6. /\ Len(b) = Len(t) /\ \A n \in 1..Len(t) : b[n] = t[n].id
  BY <1>5, IdSeqType
<1>7. a # <<>>
  BY <1>2, <1>4, EmptySeq
<1>8. Head(a) = s[1].id
  BY <1>2, <1>4, <1>7, HeadTailProperties
<1>9. PICK e \in Seq(Ids) : e = Tail(a)
  BY <1>7, HeadTailProperties
<1>10. Len(e) = Len(a) - 1 /\ \A n \in 1..Len(e) : e[n] = a[n + 1]
  BY <1>7, <1>9, HeadTailProperties
<1>11. Len(b) = Len(e) /\ \A n \in 1..Len(b) : b[n] = e[n]
  <2>1. Len(b) = Len(s) - 1 /\ Len(e) = Len(s) - 1
    BY <1>2, <1>4, <1>6, <1>10
  <2>2. ASSUME NEW n \in 1..(Len(s) - 1)
        PROVE  b[n] = e[n]
    <3>1. n \in 1..Len(t) /\ n \in 1..Len(e) /\ n + 1 \in 1..Len(s)
      BY <1>2, <2>1
    <3>2. b[n] = s[n + 1].id
      BY <1>2, <1>6, <3>1
    <3>3. e[n] = s[n + 1].id
      BY <1>4, <1>10, <3>1
    <3> QED
      BY <3>2, <3>3
  <2> QED
    BY <2>1, <2>2
<1>12. b = e
  BY <1>11, SeqEqual
<1> QED
  BY <1>1, <1>2, <1>3, <1>5, <1>7, <1>8, <1>9, <1>12

-----------------------------------------------------------------------------
(* What the restart has to restore, along the way: in the first process    *)
(* the log makes of nothing what what is not executed makes of the list;   *)
(* in the second, until the rebuild is over, what it has still to replay   *)
(* makes of the list what the first one left.                              *)
Known ==
  /\ list \in Seq(Ids) /\ unexecuted \in Seq(Ids)
  /\ \A n \in DOMAIN unexecuted : unexecuted[n] \in DOMAIN issued
  /\ \A c \in Links : \A n \in DOMAIN aofBuffer[c] : issued[aofBuffer[c][n]].born = crashes

AllWhole == \A n \in DOMAIN file : file[n].whole
LogMakesList ==
  /\ waiters = <<>> /\ data = <<>> /\ AllWhole
  /\ After(issued, <<>>, IdSeq(file)) = After(issued, list, unexecuted)
FirstProcess == crashes = 0 /\ exact => LogMakesList

AllOld == \A i \in IdsOf(file) : issued[i].born < 1
Replayed ==
  IF pc[rebuilder] \in {"writing", "executing", "popping"}
  THEN Result(issued, list, cmd[rebuilder]) ELSE list
BeforeRebuild == list = <<>> /\ (AllOld => After(issued, <<>>, IdSeq(file)) = expected)
InRebuild ==
  /\ After(issued, Replayed, IdSeq(data)) = expected
  /\ pc[rebuilder] = "blocked" => list = <<>>
SecondProcess ==
  crashes = 1 /\ exact /\ ~done =>
    /\ \A n \in DOMAIN waiters : waiters[n] = rebuilder
    /\ rebuilder = Nobody => BeforeRebuild
    /\ rebuilder # Nobody => InRebuild

RestoreInv == Known /\ FirstProcess /\ SecondProcess

(* What an LPOP under way will store.                                      *)
PopInv ==
  /\ slice \in [Conns -> Seq(Ids)]
  /\ ~exists => list = <<>> /\ \A c \in Conns : pc[c] # "popping"
  /\ exact => \A c \in Conns : pc[c] = "popping" => slice[c] = Pop(list)

(* Steps that leave what these are about.                                  *)
SameLists == UNCHANGED <<file, list, waiters, data, issued, unexecuted, crashes, exact, expected>>
LEMMA ListsStay ==
  ASSUME LogInv, RestoreInv, SameLists, UNCHANGED <<done, rebuilder, cmd>>,
         \A c \in Links : aofBuffer'[c] = aofBuffer[c],
         rebuilder # Nobody => pc'[rebuilder] = pc[rebuilder]
  PROVE  RestoreInv'
<1>1. Known'
  BY DEF SameLists, RestoreInv, Known
<1>2. FirstProcess'
  BY DEF SameLists, RestoreInv, FirstProcess, LogMakesList, AllWhole
<1>3. SecondProcess'
  <2>1. rebuilder # Nobody /\ InRebuild => InRebuild'
    BY DEF SameLists, InRebuild, Replayed
  <2>2. BeforeRebuild => BeforeRebuild'
    BY DEF SameLists, BeforeRebuild, AllOld
  <2> QED
    BY <2>1, <2>2 DEF SameLists, RestoreInv, SecondProcess
<1> QED
  BY <1>1, <1>2, <1>3 DEF RestoreInv

(* Steps that end exactness have only to keep the types.                   *)
LEMMA NoLongerExact ==
  ASSUME Known', exact' = FALSE
  PROVE  RestoreInv'
BY DEF RestoreInv, FirstProcess, SecondProcess

LEMMA LinkConnectsRestores ==
  ASSUME LogInv, RestoreInv, NEW c \in Conns, LinkConnects(c)
  PROVE  RestoreInv'
<1>1. /\ c \in Links /\ pc' = [pc EXCEPT ![c] = "idle"]
      /\ SameLists /\ UNCHANGED <<done, rebuilder, cmd, aofBuffer>>
  BY DEF LinkConnects, processVars, historyVars, SameLists
<1>2. rebuilder # c
  BY <1>1, Apart DEF LogInv, Types, ProcessTypes
<1>3. rebuilder # Nobody => pc'[rebuilder] = pc[rebuilder]
  BY <1>1, <1>2, Apart DEF LogInv, Types, ProcessTypes, ConnTypes
<1> QED
  BY <1>1, <1>3, ListsStay

LEMMA ReconnectsRestores ==
  ASSUME LogInv, RestoreInv, NEW c \in Conns, Reconnects(c)
  PROVE  RestoreInv'
<1>1. /\ c \in Clients /\ pc[c] = "idle" /\ pc' = [pc EXCEPT ![c] = "joining"]
      /\ aofBuffer' = [aofBuffer EXCEPT ![c] = <<>>]
      /\ SameLists /\ UNCHANGED <<done, rebuilder, cmd>>
  BY DEF Reconnects, processVars, SameLists
<1>2. rebuilder # c
  BY <1>1, Apart DEF LogInv, Control, Handlers, Busy
<1>3. rebuilder # Nobody => pc'[rebuilder] = pc[rebuilder]
  BY <1>1, <1>2, Apart DEF LogInv, Types, ProcessTypes, ConnTypes
<1>4. \A d \in Links : aofBuffer'[d] = aofBuffer[d]
  BY <1>1, Apart DEF LogInv, Types, ConnTypes
<1> QED
  BY <1>1, <1>3, <1>4, ListsStay

(* The rebuild reads the log that makes of nothing what the crash left.    *)
LEMMA JoinsRestores ==
  ASSUME LogInv, RestoreInv, NEW c \in Conns, Joins(c)
  PROVE  RestoreInv'
<1>1. /\ pc[c] = "joining" /\ rebuilder = Nobody
      /\ UNCHANGED <<file, list, waiters, done, cmd, aofBuffer, issued, unexecuted, crashes, expected>>
  BY DEF Joins
<1>2. CASE done
  <2>1. SameLists /\ UNCHANGED rebuilder
    BY <1>1, <1>2 DEF Joins, SameLists
  <2> QED
    BY <1>1, <2>1, ListsStay
<1>3. CASE ~done
  <2>1. pc' = [pc EXCEPT ![c] = "rebuilding"] /\ rebuilder' = c /\ data' = file
    BY <1>3 DEF Joins, ReadAll
  <2>2. exact' => exact /\ \A i \in IdsOf(file) : issued[i].born < crashes
    BY <1>3 DEF Joins
  <2>3. Known'
    BY <1>1 DEF RestoreInv, Known
  <2>4. FirstProcess'
    <3> SUFFICES ASSUME crashes = 0, exact' PROVE LogMakesList'
      BY <1>1 DEF FirstProcess
    <3>1. LogMakesList /\ \A i \in IdsOf(file) : issued[i].born < 0
      BY <2>2 DEF RestoreInv, FirstProcess
    <3>2. file = <<>>
      <4> SUFFICES ASSUME file # <<>> PROVE FALSE
        OBVIOUS
      <4>1. 1 \in DOMAIN file /\ file[1].whole /\ file \in Seq(Records)
        BY <3>1, EmptySeq DEF LogMakesList, AllWhole, LogInv, Types, LogTypes
      <4>2. file[1].id \in IdsOf(file) /\ file[1].id \in DOMAIN issued
        BY <4>1, InIdsOf DEF LogInv, Control, OnlyIssued
      <4>3. issued[file[1].id].born \in Nat
        <5>1. issued[file[1].id] \in Requests
          BY <4>2 DEF LogInv, Types, LogTypes
        <5> QED
          BY <5>1 DEF Requests
      <4> QED
        BY <3>1, <4>2, <4>3
    <3> QED
      BY <1>1, <2>1, <3>1, <3>2 DEF LogMakesList, AllWhole
  <2>5. SecondProcess'
    <3> SUFFICES ASSUME crashes = 1, exact', ~done'
                 PROVE  (\A n \in DOMAIN waiters : waiters[n] = c) /\ InRebuild'
      BY <1>1, <2>1, Apart DEF SecondProcess
    <3>1. exact /\ AllOld /\ BeforeRebuild
      BY <1>1, <2>2 DEF RestoreInv, SecondProcess, AllOld
    <3>2. \A n \in DOMAIN waiters : waiters[n] = Nobody /\ waiters[n] \in Conns
      BY <1>1, <3>1 DEF RestoreInv, SecondProcess, LogInv, Types, ProcessTypes
    <3>3. pc'[c] = "rebuilding"
      BY <2>1 DEF LogInv, Types, ConnTypes
    <3>4. Replayed' = list'
      BY <2>1, <3>3 DEF Replayed
    <3> QED
      BY <1>1, <2>1, <3>1, <3>2, <3>3, <3>4, Apart DEF InRebuild, BeforeRebuild
  <2> QED
    BY <2>3, <2>4, <2>5 DEF RestoreInv
<1> QED
  BY <1>2, <1>3

(* The file cannot be opened.                                              *)
LEMMA JoinFailsRestores ==
  ASSUME LogInv, RestoreInv, NEW c \in Conns, JoinFails(c)
  PROVE  RestoreInv'
<1>1. exact' = FALSE /\ UNCHANGED <<list, unexecuted, issued, aofBuffer, crashes>>
  BY DEF JoinFails
<1>2. Known'
  BY <1>1 DEF RestoreInv, Known
<1> QED
  BY <1>1, <1>2, NoLongerExact

(* A command more to log: what the log makes of the earlier ones stays.    *)
LEMMA SameOutcome ==
  ASSUME LogInv, NEW r, issued' = Append(issued, r),
         NEW s \in Seq(Ids), NEW ids \in Seq(Ids), \A n \in DOMAIN ids : ids[n] \in DOMAIN issued
  PROVE  After(issued', s, ids) = After(issued, s, ids)
<1>1. \A n \in 1..Len(ids) : ids[n] \in 1..Len(issued)
  BY DEF LogInv, Types, LogTypes
<1>2. \A i \in 1..Len(issued) : issued'[i] = issued[i]
  BY DEF LogInv, Types, LogTypes
<1> QED
  BY <1>1, <1>2, AfterSame

LEMMA RecordsIssued ==
  ASSUME NEW s \in Seq(Records), \A n \in DOMAIN s : s[n].id \in DOMAIN issued
  PROVE  IdSeq(s) \in Seq(Ids) /\ \A n \in DOMAIN IdSeq(s) : IdSeq(s)[n] \in DOMAIN issued
<1>1. DOMAIN s = 1..Len(s) /\ DOMAIN IdSeq(s) = DOMAIN s
  BY LenProperties DEF IdSeq
<1> QED
  BY <1>1, IdSeqType

LEMMA IssuesRestores ==
  ASSUME LogInv, RestoreInv, NEW c \in Conns, NEW kind \in Kinds, Issues(c, kind)
  PROVE  RestoreInv'
<1> DEFINE i == Len(issued) + 1
           r == [kind |-> kind, link |-> c \in Links, born |-> crashes]
<1>1. /\ pc[c] = "idle" /\ i \in Ids /\ issued' = Append(issued, r)
      /\ cmd' = [cmd EXCEPT ![c] = i]
      /\ aofBuffer' = [aofBuffer EXCEPT ![c] = Append(@, i)]
      /\ \/ pc' = [pc EXCEPT ![c] = "writing"] /\ exact' = exact
         \/ exact' = FALSE
      /\ UNCHANGED <<file, list, waiters, done, rebuilder, data, unexecuted, crashes, expected>>
  BY AofAssumption DEF Issues, Logs, processVars, Ids, LogInv, Types, LogTypes
<1>2. /\ Len(issued) \in Nat /\ DOMAIN issued = 1..Len(issued)
      /\ issued'[i] = r /\ DOMAIN issued' = 1..i
      /\ \A j \in DOMAIN issued : issued'[j] = issued[j] /\ j \in DOMAIN issued'
  BY <1>1 DEF LogInv, Types, LogTypes
<1>3. Known'
  <2>1. ASSUME NEW d \in Links, NEW n \in DOMAIN aofBuffer'[d]
        PROVE  issued'[aofBuffer'[d][n]].born = crashes
    <3>0. d \in Conns /\ aofBuffer[d] \in Seq(Ids) /\ i \in Ids
      BY <1>1, Apart DEF LogInv, Types, ConnTypes
    <3>1. CASE d # c
      <4>1. aofBuffer'[d] = aofBuffer[d]
        BY <1>1, <3>0, <3>1 DEF LogInv, Types, ConnTypes
      <4>2. aofBuffer[d][n] \in DOMAIN issued /\ issued[aofBuffer[d][n]].born = crashes
        BY <2>1, <3>0, <4>1 DEF LogInv, Control, OnlyIssued, RestoreInv, Known
      <4> QED
        BY <1>2, <4>1, <4>2
    <3>2. CASE d = c
      <4>1. aofBuffer'[d] = Append(aofBuffer[d], i)
        BY <1>1, <3>0, <3>2 DEF LogInv, Types, ConnTypes
      <4>2. n \in DOMAIN aofBuffer[d] \/ aofBuffer'[d][n] = i
        BY <2>1, <3>0, <4>1, AppendProperties
      <4>3. CASE aofBuffer'[d][n] = i
        BY <1>2, <4>3
      <4>4. CASE n \in DOMAIN aofBuffer[d]
        <5>1. aofBuffer[d][n] \in DOMAIN issued /\ issued[aofBuffer[d][n]].born = crashes
          BY <3>0, <4>4 DEF LogInv, Control, OnlyIssued, RestoreInv, Known
        <5>2. aofBuffer'[d][n] = aofBuffer[d][n]
          BY <3>0, <4>1, <4>4, AppendProperties
        <5> QED
          BY <1>2, <5>1, <5>2
      <4> QED
        BY <4>2, <4>3, <4>4
    <3> QED
      BY <3>1, <3>2
  <2> HIDE DEF i, r
  <2> QED
    BY <1>1, <1>2, <2>1 DEF RestoreInv, Known
<1> HIDE DEF i, r
<1>4. CASE exact' = FALSE
  BY <1>3, <1>4, NoLongerExact
<1>5. CASE pc' = [pc EXCEPT ![c] = "writing"] /\ exact' = exact
  <2>1. After(issued', <<>>, IdSeq(file)) = After(issued, <<>>, IdSeq(file))
    <3>1. \A n \in DOMAIN file : file[n].id \in DOMAIN issued
      BY DEF LogInv, Control, OnlyIssued
    <3> QED
      BY <1>1, <3>1, RecordsIssued, SameOutcome, EmptySeq DEF LogInv, Types, LogTypes
  <2>2. FirstProcess'
    <3>1. After(issued', list, unexecuted) = After(issued, list, unexecuted)
      BY <1>1, SameOutcome DEF RestoreInv, Known
    <3> QED
      BY <1>1, <1>5, <2>1, <3>1 DEF RestoreInv, FirstProcess, LogMakesList, AllWhole
  <2>3. SecondProcess'
    <3> SUFFICES ASSUME crashes = 1, exact, ~done
                 PROVE  /\ rebuilder = Nobody => BeforeRebuild'
                        /\ rebuilder # Nobody => InRebuild'
      BY <1>1, <1>5 DEF RestoreInv, SecondProcess
    <3>1. ASSUME rebuilder = Nobody PROVE BeforeRebuild'
      <4>1. \A j \in IdsOf(file) : j \in DOMAIN issued
        BY InIdsOf DEF LogInv, Types, LogTypes, Control, OnlyIssued
      <4>2. AllOld' => AllOld
        BY <1>1, <1>2, <4>1 DEF AllOld
      <4> QED
        BY <1>1, <2>1, <3>1, <4>2 DEF RestoreInv, SecondProcess, BeforeRebuild
    <3>2. ASSUME rebuilder # Nobody PROVE InRebuild'
      <4>1. rebuilder \in Conns /\ rebuilder # c
        BY <1>1, <3>2, Apart DEF LogInv, Types, ProcessTypes, Control, Handlers, Busy
      <4>2. pc'[rebuilder] = pc[rebuilder] /\ cmd'[rebuilder] = cmd[rebuilder]
        BY <1>1, <1>5, <4>1 DEF LogInv, Types, ConnTypes
      <4>3. Replayed' = Replayed /\ Replayed \in Seq(Ids)
        <5>1. CASE pc[rebuilder] \in {"writing", "executing", "popping"}
          <6>1. cmd[rebuilder] \in DOMAIN issued
            BY <4>1, <5>1 DEF LogInv, Control, OnlyIssued, Busy
          <6>2. cmd[rebuilder] \in Ids
            BY <6>1, AofAssumption DEF LogInv, Types, LogTypes, Ids
          <6>3. Result(issued, list, cmd[rebuilder]) \in Seq(Ids)
            BY <6>2, ResultType DEF RestoreInv, Known
          <6> QED
            BY <1>1, <1>2, <4>2, <5>1, <6>1, <6>3 DEF Replayed, Result
        <5>2. CASE pc[rebuilder] \notin {"writing", "executing", "popping"}
          BY <1>1, <4>2, <5>2 DEF Replayed, RestoreInv, Known
        <5> QED
          BY <5>1, <5>2
      <4>4. After(issued', Replayed, IdSeq(data)) = After(issued, Replayed, IdSeq(data))
        <5>1. \A n \in DOMAIN data : data[n].id \in DOMAIN issued
          BY DEF LogInv, Control, OnlyIssued
        <5> QED
          BY <1>1, <4>3, <5>1, RecordsIssued, SameOutcome DEF LogInv, Types, ProcessTypes
      <4> QED
        BY <1>1, <3>2, <4>2, <4>3, <4>4 DEF RestoreInv, SecondProcess, InRebuild
    <3> QED
      BY <3>1, <3>2
  <2> QED
    BY <1>3, <2>2, <2>3 DEF RestoreInv
<1> QED
  BY <1>1, <1>4, <1>5

(* The rebuild is at the next record.                                      *)
LEMMA ReplaysRestores ==
  ASSUME LogInv, RestoreInv, NEW c \in Conns, Replays(c)
  PROVE  RestoreInv'
<1>1. /\ pc[c] = "rebuilding" /\ data # <<>> /\ data' = Tail(data)
      /\ cmd' = [cmd EXCEPT ![c] = Head(data).id]
      /\ aofBuffer' = [aofBuffer EXCEPT ![c] = Append(@, Head(data).id)]
      /\ \/ pc' = [pc EXCEPT ![c] = "writing"] /\ exact' = exact
         \/ exact' = FALSE
      /\ UNCHANGED <<file, list, waiters, done, rebuilder, issued, unexecuted, crashes, expected>>
  BY DEF Replays, Logs
<1>2. rebuilder = c /\ c \in Clients /\ c # Nobody
  BY <1>1, Apart DEF LogInv, Types, ProcessTypes, Control, Handlers
<1>3. Known'
  <2>1. \A d \in Links : aofBuffer'[d] = aofBuffer[d]
    BY <1>1, <1>2, Apart DEF LogInv, Types, ConnTypes
  <2> QED
    BY <1>1, <2>1 DEF RestoreInv, Known
<1>4. CASE exact' = FALSE
  BY <1>3, <1>4, NoLongerExact
<1>5. CASE pc' = [pc EXCEPT ![c] = "writing"] /\ exact' = exact
  <2>1. FirstProcess'
    BY <1>1, <1>5 DEF RestoreInv, FirstProcess, LogMakesList
  <2>2. SecondProcess'
    <3> SUFFICES ASSUME crashes = 1, exact, ~done PROVE InRebuild'
      BY <1>1, <1>2, <1>5 DEF RestoreInv, SecondProcess
    <3>1. After(issued, list, IdSeq(data)) = expected
      BY <1>1, <1>2 DEF RestoreInv, SecondProcess, InRebuild, Replayed
    <3>2. pc'[c] = "writing" /\ cmd'[c] = Head(data).id
      BY <1>1, <1>2, <1>5, Apart DEF LogInv, Types, ConnTypes
    <3>3. After(issued, list, IdSeq(data)) = After(issued, Result(issued, list, Head(data).id), IdSeq(Tail(data)))
      BY <1>1, IdSeqType, IdSeqHead, AfterFirst DEF LogInv, Types, ProcessTypes, RestoreInv, Known
    <3> QED
      BY <1>1, <1>2, <3>1, <3>2, <3>3 DEF InRebuild, Replayed
  <2> QED
    BY <1>3, <2>1, <2>2 DEF RestoreInv
<1> QED
  BY <1>1, <1>4, <1>5

(* The rebuild is over.                                                    *)
LEMMA ReplayEndsRestores ==
  ASSUME LogInv, RestoreInv, NEW c \in Conns, ReplayEnds(c)
  PROVE  RestoreInv'
<1>1. /\ done' = TRUE /\ data' = <<>>
      /\ UNCHANGED <<file, list, waiters, aofBuffer, issued, unexecuted, crashes, exact, expected>>
  BY DEF ReplayEnds, NowDone, historyVars
<1>2. Known' /\ SecondProcess'
  BY <1>1 DEF RestoreInv, Known, SecondProcess
<1>3. FirstProcess'
  BY <1>1 DEF RestoreInv, FirstProcess, LogMakesList, AllWhole
<1> QED
  BY <1>2, <1>3 DEF RestoreInv

(* A record is written: the log has a command more, and so has what is not *)
(* executed.                                                               *)
LEMMA WrittenKnown ==
  ASSUME LogInv, RestoreInv, NEW c \in Conns, pc[c] = "writing", aofBuffer[c] # <<>>,
         aofBuffer' = [aofBuffer EXCEPT ![c] = Tail(@)],
         \/ unexecuted' = unexecuted \/ unexecuted' = <<>>
         \/ unexecuted' = Append(unexecuted, Head(aofBuffer[c])),
         UNCHANGED <<list, issued, crashes>>
  PROVE  Known'
<1>1. /\ aofBuffer[c] \in Seq(Ids) /\ Head(aofBuffer[c]) \in Ids
      /\ Head(aofBuffer[c]) \in DOMAIN issued
  <2>1. aofBuffer[c] \in Seq(Ids) /\ 1 \in DOMAIN aofBuffer[c] /\ Head(aofBuffer[c]) = aofBuffer[c][1]
    BY DEF LogInv, Types, ConnTypes
  <2> QED
    BY <2>1 DEF LogInv, Control, OnlyIssued
<1>2. ASSUME NEW d \in Links, NEW n \in DOMAIN aofBuffer'[d]
      PROVE  issued[aofBuffer'[d][n]].born = crashes
  <2>0. d \in Conns /\ aofBuffer[d] \in Seq(Ids)
    BY Apart DEF LogInv, Types, ConnTypes
  <2>1. CASE d # c
    BY <1>2, <2>0, <2>1 DEF LogInv, Types, ConnTypes, RestoreInv, Known
  <2>2. CASE d = c
    <3>1. aofBuffer'[d] = Tail(aofBuffer[d])
      BY <2>0, <2>2 DEF LogInv, Types, ConnTypes
    <3>2. n + 1 \in DOMAIN aofBuffer[d] /\ aofBuffer'[d][n] = aofBuffer[d][n + 1]
      <4>1. PICK b \in Seq(Ids) : b = aofBuffer[d] /\ b # <<>>
        BY <2>0, <2>2
      <4>2. PICK t \in Seq(Ids) : t = Tail(b)
        BY <4>1, HeadTailProperties
      <4>3. DOMAIN t = 1..(Len(b) - 1) /\ Len(b) \in Nat /\ \A m \in 1..(Len(b) - 1) : t[m] = b[m + 1]
        BY <4>1, <4>2, HeadTailProperties
      <4>4. n \in 1..(Len(b) - 1) /\ aofBuffer'[d][n] = b[n + 1]
        BY <1>2, <3>1, <4>1, <4>2, <4>3
      <4> QED
        BY <4>1, <4>3, <4>4
    <3> QED
      BY <3>2 DEF RestoreInv, Known
  <2> QED
    BY <2>1, <2>2
<1>3. /\ unexecuted' \in Seq(Ids)
      /\ \A n \in DOMAIN unexecuted' : unexecuted'[n] \in DOMAIN issued
  <2>1. CASE unexecuted' = unexecuted \/ unexecuted' = <<>>
    <3>1. CASE unexecuted' = unexecuted
      BY <3>1 DEF RestoreInv, Known
    <3>2. CASE unexecuted' = <<>>
      BY <3>2
    <3> QED
      BY <2>1, <3>1, <3>2
  <2>2. CASE unexecuted' = Append(unexecuted, Head(aofBuffer[c]))
    <3>1. unexecuted \in Seq(Ids) /\ \A n \in DOMAIN unexecuted : unexecuted[n] \in DOMAIN issued
      BY DEF RestoreInv, Known
    <3> QED
      BY <1>1, <2>2, <3>1, AppendProperties
  <2> QED
    BY <2>1, <2>2
<1> QED
  BY <1>2, <1>3 DEF RestoreInv, Known

LEMMA WritesRestores ==
  ASSUME LogInv, RestoreInv, NEW c \in Conns, Writes(c)
  PROVE  RestoreInv'
<1> DEFINE i == Head(aofBuffer[c])
           r == [id |-> i, whole |-> TRUE]
<1>1. /\ aofBuffer[c] # <<>> /\ pc[c] = "writing" /\ file' = Append(file, r)
      /\ aofBuffer' = [aofBuffer EXCEPT ![c] = Tail(@)]
      /\ pc' = [pc EXCEPT ![c] = IF Len(aofBuffer[c]) <= 1 THEN "executing" ELSE "writing"]
      /\ unexecuted' = IF crashes = 0 THEN Append(unexecuted, i) ELSE <<>>
      /\ UNCHANGED <<list, waiters, done, rebuilder, data, cmd, issued, crashes, exact, expected>>
  BY DEF Writes, Wrote, Record, processVars
<1>2. i \in Ids /\ i \in DOMAIN issued /\ r \in Records /\ r.id = i /\ r.whole
  <2>1. aofBuffer[c] \in Seq(Ids) /\ 1 \in DOMAIN aofBuffer[c] /\ i = aofBuffer[c][1]
    BY <1>1 DEF LogInv, Types, ConnTypes
  <2>2. i \in Ids /\ i \in DOMAIN issued
    BY <2>1 DEF LogInv, Control, OnlyIssued
  <2> QED
    BY <2>2 DEF Records
<1>3. Known'
  BY <1>1, WrittenKnown
<1>4. file \in Seq(Records)
  BY DEF LogInv, Types, LogTypes
<1> HIDE DEF i, r
<1>5. FirstProcess'
  <2> SUFFICES ASSUME crashes = 0, exact PROVE LogMakesList'
    BY <1>1 DEF FirstProcess
  <2>1. LogMakesList
    BY DEF RestoreInv, FirstProcess
  <2>2. AllWhole'
    <3>1. ASSUME NEW n \in DOMAIN file' PROVE file'[n].whole
      <4>1. (n \in DOMAIN file /\ file'[n] = file[n]) \/ file'[n] = r
        BY <1>1, <1>2, <1>4, AppendProperties
      <4> QED
        BY <1>2, <2>1, <4>1 DEF LogMakesList, AllWhole
    <3> QED
      BY <3>1 DEF AllWhole
  <2>3. IdSeq(file') = Append(IdSeq(file), i) /\ IdSeq(file) \in Seq(Ids)
    BY <1>1, <1>2, <1>4, IdSeqAppend, IdSeqType
  <2>4. After(issued, <<>>, IdSeq(file')) = Result(issued, After(issued, <<>>, IdSeq(file)), i)
    <3>1. <<>> \in Seq(Ids)
      OBVIOUS
    <3>2. After(issued, <<>>, Append(IdSeq(file), i)) = Result(issued, After(issued, <<>>, IdSeq(file)), i)
      BY <1>2, <2>3, <3>1, AfterOneMore
    <3> QED
      BY <2>3, <3>2
  <2>5. After(issued, list, unexecuted') = Result(issued, After(issued, list, unexecuted), i)
    BY <1>1, <1>2, AfterOneMore DEF RestoreInv, Known
  <2> QED
    BY <1>1, <2>1, <2>2, <2>4, <2>5 DEF LogMakesList
<1>6. SecondProcess'
  <2> SUFFICES ASSUME crashes = 1, exact, ~done
               PROVE  /\ rebuilder = Nobody => BeforeRebuild'
                      /\ rebuilder # Nobody => InRebuild'
    BY <1>1 DEF RestoreInv, SecondProcess
  <2>1. ASSUME rebuilder = Nobody PROVE BeforeRebuild'
    <3>1. c \in Links
      BY <1>1, <2>1, Apart DEF LogInv, Control, Quiet
    <3>2. issued[i].born = 1
      <4>1. 1 \in DOMAIN aofBuffer[c] /\ i = aofBuffer[c][1]
        BY <1>1, <3>1 DEF LogInv, Types, ConnTypes, i
      <4> QED
        BY <3>1, <4>1 DEF RestoreInv, Known
    <3>3. i \in IdsOf(file')
      BY <1>1, <1>2, <1>4, AppendIds
    <3>4. ~AllOld'
      BY <1>1, <3>2, <3>3 DEF AllOld
    <3> QED
      BY <1>1, <2>1, <3>4 DEF RestoreInv, SecondProcess, BeforeRebuild
  <2>2. ASSUME rebuilder # Nobody PROVE InRebuild'
    <3>1. /\ pc'[rebuilder] \in {"writing", "executing", "popping"} <=> pc[rebuilder] \in {"writing", "executing", "popping"}
          /\ pc'[rebuilder] = "blocked" => pc[rebuilder] = "blocked"
      BY <1>1, <2>2, Apart DEF LogInv, Types, ProcessTypes, ConnTypes
    <3>2. Replayed' = Replayed
      BY <1>1, <3>1 DEF Replayed
    <3> QED
      BY <1>1, <2>2, <3>1, <3>2 DEF RestoreInv, SecondProcess, InRebuild
  <2> QED
    BY <2>1, <2>2
<1> QED
  BY <1>3, <1>5, <1>6 DEF RestoreInv

LEMMA WritesShortRestores ==
  ASSUME LogInv, RestoreInv, NEW c \in Conns, WritesShort(c)
  PROVE  RestoreInv'
<1>1. /\ aofBuffer[c] # <<>> /\ pc[c] = "writing" /\ exact' = FALSE
      /\ aofBuffer' = [aofBuffer EXCEPT ![c] = Tail(@)]
      /\ UNCHANGED <<list, issued, crashes, unexecuted>>
  BY DEF WritesShort, Wrote, processVars
<1>2. Known'
  BY <1>1, WrittenKnown
<1> QED
  BY <1>1, <1>2, NoLongerExact

(* A command is executed: in the first process the next one of the log, in *)
(* the second the one the rebuild is at.                                   *)
LEMMA AtWorkIssued ==
  ASSUME LogInv, NEW c \in Conns, pc[c] \in {"writing", "executing", "popping"}
  PROVE  cmd[c] \in Ids /\ cmd[c] \in DOMAIN issued
BY AofAssumption DEF LogInv, Types, LogTypes, Control, OnlyIssued, Busy, Ids

LEMMA ExecutedKnown ==
  ASSUME LogInv, RestoreInv, NEW c \in Conns, pc[c] \in {"writing", "executing", "popping"},
         unexecuted' = RemoveFirst(unexecuted, cmd[c]), list' \in Seq(Ids),
         UNCHANGED <<aofBuffer, issued, crashes>>
  PROVE  Known'
<1>1. unexecuted \in Seq(Ids) /\ \A n \in DOMAIN unexecuted : unexecuted[n] \in DOMAIN issued
  BY DEF RestoreInv, Known
<1>2. PICK r \in Seq(Ids) : r = unexecuted'
  BY <1>1, AtWorkIssued, RemoveFirstType
<1>3. OnlyWithout(r, unexecuted, cmd[c])
  BY <1>1, <1>2, AtWorkIssued, RemoveFirstKeeps
<1>4. \A n \in DOMAIN r : r[n] \in DOMAIN issued
  BY <1>1, <1>3 DEF OnlyWithout, Holds
<1> QED
  BY <1>2, <1>4 DEF RestoreInv, Known

LEMMA NobodyWaits ==
  ASSUME LogInv, RestoreInv, NEW c \in Conns, pc[c] \in {"writing", "executing", "popping"}, exact, InOrder(c),
         crashes = 0 \/ (crashes = 1 /\ ~done)
  PROVE  waiters = <<>>
<1>1. CASE crashes = 0
  BY <1>1 DEF RestoreInv, FirstProcess, LogMakesList
<1>2. CASE crashes = 1 /\ ~done
  <2>1. rebuilder = c
    BY <1>2 DEF InOrder
  <2>2. \A n \in DOMAIN waiters : waiters[n] = c
    BY <1>2, <2>1 DEF RestoreInv, SecondProcess
  <2>3. DOMAIN waiters = {}
    BY <2>2 DEF LogInv, Control, Queue
  <2> QED
    BY <2>3, EmptySeq DEF LogInv, Types, ProcessTypes
<1> QED
  BY <1>1, <1>2

LEMMA ExecutedRestores ==
  ASSUME LogInv, RestoreInv, NEW c \in Conns, pc[c] \in {"writing", "executing", "popping"},
         unexecuted' = RemoveFirst(unexecuted, cmd[c]), list' \in Seq(Ids),
         exact' => exact /\ InOrder(c),
         exact /\ waiters = <<>> => list' = Result(issued, list, cmd[c]) /\ waiters' = waiters,
         pc'[c] = IF rebuilder = c THEN "rebuilding" ELSE "idle",
         UNCHANGED <<file, done, rebuilder, data, aofBuffer, issued, crashes, expected>>
  PROVE  RestoreInv'
<1>1. FirstProcess'
  <2> SUFFICES ASSUME crashes = 0, exact' PROVE LogMakesList'
    BY DEF FirstProcess
  <2>1. exact /\ InOrder(c) /\ LogMakesList
    BY DEF RestoreInv, FirstProcess
  <2>2. list' = Result(issued, list, cmd[c]) /\ waiters' = <<>>
    BY <2>1 DEF LogMakesList
  <2>3. unexecuted # <<>> /\ Head(unexecuted) = cmd[c] /\ unexecuted \in Seq(Ids) /\ list \in Seq(Ids)
    BY <2>1 DEF InOrder, RestoreInv, Known
  <2>4. unexecuted' = Tail(unexecuted)
    BY <2>3, RemoveFirstOfHead
  <2>5. After(issued, list, unexecuted) = After(issued, list', unexecuted')
    BY <2>2, <2>3, <2>4, AfterFirst
  <2> QED
    BY <2>1, <2>2, <2>5 DEF LogMakesList, AllWhole
<1>2. SecondProcess'
  <2> SUFFICES ASSUME crashes = 1, exact', ~done
               PROVE  /\ \A n \in DOMAIN waiters' : waiters'[n] = rebuilder
                      /\ rebuilder # Nobody /\ InRebuild'
    BY DEF SecondProcess
  <2>1. exact /\ InOrder(c) /\ rebuilder = c /\ c # Nobody
    BY Apart DEF InOrder
  <2>2. waiters = <<>> /\ list' = Result(issued, list, cmd[c]) /\ waiters' = <<>>
    BY <2>1, NobodyWaits
  <2>3. Replayed' = list' /\ pc'[rebuilder'] = "rebuilding"
    BY <2>1 DEF Replayed
  <2>4. After(issued, Result(issued, list, cmd[c]), IdSeq(data)) = expected
    BY <2>1 DEF RestoreInv, SecondProcess, InRebuild, Replayed
  <2> QED
    BY <2>1, <2>2, <2>3, <2>4 DEF InRebuild
<1> QED
  BY <1>1, <1>2, ExecutedKnown DEF RestoreInv

LEMMA RPushRestores ==
  ASSUME LogInv, RestoreInv, NEW c \in Conns, RPush(c)
  PROVE  RestoreInv'
<1>1. /\ pc[c] = "executing" /\ issued[cmd[c]].kind = "rpush"
      /\ unexecuted' = RemoveFirst(unexecuted, cmd[c])
      /\ exact' => exact /\ InOrder(c)
      /\ UNCHANGED <<file, done, rebuilder, data, aofBuffer, issued, crashes, expected>>
  BY DEF RPush, Executes
<1>2. list \in Seq(Ids) /\ cmd[c] \in Ids /\ Append(list, cmd[c]) = Result(issued, list, cmd[c])
  BY <1>1, AtWorkIssued DEF RestoreInv, Known, Result
<1>3. waiters = <<>> => list' = Append(list, cmd[c]) /\ waiters' = waiters
  BY DEF RPush
<1>4. list' \in Seq(Ids)
  <2>1. list' = list \/ list' = Append(list, cmd[c])
    BY DEF RPush
  <2> QED
    BY <1>2, <2>1, AppendProperties
<1>5. pc'[c] = IF rebuilder = c THEN "rebuilding" ELSE "idle"
  BY DEF RPush, Answers
<1> QED
  BY <1>1, <1>2, <1>3, <1>4, <1>5, ExecutedRestores

LEMMA PopsRestore ==
  ASSUME LogInv, RestoreInv, PopInv, NEW c \in Conns, LPopStores(c) \/ PopsAtOnce(c)
  PROVE  RestoreInv'
<1>1. /\ pc[c] \in {"writing", "executing", "popping"} /\ issued[cmd[c]].kind # "rpush"
      /\ unexecuted' = RemoveFirst(unexecuted, cmd[c])
      /\ exact' => exact /\ InOrder(c)
      /\ pc'[c] = IF rebuilder = c THEN "rebuilding" ELSE "idle"
      /\ UNCHANGED <<file, waiters, done, rebuilder, data, aofBuffer, issued, crashes, expected>>
  BY DEF LPopStores, PopsAtOnce, Executes, Answers
<1>2. Result(issued, list, cmd[c]) = Pop(list)
  BY <1>1 DEF Result
<1>3. exact => list' = Pop(list)
  BY DEF LPopStores, PopsAtOnce, PopInv
<1>4. list' \in Seq(Ids)
  <2>1. list' = slice[c] \/ list' = Pop(list)
    BY DEF LPopStores, PopsAtOnce
  <2>2. Pop(list) \in Seq(Ids)
    BY <1>1, <1>2, AtWorkIssued, ResultType DEF RestoreInv, Known
  <2> QED
    BY <2>1, <2>2 DEF PopInv
<1> QED
  BY <1>1, <1>2, <1>3, <1>4, ExecutedRestores

LEMMA LPopReadsRestores ==
  ASSUME LogInv, RestoreInv, NEW c \in Conns, LPopReads(c)
  PROVE  RestoreInv'
<1>1. /\ pc[c] = "executing" /\ pc' = [pc EXCEPT ![c] = "popping"]
      /\ SameLists /\ UNCHANGED <<done, rebuilder, cmd, aofBuffer>>
  BY DEF LPopReads, processVars, historyVars, SameLists
<1>2. Known'
  BY <1>1 DEF SameLists, RestoreInv, Known
<1>3. FirstProcess'
  BY <1>1 DEF SameLists, RestoreInv, FirstProcess, LogMakesList, AllWhole
<1>4. SecondProcess'
  <2>1. rebuilder # Nobody =>
          /\ pc'[rebuilder] \in {"writing", "executing", "popping"} <=> pc[rebuilder] \in {"writing", "executing", "popping"}
          /\ pc'[rebuilder] = "blocked" => pc[rebuilder] = "blocked"
    BY <1>1, Apart DEF LogInv, Types, ProcessTypes, ConnTypes
  <2>2. rebuilder # Nobody /\ InRebuild => InRebuild'
    BY <1>1, <2>1 DEF SameLists, InRebuild, Replayed
  <2>3. BeforeRebuild => BeforeRebuild'
    BY <1>1 DEF SameLists, BeforeRebuild, AllOld
  <2> QED
    BY <1>1, <2>2, <2>3 DEF SameLists, RestoreInv, SecondProcess
<1> QED
  BY <1>2, <1>3, <1>4 DEF RestoreInv

LEMMA BlocksRestores ==
  ASSUME LogInv, RestoreInv, NEW c \in Conns, Blocks(c)
  PROVE  RestoreInv'
<1>1. /\ pc[c] = "executing" /\ issued[cmd[c]].kind # "rpush" /\ list = <<>>
      /\ pc' = [pc EXCEPT ![c] = "blocked"]
      /\ waiters' = Append(waiters, c)
      /\ unexecuted' = RemoveFirst(unexecuted, cmd[c])
      /\ exact' => exact /\ crashes > 0 /\ InOrder(c)
      /\ UNCHANGED <<file, list, done, rebuilder, data, cmd, aofBuffer, issued, crashes, expected>>
  BY DEF Blocks
<1>2. Known'
  <2>1. list' \in Seq(Ids)
    BY <1>1 DEF RestoreInv, Known
  <2> QED
    BY <1>1, <2>1, ExecutedKnown
<1>3. FirstProcess'
  BY <1>1 DEF FirstProcess
<1>4. SecondProcess'
  <2> SUFFICES ASSUME crashes = 1, exact', ~done
               PROVE  /\ \A n \in DOMAIN waiters' : waiters'[n] = rebuilder
                      /\ rebuilder # Nobody /\ InRebuild'
    BY <1>1 DEF SecondProcess
  <2>1. exact /\ InOrder(c) /\ rebuilder = c /\ c # Nobody
    BY <1>1, Apart DEF InOrder
  <2>2. waiters = <<>>
    BY <1>1, <2>1, NobodyWaits
  <2>3. waiters' = <<c>>
    BY <1>1, <2>2
  <2>4. pc'[c] = "blocked"
    BY <1>1 DEF LogInv, Types, ConnTypes
  <2>5. Replayed = list /\ Replayed' = list'
    BY <1>1, <2>1, <2>4 DEF Replayed, Result, Pop
  <2>6. After(issued, list, IdSeq(data)) = expected
    BY <2>1, <2>5 DEF RestoreInv, SecondProcess, InRebuild
  <2>7. InRebuild'
    BY <1>1, <2>5, <2>6 DEF InRebuild
  <2> QED
    BY <2>1, <2>3, <2>7
<1> QED
  BY <1>2, <1>3, <1>4 DEF RestoreInv

LEMMA TimesOutRestores ==
  ASSUME LogInv, RestoreInv, NEW c \in Conns, TimesOut(c)
  PROVE  RestoreInv'
<1>1. /\ pc[c] = "blocked"
      /\ \A d \in Conns : pc'[d] = IF d # c THEN pc[d]
                                    ELSE IF rebuilder = c THEN "rebuilding" ELSE "idle"
      /\ \A d \in Conns : cmd'[d] = IF d = c THEN 0 ELSE cmd[d]
      /\ UNCHANGED <<file, list, done, rebuilder, data, aofBuffer, issued, unexecuted,
                     crashes, exact, expected>>
  BY DEF TimesOut, Answers
<1>2. PICK n \in DOMAIN waiters : waiters[n] = c /\ waiters' = RemoveAt(waiters, n)
  BY DEF TimesOut
<1>3. \A i \in DOMAIN waiters' : \E m \in DOMAIN waiters : waiters'[i] = waiters[m]
  BY <1>2, LeavesQueue DEF LogInv, Types, Control, Queue, ProcessTypes
<1>4. Known'
  BY <1>1 DEF RestoreInv, Known
<1>5. FirstProcess'
  BY <1>1, <1>2, EmptySeq DEF RestoreInv, FirstProcess, LogMakesList
<1>6. SecondProcess'
  <2> SUFFICES ASSUME crashes = 1, exact, ~done
               PROVE  /\ \A i \in DOMAIN waiters' : waiters'[i] = rebuilder
                      /\ rebuilder # Nobody /\ InRebuild'
    BY <1>1 DEF SecondProcess
  <2>1. \A m \in DOMAIN waiters : waiters[m] = rebuilder
    BY DEF RestoreInv, SecondProcess
  <2>2. rebuilder = c /\ c # Nobody
    BY <1>2, <2>1, Apart
  <2>3. /\ After(issued, list, IdSeq(data)) = expected
        /\ pc'[c] = "rebuilding"
    BY <1>1, <2>2 DEF RestoreInv, SecondProcess, InRebuild, Replayed
  <2>4. InRebuild'
    BY <1>1, <2>2, <2>3 DEF InRebuild, Replayed
  <2> QED
    BY <1>3, <2>1, <2>2, <2>4
<1> QED
  BY <1>4, <1>5, <1>6 DEF RestoreInv

(* A crash of the first process: what its log makes of nothing is what has *)
(* to come back.                                                           *)
LEMMA RestartedKnown ==
  ASSUME LogInv, NEW rest, Restarts(rest)
  PROVE  Known'
BY Apart DEF Restarts, Known

LEMMA ProcessCrashesRestores ==
  ASSUME LogInv, RestoreInv, ProcessCrashes
  PROVE  RestoreInv'
<1>1. /\ crashes' = crashes + 1 /\ file' = file /\ list' = <<>> /\ waiters' = <<>>
      /\ done' = FALSE /\ rebuilder' = Nobody /\ UNCHANGED issued
      /\ exact' = (exact /\ crashes = 0)
      /\ expected' = IF exact /\ crashes = 0 THEN Outcome(list, unexecuted) ELSE <<>>
      /\ crashes \in Nat
  BY DEF ProcessCrashes, Restarts, LogInv, Types, LogTypes
<1>2. Known'
  BY RestartedKnown DEF ProcessCrashes
<1>3. FirstProcess'
  BY <1>1 DEF FirstProcess
<1>4. SecondProcess'
  <2>a. exact' => exact /\ crashes = 0
    BY <1>1, Zenon
  <2>b. \A n \in DOMAIN waiters' : waiters'[n] = rebuilder'
    BY <1>1
  <2> SUFFICES ASSUME exact, crashes = 0 PROVE BeforeRebuild'
    BY <1>1, <2>a, <2>b DEF SecondProcess
  <2>1. After(issued, <<>>, IdSeq(file)) = After(issued, list, unexecuted)
    BY DEF RestoreInv, FirstProcess, LogMakesList
  <2>2. expected' = After(issued, list, unexecuted)
    BY <1>1, OutcomeIsAfter
  <2> QED
    BY <1>1, <2>1, <2>2 DEF BeforeRebuild
<1> QED
  BY <1>2, <1>3, <1>4 DEF RestoreInv

LEMMA MachineCrashesRestores ==
  ASSUME LogInv, RestoreInv, NEW n \in 0..(Len(file) - 1), NEW cut \in BOOLEAN,
         MachineCrashes(n, cut)
  PROVE  RestoreInv'
BY RestartedKnown, NoLongerExact DEF MachineCrashes

-----------------------------------------------------------------------------
LEMMA InitRestores == Init => RestoreInv /\ PopInv
<1> SUFFICES ASSUME Init PROVE RestoreInv /\ PopInv
  OBVIOUS
<1>1. Known
  BY Apart DEF Init, Known
<1>2. FirstProcess
  <2>1. IdSeq(<<>>) = <<>>
    BY DEF IdSeq
  <2> QED
    BY <2>1 DEF Init, FirstProcess, LogMakesList, AllWhole
<1>3. SecondProcess
  BY DEF Init, SecondProcess
<1>4. PopInv
  <2>1. list = <<>> /\ \A c \in Conns : pc[c] # "popping"
    BY DEF Init, NewConnections
  <2>2. slice \in [Conns -> Seq(Ids)]
    BY DEF Init
  <2> QED
    BY <2>1, <2>2 DEF PopInv
<1> QED
  BY <1>1, <1>2, <1>3, <1>4 DEF RestoreInv

LEMMA StutterRestores ==
  ASSUME LogInv, RestoreInv, UNCHANGED vars
  PROVE  RestoreInv'
BY ListsStay DEF vars, processVars, connVars, historyVars, SameLists

LEMMA StepRestores ==
  ASSUME LogInv, RestoreInv, PopInv, [Next]_vars
  PROVE  RestoreInv'
<1>1. ASSUME NEW c \in Conns, Steps(c)
      PROVE  RestoreInv'
  BY <1>1, JoinsRestores, ReplaysRestores, ReplayEndsRestores, WritesRestores, RPushRestores,
     LPopReadsRestores, PopsRestore, BlocksRestores, TimesOutRestores DEF Steps
<1>2. ASSUME NEW c \in Conns,
             LinkConnects(c) \/ Reconnects(c) \/ JoinFails(c) \/ WritesShort(c)
      PROVE  RestoreInv'
  BY <1>2, LinkConnectsRestores, ReconnectsRestores, JoinFailsRestores, WritesShortRestores
<1>3. ASSUME NEW c \in Conns, NEW kind \in Kinds, Issues(c, kind)
      PROVE  RestoreInv'
  BY <1>3, IssuesRestores
<1>4. ASSUME NEW n \in 0..(Len(file) - 1), NEW cut \in BOOLEAN, MachineCrashes(n, cut)
      PROVE  RestoreInv'
  BY <1>4, MachineCrashesRestores
<1> QED
  BY <1>1, <1>2, <1>3, <1>4, ProcessCrashesRestores, StutterRestores DEF Next

(* Steps that leave the list, and begin no LPOP.                           *)
LEMMA PopsStay ==
  ASSUME PopInv, list' = list, exists' = exists, slice' = slice, exact' => exact,
         \A c \in Conns : pc'[c] = "popping" => pc[c] = "popping"
  PROVE  PopInv'
BY DEF PopInv, Pop

(* What an LPOP under way will store is what is left of the list, unless   *)
(* another command has overtaken it.                                       *)
LEMMA StepPops ==
  ASSUME LogInv, RestoreInv, PopInv, [Next]_vars
  PROVE  PopInv'
<1>t. pc \in [Conns -> Places]
  BY DEF LogInv, Types, ConnTypes
<1>1. ASSUME NEW c \in Conns,
             \/ Joins(c) \/ Replays(c) \/ ReplayEnds(c) \/ Writes(c) \/ WritesShort(c)
             \/ Blocks(c) \/ LinkConnects(c) \/ Reconnects(c) \/ JoinFails(c)
             \/ \E kind \in Kinds : Issues(c, kind)
      PROVE  PopInv'
  <2>1. list' = list /\ exists' = exists /\ slice' = slice
    BY <1>1 DEF Joins, Replays, ReplayEnds, Writes, WritesShort, Blocks, LinkConnects,
                Reconnects, JoinFails, Issues, processVars
  <2>e. exact' => exact
    <3>1. CASE Joins(c)
      BY <3>1 DEF Joins
    <3>2. CASE Blocks(c)
      BY <3>2 DEF Blocks
    <3>3. CASE Replays(c) \/ \E kind \in Kinds : Issues(c, kind)
      BY <3>3 DEF Replays, Issues, Logs
    <3>4. CASE ReplayEnds(c) \/ LinkConnects(c) \/ Writes(c) \/ Reconnects(c)
      BY <3>4 DEF ReplayEnds, LinkConnects, Writes, Reconnects, historyVars
    <3>5. CASE WritesShort(c) \/ JoinFails(c)
      BY <3>5 DEF WritesShort, JoinFails
    <3> QED
      BY <1>1, <3>1, <3>2, <3>3, <3>4, <3>5
  <2>2. \E to \in Places \ {"popping"} : pc' = pc \/ pc' = [pc EXCEPT ![c] = to]
    BY <1>1 DEF Joins, Replays, ReplayEnds, Writes, WritesShort, Wrote, Blocks, LinkConnects,
                Reconnects, JoinFails, Issues, Logs, Places
  <2>3. \A d \in Conns : pc'[d] = "popping" => pc[d] = "popping"
    BY <1>t, <2>2
  <2> QED
    BY <2>1, <2>e, <2>3, PopsStay
<1>2. ASSUME NEW c \in Conns, TimesOut(c) PROVE PopInv'
  BY <1>2, PopsStay DEF TimesOut, Answers
<1>3. ASSUME NEW c \in Conns, LPopReads(c) PROVE PopInv'
  <2>1. /\ slice' = [slice EXCEPT ![c] = Pop(list)] /\ pc' = [pc EXCEPT ![c] = "popping"]
        /\ UNCHANGED <<list, exists, exact>>
    BY <1>3 DEF LPopReads, processVars, historyVars
  <2>2. Pop(list) \in Seq(Ids)
    <3>1. list \in Seq(Ids)
      BY DEF RestoreInv, Known
    <3> QED
      BY <3>1, HeadTailProperties DEF Pop
  <2>3. slice' \in [Conns -> Seq(Ids)]
    BY <2>1, <2>2 DEF PopInv
  <2>4. \A d \in Conns : exact /\ pc'[d] = "popping" => slice'[d] = Pop(list)
    BY <1>t, <2>1 DEF PopInv
  <2>5. exists
    BY <1>3 DEF LPopReads
  <2> QED
    BY <2>1, <2>3, <2>4, <2>5 DEF PopInv, Pop
<1>4. ASSUME NEW c \in Conns, RPush(c) \/ LPopStores(c) \/ PopsAtOnce(c) PROVE PopInv'
  <2>1. exact' => \A d \in Conns \ {c} : pc[d] # "popping"
    BY <1>4 DEF RPush, LPopStores, PopsAtOnce, Executes, InOrder
  <2>2. \A d \in Conns : pc'[d] = "popping" => pc[d] = "popping" /\ d # c
    BY <1>4 DEF RPush, LPopStores, PopsAtOnce, Answers
  <2>3. slice' = slice \/ slice' = [slice EXCEPT ![c] = <<>>]
    BY <1>4 DEF RPush, LPopStores, PopsAtOnce
  <2>4. slice' \in [Conns -> Seq(Ids)]
    <3>1. slice \in [Conns -> Seq(Ids)] /\ <<>> \in Seq(Ids)
      BY DEF PopInv
    <3> QED
      BY <2>3, <3>1
  <2>5. ~exists' => list' = <<>> /\ \A d \in Conns : pc'[d] # "popping"
    <3>1. CASE RPush(c)
      BY <2>2, <3>1 DEF RPush, PopInv
    <3>2. CASE PopsAtOnce(c)
      BY <2>2, <3>2 DEF PopsAtOnce, PopInv, Pop
    <3>3. CASE LPopStores(c)
      BY <3>3 DEF LPopStores, PopInv
    <3> QED
      BY <1>4, <3>1, <3>2, <3>3
  <2> QED
    BY <2>1, <2>2, <2>4, <2>5 DEF PopInv
<1>5. ASSUME ProcessCrashes \/ \E n \in 0..(Len(file) - 1), cut \in BOOLEAN : MachineCrashes(n, cut)
      PROVE  PopInv'
  <2>1. PICK rest : Restarts(rest)
    BY <1>5 DEF ProcessCrashes, MachineCrashes
  <2>2. /\ list' = <<>> /\ slice' = [c \in Conns |-> <<>>]
        /\ \A c \in Conns : pc'[c] # "popping"
    BY <2>1 DEF Restarts, NewConnections
  <2>3. slice' \in [Conns -> Seq(Ids)]
    BY <2>2
  <2> QED
    BY <2>2, <2>3 DEF PopInv
<1>6. CASE UNCHANGED vars
  BY <1>6, PopsStay DEF vars, processVars, connVars, historyVars
<1> QED
  BY <1>1, <1>2, <1>3, <1>4, <1>5, <1>6 DEF Next, Steps

(* The invariant that ties the log to the list, in the first process and   *)
(* in the second one (commands.go:1254-1295).                              *)
THEOREM RestoreInvHolds == Spec => [](RestoreInv /\ PopInv)
BY LogInvHolds, InitRestores, StepRestores, StepPops, PTL DEF Spec

(* The first restart brings back the list the crash left, whatever is      *)
(* sent and however many connections there are, as long as the process     *)
(* executed its commands one after the other, in the order it logged them, *)
(* and no BLPOP had to wait.                                               *)
THEOREM FirstRestartRestores == Spec => []RestartRestores
<1>1. LogInv /\ RestoreInv => RestartRestores
  <2> SUFFICES ASSUME LogInv, RestoreInv, exact, crashes = 1, rebuilder # Nobody,
                      data = <<>>, pc[rebuilder] = "rebuilding"
               PROVE  list = expected
    BY DEF RestartRestores
  <2>1. ~done
    BY DEF LogInv, Control, Handlers
  <2>2. After(issued, list, IdSeq(<<>>)) = expected
    BY <2>1 DEF RestoreInv, SecondProcess, InRebuild, Replayed
  <2>3. IdSeq(<<>>) = <<>>
    BY DEF IdSeq
  <2> QED
    BY <2>2, <2>3, AfterNothing DEF RestoreInv, Known
<1> QED
  BY <1>1, LogInvHolds, RestoreInvHolds, PTL

-----------------------------------------------------------------------------
(* Powers of two, as the numbers of the subsets of 1..n.                   *)
Power(n) == 2 ^ n

LEMMA PowerIs ==
  \A n \in Nat : IsFiniteSet(SUBSET (1..n)) /\ Cardinality(SUBSET (1..n)) = Power(n)
<1> SUFFICES ASSUME NEW n \in Nat
             PROVE  IsFiniteSet(SUBSET (1..n)) /\ Cardinality(SUBSET (1..n)) = Power(n)
  OBVIOUS
<1>1. IsFiniteSet(1..n) /\ Cardinality(1..n) = n
  BY FS_Interval
<1>2. IsFiniteSet(SUBSET (1..n)) /\ Cardinality(SUBSET (1..n)) = 2 ^ Cardinality(1..n)
  BY <1>1, FS_SUBSET
<1> QED
  BY <1>1, <1>2 DEF Power

LEMMA PowerDoubles ==
  /\ Power(0) = 1
  /\ \A n \in Nat : Power(n) \in Nat /\ 1 <= Power(n) /\ Power(n + 1) = 2 * Power(n)
<1>1. ASSUME NEW n \in Nat PROVE Power(n) \in Nat /\ 1 <= Power(n)
  <2>1. PICK A : A = SUBSET (1..n)
    OBVIOUS
  <2>2. IsFiniteSet(A) /\ Cardinality(A) = Power(n) /\ {} \in A
    BY <2>1, PowerIs
  <2>3. Cardinality(A) \in Nat /\ Cardinality(A) # 0
    BY <2>2, FS_CardinalityType, FS_EmptySet
  <2> QED
    BY <2>2, <2>3
<1>2. Power(0) = 1
  <2>1. PICK n \in Nat : n = 0
    OBVIOUS
  <2>2. SUBSET (1..n) = {{}}
    BY <2>1
  <2>3. Cardinality({{}}) = 1
    BY FS_Singleton
  <2>4. Cardinality(SUBSET (1..n)) = Power(n)
    BY PowerIs
  <2> QED
    BY <2>1, <2>2, <2>3, <2>4
<1>3. ASSUME NEW n \in Nat PROVE Power(n + 1) = 2 * Power(n)
  <2>1. PICK m \in Nat : m = n + 1
    OBVIOUS
  <2> DEFINE A == SUBSET (1..n)
             B == {X \in SUBSET (1..m) : m \in X}
             f == [X \in A |-> X \cup {m}]
  <2>2. SUBSET (1..m) = A \cup B /\ A \cap B = {}
    <3>1. 1..m = 1..n \cup {m} /\ m \notin 1..n
      BY <2>1
    <3> QED
      BY <3>1
  <2>3. f \in Bijection(A, B)
    <3>1. 1..m = 1..n \cup {m} /\ m \notin 1..n
      BY <2>1
    <3>2. ASSUME NEW X \in A PROVE f[X] \in B
      BY <3>1
    <3>3. ASSUME NEW X \in A, NEW Y \in A, f[X] = f[Y] PROVE X = Y
      BY <3>1, <3>3
    <3>4. ASSUME NEW Y \in B PROVE \E X \in A : f[X] = Y
      <4>1. Y \ {m} \in A
        BY <3>1
      <4>2. f[Y \ {m}] = Y
        BY <4>1
      <4> QED
        BY <4>1, <4>2
    <3>5. f \in [A -> B]
      BY <3>2
    <3>6. f \in Injection(A, B)
      BY <3>3, <3>5 DEF Injection, IsInjective
    <3>7. f \in Surjection(A, B)
      BY <3>4, <3>5 DEF Surjection
    <3> QED
      BY <3>6, <3>7 DEF Bijection
  <2>4. IsFiniteSet(A) /\ Cardinality(A) = Power(n)
    BY PowerIs
  <2>5. Cardinality(SUBSET (1..m)) = Power(m)
    BY PowerIs
  <2> HIDE DEF A, B, f
  <2>6. ExistsBijection(A, B)
    BY <2>3 DEF ExistsBijection
  <2>7. IsFiniteSet(B) /\ Cardinality(B) = Cardinality(A)
    BY <2>4, <2>6, FS_Bijection
  <2>8. Cardinality(A \cup B) = Cardinality(A) + Cardinality(B) - Cardinality(A \cap B)
    BY <2>4, <2>7, FS_Union
  <2>9. Cardinality(A \cap B) = 0
    BY <2>2, FS_EmptySet
  <2>10. Power(m) = Cardinality(A) + Cardinality(A) - 0
    BY <2>2, <2>5, <2>7, <2>8, <2>9
  <2> QED
    BY <1>1, <2>1, <2>4, <2>10
<1> QED
  BY <1>1, <1>2, <1>3

LEMMA PowerGrows == \A n \in Nat : Power(n) <= Power(n + 1)
<1> SUFFICES ASSUME NEW n \in Nat PROVE Power(n) <= Power(n + 1)
  OBVIOUS
<1>1. PICK p \in Nat : p = Power(n) /\ Power(n + 1) = 2 * p
  BY PowerDoubles
<1> QED
  BY <1>1

-----------------------------------------------------------------------------
(* How often a sequence of records has a command, whole.                   *)
Read(records) == [n \in DOMAIN records |-> IF records[n].whole THEN records[n].id ELSE 0]
RecordsOf(records, i) == Occurrences(Read(records), i)

LEMMA AppendOccurs ==
  \A S : \A q \in Seq(S), x \in S : \A y :
    Occurrences(Append(q, x), y) = Occurrences(q, y) + (IF x = y THEN 1 ELSE 0)
<1> SUFFICES ASSUME NEW S, NEW q \in Seq(S), NEW x \in S, NEW y
             PROVE  Occurrences(Append(q, x), y) = Occurrences(q, y) + (IF x = y THEN 1 ELSE 0)
  BY Zenon
<1>1. PICK m, r : m = Len(q) /\ m \in Nat /\ r = Append(q, x)
  BY LenProperties
<1>2. /\ DOMAIN q = 1..m /\ DOMAIN r = 1..(m + 1) /\ r[m + 1] = x
      /\ \A n \in 1..m : r[n] = q[n]
  BY <1>1
<1>3. IsFiniteSet(PlacesOf(q, y)) /\ Occurrences(q, y) \in Nat
  BY OccurrencesCount
<1>4. CASE x = y
  <2>1. PlacesOf(r, y) = PlacesOf(q, y) \cup {m + 1}
    BY <1>1, <1>2, <1>4 DEF PlacesOf
  <2>2. m + 1 \notin PlacesOf(q, y)
    BY <1>1, <1>2 DEF PlacesOf
  <2>3. Cardinality(PlacesOf(q, y) \cup {m + 1}) = Cardinality(PlacesOf(q, y)) + 1
    BY <1>3, <2>2, FS_AddElement
  <2> QED
    BY <1>1, <1>4, <2>1, <2>3 DEF Occurrences
<1>5. CASE x # y
  <2>1. PlacesOf(r, y) = PlacesOf(q, y)
    BY <1>1, <1>2, <1>5 DEF PlacesOf
  <2> QED
    BY <1>1, <1>3, <1>5, <2>1 DEF Occurrences
<1> QED
  BY <1>4, <1>5

LEMMA ReadType ==
  \A s \in Seq(Records) : /\ Read(s) \in Seq(Ids \cup {0}) /\ Len(Read(s)) = Len(s)
                          /\ Len(s) \in Nat
                          /\ \A n \in 1..Len(s) : Read(s)[n] = IF s[n].whole THEN s[n].id ELSE 0
<1> SUFFICES ASSUME NEW s \in Seq(Records)
             PROVE  /\ Read(s) \in Seq(Ids \cup {0}) /\ Len(Read(s)) = Len(s)
                    /\ Len(s) \in Nat
                    /\ \A n \in 1..Len(s) : Read(s)[n] = IF s[n].whole THEN s[n].id ELSE 0
  OBVIOUS
<1>1. PICK m \in Nat : m = Len(s) /\ DOMAIN s = 1..m
  BY LenProperties
<1>2. \A n \in 1..m : (IF s[n].whole THEN s[n].id ELSE 0) \in Ids \cup {0}
  <2> SUFFICES ASSUME NEW n \in 1..m
               PROVE  (IF s[n].whole THEN s[n].id ELSE 0) \in Ids \cup {0}
    OBVIOUS
  <2>1. s[n] \in Records
    BY <1>1
  <2>2. s[n].id \in Ids
    BY <2>1 DEF Records
  <2> QED
    BY <2>2
<1>3. Read(s) = [n \in 1..m |-> IF s[n].whole THEN s[n].id ELSE 0]
  BY <1>1 DEF Read
<1>4. Read(s) \in Seq(Ids \cup {0}) /\ Len(Read(s)) = m
  BY <1>2, <1>3
<1> QED
  BY <1>1, <1>3, <1>4

LEMMA RecordsCount ==
  \A s \in Seq(Records) : \A i : RecordsOf(s, i) \in Nat
BY ReadType, OccurrencesCount DEF RecordsOf

LEMMA CopiesAre ==
  \A i \in Ids : file \in Seq(Records) => Copies(i) = RecordsOf(file, i)
<1> SUFFICES ASSUME NEW i \in Ids, file \in Seq(Records) PROVE Copies(i) = RecordsOf(file, i)
  OBVIOUS
<1>1. DOMAIN Read(file) = DOMAIN file
  BY DEF Read
<1>2. i # 0
  BY AofAssumption DEF Ids
<1>3. PlacesOf(Read(file), i) = {n \in DOMAIN file : file[n].whole /\ file[n].id = i}
  BY <1>1, <1>2 DEF PlacesOf, Read
<1> QED
  BY <1>3 DEF Copies, RecordsOf, Occurrences

LEMMA NoRecords ==
  \A i : RecordsOf(<<>>, i) = 0
<1> SUFFICES ASSUME NEW i PROVE RecordsOf(<<>>, i) = 0
  OBVIOUS
<1>1. PlacesOf(Read(<<>>), i) = {}
  BY DEF PlacesOf, Read
<1> QED
  BY <1>1, FS_EmptySet DEF RecordsOf, Occurrences

LEMMA AppendRecords ==
  \A s \in Seq(Records), r \in Records : \A i \in Ids :
    RecordsOf(Append(s, r), i) = RecordsOf(s, i) + (IF r.whole /\ r.id = i THEN 1 ELSE 0)
<1> SUFFICES ASSUME NEW s \in Seq(Records), NEW r \in Records, NEW i \in Ids
             PROVE  RecordsOf(Append(s, r), i) = RecordsOf(s, i) + (IF r.whole /\ r.id = i THEN 1 ELSE 0)
  BY Zenon
<1>1. PICK x : x = IF r.whole THEN r.id ELSE 0
  OBVIOUS
<1>2. x \in Ids \cup {0} /\ (x = i <=> r.whole /\ r.id = i)
  BY <1>1, AofAssumption DEF Records, Ids
<1>3. PICK m, t : m = Len(s) /\ m \in Nat /\ t = Append(s, r)
  BY LenProperties
<1>4. t \in Seq(Records) /\ Len(t) = m + 1 /\ t[m + 1] = r /\ \A n \in 1..m : t[n] = s[n]
  BY <1>3
<1>5. /\ Read(t) \in Seq(Ids \cup {0}) /\ Len(Read(t)) = m + 1
      /\ \A n \in 1..(m + 1) : Read(t)[n] = IF t[n].whole THEN t[n].id ELSE 0
  BY <1>4, ReadType
<1>6. /\ Read(s) \in Seq(Ids \cup {0}) /\ Len(Read(s)) = m
      /\ \A n \in 1..m : Read(s)[n] = IF s[n].whole THEN s[n].id ELSE 0
  BY <1>3, ReadType
<1>7. Read(t) = Append(Read(s), x)
  <2>1. PICK u : u = Append(Read(s), x)
    OBVIOUS
  <2>2. /\ u \in Seq(Ids \cup {0}) /\ Len(u) = m + 1 /\ u[m + 1] = x
        /\ \A n \in 1..m : u[n] = Read(s)[n]
    BY <1>2, <1>6, <2>1
  <2>3. ASSUME NEW n \in 1..(m + 1) PROVE Read(t)[n] = u[n]
    <3>1. CASE n = m + 1
      BY <1>1, <1>4, <1>5, <2>2, <3>1
    <3>2. CASE n # m + 1
      <4>1. n \in 1..m
        BY <1>3, <3>2
      <4> QED
        BY <1>4, <1>5, <1>6, <2>2, <4>1
    <3> QED
      BY <3>1, <3>2
  <2>4. Read(t) = u
    BY <1>5, <2>2, <2>3, SeqEqual
  <2> QED
    BY <2>1, <2>4
<1>8. Occurrences(Append(Read(s), x), i) = Occurrences(Read(s), i) + (IF x = i THEN 1 ELSE 0)
  BY <1>2, <1>6, AppendOccurs
<1> QED
  BY <1>2, <1>3, <1>7, <1>8 DEF RecordsOf

LEMMA TailRecords ==
  \A s \in Seq(Records) : \A i \in Ids : s # <<>> =>
    RecordsOf(Tail(s), i) <= RecordsOf(s, i) - (IF Head(s).whole /\ Head(s).id = i THEN 1 ELSE 0)
<1> SUFFICES ASSUME NEW s \in Seq(Records), NEW i \in Ids, s # <<>>
             PROVE  RecordsOf(Tail(s), i) <= RecordsOf(s, i) - (IF Head(s).whole /\ Head(s).id = i THEN 1 ELSE 0)
  BY Zenon
<1>1. PICK m \in Nat, l \in Nat : m = Len(s) /\ m = l + 1
  <2>1. Len(s) \in Nat \ {0}
    BY EmptySeq
  <2>2. Len(s) - 1 \in Nat /\ Len(s) = (Len(s) - 1) + 1
    BY <2>1
  <2> QED
    BY <2>1, <2>2
<1>2. PICK t, h : t = Tail(s) /\ h = Head(s)
  OBVIOUS
<1>3. h = s[1] /\ h \in Records /\ t \in Seq(Records) /\ Len(t) = l /\ \A n \in 1..l : t[n] = s[n + 1]
  <2>1. /\ Head(s) \in Records /\ Tail(s) \in Seq(Records) /\ Len(Tail(s)) = Len(s) - 1
        /\ \A n \in 1..Len(Tail(s)) : Tail(s)[n] = s[n + 1]
    BY HeadTailProperties
  <2>2. Len(Tail(s)) = l
    BY <1>1, <2>1
  <2>3. Head(s) = s[1]
    OBVIOUS
  <2> QED
    BY <1>2, <2>1, <2>2, <2>3
<1>4. /\ Read(s) \in Seq(Ids \cup {0}) /\ Len(Read(s)) = m
      /\ \A n \in 1..m : Read(s)[n] = IF s[n].whole THEN s[n].id ELSE 0
  BY <1>1, ReadType
<1>5. /\ Read(t) \in Seq(Ids \cup {0}) /\ Len(Read(t)) = l
      /\ \A n \in 1..l : Read(t)[n] = IF t[n].whole THEN t[n].id ELSE 0
  BY <1>3, ReadType
<1>6. Read(s) # <<>>
  BY <1>1, <1>4, EmptySeq
<1>7. Tail(Read(s)) = Read(t)
  <2>1. /\ Tail(Read(s)) \in Seq(Ids \cup {0}) /\ Len(Tail(Read(s))) = l
        /\ \A n \in 1..l : Tail(Read(s))[n] = Read(s)[n + 1]
    BY <1>1, <1>4, <1>6, HeadTailProperties
  <2>2. ASSUME NEW n \in 1..l PROVE Tail(Read(s))[n] = Read(t)[n]
    <3>1. n + 1 \in 1..m
      BY <1>1
    <3> QED
      BY <1>3, <1>4, <1>5, <2>1, <3>1
  <2> QED
    BY <1>5, <2>1, <2>2, SeqEqual
<1>8. Head(Read(s)) = i <=> h.whole /\ h.id = i
  <2>1. Head(Read(s)) = Read(s)[1] /\ 1 \in 1..m
    BY <1>1, <1>4, <1>6
  <2> QED
    BY <1>3, <1>4, <2>1, AofAssumption DEF Records, Ids
<1>9. Occurrences(Tail(Read(s)), i) <= Occurrences(Read(s), i) - (IF Head(Read(s)) = i THEN 1 ELSE 0)
  BY <1>4, <1>6, TailOccurs
<1> QED
  BY <1>2, <1>7, <1>8, <1>9 DEF RecordsOf

(* What a crash leaves of the file has no more whole records.              *)
Leaves(s, rest) ==
  Len(rest) <= Len(s) /\ \A n \in 1..Len(rest) : rest[n].whole => rest[n] = s[n]

LEMMA LeftRecords ==
  \A s, rest \in Seq(Records) : \A i \in Ids :
    Leaves(s, rest) => RecordsOf(rest, i) <= RecordsOf(s, i)
<1> SUFFICES ASSUME NEW s \in Seq(Records), NEW rest \in Seq(Records), NEW i \in Ids, Leaves(s, rest)
             PROVE  RecordsOf(rest, i) <= RecordsOf(s, i)
  BY Zenon
<1>1. PICK m \in Nat, l \in Nat : m = Len(s) /\ l = Len(rest) /\ l <= m
  BY LenProperties DEF Leaves
<1>2. /\ Read(s) \in Seq(Ids \cup {0}) /\ DOMAIN Read(s) = 1..m
      /\ \A n \in 1..m : Read(s)[n] = IF s[n].whole THEN s[n].id ELSE 0
  BY <1>1, ReadType, LenProperties
<1>3. /\ DOMAIN Read(rest) = 1..l
      /\ \A n \in 1..l : Read(rest)[n] = IF rest[n].whole THEN rest[n].id ELSE 0
  BY <1>1, ReadType, LenProperties
<1>4. i # 0
  BY AofAssumption DEF Ids
<1>5. PlacesOf(Read(rest), i) \subseteq PlacesOf(Read(s), i)
  <2> SUFFICES ASSUME NEW n \in PlacesOf(Read(rest), i) PROVE n \in PlacesOf(Read(s), i)
    OBVIOUS
  <2>1. n \in 1..l /\ Read(rest)[n] = i
    BY <1>3 DEF PlacesOf
  <2>2. rest[n].whole /\ rest[n].id = i
    BY <1>3, <1>4, <2>1
  <2>3. n \in 1..m /\ rest[n] = s[n]
    BY <1>1, <2>1, <2>2 DEF Leaves
  <2> QED
    BY <1>2, <2>2, <2>3 DEF PlacesOf
<1>6. IsFiniteSet(PlacesOf(Read(s), i))
  BY <1>2, OccurrencesCount
<1> QED
  BY <1>5, <1>6, FS_Subset DEF RecordsOf, Occurrences

-----------------------------------------------------------------------------
(* How many records of a command there are, or will be, and how often it   *)
(* has been executed, or will be.                                          *)
WorksOn(c, i) == cmd[c] = i /\ pc[c] \in {"writing", "executing"}
WorkIn(S, i) == IF \E c \in S : WorksOn(c, i) THEN 1 ELSE 0
Copied(c, i) == RecordsOf(file, i) + RecordsOf(data, i) + Occurrences(aofBuffer[c], i)
Executed(i) == applied[i] + RecordsOf(data, i) + WorkIn(Links, i) + WorkIn(Clients, i)

(* The bounds are lower as long as this process has not read the log.      *)
Unread == ~done /\ rebuilder = Nobody
CopyBound(i) == Power(IF Unread THEN Rebuilds(i) - 1 ELSE Rebuilds(i))
Limit(i) ==
  IF Rebuilds(i) = 0 \/ issued[i].link THEN Power(Rebuilds(i)) ELSE Power(Rebuilds(i) - 1)
RunBound(i) == IF Unread THEN (IF issued[i].born = crashes THEN 1 ELSE 0) ELSE Limit(i)

(* One connection at most has a command in its buffer; in that of a link   *)
(* it is new.                                                              *)
HolderOnce ==
  \A i \in Ids : \A c, d \in Conns : Holds(aofBuffer[c], i) /\ Holds(aofBuffer[d], i) => c = d
LinksFirst ==
  \A i \in Ids : \A c \in Links : Holds(aofBuffer[c], i) =>
    /\ Occurrences(aofBuffer[c], i) <= 1
    /\ \A n \in DOMAIN file : file[n].id # i
    /\ \A n \in DOMAIN data : data[n].id # i

(* One client and one link at most work on a command.                      *)
WorkerOnce ==
  /\ \A i \in Ids : \A c, d \in Clients : WorksOn(c, i) /\ WorksOn(d, i) => c = d
  /\ \A i \in Ids : \A c, d \in Links : WorksOn(c, i) /\ WorksOn(d, i) => c = d

Born ==
  \A i \in DOMAIN issued :
    /\ issued[i].born <= crashes
    /\ ~done /\ ~issued[i].link => issued[i].born < crashes
    /\ Conns # {}
Unapplied == \A i \in Ids : i \notin DOMAIN issued => applied[i] = 0

CopiedBound == \A i \in DOMAIN issued : \A c \in Conns : Copied(c, i) <= CopyBound(i)
ExecutedBound == \A i \in DOMAIN issued : Executed(i) <= RunBound(i)

CopyInv == HolderOnce /\ LinksFirst /\ Born /\ CopiedBound
RunInv == WorkerOnce /\ Unapplied /\ ExecutedBound
DoublesInv == CopyInv /\ RunInv

LEMMA Numbers ==
  ASSUME LogInv, NEW i
  PROVE  /\ RecordsOf(file, i) \in Nat /\ RecordsOf(data, i) \in Nat
         /\ \A c \in Conns : Occurrences(aofBuffer[c], i) \in Nat
         /\ \A c \in Conns : Occurrences(aofBuffer[c], i) = 0 <=> ~Holds(aofBuffer[c], i)
         /\ \A S : WorkIn(S, i) \in {0, 1}
         /\ i \in DOMAIN issued => i \in Ids /\ applied[i] \in Nat
<1>1. file \in Seq(Records) /\ data \in Seq(Records) /\ \A c \in Conns : aofBuffer[c] \in Seq(Ids)
  BY DEF LogInv, Types, ProcessTypes, ConnTypes, LogTypes
<1>2. RecordsOf(file, i) \in Nat /\ RecordsOf(data, i) \in Nat
  BY <1>1, RecordsCount
<1>3. /\ \A c \in Conns : Occurrences(aofBuffer[c], i) \in Nat
      /\ \A c \in Conns : Occurrences(aofBuffer[c], i) = 0 <=> ~Holds(aofBuffer[c], i)
  BY <1>1, OccurrencesCount
<1>4. \A S : WorkIn(S, i) \in {0, 1}
  BY DEF WorkIn
<1>5. i \in DOMAIN issued => i \in Ids /\ applied[i] \in Nat
  BY AofAssumption DEF LogInv, Types, ProcessTypes, LogTypes, Ids
<1> QED
  BY <1>2, <1>3, <1>4, <1>5

(* The bounds are numbers.                                                 *)
BoundNumbers(i) ==
  /\ issued[i].born \in Nat /\ crashes \in Nat /\ issued[i].link \in BOOLEAN
  /\ Rebuilds(i) \in Nat
  /\ Unread => Rebuilds(i) - 1 \in Nat
  /\ CopyBound(i) \in Nat /\ CopyBound(i) <= Power(Rebuilds(i))
  /\ RunBound(i) \in Nat /\ Limit(i) \in Nat /\ RunBound(i) <= Limit(i)

LEMMA BoundsAre ==
  ASSUME LogInv, Born, NEW i \in DOMAIN issued
  PROVE  BoundNumbers(i)
<1>1. /\ issued[i].born \in Nat /\ crashes \in Nat /\ issued[i].link \in BOOLEAN
      /\ issued[i].born <= crashes /\ (~done /\ ~issued[i].link => issued[i].born < crashes)
  <2>1. issued \in Seq(Requests) /\ crashes \in Nat
    BY DEF LogInv, Types, LogTypes
  <2>2. issued[i] \in Requests
    BY <2>1
  <2> QED
    BY <2>1, <2>2 DEF Requests, Born
<1>2. Rebuilds(i) \in Nat /\ (Unread => Rebuilds(i) - 1 \in Nat) /\ (Unread => Rebuilds(i) # 0)
      /\ (Rebuilds(i) # 0 => Rebuilds(i) - 1 \in Nat)
  BY <1>1 DEF Rebuilds, Unread
<1>3. PICK n \in Nat : n = Rebuilds(i)
  BY <1>2
<1>4. Power(n) \in Nat /\ 1 <= Power(n)
  BY PowerDoubles
<1>5. n # 0 => n - 1 \in Nat /\ Power(n - 1) \in Nat /\ 1 <= Power(n - 1) /\ Power(n - 1) <= Power(n)
  <2> SUFFICES ASSUME n # 0
               PROVE  n - 1 \in Nat /\ Power(n - 1) \in Nat /\ 1 <= Power(n - 1) /\ Power(n - 1) <= Power(n)
    OBVIOUS
  <2>1. PICK m \in Nat : m = n - 1 /\ m + 1 = n
    BY <1>2, <1>3
  <2> QED
    BY <2>1, PowerDoubles, PowerGrows
<1>6. CopyBound(i) \in Nat /\ CopyBound(i) <= Power(n)
  BY <1>2, <1>3, <1>4, <1>5 DEF CopyBound
<1>7. Limit(i) \in Nat /\ 1 <= Limit(i)
  BY <1>3, <1>4, <1>5 DEF Limit
<1>8. RunBound(i) \in Nat /\ RunBound(i) <= Limit(i)
  BY <1>7 DEF RunBound
<1> QED
  BY <1>1, <1>2, <1>3, <1>6, <1>7, <1>8 DEF BoundNumbers

(* Once the log is read they are higher.                                   *)
SameLog == issued' = issued /\ crashes' = crashes /\ (Unread' => Unread)
LEMMA BoundsGrow ==
  ASSUME LogInv, Born, SameLog, NEW i \in DOMAIN issued
  PROVE  /\ CopyBound(i) <= CopyBound(i)' /\ CopyBound(i)' \in Nat
         /\ RunBound(i) <= RunBound(i)' /\ RunBound(i)' \in Nat
<1>1. BoundNumbers(i)
  BY BoundsAre
<1>2. Rebuilds(i)' = Rebuilds(i) /\ Limit(i)' = Limit(i)
  BY DEF SameLog, Rebuilds, Limit
<1>3. PICK n \in Nat : n = Rebuilds(i)
  BY <1>1 DEF BoundNumbers
<1>4. Power(n) \in Nat
  BY PowerDoubles
<1>5. CASE Unread'
  BY <1>1, <1>2, <1>5 DEF SameLog, CopyBound, RunBound, BoundNumbers
<1>6. CASE ~Unread'
  <2>1. CopyBound(i)' = Power(n) /\ RunBound(i)' = Limit(i)
    BY <1>2, <1>3, <1>6 DEF CopyBound, RunBound
  <2> QED
    BY <1>1, <1>3, <1>4, <2>1 DEF BoundNumbers
<1> QED
  BY <1>5, <1>6

-----------------------------------------------------------------------------
(* The records.  Steps that add none.                                      *)
NoNewRecords ==
  /\ SameLog /\ file' = file /\ (data' = data \/ data' = <<>>)
  /\ \A c \in Conns : aofBuffer'[c] = aofBuffer[c] \/ aofBuffer'[c] = <<>>
  /\ ~done' => ~done

LEMMA NoNewCopies ==
  ASSUME LogInv, CopyInv, NoNewRecords
  PROVE  CopyInv'
<1>1. \A c \in Conns : \A i : Holds(aofBuffer'[c], i) => Holds(aofBuffer[c], i) /\ aofBuffer'[c] = aofBuffer[c]
  BY DEF NoNewRecords, Holds
<1>2. HolderOnce'
  BY <1>1 DEF CopyInv, HolderOnce
<1>3. LinksFirst'
  <2> SUFFICES ASSUME NEW i \in Ids, NEW c \in Links, Holds(aofBuffer'[c], i)
               PROVE  /\ Occurrences(aofBuffer'[c], i) <= 1
                      /\ \A n \in DOMAIN file' : file'[n].id # i
                      /\ \A n \in DOMAIN data' : data'[n].id # i
    BY DEF LinksFirst
  <2>1. Holds(aofBuffer[c], i) /\ aofBuffer'[c] = aofBuffer[c]
    BY <1>1, Apart
  <2>2. /\ Occurrences(aofBuffer[c], i) <= 1
        /\ \A n \in DOMAIN file : file[n].id # i
        /\ \A n \in DOMAIN data : data[n].id # i
    BY <2>1 DEF CopyInv, LinksFirst
  <2>3. DOMAIN <<>> = {}
    OBVIOUS
  <2> QED
    BY <2>1, <2>2, <2>3 DEF NoNewRecords
<1>4. Born'
  BY DEF CopyInv, Born, NoNewRecords, SameLog
<1>5. CopiedBound'
  <2> SUFFICES ASSUME NEW i \in DOMAIN issued, NEW c \in Conns PROVE Copied(c, i)' <= CopyBound(i)'
    BY DEF CopiedBound, NoNewRecords, SameLog
  <2>1. /\ RecordsOf(file, i) \in Nat /\ RecordsOf(data, i) \in Nat /\ Occurrences(aofBuffer[c], i) \in Nat
        /\ Copied(c, i) <= CopyBound(i)
    BY Numbers DEF CopyInv, CopiedBound
  <2>2. RecordsOf(file', i) = RecordsOf(file, i)
    BY DEF NoNewRecords
  <2>3. RecordsOf(data', i) \in Nat /\ RecordsOf(data', i) <= RecordsOf(data, i)
    BY <2>1, NoRecords DEF NoNewRecords
  <2>4. Occurrences(aofBuffer'[c], i) \in Nat /\ Occurrences(aofBuffer'[c], i) <= Occurrences(aofBuffer[c], i)
    <3>1. Occurrences(<<>>, i) = 0
      BY FS_EmptySet DEF Occurrences, PlacesOf
    <3> QED
      BY <2>1, <3>1 DEF NoNewRecords
  <2>5. CopyBound(i) <= CopyBound(i)' /\ CopyBound(i) \in Nat /\ CopyBound(i)' \in Nat
    <3>1. SameLog /\ Born
      BY DEF NoNewRecords, CopyInv
    <3> QED
      BY <3>1, BoundsGrow, BoundsAre DEF BoundNumbers
  <2> QED
    BY <2>1, <2>2, <2>3, <2>4, <2>5 DEF Copied
<1> QED
  BY <1>2, <1>3, <1>4, <1>5 DEF CopyInv

(* Logging a command: it is once more in the buffer of c.                  *)
LEMMA LogsOccur ==
  ASSUME LogInv, NEW c \in Conns, NEW i \in Ids, Logs(c, i)
  PROVE  /\ \A d \in Conns \ {c} : aofBuffer'[d] = aofBuffer[d]
         /\ \A j : Occurrences(aofBuffer'[c], j) = Occurrences(aofBuffer[c], j) + (IF i = j THEN 1 ELSE 0)
         /\ \A j : Holds(aofBuffer'[c], j) <=> Holds(aofBuffer[c], j) \/ j = i
<1>1. aofBuffer \in [Conns -> Seq(Ids)]
  BY DEF LogInv, Types, ConnTypes
<1>2. aofBuffer' = [aofBuffer EXCEPT ![c] = Append(@, i)]
  BY DEF Logs
<1>3. PICK q, r : q = aofBuffer[c] /\ q \in Seq(Ids) /\ r = Append(q, i)
  BY <1>1
<1>4. aofBuffer'[c] = r /\ r \in Seq(Ids)
  BY <1>1, <1>2, <1>3
<1>5. \A j : Occurrences(r, j) = Occurrences(q, j) + (IF i = j THEN 1 ELSE 0)
  BY <1>3, AppendOccurs
<1>6. \A j : Holds(r, j) <=> Holds(q, j) \/ j = i
  <2> SUFFICES ASSUME NEW j PROVE Holds(r, j) <=> Holds(q, j) \/ j = i
    OBVIOUS
  <2>1. /\ Occurrences(q, j) \in Nat /\ (Occurrences(q, j) = 0 <=> ~Holds(q, j))
        /\ Occurrences(r, j) \in Nat /\ (Occurrences(r, j) = 0 <=> ~Holds(r, j))
    BY <1>3, <1>4, OccurrencesCount
  <2> QED
    BY <1>5, <2>1
<1> QED
  BY <1>1, <1>2, <1>3, <1>4, <1>5, <1>6

(* The log is read: it will be logged again.                               *)
LEMMA JoinsCopies ==
  ASSUME LogInv, CopyInv, NEW c \in Conns, Joins(c)
  PROVE  CopyInv'
<1>1. /\ rebuilder = Nobody
      /\ UNCHANGED <<file, done, aofBuffer, issued, crashes>>
  BY DEF Joins
<1>2. CASE done
  <2>1. NoNewRecords
    BY <1>1, <1>2 DEF Joins, NoNewRecords, SameLog, Unread
  <2> QED
    BY <2>1, NoNewCopies
<1>3. CASE ~done
  <2>1. rebuilder' = c /\ data' = file /\ c # Nobody
    BY <1>3, Apart DEF Joins, ReadAll
  <2>2. Unread /\ ~Unread'
    BY <1>1, <1>3, <2>1 DEF Unread
  <2>3. HolderOnce' /\ Born'
    BY <1>1 DEF CopyInv, HolderOnce, Born
  <2>4. LinksFirst'
    BY <1>1, <2>1 DEF CopyInv, LinksFirst
  <2>5. ASSUME NEW i \in DOMAIN issued, NEW d \in Conns PROVE Copied(d, i)' <= CopyBound(i)'
    <3>1. /\ RecordsOf(file, i) \in Nat /\ RecordsOf(data, i) \in Nat /\ Occurrences(aofBuffer[d], i) \in Nat
          /\ Occurrences(aofBuffer[d], i) = 0 <=> ~Holds(aofBuffer[d], i)
          /\ Copied(d, i) <= CopyBound(i) /\ i \in Ids
      BY Numbers DEF CopyInv, CopiedBound
    <3>2. BoundNumbers(i)
      BY BoundsAre DEF CopyInv
    <3>3. Rebuilds(i)' = Rebuilds(i)
      BY <1>1 DEF Rebuilds
    <3>4. PICK n \in Nat : n + 1 = Rebuilds(i) /\ n = Rebuilds(i) - 1
      BY <2>2, <3>2 DEF BoundNumbers
    <3>5. PICK p \in Nat : p = Power(n) /\ 1 <= p /\ Power(n + 1) = 2 * p
      BY <3>4, PowerDoubles
    <3>6. CopyBound(i) = p /\ CopyBound(i)' = 2 * p
      BY <2>2, <3>3, <3>4, <3>5 DEF CopyBound
    <3>7. Copied(d, i)' = RecordsOf(file, i) + RecordsOf(file, i) + Occurrences(aofBuffer[d], i)
      BY <1>1, <2>1 DEF Copied
    <3>8. CASE d \in Clients
      <4>1. aofBuffer[d] = <<>>
        BY <1>1, <1>3, <3>8, Apart DEF LogInv, Control, Quiet
      <4>2. Occurrences(aofBuffer[d], i) = 0
        BY <3>1, <4>1 DEF Holds
      <4> QED
        BY <3>1, <3>5, <3>6, <3>7, <4>2 DEF Copied
    <3>9. CASE d \in Links /\ Holds(aofBuffer[d], i)
      <4>1. Occurrences(aofBuffer[d], i) <= 1 /\ \A n1 \in DOMAIN file : file[n1].id # i
        BY <3>1, <3>9 DEF CopyInv, LinksFirst
      <4>2. RecordsOf(file, i) = 0
        <5>1. file \in Seq(Records)
          BY DEF LogInv, Types, LogTypes
        <5>2. i # 0
          BY <3>1, AofAssumption DEF Ids
        <5>3. ~Holds(Read(file), i)
          BY <4>1, <5>2 DEF Holds, Read
        <5>4. Read(file) \in Seq(Ids \cup {0})
          BY <5>1, ReadType
        <5> QED
          BY <5>3, <5>4, OccurrencesCount DEF RecordsOf
      <4> QED
        BY <3>1, <3>5, <3>6, <3>7, <4>1, <4>2
    <3>10. CASE ~Holds(aofBuffer[d], i)
      BY <3>1, <3>5, <3>6, <3>7, <3>10 DEF Copied
    <3> QED
      BY <3>8, <3>9, <3>10, Apart
  <2>6. CopiedBound'
    BY <1>1, <2>5 DEF CopiedBound
  <2> QED
    BY <2>3, <2>4, <2>6 DEF CopyInv
<1> QED
  BY <1>2, <1>3

(* A command that is sent is nowhere yet.                                  *)
NewCommand(c, i) ==
  /\ Logs(c, i) /\ i \in Ids /\ i = Len(issued) + 1
  /\ DOMAIN issued' = DOMAIN issued \cup {i} /\ i \notin DOMAIN issued
  /\ \A j \in DOMAIN issued : issued'[j] = issued[j]
  /\ issued'[i].link = (c \in Links) /\ issued'[i].born = crashes
  /\ c \in Clients => done
  /\ rebuilder # c
  /\ UNCHANGED <<file, done, rebuilder, data, applied, crashes>>

LEMMA IssuesNew ==
  ASSUME LogInv, NEW c \in Conns, NEW kind \in Kinds, Issues(c, kind)
  PROVE  \E i \in Ids : NewCommand(c, i)
<1>1. /\ pc[c] = "idle" /\ Len(issued) < MaxCommands
      /\ UNCHANGED <<file, done, rebuilder, data, applied, crashes>>
  BY DEF Issues, processVars
<1>2. PICK i, r : i = Len(issued) + 1 /\ r = [kind |-> kind, link |-> c \in Links, born |-> crashes]
  OBVIOUS
<1>3. issued \in Seq(Requests) /\ crashes \in Nat
  BY DEF LogInv, Types, LogTypes
<1>4. i \in Ids /\ r \in Requests
  BY <1>1, <1>2, <1>3, AofAssumption DEF Ids, Requests
<1>5. issued' = Append(issued, r) /\ Logs(c, i)
  BY <1>2 DEF Issues
<1>6. /\ DOMAIN issued' = DOMAIN issued \cup {i} /\ i \notin DOMAIN issued
      /\ issued'[i] = r /\ \A j \in DOMAIN issued : issued'[j] = issued[j]
  BY <1>2, <1>3, <1>4, <1>5
<1>7. rebuilder # c
  BY <1>1, Apart DEF LogInv, Control, Handlers, Busy
<1>8. c \in Clients => done
  BY <1>1, <1>7 DEF LogInv, Control, Quiet
<1>9. issued'[i].link = (c \in Links) /\ issued'[i].born = crashes
  BY <1>2, <1>6
<1> QED
  BY <1>1, <1>2, <1>4, <1>5, <1>6, <1>7, <1>8, <1>9 DEF NewCommand

LEMMA NewIsNowhere ==
  ASSUME LogInv, NEW c \in Conns, NEW i \in Ids, NewCommand(c, i)
  PROVE  /\ RecordsOf(file, i) = 0 /\ RecordsOf(data, i) = 0
         /\ \A d \in Conns : ~Holds(aofBuffer[d], i) /\ Occurrences(aofBuffer[d], i) = 0
         /\ \A n \in DOMAIN file : file[n].id # i
         /\ \A n \in DOMAIN data : data[n].id # i
<1>1. file \in Seq(Records) /\ data \in Seq(Records) /\ \A d \in Conns : aofBuffer[d] \in Seq(Ids)
  BY DEF LogInv, Types, ProcessTypes, ConnTypes, LogTypes
<1>2. i \notin DOMAIN issued /\ i # 0
  BY AofAssumption DEF NewCommand, Ids
<1>3. /\ \A n \in DOMAIN file : file[n].id # i
      /\ \A n \in DOMAIN data : data[n].id # i
      /\ \A d \in Conns : ~Holds(aofBuffer[d], i)
  BY <1>2 DEF LogInv, Control, OnlyIssued, Holds
<1>4. \A d \in Conns : Occurrences(aofBuffer[d], i) = 0
  BY <1>1, <1>3, OccurrencesCount
<1>5. ~Holds(Read(file), i) /\ ~Holds(Read(data), i)
  BY <1>2, <1>3 DEF Holds, Read
<1>6. RecordsOf(file, i) = 0 /\ RecordsOf(data, i) = 0
  <2>1. Read(file) \in Seq(Ids \cup {0}) /\ Read(data) \in Seq(Ids \cup {0})
    BY <1>1, ReadType
  <2> QED
    BY <1>5, <2>1, OccurrencesCount DEF RecordsOf
<1> QED
  BY <1>3, <1>4, <1>6

(* Its bounds.                                                             *)
LEMMA NewBounds ==
  ASSUME NEW c \in Conns, NEW i \in Ids, NewCommand(c, i), crashes \in Nat
  PROVE  /\ CopyBound(i)' \in Nat /\ 1 <= CopyBound(i)'
         /\ RunBound(i)' \in Nat /\ 1 <= RunBound(i)'
<1>1. /\ issued'[i].link = (c \in Links) /\ issued'[i].born = crashes /\ crashes' = crashes
      /\ UNCHANGED <<done, rebuilder>> /\ (c \in Clients => done)
  BY DEF NewCommand
<1>2. Rebuilds(i)' = IF c \in Links THEN 1 ELSE 0
  <2>1. crashes - crashes = 0
    OBVIOUS
  <2>2. Rebuilds(i)' = (crashes - crashes) + (IF issued'[i].link THEN 1 ELSE 0)
    BY <1>1 DEF Rebuilds
  <2>3. CASE c \in Links
    <3>1. (IF issued'[i].link THEN 1 ELSE 0) = 1
      BY <1>1, <2>3
    <3> QED
      BY <2>1, <2>2, <2>3, <3>1
  <2>4. CASE c \notin Links
    <3>1. (IF issued'[i].link THEN 1 ELSE 0) = 0
      BY <1>1, <2>4
    <3> QED
      BY <2>1, <2>2, <2>4, <3>1
  <2> QED
    BY <2>3, <2>4
<1>3. /\ Power(0) \in Nat /\ Power(0) = 1 /\ Power(1) \in Nat /\ 1 <= Power(1)
  <2>1. 0 \in Nat /\ 1 \in Nat
    OBVIOUS
  <2> QED
    BY <2>1, PowerDoubles
<1>4. CASE c \in Links
  <2>a. Rebuilds(i)' = 1 /\ 1 - 1 = 0
    BY <1>2, <1>4
  <2>b. issued'[i].link
    BY <1>1, <1>4
  <2>1. Rebuilds(i)' = 1 /\ issued'[i].link /\ 1 - 1 = 0
    BY <2>a, <2>b
  <2>2. CopyBound(i)' = Power(IF Unread' THEN 1 - 1 ELSE 1)
    BY <2>1 DEF CopyBound
  <2>3. RunBound(i)' = IF Unread' THEN 1 ELSE Power(1)
    BY <1>1, <2>1 DEF RunBound, Limit
  <2> QED
    BY <1>3, <2>1, <2>2, <2>3
<1>5. CASE c \in Clients
  <2>1. Rebuilds(i)' = 0 /\ ~Unread'
    BY <1>1, <1>2, <1>5, Apart DEF Unread
  <2>2. CopyBound(i)' = Power(0)
    BY <2>1 DEF CopyBound
  <2>3. RunBound(i)' = Power(0)
    BY <2>1 DEF RunBound, Limit
  <2> QED
    BY <1>3, <2>2, <2>3
<1> QED
  BY <1>4, <1>5, Apart

LEMMA OldBounds ==
  ASSUME NEW c \in Conns, NEW i \in Ids, NewCommand(c, i), NEW j \in DOMAIN issued
  PROVE  CopyBound(j)' = CopyBound(j) /\ RunBound(j)' = RunBound(j)
<1>1. issued'[j] = issued[j] /\ UNCHANGED <<crashes, done, rebuilder>>
  BY DEF NewCommand
<1> QED
  BY <1>1 DEF CopyBound, RunBound, Limit, Rebuilds, Unread

LEMMA NewCopies ==
  ASSUME LogInv, CopyInv, NEW c \in Conns, NEW i \in Ids, NewCommand(c, i)
  PROVE  CopyInv'
<1>1. /\ \A d \in Conns \ {c} : aofBuffer'[d] = aofBuffer[d]
      /\ \A j : Occurrences(aofBuffer'[c], j) = Occurrences(aofBuffer[c], j) + (IF i = j THEN 1 ELSE 0)
      /\ \A j : Holds(aofBuffer'[c], j) <=> Holds(aofBuffer[c], j) \/ j = i
  BY LogsOccur DEF NewCommand
<1>2. /\ \A d \in Conns : ~Holds(aofBuffer[d], i) /\ Occurrences(aofBuffer[d], i) = 0
      /\ \A n \in DOMAIN file : file[n].id # i
      /\ \A n \in DOMAIN data : data[n].id # i
      /\ RecordsOf(file, i) = 0 /\ RecordsOf(data, i) = 0
  BY NewIsNowhere
<1>3. UNCHANGED <<file, data, crashes, done>> /\ crashes \in Nat
  BY DEF NewCommand, LogInv, Types, LogTypes
<1>4. HolderOnce'
  BY <1>1, <1>2 DEF CopyInv, HolderOnce
<1>5. LinksFirst'
  <2> SUFFICES ASSUME NEW j \in Ids, NEW d \in Links, Holds(aofBuffer'[d], j)
               PROVE  /\ Occurrences(aofBuffer'[d], j) <= 1
                      /\ \A n \in DOMAIN file : file[n].id # j
                      /\ \A n \in DOMAIN data : data[n].id # j
    BY <1>3 DEF LinksFirst
  <2>1. CASE j = i
    <3>1. d = c
      BY <1>1, <1>2, <2>1, Apart
    <3> QED
      BY <1>1, <1>2, <2>1, <3>1
  <2>2. CASE j # i
    <3>1. Occurrences(aofBuffer[d], j) \in Nat
      BY Numbers, Apart
    <3>2. Occurrences(aofBuffer'[d], j) = Occurrences(aofBuffer[d], j)
      BY <1>1, <2>2, <3>1, Apart
    <3>3. Holds(aofBuffer[d], j)
      BY <1>1, <2>2, Apart
    <3> QED
      BY <3>2, <3>3 DEF CopyInv, LinksFirst
  <2> QED
    BY <2>1, <2>2
<1>6. Born'
  <2> SUFFICES ASSUME NEW j \in DOMAIN issued'
               PROVE  /\ issued'[j].born <= crashes
                      /\ ~done /\ ~issued'[j].link => issued'[j].born < crashes
                      /\ Conns # {}
    BY <1>3 DEF Born
  <2>1. CASE j = i
    <3>1. issued'[j].born = crashes /\ (~done => c \in Links) /\ (issued'[j].link <=> c \in Links)
      BY <2>1, Apart DEF NewCommand
    <3> QED
      BY <1>3, <3>1
  <2>2. CASE j # i
    <3>1. j \in DOMAIN issued /\ issued'[j] = issued[j]
      BY <2>2 DEF NewCommand
    <3> QED
      BY <1>3, <3>1 DEF CopyInv, Born
  <2> QED
    BY <2>1, <2>2
<1>7. CopiedBound'
  <2> SUFFICES ASSUME NEW j \in DOMAIN issued', NEW d \in Conns PROVE Copied(d, j)' <= CopyBound(j)'
    BY DEF CopiedBound
  <2>1. CASE j = i
    <3>1. CopyBound(i)' \in Nat /\ 1 <= CopyBound(i)'
      BY <1>3, NewBounds
    <3>2. Occurrences(aofBuffer'[d], i) \in {0, 1}
      BY <1>1, <1>2
    <3>3. Copied(d, i)' = 0 + 0 + Occurrences(aofBuffer'[d], i)
      BY <1>2, <1>3 DEF Copied
    <3> QED
      BY <2>1, <3>1, <3>2, <3>3
  <2>2. CASE j # i
    <3>1. j \in DOMAIN issued
      BY <2>2 DEF NewCommand
    <3>2. Occurrences(aofBuffer'[d], j) = Occurrences(aofBuffer[d], j)
      <4>1. Occurrences(aofBuffer[d], j) \in Nat
        BY Numbers
      <4> QED
        BY <1>1, <2>2, <4>1
    <3>3. Copied(d, j)' = Copied(d, j)
      BY <1>3, <3>2 DEF Copied
    <3> QED
      BY <3>1, <3>3, OldBounds DEF CopyInv, CopiedBound
  <2> QED
    BY <2>1, <2>2
<1> QED
  BY <1>4, <1>5, <1>6, <1>7 DEF CopyInv

(* The rebuild takes a record: what it was for the log to be read becomes  *)
(* what is to be written.                                                  *)
Reads(c, i) ==
  /\ pc[c] = "rebuilding" /\ rebuilder = c /\ c \in Clients /\ ~done
  /\ data # <<>> /\ data' = Tail(data) /\ i = Head(data).id /\ i \in DOMAIN issued
  /\ Head(data).whole /\ Logs(c, i) /\ data[1].id = i /\ 1 \in DOMAIN data
  /\ UNCHANGED <<file, done, rebuilder, issued, applied, crashes>>

LEMMA ReplaysReads ==
  ASSUME LogInv, NEW c \in Conns, Replays(c)
  PROVE  \E i \in Ids : Reads(c, i)
<1>1. data \in Seq(Records) /\ data # <<>>
  BY DEF Replays, LogInv, Types, ProcessTypes
<1>2. PICK i : i = Head(data).id
  OBVIOUS
<1>3. data[1] = Head(data) /\ 1 \in DOMAIN data /\ Head(data) \in Records
  BY <1>1
<1>4. i \in Ids /\ i \in DOMAIN issued /\ data[1].id = i
  BY <1>2, <1>3 DEF Records, LogInv, Control, OnlyIssued
<1>5. rebuilder = c /\ c \in Clients /\ ~done
  BY Apart DEF Replays, LogInv, Types, ProcessTypes, Control, Handlers
<1> QED
  BY <1>1, <1>2, <1>3, <1>4, <1>5 DEF Replays, Reads

LEMMA ReadsCopies ==
  ASSUME LogInv, CopyInv, NEW c \in Conns, NEW i \in Ids, Reads(c, i)
  PROVE  CopyInv'
<1>1. /\ \A d \in Conns \ {c} : aofBuffer'[d] = aofBuffer[d]
      /\ \A j : Occurrences(aofBuffer'[c], j) = Occurrences(aofBuffer[c], j) + (IF i = j THEN 1 ELSE 0)
      /\ \A j : Holds(aofBuffer'[c], j) <=> Holds(aofBuffer[c], j) \/ j = i
  BY LogsOccur DEF Reads
<1>2. data \in Seq(Records) /\ data # <<>> /\ c \in Clients /\ c \notin Links
  BY Apart DEF Reads, LogInv, Types, ProcessTypes
<1>3. \A d \in Conns \ {c} : ~Holds(aofBuffer[d], i)
  <2>1. \A d \in Clients \ {c} : aofBuffer[d] = <<>>
    BY DEF Reads, LogInv, Control, Quiet
  <2>2. \A d \in Links : ~Holds(aofBuffer[d], i)
    BY DEF Reads, CopyInv, LinksFirst
  <2> QED
    BY <2>1, <2>2, Apart DEF Holds
<1>4. HolderOnce'
  BY <1>1, <1>3 DEF CopyInv, HolderOnce
<1>5. LinksFirst'
  <2>1. \A d \in Links : aofBuffer'[d] = aofBuffer[d]
    BY <1>1, <1>2, Apart
  <2>2. \A n \in DOMAIN Tail(data) : n + 1 \in DOMAIN data /\ Tail(data)[n] = data[n + 1]
    BY <1>2
  <2> QED
    BY <2>1, <2>2 DEF CopyInv, LinksFirst, Reads
<1>6. Born'
  BY DEF Reads, CopyInv, Born
<1>7. CopiedBound'
  <2> SUFFICES ASSUME NEW j \in DOMAIN issued, NEW d \in Conns PROVE Copied(d, j)' <= CopyBound(j)'
    BY DEF CopiedBound, Reads
  <2>1. /\ RecordsOf(file, j) \in Nat /\ RecordsOf(data, j) \in Nat /\ j \in Ids
        /\ Occurrences(aofBuffer[d], j) \in Nat
        /\ Copied(d, j) <= CopyBound(j)
    BY Numbers DEF CopyInv, CopiedBound
  <2>2. CopyBound(j)' = CopyBound(j) /\ CopyBound(j) \in Nat
    BY BoundsAre DEF Reads, CopyInv, BoundNumbers, CopyBound, Rebuilds, Unread
  <2>3. RecordsOf(data', j) <= RecordsOf(data, j) - (IF i = j THEN 1 ELSE 0)
    BY <1>2, <2>1, TailRecords DEF Reads
  <2>4. RecordsOf(data', j) \in Nat
    <3>1. Tail(data) \in Seq(Records)
      BY <1>2
    <3> QED
      BY <3>1, RecordsCount DEF Reads
  <2>5. Occurrences(aofBuffer'[d], j) <= Occurrences(aofBuffer[d], j) + (IF i = j THEN 1 ELSE 0)
        /\ Occurrences(aofBuffer'[d], j) \in Nat
    BY <1>1, <2>1
  <2>6. Copied(d, j)' = RecordsOf(file, j) + RecordsOf(data', j) + Occurrences(aofBuffer'[d], j)
    BY DEF Copied, Reads
  <2> QED
    BY <2>1, <2>2, <2>3, <2>4, <2>5, <2>6 DEF Copied
<1> QED
  BY <1>4, <1>5, <1>6, <1>7 DEF CopyInv

(* A record is written: it moves from the buffer to the file.              *)
Moves(c, r) ==
  /\ r \in Records /\ aofBuffer[c] # <<>> /\ r.id = Head(aofBuffer[c])
  /\ Wrote(c, Append(file, r)) \/ Wrote(c, file)
  /\ UNCHANGED <<done, rebuilder, data, cmd, issued, applied, crashes>>

LEMMA WritesMove ==
  ASSUME LogInv, NEW c \in Conns, Writes(c) \/ WritesShort(c)
  PROVE  \E r \in Records : Moves(c, r)
<1>1. aofBuffer[c] # <<>> /\ aofBuffer[c] \in Seq(Ids)
  BY DEF Writes, WritesShort, LogInv, Types, ConnTypes
<1>2. Head(aofBuffer[c]) \in Ids
  BY <1>1
<1>3. UNCHANGED <<done, rebuilder, data, cmd, issued, applied, crashes>>
  BY DEF Writes, WritesShort, processVars
<1>4. CASE Writes(c)
  <2>1. PICK r : r = [id |-> Head(aofBuffer[c]), whole |-> TRUE]
    OBVIOUS
  <2>2. Wrote(c, Append(file, r))
    BY <1>4, <2>1 DEF Writes, Record
  <2>3. r \in Records /\ r.id = Head(aofBuffer[c])
    BY <1>2, <2>1 DEF Records
  <2> QED
    BY <1>1, <1>3, <2>2, <2>3 DEF Moves
<1>5. CASE WritesShort(c)
  <2>1. PICK r : r = [id |-> Head(aofBuffer[c]), whole |-> FALSE]
    OBVIOUS
  <2>2. Wrote(c, Append(file, r)) \/ Wrote(c, file)
    BY <1>5, <2>1 DEF WritesShort, Record
  <2>3. r \in Records /\ r.id = Head(aofBuffer[c])
    BY <1>2, <2>1 DEF Records
  <2> QED
    BY <1>1, <1>3, <2>2, <2>3 DEF Moves
<1> QED
  BY <1>4, <1>5

LEMMA MovesOccur ==
  ASSUME LogInv, NEW c \in Conns, NEW r, Moves(c, r)
  PROVE  /\ \A d \in Conns \ {c} : aofBuffer'[d] = aofBuffer[d]
         /\ \A j : /\ Occurrences(aofBuffer'[c], j) <= Occurrences(aofBuffer[c], j) - (IF r.id = j THEN 1 ELSE 0)
                   /\ Occurrences(aofBuffer'[c], j) \in Nat
                   /\ Occurrences(aofBuffer'[c], j) = 0 <=> ~Holds(aofBuffer'[c], j)
                   /\ Holds(aofBuffer'[c], j) => Holds(aofBuffer[c], j)
         /\ Holds(aofBuffer[c], r.id)
<1>1. PICK q, t : q = aofBuffer[c] /\ t = Tail(q) /\ q \in Seq(Ids) /\ q # <<>>
  BY DEF Moves, LogInv, Types, ConnTypes
<1>2. /\ t \in Seq(Ids) /\ 1 \in DOMAIN q /\ q[1] = Head(q)
      /\ \A n \in DOMAIN t : n + 1 \in DOMAIN q /\ t[n] = q[n + 1]
  BY <1>1
<1>3. aofBuffer'[c] = t /\ \A d \in Conns \ {c} : aofBuffer'[d] = aofBuffer[d]
  BY <1>1 DEF Moves, Wrote, LogInv, Types, ConnTypes
<1>4. r.id = Head(q)
  BY <1>1 DEF Moves
<1>5. \A j : Occurrences(t, j) <= Occurrences(q, j) - (IF r.id = j THEN 1 ELSE 0)
  BY <1>1, <1>4, TailOccurs
<1>6. \A j : Occurrences(t, j) \in Nat /\ (Occurrences(t, j) = 0 <=> ~Holds(t, j))
  BY <1>2, OccurrencesCount
<1>7. \A j : Holds(t, j) => Holds(q, j)
  BY <1>2 DEF Holds
<1>8. Holds(q, r.id)
  BY <1>2, <1>4 DEF Holds
<1> QED
  BY <1>1, <1>3, <1>5, <1>6, <1>7, <1>8

LEMMA MovesCopies ==
  ASSUME LogInv, CopyInv, NEW c \in Conns, NEW r \in Records, Moves(c, r)
  PROVE  CopyInv'
<1>1. /\ \A d \in Conns \ {c} : aofBuffer'[d] = aofBuffer[d]
      /\ \A j : /\ Occurrences(aofBuffer'[c], j) <= Occurrences(aofBuffer[c], j) - (IF r.id = j THEN 1 ELSE 0)
                /\ Occurrences(aofBuffer'[c], j) \in Nat
                /\ Occurrences(aofBuffer'[c], j) = 0 <=> ~Holds(aofBuffer'[c], j)
                /\ Holds(aofBuffer'[c], j) => Holds(aofBuffer[c], j)
      /\ Holds(aofBuffer[c], r.id)
  BY MovesOccur
<1>2. /\ file' = Append(file, r) \/ file' = file
      /\ file \in Seq(Records)
      /\ UNCHANGED <<data, issued, crashes, done, rebuilder>>
  BY DEF Moves, Wrote, LogInv, Types, LogTypes
<1>3. \A d \in Conns : \A j : Holds(aofBuffer'[d], j) => Holds(aofBuffer[d], j)
  BY <1>1
<1>4. HolderOnce'
  BY <1>3 DEF CopyInv, HolderOnce
<1>5. LinksFirst'
  <2> SUFFICES ASSUME NEW j \in Ids, NEW d \in Links, Holds(aofBuffer'[d], j)
               PROVE  /\ Occurrences(aofBuffer'[d], j) <= 1
                      /\ \A n \in DOMAIN file' : file'[n].id # j
                      /\ \A n \in DOMAIN data : data[n].id # j
    BY <1>2 DEF LinksFirst
  <2>1. d \in Conns /\ Holds(aofBuffer[d], j)
    BY <1>3, Apart
  <2>2. /\ Occurrences(aofBuffer[d], j) <= 1 /\ Occurrences(aofBuffer[d], j) \in Nat
        /\ \A n \in DOMAIN file : file[n].id # j
        /\ \A n \in DOMAIN data : data[n].id # j
    BY <2>1, Numbers DEF CopyInv, LinksFirst
  <2>3. r.id # j /\ Occurrences(aofBuffer'[d], j) <= 1
    <3>1. CASE d = c
      BY <1>1, <2>2, <3>1
    <3>2. CASE d # c
      <4>1. aofBuffer'[d] = aofBuffer[d]
        BY <1>1, <2>1, <3>2
      <4>2. r.id # j
        BY <1>1, <2>1, <3>2 DEF CopyInv, HolderOnce
      <4> QED
        BY <2>2, <4>1, <4>2
    <3> QED
      BY <3>1, <3>2
  <2>4. \A n \in DOMAIN file' : file'[n] = r \/ \E m \in DOMAIN file : file'[n] = file[m]
    BY <1>2
  <2> QED
    BY <2>2, <2>3, <2>4
<1>6. Born'
  BY <1>2 DEF CopyInv, Born
<1>7. CopiedBound'
  <2> SUFFICES ASSUME NEW j \in DOMAIN issued, NEW d \in Conns PROVE Copied(d, j)' <= CopyBound(j)'
    BY <1>2 DEF CopiedBound
  <2>1. /\ RecordsOf(file, j) \in Nat /\ RecordsOf(data, j) \in Nat /\ j \in Ids
        /\ Occurrences(aofBuffer[d], j) \in Nat /\ Occurrences(aofBuffer[c], j) \in Nat
        /\ Occurrences(aofBuffer[d], j) = 0 <=> ~Holds(aofBuffer[d], j)
        /\ Occurrences(aofBuffer[c], j) = 0 <=> ~Holds(aofBuffer[c], j)
        /\ Copied(d, j) <= CopyBound(j) /\ Copied(c, j) <= CopyBound(j)
    BY Numbers DEF CopyInv, CopiedBound
  <2>2. CopyBound(j)' = CopyBound(j) /\ CopyBound(j) \in Nat
    BY <1>2, BoundsAre DEF CopyInv, BoundNumbers, CopyBound, Rebuilds, Unread
  <2>3. /\ RecordsOf(file', j) \in Nat
        /\ RecordsOf(file', j) <= RecordsOf(file, j) + (IF r.id = j THEN 1 ELSE 0)
    <3>1. \/ RecordsOf(file', j) = RecordsOf(file, j) + (IF r.whole /\ r.id = j THEN 1 ELSE 0)
          \/ RecordsOf(file', j) = RecordsOf(file, j)
      BY <1>2, <2>1, AppendRecords
    <3> QED
      BY <2>1, <3>1
  <2>4. Copied(d, j)' = RecordsOf(file', j) + RecordsOf(data, j) + Occurrences(aofBuffer'[d], j)
    BY <1>2 DEF Copied
  <2>5. CASE d = c
    BY <1>1, <2>1, <2>2, <2>3, <2>4, <2>5 DEF Copied
  <2>6. CASE d # c /\ r.id = j
    <3>1. ~Holds(aofBuffer[d], j) /\ Holds(aofBuffer[c], j) /\ aofBuffer'[d] = aofBuffer[d]
      BY <1>1, <2>1, <2>6 DEF CopyInv, HolderOnce
    <3>2. Occurrences(aofBuffer'[d], j) = 0 /\ Occurrences(aofBuffer[c], j) >= 1
      BY <2>1, <3>1
    <3> QED
      BY <2>1, <2>2, <2>3, <2>4, <2>6, <3>2 DEF Copied
  <2>7. CASE d # c /\ r.id # j
    <3>1. aofBuffer'[d] = aofBuffer[d]
      BY <1>1, <2>7
    <3> QED
      BY <2>1, <2>2, <2>3, <2>4, <2>7, <3>1 DEF Copied
  <2> QED
    BY <2>5, <2>6, <2>7
<1> QED
  BY <1>4, <1>5, <1>6, <1>7 DEF CopyInv

(* A new process: nothing is in a buffer, and the log is still to be read. *)
LEMMA RestartsLeave ==
  ASSUME LogInv,
         ProcessCrashes \/ \E n \in 0..(Len(file) - 1), cut \in BOOLEAN : MachineCrashes(n, cut)
  PROVE  \E rest \in Seq(Records) : Leaves(file, rest) /\ Restarts(rest)
<1>1. file \in Seq(Records) /\ Len(file) \in Nat
  BY DEF LogInv, Types, LogTypes
<1>2. CASE ProcessCrashes
  <2>1. Leaves(file, file) /\ Restarts(file)
    BY <1>1, <1>2 DEF ProcessCrashes, Leaves
  <2> QED
    BY <1>1, <2>1
<1>3. ASSUME NEW n \in 0..(Len(file) - 1), NEW cut \in BOOLEAN, MachineCrashes(n, cut)
      PROVE  \E rest \in Seq(Records) : Leaves(file, rest) /\ Restarts(rest)
  <2>1. PICK a, r : a = SubSeq(file, 1, n) /\ r = [file[n + 1] EXCEPT !.whole = FALSE]
    OBVIOUS
  <2>2. PICK rest : rest = a \o (IF cut THEN <<r>> ELSE <<>>)
    OBVIOUS
  <2>3. n \in Nat /\ n + 1 \in 1..Len(file) /\ n + 1 <= Len(file)
    BY <1>1
  <2>4. file[n + 1] \in Records
    BY <1>1, <2>3
  <2>5. r \in Records /\ ~r.whole
    BY <2>1, <2>4 DEF Records
  <2>6. a \in Seq(Records) /\ Len(a) = n /\ \A m \in 1..n : a[m] = file[m]
    <3>1. \A m \in 1..n : file[m] \in Records
      BY <1>1, <2>3
    <3> QED
      BY <2>1, <2>3, <3>1, SubSeqProperties
  <2>7. CASE cut
    <3>1. rest = Append(a, r)
      BY <2>2, <2>5, <2>6, <2>7
    <3>2. /\ rest \in Seq(Records) /\ Len(rest) = n + 1 /\ rest[n + 1] = r
          /\ \A m \in 1..n : rest[m] = file[m]
      BY <2>3, <2>5, <2>6, <3>1
    <3>3. \A m \in 1..(n + 1) : rest[m].whole => rest[m] = file[m]
      BY <2>3, <2>5, <3>2
    <3> QED
      BY <1>3, <2>1, <2>2, <2>3, <3>2, <3>3 DEF Leaves, MachineCrashes
  <2>8. CASE ~cut
    <3>1. rest = a
      BY <2>2, <2>6, <2>8
    <3>2. Leaves(file, rest)
      BY <1>1, <2>3, <2>6, <3>1 DEF Leaves
    <3> QED
      BY <1>3, <2>1, <2>2, <2>6, <3>1, <3>2 DEF MachineCrashes
  <2> QED
    BY <2>7, <2>8
<1> QED
  BY <1>2, <1>3

LEMMA RestartsCopies ==
  ASSUME LogInv, CopyInv, NEW rest \in Seq(Records), Leaves(file, rest), Restarts(rest)
  PROVE  CopyInv'
<1>1. /\ crashes' = crashes + 1 /\ file' = rest /\ data' = <<>> /\ issued' = issued
      /\ done' = FALSE /\ rebuilder' = Nobody /\ crashes \in Nat
      /\ \A d \in Conns : aofBuffer'[d] = <<>>
  BY DEF Restarts, LogInv, Types, LogTypes
<1>2. \A d \in Conns : \A j : ~Holds(aofBuffer'[d], j)
  BY <1>1 DEF Holds
<1>3. HolderOnce' /\ LinksFirst'
  BY <1>2, Apart DEF HolderOnce, LinksFirst
<1>4. Born'
  <2> SUFFICES ASSUME NEW j \in DOMAIN issued
               PROVE  issued[j].born <= crashes + 1 /\ issued[j].born < crashes + 1 /\ Conns # {}
    BY <1>1 DEF Born
  <2>1. BoundNumbers(j)
    BY BoundsAre DEF CopyInv
  <2>2. issued[j].born <= crashes /\ Conns # {} /\ issued[j].born \in Nat
    BY <2>1 DEF CopyInv, Born, BoundNumbers
  <2> QED
    BY <1>1, <2>2
<1>5. CopiedBound'
  <2> SUFFICES ASSUME NEW j \in DOMAIN issued, NEW d \in Conns PROVE Copied(d, j)' <= CopyBound(j)'
    BY <1>1 DEF CopiedBound
  <2>1. /\ RecordsOf(file, j) \in Nat /\ RecordsOf(data, j) \in Nat /\ j \in Ids
        /\ Occurrences(aofBuffer[d], j) \in Nat
        /\ Copied(d, j) <= CopyBound(j)
    BY Numbers DEF CopyInv, CopiedBound
  <2>2. BoundNumbers(j)
    BY BoundsAre DEF CopyInv
  <2>3. PICK n \in Nat : n = Rebuilds(j)
    BY <2>2 DEF BoundNumbers
  <2>4. Power(n) \in Nat /\ CopyBound(j) \in Nat /\ CopyBound(j) <= Power(n)
    BY <2>2, <2>3, PowerDoubles DEF BoundNumbers
  <2>5. Rebuilds(j)' - 1 = n /\ Unread'
    <3>1. issued[j].born \in Nat /\ (IF issued[j].link THEN 1 ELSE 0) \in Nat
      BY <2>2 DEF BoundNumbers
    <3>2. Rebuilds(j)' = ((crashes + 1) - issued[j].born) + (IF issued[j].link THEN 1 ELSE 0)
      BY <1>1 DEF Rebuilds
    <3>3. n = (crashes - issued[j].born) + (IF issued[j].link THEN 1 ELSE 0)
      BY <2>3 DEF Rebuilds
    <3> QED
      BY <1>1, <3>1, <3>2, <3>3 DEF Unread
  <2>6. CopyBound(j)' = Power(n)
    BY <2>5 DEF CopyBound
  <2>7. RecordsOf(file', j) \in Nat /\ RecordsOf(file', j) <= RecordsOf(file, j)
    <3>1. file \in Seq(Records)
      BY DEF LogInv, Types, LogTypes
    <3> QED
      BY <1>1, <2>1, <3>1, LeftRecords, RecordsCount
  <2>8. Copied(d, j)' = RecordsOf(file', j) + 0 + 0
    <3>1. Occurrences(<<>>, j) = 0 /\ RecordsOf(<<>>, j) = 0
      BY NoRecords, FS_EmptySet DEF Occurrences, PlacesOf
    <3> QED
      BY <1>1, <3>1 DEF Copied
  <2> QED
    BY <2>1, <2>4, <2>6, <2>7, <2>8 DEF Copied
<1> QED
  BY <1>3, <1>4, <1>5 DEF CopyInv

LEMMA QuietCopies ==
  ASSUME LogInv, CopyInv, NEW c \in Conns,
         \/ LinkConnects(c) \/ Reconnects(c) \/ JoinFails(c) \/ ReplayEnds(c)
         \/ RPush(c) \/ LPopReads(c) \/ LPopStores(c) \/ PopsAtOnce(c)
         \/ Blocks(c) \/ TimesOut(c)
  PROVE  CopyInv'
<1> USE DEF NoNewRecords, SameLog, Unread
<1>1. aofBuffer \in [Conns -> Seq(Ids)]
  BY DEF LogInv, Types, ConnTypes
<1>2. CASE LinkConnects(c)
  <2>1. NoNewRecords
    BY <1>2 DEF LinkConnects, processVars, historyVars
  <2> QED
    BY <2>1, NoNewCopies
<1>3. CASE Reconnects(c)
  <2>1. NoNewRecords
    BY <1>1, <1>3 DEF Reconnects, processVars
  <2> QED
    BY <2>1, NoNewCopies
<1>4. CASE JoinFails(c)
  <2>1. NoNewRecords
    BY <1>4 DEF JoinFails
  <2> QED
    BY <2>1, NoNewCopies
<1>5. CASE ReplayEnds(c)
  <2>1. NoNewRecords
    BY <1>5 DEF ReplayEnds, NowDone, historyVars
  <2> QED
    BY <2>1, NoNewCopies
<1>6. CASE RPush(c)
  <2>1. NoNewRecords
    BY <1>6 DEF RPush
  <2> QED
    BY <2>1, NoNewCopies
<1>7. CASE LPopReads(c) \/ LPopStores(c) \/ PopsAtOnce(c)
  <2>1. NoNewRecords
    <3>1. UNCHANGED <<file, data, done, aofBuffer, issued, crashes, rebuilder>>
      BY <1>7 DEF LPopReads, LPopStores, PopsAtOnce, processVars, historyVars
    <3> QED
      BY <3>1 DEF NoNewRecords, SameLog
  <2> QED
    BY <2>1, NoNewCopies
<1>8. CASE Blocks(c)
  <2>1. NoNewRecords
    BY <1>8 DEF Blocks
  <2> QED
    BY <2>1, NoNewCopies
<1>9. CASE TimesOut(c)
  <2>1. NoNewRecords
    BY <1>9 DEF TimesOut
  <2> QED
    BY <2>1, NoNewCopies
<1> QED
  BY <1>2, <1>3, <1>4, <1>5, <1>6, <1>7, <1>8, <1>9

LEMMA StutterCopies ==
  ASSUME LogInv, CopyInv, UNCHANGED vars
  PROVE  CopyInv'
<1>1. NoNewRecords
  BY DEF vars, processVars, connVars, historyVars, NoNewRecords, SameLog, Unread
<1> QED
  BY <1>1, NoNewCopies

LEMMA StepCopies ==
  ASSUME LogInv, CopyInv, [Next]_vars
  PROVE  CopyInv'
<1>1. ASSUME NEW c \in Conns, Writes(c) \/ WritesShort(c)
      PROVE  CopyInv'
  <2>1. PICK r \in Records : Moves(c, r)
    BY <1>1, WritesMove
  <2> QED
    BY <2>1, MovesCopies
<1>2. ASSUME NEW c \in Conns, Replays(c)
      PROVE  CopyInv'
  <2>1. PICK i \in Ids : Reads(c, i)
    BY <1>2, ReplaysReads
  <2> QED
    BY <2>1, ReadsCopies
<1>3. ASSUME NEW c \in Conns, NEW kind \in Kinds, Issues(c, kind)
      PROVE  CopyInv'
  <2>1. PICK i \in Ids : NewCommand(c, i)
    BY <1>3, IssuesNew
  <2> QED
    BY <2>1, NewCopies
<1>4. ASSUME ProcessCrashes \/ \E n \in 0..(Len(file) - 1), cut \in BOOLEAN : MachineCrashes(n, cut)
      PROVE  CopyInv'
  <2>1. PICK rest \in Seq(Records) : Leaves(file, rest) /\ Restarts(rest)
    BY <1>4, RestartsLeave
  <2> QED
    BY <2>1, RestartsCopies
<1> QED
  BY <1>1, <1>2, <1>3, <1>4, JoinsCopies, QuietCopies, StutterCopies DEF Next, Steps

LEMMA InitCopies == Init => CopyInv
<1> SUFFICES ASSUME Init PROVE CopyInv
  OBVIOUS
<1>1. DOMAIN <<>> = {} /\ issued = <<>> /\ \A c \in Conns : aofBuffer[c] = <<>>
  BY DEF Init
<1>2. \A c \in Conns : \A i : ~Holds(aofBuffer[c], i)
  BY <1>1 DEF Holds
<1> QED
  BY <1>1, <1>2, Apart DEF CopyInv, HolderOnce, LinksFirst, Born, CopiedBound

-----------------------------------------------------------------------------
(* What is executed.  Steps after which nobody works on more.              *)
NoNewWork ==
  /\ SameLog /\ (data' = data \/ data' = <<>>) /\ applied' = applied
  /\ \A c \in Conns : \A i \in Ids : WorksOn(c, i)' => WorksOn(c, i)

LEMMA LessWork ==
  ASSUME NEW S, NEW i, \A c \in S : WorksOn(c, i)' => WorksOn(c, i)
  PROVE  WorkIn(S, i)' \in {0, 1} /\ WorkIn(S, i) \in {0, 1} /\ WorkIn(S, i)' <= WorkIn(S, i)
<1>1. CASE \E c \in S : WorksOn(c, i)'
  <2>1. \E c \in S : WorksOn(c, i)
    BY <1>1
  <2>2. WorkIn(S, i)' = 1 /\ WorkIn(S, i) = 1
    BY <1>1, <2>1 DEF WorkIn
  <2> QED
    BY <2>2
<1>2. CASE ~ \E c \in S : WorksOn(c, i)'
  <2>1. WorkIn(S, i)' = 0 /\ WorkIn(S, i) \in {0, 1}
    BY <1>2 DEF WorkIn
  <2> QED
    BY <2>1
<1> QED
  BY <1>1, <1>2

LEMMA NoNewRuns ==
  ASSUME LogInv, CopyInv, RunInv, NoNewWork
  PROVE  RunInv'
<1>1. WorkerOnce'
  BY Apart DEF RunInv, WorkerOnce, NoNewWork
<1>2. Unapplied'
  BY DEF RunInv, Unapplied, NoNewWork, SameLog
<1>3. ExecutedBound'
  <2> SUFFICES ASSUME NEW i \in DOMAIN issued PROVE Executed(i)' <= RunBound(i)'
    BY DEF ExecutedBound, NoNewWork, SameLog
  <2>1. /\ RecordsOf(data, i) \in Nat /\ i \in Ids /\ applied[i] \in Nat
        /\ Executed(i) <= RunBound(i)
    BY Numbers DEF RunInv, ExecutedBound
  <2>2. RecordsOf(data', i) \in Nat /\ RecordsOf(data', i) <= RecordsOf(data, i)
    BY <2>1, NoRecords DEF NoNewWork
  <2>3. /\ WorkIn(Links, i)' \in {0, 1} /\ WorkIn(Links, i) \in {0, 1} /\ WorkIn(Links, i)' <= WorkIn(Links, i)
        /\ WorkIn(Clients, i)' \in {0, 1} /\ WorkIn(Clients, i) \in {0, 1} /\ WorkIn(Clients, i)' <= WorkIn(Clients, i)
    BY <2>1, LessWork, Apart DEF NoNewWork
  <2>4. RunBound(i) \in Nat /\ RunBound(i)' \in Nat /\ RunBound(i) <= RunBound(i)'
    <3>1. SameLog /\ Born
      BY DEF NoNewWork, CopyInv
    <3> QED
      BY <3>1, BoundsGrow, BoundsAre DEF BoundNumbers
  <2>5. applied'[i] = applied[i]
    BY DEF NoNewWork
  <2> QED
    BY <2>1, <2>2, <2>3, <2>4, <2>5 DEF Executed
<1> QED
  BY <1>1, <1>2, <1>3 DEF RunInv

(* Handlers that go on are at no command.                                  *)
LEMMA AnswersWork ==
  ASSUME LogInv, NEW conns, Answers(conns), NEW c \in Conns, NEW i \in Ids, WorksOn(c, i)'
  PROVE  WorksOn(c, i) /\ c \notin conns
<1>1. cmd'[c] = (IF c \in conns THEN 0 ELSE cmd[c]) /\ (c \notin conns => pc'[c] = pc[c])
  BY DEF Answers
<1>2. i # 0
  BY AofAssumption DEF Ids
<1> QED
  BY <1>1, <1>2 DEF WorksOn

LEMMA QuietRuns ==
  ASSUME LogInv, CopyInv, RunInv, NEW c \in Conns,
         \/ LinkConnects(c) \/ Reconnects(c) \/ JoinFails(c) \/ ReplayEnds(c)
         \/ Writes(c) \/ WritesShort(c) \/ LPopReads(c) \/ LPopStores(c) \/ PopsAtOnce(c)
         \/ Blocks(c) \/ TimesOut(c)
  PROVE  RunInv'
<1> USE DEF SameLog, Unread
<1>1. pc \in [Conns -> Places]
  BY DEF LogInv, Types, ConnTypes
<1>2. CASE LinkConnects(c)
  <2>1. NoNewWork
    BY <1>1, <1>2 DEF NoNewWork, WorksOn, LinkConnects, processVars, historyVars
  <2> QED
    BY <2>1, NoNewRuns
<1>3. CASE Reconnects(c)
  <2>1. NoNewWork
    BY <1>1, <1>3 DEF NoNewWork, WorksOn, Reconnects, processVars
  <2> QED
    BY <2>1, NoNewRuns
<1>4. CASE JoinFails(c)
  <2>1. NoNewWork
    BY <1>1, <1>4 DEF NoNewWork, WorksOn, JoinFails
  <2> QED
    BY <2>1, NoNewRuns
<1>5. CASE ReplayEnds(c)
  <2>1. NoNewWork
    BY <1>1, <1>5 DEF NoNewWork, WorksOn, ReplayEnds, NowDone, historyVars
  <2> QED
    BY <2>1, NoNewRuns
<1>6. CASE Writes(c) \/ WritesShort(c)
  <2>1. PICK r \in Records : Moves(c, r)
    BY <1>6, WritesMove
  <2>2. /\ pc[c] = "writing" /\ UNCHANGED <<cmd, data, applied, issued, crashes, done, rebuilder>>
        /\ \A d \in Conns \ {c} : pc'[d] = pc[d]
    BY <1>1, <2>1 DEF Moves, Wrote
  <2>3. NoNewWork
    BY <2>2 DEF NoNewWork, WorksOn
  <2> QED
    BY <2>3, NoNewRuns
<1>7. CASE LPopStores(c) \/ PopsAtOnce(c) \/ TimesOut(c)
  <2>1. Answers({c}) /\ UNCHANGED <<data, applied, issued, crashes, done, rebuilder>>
    BY <1>7 DEF LPopStores, PopsAtOnce, TimesOut
  <2>2. NoNewWork
    BY <2>1, AnswersWork DEF NoNewWork
  <2> QED
    BY <2>2, NoNewRuns
<1>8. CASE Blocks(c)
  <2>1. NoNewWork
    BY <1>1, <1>8 DEF NoNewWork, WorksOn, Blocks
  <2> QED
    BY <2>1, NoNewRuns
<1>9. CASE LPopReads(c)
  <2>1. NoNewWork
    BY <1>1, <1>9 DEF NoNewWork, WorksOn, LPopReads, processVars, historyVars
  <2> QED
    BY <2>1, NoNewRuns
<1> QED
  BY <1>2, <1>3, <1>4, <1>5, <1>6, <1>7, <1>8, <1>9

LEMMA StutterRuns ==
  ASSUME LogInv, CopyInv, RunInv, UNCHANGED vars
  PROVE  RunInv'
<1>1. NoNewWork
  BY DEF vars, processVars, connVars, historyVars, NoNewWork, SameLog, Unread, WorksOn
<1> QED
  BY <1>1, NoNewRuns

(* The log is read: what it has of a command will be executed once more.   *)
LEMMA JoinsRuns ==
  ASSUME LogInv, CopyInv, RunInv, NEW c \in Conns, Joins(c)
  PROVE  RunInv'
<1>1. /\ rebuilder = Nobody /\ pc[c] = "joining" /\ pc \in [Conns -> Places]
      /\ pc' = [pc EXCEPT ![c] = "idle"] \/ pc' = [pc EXCEPT ![c] = "rebuilding"]
      /\ UNCHANGED <<done, cmd, issued, applied, crashes>>
  BY DEF Joins, LogInv, Types, ConnTypes
<1>2. \A d \in Conns : \A i \in Ids : WorksOn(d, i)' => WorksOn(d, i)
  BY <1>1 DEF WorksOn
<1>3. CASE done
  <2>1. data' = data /\ (Unread' => Unread)
    BY <1>1, <1>3 DEF Joins, Unread
  <2>2. NoNewWork
    BY <1>1, <1>2, <2>1 DEF NoNewWork, SameLog
  <2> QED
    BY <2>2, NoNewRuns
<1>4. CASE ~done
  <2>1. data' = file /\ Unread /\ ~Unread'
    BY <1>1, <1>4, Apart DEF Joins, ReadAll, Unread
  <2>2. WorkerOnce'
    BY <1>2, Apart DEF RunInv, WorkerOnce
  <2>3. Unapplied'
    BY <1>1 DEF RunInv, Unapplied
  <2>4. ASSUME NEW i \in DOMAIN issued PROVE Executed(i)' <= RunBound(i)'
    <3>1. /\ RecordsOf(file, i) \in Nat /\ RecordsOf(data, i) \in Nat /\ i \in Ids /\ applied[i] \in Nat
          /\ Executed(i) <= RunBound(i)
      BY Numbers DEF RunInv, ExecutedBound
    <3>2. /\ WorkIn(Links, i)' \in {0, 1} /\ WorkIn(Links, i) \in {0, 1} /\ WorkIn(Links, i)' <= WorkIn(Links, i)
          /\ WorkIn(Clients, i)' \in {0, 1} /\ WorkIn(Clients, i) \in {0, 1} /\ WorkIn(Clients, i)' <= WorkIn(Clients, i)
      BY <1>2, <3>1, LessWork, Apart
    <3>3. BoundNumbers(i) /\ RunBound(i) \in Nat
      BY BoundsAre DEF CopyInv, BoundNumbers
    <3>4. PICK n \in Nat : n + 1 = Rebuilds(i) /\ n = Rebuilds(i) - 1 /\ Rebuilds(i) # 0
      BY <2>1, <3>3 DEF BoundNumbers
    <3>5. PICK p \in Nat : p = Power(n) /\ 1 <= p /\ Power(n + 1) = 2 * p
      BY <3>4, PowerDoubles
    <3>6. RecordsOf(file, i) <= p
      <4>1. Copied(c, i) <= CopyBound(i) /\ Occurrences(aofBuffer[c], i) \in Nat
        BY Numbers DEF CopyInv, CopiedBound
      <4>2. CopyBound(i) = p
        BY <2>1, <3>4, <3>5 DEF CopyBound
      <4> QED
        BY <3>1, <3>5, <4>1, <4>2 DEF Copied
    <3>7. Executed(i)' = applied[i] + RecordsOf(file, i) + WorkIn(Links, i)' + WorkIn(Clients, i)'
      BY <1>1, <2>1 DEF Executed
    <3>8. Executed(i)' <= RunBound(i) + p
      <4>1. Executed(i) = applied[i] + RecordsOf(data, i) + WorkIn(Links, i) + WorkIn(Clients, i)
        BY DEF Executed
      <4> QED
        BY <3>1, <3>2, <3>3, <3>5, <3>6, <3>7, <4>1
    <3>9. Executed(i)' \in Nat
      BY <3>1, <3>2, <3>7
    <3>10. RunBound(i)' = IF issued[i].link THEN 2 * p ELSE p
      <4>1. RunBound(i)' = Limit(i)
        BY <1>1, <2>1 DEF RunBound, Limit, Rebuilds
      <4> QED
        BY <3>4, <3>5, <4>1 DEF Limit
    <3>11. CASE issued[i].link
      <4>1. RunBound(i) <= 1
        BY <2>1 DEF RunBound
      <4> QED
        BY <3>3, <3>5, <3>8, <3>9, <3>10, <3>11, <4>1
    <3>12. CASE ~issued[i].link
      <4>1. RunBound(i) = 0
        <5>1. issued[i].born < crashes /\ issued[i].born \in Nat /\ crashes \in Nat
          BY <1>4, <3>3, <3>12 DEF CopyInv, Born, BoundNumbers
        <5>2. issued[i].born # crashes
          BY <5>1
        <5> QED
          BY <2>1, <5>2 DEF RunBound
      <4> QED
        BY <3>3, <3>5, <3>8, <3>9, <3>10, <3>12, <4>1
    <3> QED
      BY <3>11, <3>12
  <2>5. ExecutedBound'
    BY <1>1, <2>4 DEF ExecutedBound
  <2> QED
    BY <2>2, <2>3, <2>5 DEF RunInv
<1> QED
  BY <1>3, <1>4

(* A connection takes up a command that no other of its kind is at.        *)
LEMMA TakesUp ==
  ASSUME LogInv, RunInv, NEW c \in Conns, NEW i \in Ids, Logs(c, i),
         \A d \in Conns : d # c /\ (d \in Clients <=> c \in Clients) => ~WorksOn(d, i)
  PROVE  /\ WorkerOnce'
         /\ \A d \in Conns : \A j \in Ids : j # i \/ d # c => (WorksOn(d, j)' => WorksOn(d, j))
<1>1. /\ cmd \in [Conns -> Ids \cup {0}] /\ cmd' = [cmd EXCEPT ![c] = i]
      /\ pc \in [Conns -> Places]
      /\ pc' = [pc EXCEPT ![c] = "writing"] \/ pc' = [pc EXCEPT ![c] = "executing"]
  BY DEF Logs, LogInv, Types, ConnTypes
<1>2. \A d \in Conns : \A j \in Ids : j # i \/ d # c => (WorksOn(d, j)' => WorksOn(d, j))
  BY <1>1 DEF WorksOn
<1>3. WorkerOnce'
  <2>1. ASSUME NEW j \in Ids, NEW d \in Conns, NEW e \in Conns, d \in Clients <=> e \in Clients,
               WorksOn(d, j)', WorksOn(e, j)', d # e
        PROVE  FALSE
    <3>1. CASE j # i \/ (d # c /\ e # c)
      <4>1. WorksOn(d, j) /\ WorksOn(e, j)
        BY <1>2, <2>1, <3>1
      <4> QED
        BY <2>1, <4>1, Apart DEF RunInv, WorkerOnce
    <3>2. CASE j = i /\ d = c
      BY <1>2, <2>1, <3>2
    <3>3. CASE j = i /\ e = c
      BY <1>2, <2>1, <3>3
    <3> QED
      BY <3>1, <3>2, <3>3
  <2>2. \A j \in Ids : \A d, e \in Clients : WorksOn(d, j)' /\ WorksOn(e, j)' => d = e
    BY <2>1, Apart
  <2>3. \A j \in Ids : \A d, e \in Links : WorksOn(d, j)' /\ WorksOn(e, j)' => d = e
    BY <2>1, Apart
  <2> QED
    BY <2>2, <2>3 DEF WorkerOnce
<1> QED
  BY <1>2, <1>3

LEMMA NewRuns ==
  ASSUME LogInv, CopyInv, RunInv, NEW c \in Conns, NEW i \in Ids, NewCommand(c, i)
  PROVE  RunInv'
<1>1. \A d \in Conns : ~WorksOn(d, i)
  BY DEF WorksOn, NewCommand, LogInv, Control, OnlyIssued, Busy
<1>2. /\ WorkerOnce'
      /\ \A d \in Conns : \A j \in Ids : j # i \/ d # c => (WorksOn(d, j)' => WorksOn(d, j))
  BY <1>1, TakesUp DEF NewCommand
<1>3. Unapplied'
  BY DEF RunInv, Unapplied, NewCommand
<1>4. UNCHANGED <<applied, data, crashes>> /\ crashes \in Nat
  BY DEF NewCommand, LogInv, Types, LogTypes
<1>5. ExecutedBound'
  <2> SUFFICES ASSUME NEW j \in DOMAIN issued' PROVE Executed(j)' <= RunBound(j)'
    BY DEF ExecutedBound
  <2>1. CASE j = i
    <3>1. RunBound(i)' \in Nat /\ 1 <= RunBound(i)'
      BY <1>4, NewBounds
    <3>2. applied[i] = 0
      BY DEF RunInv, Unapplied, NewCommand
    <3>3. RecordsOf(data, i) = 0
      BY NewIsNowhere
    <3>4. \A d \in Conns : d # c => ~WorksOn(d, i)'
      BY <1>1, <1>2
    <3>a. WorkIn(Links, i)' \in {0, 1} /\ WorkIn(Clients, i)' \in {0, 1}
      BY DEF WorkIn
    <3>b. c \in Clients => WorkIn(Links, i)' = 0
      <4>1. c \in Clients => ~ \E d \in Links : WorksOn(d, i)'
        BY <3>4, Apart
      <4> QED
        BY <4>1 DEF WorkIn
    <3>c. c \in Links => WorkIn(Clients, i)' = 0
      <4>1. c \in Links => ~ \E d \in Clients : WorksOn(d, i)'
        BY <3>4, Apart
      <4> QED
        BY <4>1 DEF WorkIn
    <3>5. /\ WorkIn(Links, i)' \in {0, 1} /\ WorkIn(Clients, i)' \in {0, 1}
          /\ WorkIn(Links, i)' = 0 \/ WorkIn(Clients, i)' = 0
      BY <3>a, <3>b, <3>c, Apart
    <3>6. Executed(i)' = 0 + 0 + WorkIn(Links, i)' + WorkIn(Clients, i)'
      BY <1>4, <3>2, <3>3 DEF Executed
    <3> QED
      BY <2>1, <3>1, <3>5, <3>6
  <2>2. CASE j # i
    <3>1. j \in DOMAIN issued
      BY <2>2 DEF NewCommand
    <3>2. /\ RecordsOf(data, j) \in Nat /\ j \in Ids /\ applied[j] \in Nat
          /\ Executed(j) <= RunBound(j)
      BY <3>1, Numbers DEF RunInv, ExecutedBound
    <3>3. /\ WorkIn(Links, j)' \in {0, 1} /\ WorkIn(Links, j) \in {0, 1} /\ WorkIn(Links, j)' <= WorkIn(Links, j)
          /\ WorkIn(Clients, j)' \in {0, 1} /\ WorkIn(Clients, j) \in {0, 1} /\ WorkIn(Clients, j)' <= WorkIn(Clients, j)
      BY <1>2, <2>2, <3>2, LessWork, Apart
    <3>4. RunBound(j)' = RunBound(j) /\ RunBound(j) \in Nat
      BY <3>1, OldBounds, BoundsAre DEF CopyInv, BoundNumbers
    <3>5. Executed(j)' = applied[j] + RecordsOf(data, j) + WorkIn(Links, j)' + WorkIn(Clients, j)'
      BY <1>4 DEF Executed
    <3> QED
      BY <3>2, <3>3, <3>4, <3>5 DEF Executed
  <2> QED
    BY <2>1, <2>2
<1> QED
  BY <1>2, <1>3, <1>5 DEF RunInv

LEMMA ReadsRuns ==
  ASSUME LogInv, CopyInv, RunInv, NEW c \in Conns, NEW i \in Ids, Reads(c, i)
  PROVE  RunInv'
<1>1. \A d \in Clients : ~WorksOn(d, i)
  BY DEF WorksOn, Reads, LogInv, Control, Quiet
<1>2. c \in Clients /\ data \in Seq(Records) /\ data # <<>>
  BY DEF Reads, LogInv, Types, ProcessTypes
<1>3. /\ WorkerOnce'
      /\ \A d \in Conns : \A j \in Ids : j # i \/ d # c => (WorksOn(d, j)' => WorksOn(d, j))
  BY <1>1, <1>2, TakesUp DEF Reads
<1>4. Unapplied'
  BY DEF RunInv, Unapplied, Reads
<1>5. ExecutedBound'
  <2> SUFFICES ASSUME NEW j \in DOMAIN issued PROVE Executed(j)' <= RunBound(j)'
    BY DEF ExecutedBound, Reads
  <2>1. /\ RecordsOf(data, j) \in Nat /\ j \in Ids /\ applied[j] \in Nat
        /\ Executed(j) <= RunBound(j)
    BY Numbers DEF RunInv, ExecutedBound
  <2>2. RunBound(j)' = RunBound(j) /\ RunBound(j) \in Nat
    BY BoundsAre DEF Reads, CopyInv, BoundNumbers, RunBound, Limit, Rebuilds, Unread
  <2>3. RecordsOf(data', j) <= RecordsOf(data, j) - (IF i = j THEN 1 ELSE 0)
    BY <1>2, <2>1, TailRecords DEF Reads
  <2>4. RecordsOf(data', j) \in Nat
    <3>1. Tail(data) \in Seq(Records)
      BY <1>2
    <3> QED
      BY <3>1, RecordsCount DEF Reads
  <2>5. WorkIn(Links, j)' \in {0, 1} /\ WorkIn(Links, j) \in {0, 1} /\ WorkIn(Links, j)' <= WorkIn(Links, j)
    <3>1. \A d \in Links : WorksOn(d, j)' => WorksOn(d, j)
      BY <1>2, <1>3, <2>1, Apart
    <3> QED
      BY <3>1, LessWork
  <2>6. /\ WorkIn(Clients, j)' \in {0, 1} /\ WorkIn(Clients, j) \in {0, 1}
        /\ WorkIn(Clients, j)' <= WorkIn(Clients, j) + (IF i = j THEN 1 ELSE 0)
    <3>1. CASE j = i
      <4>1. WorkIn(Clients, j)' \in {0, 1} /\ WorkIn(Clients, j) \in {0, 1}
        BY DEF WorkIn
      <4> QED
        BY <3>1, <4>1
    <3>2. CASE j # i
      <4>1. \A d \in Clients : WorksOn(d, j)' => WorksOn(d, j)
        BY <1>3, <2>1, <3>2, Apart
      <4> QED
        BY <3>2, <4>1, LessWork
    <3> QED
      BY <3>1, <3>2
  <2>7. Executed(j)' = applied[j] + RecordsOf(data', j) + WorkIn(Links, j)' + WorkIn(Clients, j)'
    BY DEF Executed, Reads
  <2>8. Executed(j)' <= Executed(j)
    BY <2>1, <2>3, <2>4, <2>5, <2>6, <2>7 DEF Executed
  <2>9. Executed(j)' \in Nat /\ Executed(j) \in Nat
    BY <2>1, <2>4, <2>5, <2>6, <2>7 DEF Executed
  <2> QED
    BY <2>1, <2>2, <2>8, <2>9
<1> QED
  BY <1>3, <1>4, <1>5 DEF RunInv

(* An RPUSH is executed: whoever was at it no longer is.                   *)
LEMMA RPushRuns ==
  ASSUME LogInv, CopyInv, RunInv, NEW c \in Conns, RPush(c)
  PROVE  RunInv'
<1>1. /\ pc[c] = "executing" /\ UNCHANGED <<data, issued, crashes, done, rebuilder>>
      /\ applied' = [applied EXCEPT ![cmd[c]] = @ + 1]
      /\ applied \in [Ids -> Nat]
  BY DEF RPush, Executes, LogInv, Types, ProcessTypes
<1>2. PICK i : i = cmd[c]
  OBVIOUS
<1>3. i \in Ids /\ i \in DOMAIN issued /\ WorksOn(c, i)
  BY <1>1, <1>2, AtWorkIssued DEF WorksOn
<1>4. \A d \in Conns : \A j \in Ids : WorksOn(d, j)' => WorksOn(d, j) /\ d # c
  <2>1. PICK conns : Answers(conns) /\ c \in conns
    BY DEF RPush
  <2> QED
    BY <2>1, AnswersWork
<1>5. WorkerOnce'
  BY <1>4, Apart DEF RunInv, WorkerOnce
<1>6. Unapplied'
  BY <1>1, <1>2, <1>3 DEF RunInv, Unapplied
<1>7. ExecutedBound'
  <2> SUFFICES ASSUME NEW j \in DOMAIN issued PROVE Executed(j)' <= RunBound(j)'
    BY <1>1 DEF ExecutedBound
  <2>1. /\ RecordsOf(data, j) \in Nat /\ j \in Ids /\ applied[j] \in Nat
        /\ Executed(j) <= RunBound(j)
    BY Numbers DEF RunInv, ExecutedBound
  <2>2. RunBound(j)' = RunBound(j)
    BY <1>1 DEF RunBound, Limit, Rebuilds, Unread
  <2>3. /\ WorkIn(Links, j)' \in {0, 1} /\ WorkIn(Links, j) \in {0, 1} /\ WorkIn(Links, j)' <= WorkIn(Links, j)
        /\ WorkIn(Clients, j)' \in {0, 1} /\ WorkIn(Clients, j) \in {0, 1} /\ WorkIn(Clients, j)' <= WorkIn(Clients, j)
    BY <1>4, <2>1, LessWork, Apart
  <2>4. Executed(j)' = applied'[j] + RecordsOf(data, j) + WorkIn(Links, j)' + WorkIn(Clients, j)'
    BY <1>1 DEF Executed
  <2>5. CASE j # i
    <3>1. applied'[j] = applied[j]
      BY <1>1, <1>2, <2>1, <2>5
    <3>2. Executed(j)' <= Executed(j) /\ Executed(j)' \in Nat /\ Executed(j) \in Nat
      BY <2>1, <2>3, <2>4, <3>1 DEF Executed
    <3> QED
      BY <2>1, <2>2, <3>2, <1>3, BoundsAre DEF CopyInv, BoundNumbers
  <2>6. CASE j = i
    <3>1. applied'[j] = applied[j] + 1
      BY <1>1, <1>2, <2>1, <2>6
    <3>2. CASE c \in Clients
      <4>1. \A d \in Clients : ~WorksOn(d, i)'
        BY <1>3, <1>4, <3>2, Apart DEF RunInv, WorkerOnce
      <4>2. WorkIn(Clients, j)' = 0 /\ WorkIn(Clients, j) = 1
        BY <1>3, <2>6, <3>2, <4>1 DEF WorkIn
      <4>3. Executed(j)' <= Executed(j) /\ Executed(j)' \in Nat /\ Executed(j) \in Nat
        BY <2>1, <2>3, <2>4, <3>1, <4>2 DEF Executed
      <4> QED
        BY <2>1, <2>2, <4>3, <1>3, BoundsAre DEF CopyInv, BoundNumbers
    <3>3. CASE c \in Links
      <4>1. \A d \in Links : ~WorksOn(d, i)'
        BY <1>3, <1>4, <3>3, Apart DEF RunInv, WorkerOnce
      <4>2. WorkIn(Links, j)' = 0 /\ WorkIn(Links, j) = 1
        BY <1>3, <2>6, <3>3, <4>1 DEF WorkIn
      <4>3. Executed(j)' <= Executed(j) /\ Executed(j)' \in Nat /\ Executed(j) \in Nat
        BY <2>1, <2>3, <2>4, <3>1, <4>2 DEF Executed
      <4> QED
        BY <2>1, <2>2, <4>3, <1>3, BoundsAre DEF CopyInv, BoundNumbers
    <3> QED
      BY <3>2, <3>3, Apart
  <2> QED
    BY <2>5, <2>6
<1> QED
  BY <1>5, <1>6, <1>7 DEF RunInv

LEMMA RestartsRuns ==
  ASSUME LogInv, CopyInv, RunInv, NEW rest \in Seq(Records), Restarts(rest)
  PROVE  RunInv'
<1>1. /\ crashes' = crashes + 1 /\ data' = <<>> /\ issued' = issued /\ crashes \in Nat
      /\ done' = FALSE /\ rebuilder' = Nobody
      /\ cmd' = [d \in Conns |-> 0] /\ applied' = [i \in Ids |-> 0]
  BY DEF Restarts, LogInv, Types, LogTypes
<1>2. \A d \in Conns : \A i \in Ids : ~WorksOn(d, i)'
  BY <1>1, AofAssumption DEF WorksOn, Ids
<1>3. WorkerOnce' /\ Unapplied'
  BY <1>1, <1>2, Apart DEF WorkerOnce, Unapplied
<1>4. ExecutedBound'
  <2> SUFFICES ASSUME NEW j \in DOMAIN issued PROVE Executed(j)' <= RunBound(j)'
    BY <1>1 DEF ExecutedBound
  <2>1. j \in Ids
    BY Numbers
  <2>2. WorkIn(Links, j)' = 0 /\ WorkIn(Clients, j)' = 0
    BY <1>2, <2>1, Apart DEF WorkIn
  <2>3. applied'[j] = 0 /\ RecordsOf(data', j) = 0
    BY <1>1, <2>1, NoRecords
  <2>4. Executed(j)' = 0
    BY <2>2, <2>3 DEF Executed
  <2>5. RunBound(j)' \in {0, 1}
    BY <1>1 DEF RunBound, Unread
  <2> QED
    BY <2>4, <2>5
<1> QED
  BY <1>3, <1>4 DEF RunInv

LEMMA StepRuns ==
  ASSUME LogInv, CopyInv, RunInv, [Next]_vars
  PROVE  RunInv'
<1>1. ASSUME NEW c \in Conns, Replays(c)
      PROVE  RunInv'
  <2>1. PICK i \in Ids : Reads(c, i)
    BY <1>1, ReplaysReads
  <2> QED
    BY <2>1, ReadsRuns
<1>2. ASSUME NEW c \in Conns, NEW kind \in Kinds, Issues(c, kind)
      PROVE  RunInv'
  <2>1. PICK i \in Ids : NewCommand(c, i)
    BY <1>2, IssuesNew
  <2> QED
    BY <2>1, NewRuns
<1>3. ASSUME ProcessCrashes \/ \E n \in 0..(Len(file) - 1), cut \in BOOLEAN : MachineCrashes(n, cut)
      PROVE  RunInv'
  <2>1. PICK rest \in Seq(Records) : Leaves(file, rest) /\ Restarts(rest)
    BY <1>3, RestartsLeave
  <2> QED
    BY <2>1, RestartsRuns
<1> QED
  BY <1>1, <1>2, <1>3, JoinsRuns, RPushRuns, QuietRuns, StutterRuns DEF Next, Steps

LEMMA InitRuns == Init => RunInv
<1> SUFFICES ASSUME Init PROVE RunInv
  OBVIOUS
<1>1. /\ DOMAIN issued = {} /\ applied = [i \in Ids |-> 0] /\ cmd = [c \in Conns |-> 0]
  BY DEF Init
<1>2. \A d \in Conns : \A i \in Ids : ~WorksOn(d, i)
  BY <1>1, AofAssumption DEF WorksOn, Ids
<1> QED
  BY <1>1, <1>2, Apart DEF RunInv, WorkerOnce, Unapplied, ExecutedBound

(* The invariant that bounds the records a command has and will have, and  *)
(* how often it was and will be executed, over restarts                    *)
(* (commands.go:1254-1295).                                                *)
THEOREM DoublesInvHolds == Spec => []DoublesInv
<1>1. Init => DoublesInv
  BY InitCopies, InitRuns DEF DoublesInv
<1>2. LogInv /\ DoublesInv /\ [Next]_vars => DoublesInv'
  BY StepCopies, StepRuns DEF DoublesInv
<1> QED
  BY <1>1, <1>2, LogInvHolds, PTL DEF Spec

(* After n restarts a command has no more than 2^n records, and is         *)
(* executed no more than 2^(n-1) times in a process (2^n for what a link   *)
(* logged), however many connections and restarts there are.               *)
THEOREM RestartsDoubleAtMost == Spec => []LogDoubles
<1>1. LogInv /\ DoublesInv => LogDoubles
  <2> SUFFICES ASSUME LogInv, CopyInv, RunInv, NEW i \in DOMAIN issued
               PROVE  Copies(i) <= Power(Rebuilds(i)) /\ applied[i] <= Limit(i)
    BY DEF LogDoubles, DoublesInv, Power, Limit
  <2>1. /\ RecordsOf(file, i) \in Nat /\ RecordsOf(data, i) \in Nat /\ i \in Ids /\ applied[i] \in Nat
        /\ Executed(i) <= RunBound(i)
    BY Numbers DEF RunInv, ExecutedBound
  <2>2. BoundNumbers(i)
    BY BoundsAre DEF CopyInv
  <2>3. Power(Rebuilds(i)) \in Nat
    BY <2>2, PowerDoubles DEF BoundNumbers
  <2>4. Copies(i) <= Power(Rebuilds(i))
    <3>1. PICK c \in Conns : TRUE
      BY DEF CopyInv, Born
    <3>2. Copied(c, i) <= CopyBound(i) /\ Occurrences(aofBuffer[c], i) \in Nat
      BY <3>1, Numbers DEF CopyInv, CopiedBound
    <3>3. Copies(i) = RecordsOf(file, i)
      BY <2>1, CopiesAre DEF LogInv, Types, LogTypes
    <3> QED
      BY <2>1, <2>2, <2>3, <3>2, <3>3 DEF Copied, BoundNumbers
  <2>5. applied[i] <= Limit(i)
    <3>1. WorkIn(Links, i) \in {0, 1} /\ WorkIn(Clients, i) \in {0, 1}
      BY DEF WorkIn
    <3> QED
      BY <2>1, <2>2, <3>1 DEF Executed, BoundNumbers
  <2> QED
    BY <2>4, <2>5
<1> QED
  BY <1>1, LogInvHolds, DoublesInvHolds, PTL
=============================================================================
