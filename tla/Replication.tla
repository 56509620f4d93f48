----------------------------- MODULE Replication -----------------------------
(***************************************************************************)
(* A master and its replicas: the PSYNC handshake, the propagation of      *)
(* write commands, and WAIT with its GETACK and ACK round.                 *)
(*                                                                         *)
(* Everything the master sends to a replica goes through one connection,   *)
(* in order: link.  The replica's ACKs come back through the same one:     *)
(* acks.  Where the code counts the bytes of a command, a write counts 1,  *)
(* as if all were equally long, and any other command its length in        *)
(* writes.                                                                 *)
(*                                                                         *)
(* A write is propagated, then executed, then answered.  Propagation holds *)
(* m.Mu as a reader from the first replica to the update of GlobalOffset,  *)
(* so that two of them overlap, while registering a replica and recording  *)
(* an ACK, which take m.Mu as a writer, wait for both.                     *)
(***************************************************************************)
EXTENDS Integers, FiniteSets, SequencesExt

CONSTANTS
  Clients,    \* connections of clients of the master
  Replicas,   \* replicas; each connects once
  AckCap,     \* capacity of m.AckChan, 100 in the code
  MaxWrites,  \* bound on the writes of a behaviour
  MaxWaits,   \* bound on the WAITs of a behaviour
  MaxLocal,   \* bound on the commands clients send to a replica
  AckLength,  \* length of a GETACK
  Lengths     \* lengths of the commands clients send to a replica

ASSUME ReplicationAssumption ==
  /\ AckCap \in Nat \ {0}
  /\ {MaxWrites, MaxWaits, MaxLocal} \subseteq Nat
  /\ AckLength \in Nat \ {0} /\ Lengths \subseteq Nat \ {0}
  /\ IsFiniteSet(Replicas)

(* The handlers of a replica that count in info.MasterReplOffset: that of  *)
(* the link to the master, and that of a client.                           *)
Handlers == {"link", "client"}

(* What the master sends besides writes, which are numbers from 1.         *)
GetAck == 0
FullResync == -1
Header == -2
RDB == -3
Resync == <<FullResync, Header, RDB>>

VARIABLES
  \* MasterNode
  readers,       \* clients that hold m.Mu as readers over several steps
  registered,    \* the keys of m.Replicas
  Offset,        \* ReplicaInfo.Offset
  GlobalOffset,
  AckChan,       \* number of tokens in the channel
  \* a connection between the master and a replica
  psync,         \* parts of the answer to PSYNC sent so far, -1 before PSYNC
  link, acks,
  recorded,      \* the replica's handler has recorded an ACK, not sent the token
  \* a replica
  sync,          \* where DiscardRDBPayload is, "stream" when it has returned
  log,           \* writes executed
  replOffset,    \* info.MasterReplOffset
  due,           \* length of the command a handler has still to count
  read,          \* replOffset as its += has read it, or -1
  \* a client of the master
  pc, num,       \* num: the write under way, or the argument of WAIT
  left,          \* replicas that a loop has still to write to
  tmp,           \* GlobalOffset as read by +=, or WAIT's targetOffset
  timed,         \* WAIT has a timeout
  \* history
  masterLog,     \* writes the master executed
  earlier,       \* for each write, those answered before it started
  answered,      \* writes answered
  waits, locals, \* how many WAITs, and commands on a replica, there were
  overlapped,    \* two writes overlapped
  credit,        \* length of what a replica counts and is no write
  ackCredit,     \* the same for Offset, the one the master has
  late,          \* replicas that may not get every write
  claim,         \* what the last WAIT of a client claimed
  stolen         \* another client took a token while this one was in WAIT

nodeVars   == <<readers, registered, Offset, GlobalOffset, ackCredit>>
linkVars   == <<psync, link, acks, recorded, late>>
remoteVars == <<sync, log, replOffset, due, read, credit, locals>>
clientVars == <<pc, num, left, tmp, timed>>
pastVars   == <<masterLog, earlier, answered, waits, overlapped, claim, stolen>>
vars == <<nodeVars, AckChan, linkVars, remoteVars, clientVars, pastVars>>

NoClaim == [counted |-> {}, writes |-> {}]

Init ==
  /\ readers = {} /\ registered = {}
  /\ Offset = [r \in Replicas |-> 0]
  /\ GlobalOffset = 0
  /\ AckChan = 0
  /\ psync = [r \in Replicas |-> -1]
  /\ link = [r \in Replicas |-> <<>>]
  /\ acks = [r \in Replicas |-> <<>>]
  /\ recorded = [r \in Replicas |-> FALSE]
  /\ sync = [r \in Replicas |-> "resync"]
  /\ log = [r \in Replicas |-> <<>>]
  /\ replOffset = [r \in Replicas |-> 0]
  /\ due = [r \in Replicas |-> [h \in Handlers |-> 0]]
  /\ read = [r \in Replicas |-> [h \in Handlers |-> -1]]
  /\ pc = [c \in Clients |-> "idle"]
  /\ num = [c \in Clients |-> 0]
  /\ left = [c \in Clients |-> {}]
  /\ tmp = [c \in Clients |-> 0]
  /\ timed = [c \in Clients |-> FALSE]
  /\ masterLog = <<>> /\ earlier = <<>>
  /\ answered = {}
  /\ waits = 0 /\ locals = 0
  /\ overlapped = FALSE
  /\ credit = [r \in Replicas |-> 0]
  /\ ackCredit = [r \in Replicas |-> 0]
  /\ late = {}
  /\ claim = [c \in Clients |-> NoClaim]
  /\ stolen = [c \in Clients |-> FALSE]

Goes(c, to) == pc' = [pc EXCEPT ![c] = to]

-----------------------------------------------------------------------------
(* Faulty twins, for mutation only: each is a wrong version of the operator *)
(* defined or named after it, and nothing else uses it.                    *)

(* The update of GlobalOffset.                                             *)
LosesOne(n) == n
PlusOne(n) == n + 1

(* The ACK reports the offset before the GETACK itself.                    *)
OneAhead(r) == replOffset[r] + 1
Reported(r) == replOffset[r]

(* CountSyncedReplica.                                                     *)
Synced(target) == {r \in registered : Offset[r] >= target}

(* AddsOffset: a write is answered after its execution, not here.          *)
AnswersFirst(c) ==
  /\ pc[c] = "add"
  /\ GlobalOffset' = PlusOne(tmp[c])
  /\ readers' = readers \ {c}
  /\ answered' = answered \cup {num[c]}
  /\ pc' = [pc EXCEPT ![c] = "execute"]
  /\ UNCHANGED <<registered, Offset, ackCredit, AckChan, linkVars, remoteVars, num, left,
                 tmp, timed, masterLog, earlier, waits, overlapped, claim, stolen>>

(* AckChan: a token is dropped when the channel is full.                   *)
NoToken(tokens) == tokens
WithToken(tokens) == IF tokens < AckCap THEN tokens + 1 ELSE tokens

(* A loop writes to the replicas that were registered when it started.     *)
AllButOne(rs) == IF rs = {} THEN {} ELSE rs \ {CHOOSE r \in rs : TRUE}
Targets(rs) == rs

-----------------------------------------------------------------------------
(* A connection delivers in order.                                         *)
Sends(r, what) == link' = [link EXCEPT ![r] = Append(@, what)]

(* A write command: HandleModifyingCmd, the command itself, the answer.    *)

Propagating == {c \in Clients : pc[c] \in {"propagate", "add"}}

WriteStarts(c) ==
  /\ pc[c] = "idle"
  /\ Len(earlier) < MaxWrites
  /\ readers' = readers \cup {c}
  /\ left' = [left EXCEPT ![c] = Targets(registered)]
  /\ num' = [num EXCEPT ![c] = Len(earlier) + 1]
  /\ earlier' = Append(earlier, answered)
  /\ overlapped' = (overlapped \/ \E d \in Clients \ {c} :
                      pc[d] \in {"propagate", "add", "execute"})
  /\ Goes(c, "propagate")
  /\ UNCHANGED <<registered, Offset, GlobalOffset, ackCredit, AckChan, linkVars,
                 remoteVars, tmp, timed, masterLog, answered, waits, claim, stolen>>

Propagates(c, r) ==
  /\ pc[c] = "propagate"
  /\ r \in left[c]
  /\ Sends(r, num[c])
  /\ left' = [left EXCEPT ![c] = @ \ {r}]
  /\ UNCHANGED <<nodeVars, AckChan, psync, acks, recorded, late, remoteVars,
                 pc, num, tmp, timed, pastVars>>

(* m.GlobalOffset += ... under a read lock: a read and a write.            *)
ReadsOffset(c) ==
  /\ pc[c] = "propagate"
  /\ left[c] = {}
  /\ tmp' = [tmp EXCEPT ![c] = GlobalOffset]
  /\ Goes(c, "add")
  /\ UNCHANGED <<nodeVars, AckChan, linkVars, remoteVars, num, left, timed, pastVars>>

AddsOffset(c) ==
  /\ pc[c] = "add"
  /\ GlobalOffset' = PlusOne(tmp[c])
  /\ readers' = readers \ {c}
  /\ Goes(c, "execute")
  /\ UNCHANGED <<registered, Offset, ackCredit, AckChan, linkVars, remoteVars,
                 num, left, tmp, timed, pastVars>>

Executes(c) ==
  /\ pc[c] = "execute"
  /\ masterLog' = Append(masterLog, num[c])
  /\ answered' = answered \cup {num[c]}
  /\ Goes(c, "idle")
  /\ UNCHANGED <<nodeVars, AckChan, linkVars, remoteVars, num, left, tmp, timed,
                 earlier, waits, overlapped, claim, stolen>>

-----------------------------------------------------------------------------
(* WAIT.                                                                   *)

Answers(c, target) ==
  /\ Goes(c, "idle")
  /\ claim' = [claim EXCEPT ![c].counted = Synced(target)]

(* Nothing written, nobody to ask, or nobody asked for: WAIT answers at    *)
(* once.  Otherwise it remembers its target.                               *)
WaitStarts(c, n, hasTimeout) ==
  /\ pc[c] = "idle"
  /\ waits < MaxWaits
  /\ waits' = waits + 1
  /\ IF GlobalOffset = 0 \/ registered = {} \/ n = 0
       THEN /\ Goes(c, "idle")
            /\ claim' = [claim EXCEPT ![c] =
                           [counted |-> Synced(GlobalOffset), writes |-> answered]]
            /\ UNCHANGED <<num, tmp, timed, stolen>>
       ELSE /\ Goes(c, "broadcast")
            /\ claim' = [claim EXCEPT ![c] = [counted |-> {}, writes |-> answered]]
            /\ num' = [num EXCEPT ![c] = n]
            /\ tmp' = [tmp EXCEPT ![c] = GlobalOffset]
            /\ timed' = [timed EXCEPT ![c] = hasTimeout]
            /\ stolen' = [stolen EXCEPT ![c] = FALSE]
  /\ UNCHANGED <<nodeVars, AckChan, linkVars, remoteVars, left, masterLog, earlier,
                 answered, overlapped>>

(* BroadcastGetAck copies the connections under the lock and writes to     *)
(* them after it.                                                          *)
Broadcasts(c) ==
  /\ pc[c] = "broadcast"
  /\ left' = [left EXCEPT ![c] = Targets(registered)]
  /\ Goes(c, "getack")
  /\ UNCHANGED <<nodeVars, AckChan, linkVars, remoteVars, num, tmp, timed, pastVars>>

SendsGetAck(c, r) ==
  /\ pc[c] = "getack"
  /\ r \in left[c]
  /\ Sends(r, GetAck)
  /\ left' = [left EXCEPT ![c] = @ \ {r}]
  /\ UNCHANGED <<nodeVars, AckChan, psync, acks, recorded, late, remoteVars,
                 pc, num, tmp, timed, pastVars>>

(* The count is looked at once before the loop and at every turn of it.    *)
Enough(c) == Cardinality(Synced(tmp[c])) >= num[c]

WaitChecks(c) ==
  /\ \/ pc[c] = "getack" /\ left[c] = {}
     \/ pc[c] = "check"
  /\ IF Enough(c)
       THEN Answers(c, tmp[c])
       ELSE Goes(c, IF pc[c] = "getack" THEN "check" ELSE "select") /\ UNCHANGED claim
  /\ UNCHANGED <<nodeVars, AckChan, linkVars, remoteVars, num, left, tmp, timed,
                 masterLog, earlier, answered, waits, overlapped, stolen>>

WaitWakes(c) ==
  /\ pc[c] = "select"
  /\ AckChan > 0
  /\ AckChan' = AckChan - 1
  /\ Goes(c, "check")
  /\ stolen' = [d \in Clients |-> stolen[d] \/ d # c]
  /\ UNCHANGED <<nodeVars, linkVars, remoteVars, num, left, tmp, timed, masterLog,
                 earlier, answered, waits, overlapped, claim>>

WaitTimesOut(c) ==
  /\ pc[c] = "select"
  /\ timed[c]
  /\ Answers(c, tmp[c])
  /\ UNCHANGED <<nodeVars, AckChan, linkVars, remoteVars, num, left, tmp, timed,
                 masterLog, earlier, answered, waits, overlapped, stolen>>

-----------------------------------------------------------------------------
(* The master's handler of a replica's connection.                         *)

(* psyncCmd makes the replica a target of propagation first, and writes    *)
(* its answer in three parts after that, with m.Mu released.               *)
PsyncRegisters(r) ==
  /\ psync[r] = -1
  /\ readers = {}
  /\ psync' = [psync EXCEPT ![r] = 0]
  /\ registered' = registered \cup {r}
  /\ late' = IF earlier = <<>> THEN late ELSE late \cup {r}
  /\ UNCHANGED <<readers, Offset, GlobalOffset, ackCredit, AckChan, link, acks,
                 recorded, remoteVars, clientVars, pastVars>>

PsyncAnswers(r) ==
  /\ psync[r] \in 0..2
  /\ Sends(r, Resync[psync[r] + 1])
  /\ psync' = [psync EXCEPT ![r] = @ + 1]
  /\ UNCHANGED <<nodeVars, AckChan, acks, recorded, late, remoteVars, clientVars,
                 pastVars>>

(* REPLCONF ACK: UpdateReplicaOffset sends the token after the unlock.     *)
AckArrives(r) ==
  /\ psync[r] = 3 /\ ~recorded[r]
  /\ acks[r] # <<>>
  /\ readers = {}
  /\ Offset' = [Offset EXCEPT ![r] = Head(acks[r]).offset]
  /\ ackCredit' = [ackCredit EXCEPT ![r] = Head(acks[r]).credit]
  /\ acks' = [acks EXCEPT ![r] = Tail(@)]
  /\ recorded' = [recorded EXCEPT ![r] = TRUE]
  /\ UNCHANGED <<readers, registered, GlobalOffset, AckChan, psync, link, late,
                 remoteVars, clientVars, pastVars>>

AckTokens(r) ==
  /\ recorded[r]
  /\ AckChan' = WithToken(AckChan)
  /\ recorded' = [recorded EXCEPT ![r] = FALSE]
  /\ UNCHANGED <<nodeVars, psync, link, acks, late, remoteVars, clientVars, pastVars>>

-----------------------------------------------------------------------------
(* The replica.                                                            *)

Reads(r) == link[r] # <<>> /\ link' = [link EXCEPT ![r] = Tail(@)]

(* DiscardRDBPayload drops what comes before FULLRESYNC.  After it the     *)
(* next line that starts with a `$` is taken for the header of the RDB     *)
(* file, and then so many bytes for the file: a command in their place     *)
(* leaves the parser in the middle of something, and it waits for ever for *)
(* bytes that would make it an array.                                      *)
Synchronizes(r) ==
  /\ Reads(r)
  /\ \/ sync[r] = "resync" /\ Head(link[r]) = FullResync
        /\ sync' = [sync EXCEPT ![r] = "header"] /\ UNCHANGED late
     \/ sync[r] = "resync" /\ Head(link[r]) # FullResync
        /\ late' = late \cup {r} /\ UNCHANGED sync
     \/ sync[r] = "header"
        /\ sync' = [sync EXCEPT ![r] = IF Head(link[r]) = Header THEN "rdb" ELSE "broken"]
        /\ UNCHANGED late
     \/ sync[r] = "rdb"
        /\ sync' = [sync EXCEPT ![r] = IF Head(link[r]) = RDB THEN "stream" ELSE "broken"]
        /\ UNCHANGED late
  /\ UNCHANGED <<nodeVars, AckChan, psync, acks, recorded, log, replOffset, due, read,
                 credit, locals, clientVars, pastVars>>

(* A handler has handled a command, and goes on to count it.               *)
Handled(r, h, length) ==
  /\ due[r][h] = 0
  /\ due' = [due EXCEPT ![r][h] = length]
  /\ UNCHANGED <<nodeVars, AckChan, psync, recorded, late, sync, replOffset, read,
                 clientVars, pastVars>>

ReplicaWrites(r) ==
  /\ sync[r] = "stream"
  /\ Reads(r)
  /\ Head(link[r]) > 0
  /\ log' = [log EXCEPT ![r] = Append(@, Head(link[r]))]
  /\ Handled(r, "link", 1)
  /\ UNCHANGED <<acks, credit, locals>>

ReplicaAcks(r) ==
  /\ sync[r] = "stream"
  /\ Reads(r)
  /\ Head(link[r]) = GetAck
  /\ acks' = [acks EXCEPT ![r] =
                Append(@, [offset |-> Reported(r), credit |-> credit[r]])]
  /\ credit' = [credit EXCEPT ![r] = @ + AckLength]
  /\ Handled(r, "link", AckLength)
  /\ UNCHANGED <<log, locals>>

(* A client sends a command to the replica itself: TrackOffset counts it,  *)
(* as every handler of the process does.                                   *)
ReplicaServes(r, length) ==
  /\ locals < MaxLocal
  /\ locals' = locals + 1
  /\ credit' = [credit EXCEPT ![r] = @ + length]
  /\ Handled(r, "client", length)
  /\ UNCHANGED <<link, acks, log>>

(* TrackOffset: info.MasterReplOffset += ... without a lock, a read and a  *)
(* write.                                                                  *)
TrackReads(r, h) ==
  /\ due[r][h] > 0 /\ read[r][h] = -1
  /\ read' = [read EXCEPT ![r][h] = replOffset[r]]
  /\ UNCHANGED <<nodeVars, AckChan, linkVars, sync, log, replOffset, due, credit, locals,
                 clientVars, pastVars>>

TrackAdds(r, h) ==
  /\ read[r][h] # -1
  /\ replOffset' = [replOffset EXCEPT ![r] = read[r][h] + due[r][h]]
  /\ read' = [read EXCEPT ![r][h] = -1]
  /\ due' = [due EXCEPT ![r][h] = 0]
  /\ UNCHANGED <<nodeVars, AckChan, linkVars, sync, log, credit, locals, clientVars, pastVars>>

-----------------------------------------------------------------------------
WaitProgress(c) ==
  \/ Broadcasts(c)
  \/ \E r \in Replicas : SendsGetAck(c, r)
  \/ WaitChecks(c) \/ WaitWakes(c) \/ WaitTimesOut(c)

WriteProgress(c) ==
  \/ \E r \in Replicas : Propagates(c, r)
  \/ ReadsOffset(c) \/ AddsOffset(c) \/ Executes(c)

ServeReplica(r) == PsyncAnswers(r) \/ AckArrives(r) \/ AckTokens(r)

ReplicaStep(r) == Synchronizes(r) \/ ReplicaWrites(r) \/ ReplicaAcks(r)

TrackOffset(r) == \E h \in Handlers : TrackReads(r, h) \/ TrackAdds(r, h)

Next ==
  \/ \E c \in Clients :
       \/ WriteStarts(c) \/ WriteProgress(c)
       \/ \E n \in 0..Cardinality(Replicas), hasTimeout \in BOOLEAN :
            WaitStarts(c, n, hasTimeout)
       \/ WaitProgress(c)
  \/ \E r \in Replicas :
       \/ PsyncRegisters(r) \/ ServeReplica(r) \/ ReplicaStep(r)
       \/ \E length \in Lengths : ReplicaServes(r, length)
       \/ TrackOffset(r)

Spec == Init /\ [][Next]_vars

-----------------------------------------------------------------------------
(* The variables have the types of the code; AckChan stays in its capacity *)
(* and m.Mu is held over steps by propagations only.                       *)
TypeOK ==
  /\ readers = Propagating
  /\ registered \subseteq Replicas
  /\ Offset \in [Replicas -> Nat]
  /\ GlobalOffset \in 0..MaxWrites
  /\ AckChan \in 0..AckCap
  /\ psync \in [Replicas -> -1..3]
  /\ link \in [Replicas -> Seq(RDB..MaxWrites)]
  /\ sync \in [Replicas -> {"resync", "header", "rdb", "stream", "broken"}]
  /\ log \in [Replicas -> Seq(1..MaxWrites)]
  /\ replOffset \in [Replicas -> Nat]
  /\ due \in [Replicas -> [Handlers -> Nat]]
  /\ read \in [Replicas -> [Handlers -> Nat \cup {-1}]]
  /\ pc \in [Clients -> {"idle", "propagate", "add", "execute",
                         "broadcast", "getack", "check", "select"}]
  /\ left \in [Clients -> SUBSET Replicas]
  /\ tmp \in [Clients -> Nat]

(* A write that started after another was answered is executed after it,   *)
(* on the master and on every replica.  (Writes that overlap do end up in  *)
(* different orders on different replicas, commands.go:1191-1203.)         *)
Inverted(run) == \E i, j \in DOMAIN run : i < j /\ run[j] \in earlier[run[i]]
OrderKept == ~Inverted(masterLog) /\ \A r \in Replicas : ~Inverted(log[r])

(* A replica that was registered before the first write, and whose         *)
(* handshake no write ran into, gets every write that is answered: it has  *)
(* executed it, or the write is on its way (commands.go:665-688).          *)
InStep(r) == r \in registered \ late /\ sync[r] # "broken"
NoGap ==
  \A r \in Replicas : InStep(r) =>
    \A w \in answered : w \in ToSet(log[r]) \cup ToSet(link[r])

(* WAIT counts a replica that still misses some of the writes answered     *)
(* before it only as far as the replica's offset was swollen by commands   *)
(* that are not writes: GETACKs and the replica's own clients, which       *)
(* TrackOffset counts and GlobalOffset does not (commands.go:1171-1175).   *)
(* A long one hides several writes; updates that TrackOffset loses hide    *)
(* none.  This holds for writes that do not overlap.                       *)
Missing(r, ws) == Cardinality(ws \ ToSet(log[r]))
WaitMissesAtMostCredit ==
  ~overlapped =>
    \A c \in Clients : \A r \in claim[c].counted :
      InStep(r) => Missing(r, claim[c].writes) <= ackCredit[r]

(* A WAIT that sleeps although enough replicas have acknowledged has a     *)
(* token to wake it, in AckChan or about to be sent, unless the WAIT of    *)
(* another client took one in the meantime: AckChan is shared, and then    *)
(* nothing may wake it any more (commands.go:635-649, 659-662).            *)
NoOversleep ==
  \A c \in Clients : pc[c] = "select" /\ Enough(c) =>
    AckChan > 0 \/ stolen[c] \/ \E r \in Replicas : recorded[r]

(* On values of the types above, GlobalOffset, the target of WAIT, counts  *)
(* every answered write: no update is lost unless two writes overlap, as a *)
(* read lock lets them (commands.go:1192, 1202).                           *)
OffsetCountsWrites == TypeOK /\ (~overlapped => GlobalOffset >= Cardinality(answered))
=============================================================================
