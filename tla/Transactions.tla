---------------------------- MODULE Transactions ----------------------------
(***************************************************************************)
(* The strings of store.Store (SET, GET, INCR, lazy expiry, versions) and  *)
(* the transactions of commands.Handler on them: WATCH, UNWATCH, MULTI,    *)
(* EXEC, DISCARD.  A client is one connection with its Handler.  A command *)
(* on the store is one critical section of s.mu, so one step; EXEC is many *)
(* steps, because CheckWatchedKeysForChange takes no lock and s.mu is free *)
(* between the commands EXEC runs.                                         *)
(*                                                                         *)
(* SameVersion, AnyDifference and KeepResponses are faulty twins of the    *)
(* operator defined after them: no action uses them, a mutation puts one   *)
(* in place of its twin to show that a property notices.                   *)
(***************************************************************************)
EXTENDS Naturals, Sequences, FiniteSets, SequencesExt

CONSTANTS
  Clients,    \* connections
  Keys,       \* string keys
  KeyLists,   \* the argument lists WATCH is called with
  Ttls,       \* whether SET gives a TTL: a subset of BOOLEAN
  MaxWrites,  \* writes a key takes at most
  MaxQueue    \* commands a client queues at most

ASSUME TransactionsAssumption ==
  /\ KeyLists \subseteq Seq(Keys)
  /\ Ttls \subseteq BOOLEAN
  /\ MaxWrites \in Nat
  /\ MaxQueue \in Nat

VARIABLES
  \* s.data, field by field
  version,      \* entry.version; 0 when the key is not in the map
  isNumber,     \* whether strconv.Atoi accepts entry.value
  deadline,     \* entry.expiresAt: "none", "ahead" or "passed"
  \* the Handler of each connection
  isMultiActive, isResponseQueued,
  cmdQueue,     \* h.cmdQueue
  responses,    \* len(h.cmdQueueResponses)
  watched,      \* the keys of h.WatchedKeys
  recorded,     \* the versions in h.WatchedKeys
  \* where a connection stands inside EXEC
  pc,           \* "idle", "check" or "run"
  todo,         \* watched keys still to be compared
  run,          \* queued commands still to be run
  \* history
  writes,       \* how often a key was written
  deletions,    \* how often a key was deleted
  seen,         \* writes and deletions of a key when a client watched it
  ran,          \* commands run by the EXEC under way
  unwound       \* that EXEC ran an UNWATCH

dataVars == <<version, isNumber, deadline, writes, deletions>>
watchVars == <<watched, recorded, seen>>
handlerVars == <<isMultiActive, isResponseQueued, cmdQueue, responses>>
execVars == <<pc, todo, run, ran, unwound>>
vars == <<dataVars, watchVars, handlerVars, execVars>>

(* Commands EXEC may run; WATCH is refused inside MULTI.                   *)
Sets == [op : {"set"}, key : Keys, number : BOOLEAN, ttl : Ttls]
Commands == Sets \cup [op : {"get", "incr"}, key : Keys] \cup [op : {"unwatch", "multi"}]

Init ==
  /\ version = [k \in Keys |-> 0]
  /\ isNumber = [k \in Keys |-> FALSE]
  /\ deadline = [k \in Keys |-> "none"]
  /\ isMultiActive = [c \in Clients |-> FALSE]
  /\ isResponseQueued = [c \in Clients |-> FALSE]
  /\ cmdQueue = [c \in Clients |-> <<>>]
  /\ responses = [c \in Clients |-> 0]
  /\ watched = [c \in Clients |-> {}]
  /\ recorded = [c \in Clients |-> [k \in Keys |-> 0]]
  /\ pc = [c \in Clients |-> "idle"]
  /\ todo = [c \in Clients |-> {}]
  /\ run = [c \in Clients |-> <<>>]
  /\ writes = [k \in Keys |-> 0]
  /\ deletions = [k \in Keys |-> 0]
  /\ seen = [c \in Clients |-> [k \in Keys |-> [writes |-> 0, deletions |-> 0]]]
  /\ ran = [c \in Clients |-> 0]
  /\ unwound = [c \in Clients |-> FALSE]

-----------------------------------------------------------------------------
(* The store.                                                              *)

Exists(k) == version[k] > 0

(* e.version++, or version 1 for a new entry.                              *)
SameVersion(v) == IF v = 0 THEN 1 ELSE v
NextVersion(v) == v + 1

(* A write of key k.                                                       *)
Write(k, numeric, expiry) ==
  /\ writes[k] < MaxWrites
  /\ version' = [version EXCEPT ![k] = NextVersion(@)]
  /\ isNumber' = [isNumber EXCEPT ![k] = numeric]
  /\ deadline' = [deadline EXCEPT ![k] = expiry]
  /\ writes' = [writes EXCEPT ![k] = @ + 1]
  /\ UNCHANGED deletions

(* An entry whose deadline has passed is deleted by the next GET or INCR.  *)
Delete(k) ==
  /\ version' = [version EXCEPT ![k] = 0]
  /\ isNumber' = [isNumber EXCEPT ![k] = FALSE]
  /\ deadline' = [deadline EXCEPT ![k] = "none"]
  /\ deletions' = [deletions EXCEPT ![k] = @ + 1]
  /\ UNCHANGED writes

(* SET without a TTL leaves the deadline of an existing entry in place.    *)
Set(k, numeric, hasTtl) == Write(k, numeric, IF hasTtl THEN "ahead" ELSE deadline[k])

Get(k) ==
  \/ deadline[k] = "passed" /\ Delete(k)
  \/ deadline[k] # "passed" /\ UNCHANGED dataVars

INCR(k) ==
  \/ deadline[k] = "passed" /\ Delete(k)
  \/ deadline[k] # "passed" /\ Exists(k) /\ ~isNumber[k] /\ UNCHANGED dataVars
  \/ deadline[k] # "passed" /\ (Exists(k) => isNumber[k]) /\ Write(k, TRUE, deadline[k])

(* Time passes.                                                            *)
DeadlinePasses(k) ==
  /\ deadline[k] = "ahead"
  /\ deadline' = [deadline EXCEPT ![k] = "passed"]
  /\ UNCHANGED <<version, isNumber, writes, deletions, watchVars, handlerVars, execVars>>

(* Store.Watch records the keys in turn and returns at the first key that  *)
(* is missing, after recording version 0 for it.                           *)
RecordedOf(ks) == {ks[i] : i \in {j \in DOMAIN ks : \A h \in 1..(j - 1) : Exists(ks[h])}}

Watch(c, ks) ==
  /\ watched' = [watched EXCEPT ![c] = @ \cup RecordedOf(ks)]
  /\ recorded' = [recorded EXCEPT ![c] =
       [k \in Keys |-> IF k \in RecordedOf(ks) THEN version[k] ELSE @[k]]]
  /\ seen' = [seen EXCEPT ![c] =
       [k \in Keys |-> IF k \in RecordedOf(ks)
                       THEN [writes |-> writes[k], deletions |-> deletions[k]]
                       ELSE @[k]]]

(* CheckWatchedKeysForChange, for one key: a missing key is no change.     *)
AnyDifference(c, k) == version[k] # recorded[c][k] \/ ~Exists(k)
Changed(c, k) == Exists(k) /\ version[k] # recorded[c][k]

-----------------------------------------------------------------------------
(* The handler.                                                            *)

(* SendResponse writes to the connection or, while EXEC runs the queue,    *)
(* collects the response.                                                  *)
SendResponse(c) ==
  responses' = [responses EXCEPT ![c] = IF isResponseQueued[c] THEN @ + 1 ELSE @]

(* An empty h.WatchedKeys.                                                 *)
Nothing == [recorded |-> [k \in Keys |-> 0],
            seen |-> [k \in Keys |-> [writes |-> 0, deletions |-> 0]]]

(* discardWatch.                                                           *)
DiscardWatch(c) ==
  /\ isMultiActive' = [isMultiActive EXCEPT ![c] = FALSE]
  /\ isResponseQueued' = [isResponseQueued EXCEPT ![c] = FALSE]
  /\ cmdQueue' = [cmdQueue EXCEPT ![c] = <<>>]
  /\ responses' = [responses EXCEPT ![c] = 0]
  /\ watched' = [watched EXCEPT ![c] = {}]
  /\ recorded' = [recorded EXCEPT ![c] = Nothing.recorded]
  /\ seen' = [seen EXCEPT ![c] = Nothing.seen]

(* A command on the store: one of set, get, incr.                          *)
StoreCommand(c, cmd) ==
  /\ \/ cmd.op = "set" /\ Set(cmd.key, cmd.number, cmd.ttl)
     \/ cmd.op = "get" /\ Get(cmd.key)
     \/ cmd.op = "incr" /\ INCR(cmd.key)
  /\ SendResponse(c)
  /\ UNCHANGED <<watchVars, isMultiActive, isResponseQueued, cmdQueue>>

UnwatchCmd(c, cmd) ==
  /\ cmd.op = "unwatch"
  /\ DiscardWatch(c)
  /\ UNCHANGED dataVars

MultiCmd(c, cmd) ==
  /\ cmd.op = "multi"
  /\ SendResponse(c)
  /\ isMultiActive' = [isMultiActive EXCEPT ![c] = TRUE]
  /\ UNCHANGED <<dataVars, watchVars, isResponseQueued, cmdQueue>>

(* executeBuiltIn, for the commands that MULTI queues.                     *)
Enqueue(c, cmd) ==
  /\ isMultiActive[c]
  /\ Len(cmdQueue[c]) < MaxQueue
  /\ cmdQueue' = [cmdQueue EXCEPT ![c] = Append(@, cmd)]
  /\ SendResponse(c)
  /\ UNCHANGED <<dataVars, watchVars, isMultiActive, isResponseQueued>>

ExecuteBuiltIn(c, cmd) ==
  \/ Enqueue(c, cmd)
  \/ ~isMultiActive[c] /\ (StoreCommand(c, cmd) \/ UnwatchCmd(c, cmd) \/ MultiCmd(c, cmd))

-----------------------------------------------------------------------------
Command(c, cmd) ==
  /\ pc[c] = "idle"
  /\ ExecuteBuiltIn(c, cmd)
  /\ UNCHANGED execVars

WatchCmd(c, ks) ==
  /\ pc[c] = "idle"
  /\ ~isMultiActive[c]
  /\ Watch(c, ks)
  /\ UNCHANGED <<dataVars, handlerVars, execVars>>

DiscardCmd(c) ==
  /\ pc[c] = "idle"
  /\ isMultiActive[c]
  /\ DiscardWatch(c)
  /\ UNCHANGED <<dataVars, execVars>>

(* EXEC with nothing queued ends MULTI and keeps the watched keys.         *)
ExecEmpty(c) ==
  /\ pc[c] = "idle"
  /\ isMultiActive[c]
  /\ cmdQueue[c] = <<>>
  /\ isMultiActive' = [isMultiActive EXCEPT ![c] = FALSE]
  /\ UNCHANGED <<dataVars, watchVars, isResponseQueued, cmdQueue, responses, execVars>>

ExecStarts(c) ==
  /\ pc[c] = "idle"
  /\ isMultiActive[c]
  /\ cmdQueue[c] # <<>>
  /\ pc' = [pc EXCEPT ![c] = "check"]
  /\ todo' = [todo EXCEPT ![c] = watched[c]]
  /\ UNCHANGED <<dataVars, watchVars, handlerVars, run, ran, unwound>>

(* The watched keys are compared one by one, in any order (they are in a   *)
(* Go map).                                                                *)
ExecChecks(c, k) ==
  /\ pc[c] = "check"
  /\ k \in todo[c]
  /\ ~Changed(c, k)
  /\ todo' = [todo EXCEPT ![c] = @ \ {k}]
  /\ UNCHANGED <<dataVars, watchVars, handlerVars, pc, run, ran, unwound>>

ExecAborts(c, k) ==
  /\ pc[c] = "check"
  /\ k \in todo[c]
  /\ Changed(c, k)
  /\ DiscardWatch(c)
  /\ pc' = [pc EXCEPT ![c] = "idle"]
  /\ todo' = [todo EXCEPT ![c] = {}]
  /\ UNCHANGED <<dataVars, run, ran, unwound>>

ExecRuns(c) ==
  /\ pc[c] = "check"
  /\ todo[c] = {}
  /\ pc' = [pc EXCEPT ![c] = "run"]
  /\ run' = [run EXCEPT ![c] = cmdQueue[c]]
  /\ isResponseQueued' = [isResponseQueued EXCEPT ![c] = TRUE]
  /\ isMultiActive' = [isMultiActive EXCEPT ![c] = FALSE]
  /\ UNCHANGED <<dataVars, watchVars, cmdQueue, responses, todo, ran, unwound>>

ExecRunsNext(c) ==
  /\ pc[c] = "run"
  /\ run[c] # <<>>
  /\ ExecuteBuiltIn(c, Head(run[c]))
  /\ run' = [run EXCEPT ![c] = Tail(@)]
  /\ ran' = [ran EXCEPT ![c] = @ + 1]
  /\ unwound' = [unwound EXCEPT ![c] =
                   @ \/ (Head(run[c]).op = "unwatch" /\ ~isMultiActive[c])]
  /\ UNCHANGED <<pc, todo>>

(* EXEC replies the collected responses and forgets them; the queue and    *)
(* the watched keys stay as they are.                                      *)
KeepResponses(n) == n
ForgetResponses(n) == 0
ExecReplies(c) ==
  /\ pc[c] = "run"
  /\ run[c] = <<>>
  /\ isResponseQueued' = [isResponseQueued EXCEPT ![c] = FALSE]
  /\ responses' = [responses EXCEPT ![c] = ForgetResponses(@)]
  /\ pc' = [pc EXCEPT ![c] = "idle"]
  /\ ran' = [ran EXCEPT ![c] = 0]
  /\ unwound' = [unwound EXCEPT ![c] = FALSE]
  /\ UNCHANGED <<dataVars, watchVars, isMultiActive, cmdQueue, todo, run>>

Next ==
  \/ \E c \in Clients :
       \/ \E cmd \in Commands : Command(c, cmd)
       \/ \E ks \in KeyLists : WatchCmd(c, ks)
       \/ DiscardCmd(c) \/ ExecEmpty(c) \/ ExecStarts(c)
       \/ \E k \in Keys : ExecChecks(c, k) \/ ExecAborts(c, k)
       \/ ExecRuns(c) \/ ExecRunsNext(c) \/ ExecReplies(c)
  \/ \E k \in Keys : DeadlinePasses(k)

Spec == Init /\ [][Next]_vars

-----------------------------------------------------------------------------
(* The variables have the types of the code.                               *)
TypeOK ==
  /\ version \in [Keys -> Nat]
  /\ isNumber \in [Keys -> BOOLEAN]
  /\ deadline \in [Keys -> {"none", "ahead", "passed"}]
  /\ isMultiActive \in [Clients -> BOOLEAN]
  /\ isResponseQueued \in [Clients -> BOOLEAN]
  /\ cmdQueue \in [Clients -> Seq(Commands)]
  /\ responses \in [Clients -> Nat]
  /\ watched \in [Clients -> SUBSET Keys]
  /\ recorded \in [Clients -> [Keys -> Nat]]
  /\ pc \in [Clients -> {"idle", "check", "run"}]
  /\ todo \in [Clients -> SUBSET Keys]
  /\ run \in [Clients -> Seq(Commands)]
  /\ writes \in [Keys -> Nat]
  /\ deletions \in [Keys -> Nat]
  /\ seen \in [Clients -> [Keys -> [writes : Nat, deletions : Nat]]]
  /\ ran \in [Clients -> Nat]
  /\ unwound \in [Clients -> BOOLEAN]

SameIncarnation(c, k) == deletions[k] = seen[c][k].deletions
WrittenSince(c, k) == writes[k] # seen[c][k].writes

(* The version recorded by WATCH tells how often the key was written since *)
(* then - as long as the key was not deleted: a deletion sets the version  *)
(* back to 0 (store.go:248, 294, 799, 822-833).                            *)
VersionCountsWrites ==
  \A c \in Clients, k \in Keys :
    k \in watched[c] /\ SameIncarnation(c, k)
      => version[k] + seen[c][k].writes = recorded[c][k] + writes[k]

(* EXEC takes a watched key for unchanged only when nobody wrote it since  *)
(* WATCH, or when it was deleted in between: then a key that is missing    *)
(* again, or that has come back with the same version, passes              *)
(* (store.go:824-830).                                                     *)
Passes(c, k) == k \in todo[c] /\ k \notin todo'[c] /\ pc'[c] = "check"
CheckSound ==
  [][\A c \in Clients, k \in Keys :
       Passes(c, k) /\ SameIncarnation(c, k) => ~WrittenSince(c, k)]_vars

(* EXEC gives up only when a key was written since this client watched it. *)
(* The write may be one of the client's own earlier EXEC: a successful EXEC*)
(* keeps the watched keys (commands.go:800-815).                           *)
AbortJustified ==
  [][\A c \in Clients :
       pc[c] = "check" /\ pc'[c] = "idle" => \E k \in watched[c] : WrittenSince(c, k)]_vars

(* The array EXEC replies has one response for each command it has run,    *)
(* also when the commands are left over from an earlier EXEC or queue      *)
(* others, unless one of them is UNWATCH, which throws away the responses  *)
(* (commands.go:759-765, 800-815).  Outside EXEC nothing is collected:     *)
(* every command gets its own reply.                                       *)
OneResponsePerCommand ==
  \A c \in Clients :
    /\ pc[c] = "run" /\ ~unwound[c] => responses[c] = ran[c]
    /\ pc[c] # "run" => ~isResponseQueued[c] /\ responses[c] = 0
=============================================================================
