-------------------------- MODULE Keyspace_proofs ---------------------------
(***************************************************************************)
(* Proofs about two parts of the keyspace.                                 *)
(*                                                                         *)
(* Transactions: what a recorded version is worth, and when EXEC may run   *)
(* or must give up.                                                        *)
(*                                                                         *)
(* SortedSets: the skip list is what its name says, so that the commands   *)
(* on a sorted set answer from it what the dictionary would.  The second   *)
(* part goes from walks, which are functions that call themselves and      *)
(* have to be shown to exist, over finite orders and the pointers that     *)
(* follow one, to an inductive invariant; from that to the members that a  *)
(* level lists; and from those to the answers.                             *)
(***************************************************************************)
EXTENDS Transactions, SortedSets, SequenceFacts

-----------------------------------------------------------------------------
(* TRANSACTIONS.  What the theorems need beyond VersionCountsWrites: the   *)
(* history counts only grow; while a watched key is not written its        *)
(* version stays the recorded one or goes to 0; EXEC compares only keys    *)
(* that are watched, and has none left to compare when it does not compare.*)
CountsGrow ==
  \A c \in Clients, k \in Keys : k \in watched[c] =>
    seen[c][k].writes <= writes[k] /\ seen[c][k].deletions <= deletions[k]
QuietKeepsVersion ==
  \A c \in Clients, k \in Keys : k \in watched[c] /\ ~WrittenSince(c, k) =>
    version[k] = 0 \/ version[k] = recorded[c][k]
ComparesWatched ==
  \A c \in Clients :
    /\ pc[c] = "check" => todo[c] \subseteq watched[c]
    /\ pc[c] # "check" => todo[c] = {}

WatchInv == VersionCountsWrites /\ CountsGrow /\ QuietKeepsVersion /\ ComparesWatched

-----------------------------------------------------------------------------
(* How one step may change the entry of a key: not at all, by a write, or  *)
(* by a deletion.                                                          *)
Untouched(k) ==
  version'[k] = version[k] /\ writes'[k] = writes[k] /\ deletions'[k] = deletions[k]
Written(k) ==
  version'[k] = version[k] + 1 /\ writes'[k] = writes[k] + 1 /\ deletions'[k] = deletions[k]
Deleted(k) ==
  version'[k] = 0 /\ writes'[k] = writes[k] /\ deletions'[k] = deletions[k] + 1
DataStep == \A k \in Keys : Untouched(k) \/ Written(k) \/ Deleted(k)

(* The types of the entries alone.                                         *)
DataTypes ==
  /\ version \in [Keys -> Nat]
  /\ isNumber \in [Keys -> BOOLEAN]
  /\ deadline \in [Keys -> {"none", "ahead", "passed"}]
  /\ writes \in [Keys -> Nat]
  /\ deletions \in [Keys -> Nat]

(* A write counts one version and one write, and keeps the types.          *)
LEMMA WriteStep ==
  ASSUME DataTypes, NEW k \in Keys, NEW numeric \in BOOLEAN,
         NEW expiry \in {"none", "ahead", "passed"}, Write(k, numeric, expiry)
  PROVE  DataTypes' /\ DataStep
BY DEF DataTypes, Write, NextVersion, DataStep, Untouched, Written, Deleted

(* A deletion sets the version back to 0, and keeps the types.             *)
LEMMA DeleteStep ==
  ASSUME DataTypes, NEW k \in Keys, Delete(k)
  PROVE  DataTypes' /\ DataStep
BY DEF DataTypes, Delete, DataStep, Untouched, Written, Deleted

(* A step that leaves the entries alone.                                   *)
LEMMA NoDataStep ==
  ASSUME DataTypes, UNCHANGED dataVars
  PROVE  DataTypes' /\ DataStep
BY DEF DataTypes, dataVars, DataStep, Untouched, Written, Deleted

(* Commands on the store write or delete one key, or change nothing.       *)
LEMMA StoreCommandStep ==
  ASSUME DataTypes, NEW c \in Clients, NEW cmd \in Commands, StoreCommand(c, cmd)
  PROVE  DataTypes' /\ DataStep
<1>1. CASE cmd.op = "set" /\ Set(cmd.key, cmd.number, cmd.ttl)
  <2>1. cmd \in Sets
    BY <1>1 DEF Commands, Sets
  <2>2. cmd.key \in Keys /\ cmd.number \in BOOLEAN
    BY <2>1 DEF Sets
  <2>3. CASE cmd.ttl
    BY <1>1, <2>2, <2>3, WriteStep DEF Set
  <2>4. CASE ~cmd.ttl
    <3>1. Write(cmd.key, cmd.number, deadline[cmd.key])
      BY <1>1, <2>4 DEF Set
    <3> QED
      BY <2>2, <3>1, WriteStep DEF DataTypes
  <2> QED
    BY <2>3, <2>4
<1>2. CASE cmd.op = "get" /\ Get(cmd.key)
  <2>1. cmd.key \in Keys
    BY <1>2 DEF Commands, Sets
  <2> QED
    BY <1>2, <2>1, DeleteStep, NoDataStep DEF Get
<1>3. CASE cmd.op = "incr" /\ INCR(cmd.key)
  <2>1. cmd.key \in Keys
    BY <1>3 DEF Commands, Sets
  <2>2. deadline[cmd.key] \in {"none", "ahead", "passed"}
    BY <2>1 DEF DataTypes
  <2>3. CASE Write(cmd.key, TRUE, deadline[cmd.key])
    BY <2>1, <2>2, <2>3, WriteStep
  <2> QED
    BY <1>3, <2>1, <2>3, DeleteStep, NoDataStep DEF INCR
<1> QED
  BY <1>1, <1>2, <1>3 DEF StoreCommand
(* UNWATCH forgets the watched keys and changes no entry.                  *)
Forgets(c) ==
  /\ watched' = [watched EXCEPT ![c] = {}]
  /\ recorded' = [recorded EXCEPT ![c] = Nothing.recorded]
  /\ seen' = [seen EXCEPT ![c] = Nothing.seen]

(* A queued or immediate command changes entries as above, and either      *)
(* keeps what is watched or forgets it.                                    *)
LEMMA ExecuteStep ==
  ASSUME DataTypes, NEW c \in Clients, NEW cmd \in Commands, ExecuteBuiltIn(c, cmd)
  PROVE  /\ DataTypes' /\ DataStep
         /\ UNCHANGED watchVars \/ Forgets(c)
<1>1. CASE Enqueue(c, cmd)
  BY <1>1, NoDataStep DEF Enqueue
<1>2. CASE StoreCommand(c, cmd)
  BY <1>2, StoreCommandStep DEF StoreCommand
<1>3. CASE UnwatchCmd(c, cmd)
  BY <1>3, NoDataStep DEF UnwatchCmd, DiscardWatch, Forgets
<1>4. CASE MultiCmd(c, cmd)
  BY <1>4, NoDataStep DEF MultiCmd
<1> QED
  BY <1>1, <1>2, <1>3, <1>4 DEF ExecuteBuiltIn

-----------------------------------------------------------------------------
(* Time leaves versions and counts alone.                                  *)
LEMMA DeadlineStep ==
  ASSUME DataTypes, NEW k \in Keys, DeadlinePasses(k)
  PROVE  DataTypes' /\ DataStep
BY DEF DeadlinePasses, DataTypes, DataStep, Untouched, Written, Deleted

(* The types of the variables of a handler that the argument looks at.     *)
WatchTypes ==
  /\ watched \in [Clients -> SUBSET Keys]
  /\ recorded \in [Clients -> [Keys -> Nat]]
  /\ seen \in [Clients -> [Keys -> [writes : Nat, deletions : Nat]]]

(* The part of WatchInv that speaks of versions and counts survives any    *)
(* change of the entries, for what is still watched and was before.        *)
CountsInv == VersionCountsWrites /\ CountsGrow /\ QuietKeepsVersion
StillWatched ==
  \A c \in Clients, k \in Keys : k \in watched'[c] =>
    k \in watched[c] /\ seen'[c][k] = seen[c][k] /\ recorded'[c][k] = recorded[c][k]

LEMMA CountsKept ==
  ASSUME DataTypes, WatchTypes, CountsInv, DataStep, StillWatched
  PROVE  CountsInv'
<1>1. ASSUME NEW c \in Clients, NEW k \in Keys, k \in watched'[c]
      PROVE  /\ SameIncarnation(c, k)' =>
                  version'[k] + seen'[c][k].writes = recorded'[c][k] + writes'[k]
             /\ seen'[c][k].writes <= writes'[k] /\ seen'[c][k].deletions <= deletions'[k]
             /\ ~WrittenSince(c, k)' => version'[k] = 0 \/ version'[k] = recorded'[c][k]
  <2>1. k \in watched[c] /\ seen'[c][k] = seen[c][k] /\ recorded'[c][k] = recorded[c][k]
    BY <1>1 DEF StillWatched
  <2>2. /\ version[k] \in Nat /\ writes[k] \in Nat /\ deletions[k] \in Nat
        /\ recorded[c][k] \in Nat
        /\ seen[c][k].writes \in Nat /\ seen[c][k].deletions \in Nat
    BY DEF DataTypes, WatchTypes
  <2>3. /\ deletions[k] = seen[c][k].deletions =>
             version[k] + seen[c][k].writes = recorded[c][k] + writes[k]
        /\ seen[c][k].writes <= writes[k] /\ seen[c][k].deletions <= deletions[k]
        /\ writes[k] = seen[c][k].writes => version[k] = 0 \/ version[k] = recorded[c][k]
    BY <2>1 DEF CountsInv, VersionCountsWrites, CountsGrow, QuietKeepsVersion,
                SameIncarnation, WrittenSince
  <2>4. Untouched(k) \/ Written(k) \/ Deleted(k)
    BY DEF DataStep
  <2> QED
    BY <2>1, <2>2, <2>3, <2>4
    DEF Untouched, Written, Deleted, SameIncarnation, WrittenSince
<1> QED
  BY <1>1 DEF CountsInv, VersionCountsWrites, CountsGrow, QuietKeepsVersion

(* Keeping or forgetting what is watched.                                  *)
LEMMA KeepOrForget ==
  ASSUME WatchTypes, NEW c \in Clients, UNCHANGED watchVars \/ Forgets(c)
  PROVE  /\ WatchTypes' /\ StillWatched
         /\ \A d \in Clients \ {c} : watched'[d] = watched[d]
<1>1. CASE UNCHANGED watchVars
  BY <1>1 DEF WatchTypes, watchVars, StillWatched
<1>2. CASE Forgets(c)
  <2>1. /\ Nothing.recorded \in [Keys -> Nat]
        /\ Nothing.seen \in [Keys -> [writes : Nat, deletions : Nat]]
    BY DEF Nothing
  <2>2. WatchTypes'
    BY <1>2, <2>1 DEF Forgets, WatchTypes
  <2>3. \A d \in Clients \ {c} : /\ watched'[d] = watched[d]
                                 /\ seen'[d] = seen[d] /\ recorded'[d] = recorded[d]
    BY <1>2 DEF Forgets, WatchTypes
  <2>4. watched'[c] = {}
    BY <1>2 DEF Forgets, WatchTypes
  <2> QED
    BY <2>2, <2>3, <2>4 DEF StillWatched
<1> QED
  BY <1>1, <1>2

(* WATCH records the version and the counts of the same moment.            *)
LEMMA WatchStep ==
  ASSUME DataTypes, WatchTypes, CountsInv, UNCHANGED dataVars,
         NEW c \in Clients, NEW ks \in KeyLists, Watch(c, ks)
  PROVE  WatchTypes' /\ CountsInv'
<1>1. RecordedOf(ks) \subseteq Keys
  BY TransactionsAssumption DEF RecordedOf
<1>2. WatchTypes'
  BY <1>1 DEF Watch, WatchTypes, DataTypes
<1>3. ASSUME NEW d \in Clients, NEW k \in Keys, k \in watched'[d]
      PROVE  /\ SameIncarnation(d, k)' =>
                  version'[k] + seen'[d][k].writes = recorded'[d][k] + writes'[k]
             /\ seen'[d][k].writes <= writes'[k] /\ seen'[d][k].deletions <= deletions'[k]
             /\ ~WrittenSince(d, k)' => version'[k] = 0 \/ version'[k] = recorded'[d][k]
  <2>1. version'[k] = version[k] /\ writes'[k] = writes[k] /\ deletions'[k] = deletions[k]
    BY DEF dataVars
  <2>2. version[k] \in Nat /\ writes[k] \in Nat /\ deletions[k] \in Nat
    BY DEF DataTypes
  <2>3. CASE d = c /\ k \in RecordedOf(ks)
    <3>1. /\ recorded'[d][k] = version[k]
          /\ seen'[d][k] = [writes |-> writes[k], deletions |-> deletions[k]]
      BY <2>3 DEF Watch, WatchTypes
    <3> QED
      BY <2>1, <2>2, <3>1 DEF SameIncarnation, WrittenSince
  <2>4. CASE ~(d = c /\ k \in RecordedOf(ks))
    <3>1. k \in watched[d] /\ seen'[d][k] = seen[d][k] /\ recorded'[d][k] = recorded[d][k]
      BY <1>3, <2>4 DEF Watch, WatchTypes
    <3> QED
      BY <2>1, <3>1 DEF CountsInv, VersionCountsWrites, CountsGrow, QuietKeepsVersion,
                        SameIncarnation, WrittenSince
  <2> QED
    BY <2>3, <2>4
<1> QED
  BY <1>2, <1>3 DEF CountsInv, VersionCountsWrites, CountsGrow, QuietKeepsVersion

-----------------------------------------------------------------------------
(* The initial states.                                                     *)
LEMMA InitHolds == Init => TypeOK /\ WatchInv
<1> SUFFICES ASSUME Init PROVE TypeOK /\ WatchInv
  OBVIOUS
<1>1. <<>> \in Seq(Commands)
  OBVIOUS
<1>2. TypeOK
  BY <1>1 DEF Init, TypeOK
<1>3. WatchInv
  BY DEF Init, WatchInv, VersionCountsWrites, CountsGrow, QuietKeepsVersion, ComparesWatched
<1> QED
  BY <1>2, <1>3

(* A command, from its client or from the queue of EXEC, keeps the types.  *)
LEMMA ExecuteTypes ==
  ASSUME TypeOK, NEW c \in Clients, NEW cmd \in Commands, ExecuteBuiltIn(c, cmd)
  PROVE  /\ isMultiActive' \in [Clients -> BOOLEAN]
         /\ isResponseQueued' \in [Clients -> BOOLEAN]
         /\ cmdQueue' \in [Clients -> Seq(Commands)]
         /\ responses' \in [Clients -> Nat]
<1>1. cmdQueue[c] \in Seq(Commands)
  BY DEF TypeOK
<1>2. Append(cmdQueue[c], cmd) \in Seq(Commands) /\ <<>> \in Seq(Commands)
  BY <1>1
<1>3. CASE Enqueue(c, cmd)
  BY <1>2, <1>3 DEF Enqueue, SendResponse, TypeOK
<1>4. CASE StoreCommand(c, cmd)
  BY <1>4 DEF StoreCommand, SendResponse, TypeOK
<1>5. CASE UnwatchCmd(c, cmd)
  BY <1>2, <1>5 DEF UnwatchCmd, DiscardWatch, TypeOK
<1>6. CASE MultiCmd(c, cmd)
  BY <1>6 DEF MultiCmd, SendResponse, TypeOK
<1> QED
  BY <1>3, <1>4, <1>5, <1>6 DEF ExecuteBuiltIn

(* TypeOK in three parts.                                                  *)
HandlerTypes ==
  /\ isMultiActive \in [Clients -> BOOLEAN]
  /\ isResponseQueued \in [Clients -> BOOLEAN]
  /\ cmdQueue \in [Clients -> Seq(Commands)]
  /\ responses \in [Clients -> Nat]
ExecTypes ==
  /\ pc \in [Clients -> {"idle", "check", "run"}]
  /\ todo \in [Clients -> SUBSET Keys]
  /\ run \in [Clients -> Seq(Commands)]
  /\ ran \in [Clients -> Nat]
  /\ unwound \in [Clients -> BOOLEAN]

LEMMA PartsOfTypeOK == TypeOK <=> DataTypes /\ WatchTypes /\ HandlerTypes /\ ExecTypes
BY DEF TypeOK, DataTypes, WatchTypes, HandlerTypes, ExecTypes

LEMMA PartsOfTypeOKNext ==
  TypeOK' <=> DataTypes' /\ WatchTypes' /\ HandlerTypes' /\ ExecTypes'
BY DEF TypeOK, DataTypes, WatchTypes, HandlerTypes, ExecTypes

(* A step that changes no entry and nothing that is watched keeps the      *)
(* counts.                                                                 *)
LEMMA QuietStep ==
  ASSUME DataTypes, WatchTypes, CountsInv, UNCHANGED <<dataVars, watchVars>>
  PROVE  DataTypes' /\ WatchTypes' /\ CountsInv'
<1>1. StillWatched
  BY DEF StillWatched, watchVars
<1>2. WatchTypes'
  BY DEF WatchTypes, watchVars
<1> QED
  BY <1>1, <1>2, NoDataStep, CountsKept

(* Every step preserves types and WatchInv.                                *)
LEMMA StepHolds ==
  ASSUME TypeOK, WatchInv, [Next]_vars
  PROVE  TypeOK' /\ WatchInv'
<1>0. DataTypes /\ WatchTypes /\ HandlerTypes /\ ExecTypes /\ CountsInv /\ ComparesWatched
  BY PartsOfTypeOK DEF WatchInv, CountsInv
<1>a. SUFFICES DataTypes' /\ WatchTypes' /\ HandlerTypes' /\ ExecTypes' /\ CountsInv'
               /\ ComparesWatched'
  BY PartsOfTypeOKNext DEF WatchInv, CountsInv
<1>1. ASSUME NEW c \in Clients, NEW cmd \in Commands, Command(c, cmd)
      PROVE  DataTypes' /\ WatchTypes' /\ HandlerTypes' /\ ExecTypes' /\ CountsInv'
             /\ ComparesWatched'
  <2>1. DataTypes' /\ DataStep /\ (UNCHANGED watchVars \/ Forgets(c))
    BY <1>0, <1>1, ExecuteStep DEF Command
  <2>2. /\ WatchTypes' /\ StillWatched
        /\ \A d \in Clients \ {c} : watched'[d] = watched[d]
    BY <1>0, <2>1, KeepOrForget
  <2>3. CountsInv'
    BY <1>0, <2>1, <2>2, CountsKept
  <2>4. HandlerTypes'
    BY <1>1, ExecuteTypes DEF Command, HandlerTypes
  <2>5. ExecTypes'
    BY <1>0, <1>1 DEF Command, execVars, ExecTypes
  <2>6. ComparesWatched'
    BY <1>0, <1>1, <2>2 DEF Command, execVars, ComparesWatched
  <2> QED
    BY <2>1, <2>2, <2>3, <2>4, <2>5, <2>6
<1>2. ASSUME NEW c \in Clients, NEW ks \in KeyLists, WatchCmd(c, ks)
      PROVE  DataTypes' /\ WatchTypes' /\ HandlerTypes' /\ ExecTypes' /\ CountsInv'
             /\ ComparesWatched'
  <2>1. UNCHANGED dataVars /\ Watch(c, ks)
    BY <1>2 DEF WatchCmd
  <2>2. DataTypes' /\ WatchTypes' /\ CountsInv'
    BY <1>0, <2>1, NoDataStep, WatchStep
  <2>3. HandlerTypes' /\ ExecTypes'
    BY <1>0, <1>2 DEF WatchCmd, handlerVars, execVars, HandlerTypes, ExecTypes
  <2>4. \A d \in Clients \ {c} : watched'[d] = watched[d]
    BY <1>0, <2>1 DEF Watch, WatchTypes
  <2>5. ComparesWatched'
    BY <1>0, <1>2, <2>4 DEF WatchCmd, execVars, ComparesWatched
  <2> QED
    BY <2>2, <2>3, <2>5
<1>3. ASSUME NEW c \in Clients, DiscardCmd(c)
      PROVE  DataTypes' /\ WatchTypes' /\ HandlerTypes' /\ ExecTypes' /\ CountsInv'
             /\ ComparesWatched'
  <2>1. Forgets(c) /\ UNCHANGED dataVars
    BY <1>3 DEF DiscardCmd, DiscardWatch, Forgets
  <2>2. DataTypes' /\ DataStep
    BY <1>0, <2>1, NoDataStep
  <2>3. /\ WatchTypes' /\ StillWatched
        /\ \A d \in Clients \ {c} : watched'[d] = watched[d]
    BY <1>0, <2>1, KeepOrForget
  <2>4. CountsInv'
    BY <1>0, <2>2, <2>3, CountsKept
  <2>5. HandlerTypes'
    BY <1>0, <1>3 DEF DiscardCmd, DiscardWatch, HandlerTypes
  <2>6. ExecTypes' /\ ComparesWatched'
    BY <1>0, <1>3, <2>3 DEF DiscardCmd, execVars, ExecTypes, ComparesWatched
  <2> QED
    BY <2>2, <2>3, <2>4, <2>5, <2>6
<1>4. ASSUME NEW c \in Clients, ExecEmpty(c)
      PROVE  DataTypes' /\ WatchTypes' /\ HandlerTypes' /\ ExecTypes' /\ CountsInv'
             /\ ComparesWatched'
  <2>1. DataTypes' /\ WatchTypes' /\ CountsInv'
    BY <1>0, <1>4, QuietStep DEF ExecEmpty
  <2>2. HandlerTypes' /\ ExecTypes' /\ ComparesWatched'
    BY <1>0, <1>4 DEF ExecEmpty, HandlerTypes, ExecTypes, execVars, watchVars, ComparesWatched
  <2> QED
    BY <2>1, <2>2
<1>5. ASSUME NEW c \in Clients, ExecStarts(c)
      PROVE  DataTypes' /\ WatchTypes' /\ HandlerTypes' /\ ExecTypes' /\ CountsInv'
             /\ ComparesWatched'
  <2>1. DataTypes' /\ WatchTypes' /\ CountsInv'
    BY <1>0, <1>5, QuietStep DEF ExecStarts
  <2>2. HandlerTypes' /\ ExecTypes'
    BY <1>0, <1>5 DEF ExecStarts, HandlerTypes, ExecTypes, handlerVars, WatchTypes
  <2>3. ComparesWatched'
    BY <1>0, <1>5 DEF ExecStarts, ExecTypes, watchVars, ComparesWatched
  <2> QED
    BY <2>1, <2>2, <2>3
<1>6. ASSUME NEW c \in Clients, NEW k \in Keys, ExecChecks(c, k)
      PROVE  DataTypes' /\ WatchTypes' /\ HandlerTypes' /\ ExecTypes' /\ CountsInv'
             /\ ComparesWatched'
  <2>1. DataTypes' /\ WatchTypes' /\ CountsInv'
    BY <1>0, <1>6, QuietStep DEF ExecChecks
  <2>2. HandlerTypes' /\ ExecTypes' /\ ComparesWatched'
    BY <1>0, <1>6
    DEF ExecChecks, HandlerTypes, ExecTypes, handlerVars, watchVars, ComparesWatched
  <2> QED
    BY <2>1, <2>2
<1>7. ASSUME NEW c \in Clients, NEW k \in Keys, ExecAborts(c, k)
      PROVE  DataTypes' /\ WatchTypes' /\ HandlerTypes' /\ ExecTypes' /\ CountsInv'
             /\ ComparesWatched'
  <2>1. Forgets(c) /\ UNCHANGED dataVars
    BY <1>7 DEF ExecAborts, DiscardWatch, Forgets
  <2>2. DataTypes' /\ DataStep
    BY <1>0, <2>1, NoDataStep
  <2>3. /\ WatchTypes' /\ StillWatched
        /\ \A d \in Clients \ {c} : watched'[d] = watched[d]
    BY <1>0, <2>1, KeepOrForget
  <2>4. CountsInv'
    BY <1>0, <2>2, <2>3, CountsKept
  <2>5. HandlerTypes'
    BY <1>0, <1>7 DEF ExecAborts, DiscardWatch, HandlerTypes
  <2>6. ExecTypes' /\ ComparesWatched'
    BY <1>0, <1>7, <2>3 DEF ExecAborts, ExecTypes, ComparesWatched
  <2> QED
    BY <2>2, <2>3, <2>4, <2>5, <2>6
<1>8. ASSUME NEW c \in Clients, ExecRuns(c)
      PROVE  DataTypes' /\ WatchTypes' /\ HandlerTypes' /\ ExecTypes' /\ CountsInv'
             /\ ComparesWatched'
  <2>1. DataTypes' /\ WatchTypes' /\ CountsInv'
    BY <1>0, <1>8, QuietStep DEF ExecRuns
  <2>2. HandlerTypes' /\ ExecTypes' /\ ComparesWatched'
    BY <1>0, <1>8 DEF ExecRuns, HandlerTypes, ExecTypes, watchVars, ComparesWatched
  <2> QED
    BY <2>1, <2>2
<1>9. ASSUME NEW c \in Clients, ExecRunsNext(c)
      PROVE  DataTypes' /\ WatchTypes' /\ HandlerTypes' /\ ExecTypes' /\ CountsInv'
             /\ ComparesWatched'
  <2>0. Head(run[c]) \in Commands /\ Tail(run[c]) \in Seq(Commands)
    BY <1>0, <1>9 DEF ExecRunsNext, ExecTypes
  <2>1. DataTypes' /\ DataStep /\ (UNCHANGED watchVars \/ Forgets(c))
    BY <1>0, <1>9, <2>0, ExecuteStep DEF ExecRunsNext
  <2>2. /\ WatchTypes' /\ StillWatched
        /\ \A d \in Clients \ {c} : watched'[d] = watched[d]
    BY <1>0, <2>1, KeepOrForget
  <2>3. CountsInv'
    BY <1>0, <2>1, <2>2, CountsKept
  <2>4. HandlerTypes'
    BY <1>9, <2>0, ExecuteTypes DEF ExecRunsNext, HandlerTypes
  <2>5. ExecTypes'
    BY <1>0, <1>9, <2>0 DEF ExecRunsNext, ExecTypes
  <2>6. ComparesWatched'
    BY <1>0, <1>9, <2>2 DEF ExecRunsNext, ComparesWatched
  <2> QED
    BY <2>1, <2>2, <2>3, <2>4, <2>5, <2>6
<1>10. ASSUME NEW c \in Clients, ExecReplies(c)
       PROVE  DataTypes' /\ WatchTypes' /\ HandlerTypes' /\ ExecTypes' /\ CountsInv'
              /\ ComparesWatched'
  <2>1. DataTypes' /\ WatchTypes' /\ CountsInv'
    BY <1>0, <1>10, QuietStep DEF ExecReplies
  <2>2. HandlerTypes' /\ ExecTypes' /\ ComparesWatched'
    BY <1>0, <1>10
    DEF ExecReplies, ForgetResponses, HandlerTypes, ExecTypes, watchVars, ComparesWatched
  <2> QED
    BY <2>1, <2>2
<1>11. ASSUME NEW k \in Keys, DeadlinePasses(k)
       PROVE  DataTypes' /\ WatchTypes' /\ HandlerTypes' /\ ExecTypes' /\ CountsInv'
              /\ ComparesWatched'
  <2>1. DataTypes' /\ DataStep
    BY <1>0, <1>11, DeadlineStep
  <2>2. WatchTypes' /\ StillWatched
    BY <1>0, <1>11 DEF DeadlinePasses, watchVars, WatchTypes, StillWatched
  <2>3. CountsInv'
    BY <1>0, <2>1, <2>2, CountsKept
  <2>4. HandlerTypes' /\ ExecTypes' /\ ComparesWatched'
    BY <1>0, <1>11 DEF DeadlinePasses, handlerVars, execVars, watchVars,
                       HandlerTypes, ExecTypes, ComparesWatched
  <2> QED
    BY <2>1, <2>2, <2>3, <2>4
<1>12. CASE UNCHANGED vars
  <2>1. DataTypes' /\ WatchTypes' /\ CountsInv'
    BY <1>0, <1>12, QuietStep DEF vars
  <2>2. HandlerTypes' /\ ExecTypes' /\ ComparesWatched'
    BY <1>0, <1>12 DEF vars, handlerVars, execVars, watchVars,
                       HandlerTypes, ExecTypes, ComparesWatched
  <2> QED
    BY <2>1, <2>2
<1> QED
  BY <1>1, <1>2, <1>3, <1>4, <1>5, <1>6, <1>7, <1>8, <1>9, <1>10, <1>11, <1>12 DEF Next

(* While EXEC compares, only its own steps move it, and it is the only one *)
(* to compare.                                                             *)
LEMMA ExecMoves ==
  ASSUME TypeOK, ComparesWatched, [Next]_vars, NEW c \in Clients,
         pc'[c] # pc[c] \/ todo'[c] # todo[c]
  PROVE  \/ pc[c] # "check" /\ todo[c] = {}
         \/ \E k \in Keys : ExecChecks(c, k) \/ ExecAborts(c, k)
         \/ ExecRuns(c)
<1> DEFINE Moves == \/ pc[c] # "check" /\ todo[c] = {}
                    \/ \E k \in Keys : ExecChecks(c, k) \/ ExecAborts(c, k)
                    \/ ExecRuns(c)
<1>0. pc[c] # "check" => todo[c] = {}
  BY DEF ComparesWatched
<1>1. ASSUME NEW d \in Clients, NEW cmd \in Commands, Command(d, cmd)
      PROVE  Moves
  BY <1>1 DEF Command, execVars
<1>2. ASSUME NEW d \in Clients, NEW ks \in KeyLists, WatchCmd(d, ks)
      PROVE  Moves
  BY <1>2 DEF WatchCmd, execVars
<1>3. ASSUME NEW d \in Clients, DiscardCmd(d) \/ ExecEmpty(d)
      PROVE  Moves
  BY <1>3 DEF DiscardCmd, ExecEmpty, execVars
<1>4. ASSUME NEW d \in Clients, ExecStarts(d)
      PROVE  Moves
  <2>1. CASE d = c
    BY <1>0, <1>4, <2>1 DEF ExecStarts
  <2>2. CASE d # c
    BY <1>4, <2>2 DEF ExecStarts, TypeOK
  <2> QED
    BY <2>1, <2>2
<1>5. ASSUME NEW d \in Clients, NEW k \in Keys, ExecChecks(d, k) \/ ExecAborts(d, k)
      PROVE  Moves
  <2>1. CASE d = c
    BY <1>5, <2>1
  <2>2. CASE d # c
    BY <1>5, <2>2 DEF ExecChecks, ExecAborts, TypeOK
  <2> QED
    BY <2>1, <2>2
<1>6. ASSUME NEW d \in Clients, ExecRuns(d)
      PROVE  Moves
  <2>1. CASE d = c
    BY <1>6, <2>1
  <2>2. CASE d # c
    BY <1>6, <2>2 DEF ExecRuns, TypeOK
  <2> QED
    BY <2>1, <2>2
<1>7. ASSUME NEW d \in Clients, ExecRunsNext(d)
      PROVE  Moves
  BY <1>7 DEF ExecRunsNext
<1>8. ASSUME NEW d \in Clients, ExecReplies(d)
      PROVE  Moves
  <2>1. CASE d = c
    BY <1>0, <1>8, <2>1 DEF ExecReplies
  <2>2. CASE d # c
    BY <1>8, <2>2 DEF ExecReplies, TypeOK
  <2> QED
    BY <2>1, <2>2
<1>9. ASSUME NEW k \in Keys, DeadlinePasses(k)
      PROVE  Moves
  BY <1>9 DEF DeadlinePasses, execVars
<1>10. CASE UNCHANGED vars
  BY <1>10 DEF vars, execVars
<1> QED
  BY <1>1, <1>2, <1>3, <1>4, <1>5, <1>6, <1>7, <1>8, <1>9, <1>10 DEF Next

-----------------------------------------------------------------------------
(* Every variable of the transactions keeps its type, and WatchInv holds.  *)
THEOREM WatchInvHolds == Spec => [](TypeOK /\ WatchInv)
<1>1. TypeOK /\ WatchInv /\ [Next]_vars => (TypeOK /\ WatchInv)'
  BY StepHolds
<1> QED
  BY <1>1, InitHolds, PTL DEF Spec

(* Every variable of the transactions keeps its type.                      *)
THEOREM TransactionTypesHold == Spec => []TypeOK
BY WatchInvHolds, PTL

(* Within one life of a key, its version tells how often it was written    *)
(* since a client watched it.                                              *)
THEOREM VersionsCount == Spec => []VersionCountsWrites
<1>1. WatchInv => VersionCountsWrites
  BY DEF WatchInv
<1> QED
  BY <1>1, WatchInvHolds, PTL

(* EXEC takes a watched key for unchanged only when nobody wrote it since  *)
(* WATCH, or when it was deleted in between.                               *)
THEOREM ExecMissesNoWrite == Spec => CheckSound
<1>1. ASSUME TypeOK, WatchInv, [Next]_vars, NEW c \in Clients, NEW k \in Keys,
             Passes(c, k), SameIncarnation(c, k)
      PROVE  ~WrittenSince(c, k)
  <2>1. pc[c] = "check" /\ k \in watched[c] /\ ~Changed(c, k)
    <3>1. todo[c] # todo'[c] /\ pc'[c] = "check" /\ k \in todo[c] /\ k \notin todo'[c]
      BY <1>1 DEF Passes
    <3>2. PICK j \in Keys : ExecChecks(c, j)
      BY <1>1, <3>1, ExecMoves DEF WatchInv, ExecAborts, ExecRuns, TypeOK
    <3>3. j = k
      BY <1>1, <3>1, <3>2 DEF ExecChecks, TypeOK
    <3> QED
      BY <1>1, <3>1, <3>2, <3>3 DEF ExecChecks, WatchInv, ComparesWatched
  <2>2. /\ version[k] \in Nat /\ writes[k] \in Nat /\ recorded[c][k] \in Nat
        /\ seen[c][k].writes \in Nat
    BY <1>1 DEF TypeOK
  <2>3. /\ version[k] + seen[c][k].writes = recorded[c][k] + writes[k]
        /\ seen[c][k].writes <= writes[k]
    BY <1>1, <2>1 DEF WatchInv, VersionCountsWrites, CountsGrow
  <2>4. version[k] = 0 \/ version[k] = recorded[c][k]
    BY <2>1, <2>2 DEF Changed, Exists
  <2> QED
    BY <2>2, <2>3, <2>4 DEF WrittenSince
<1>2. TypeOK /\ WatchInv /\ [Next]_vars =>
        [\A c \in Clients, k \in Keys :
           Passes(c, k) /\ SameIncarnation(c, k) => ~WrittenSince(c, k)]_vars
  BY <1>1
<1> QED
  BY <1>2, WatchInvHolds, PTL DEF Spec, CheckSound

(* EXEC gives up only when a watched key was written since it was watched. *)
THEOREM AbortNeedsWrite == Spec => AbortJustified
<1>1. ASSUME TypeOK, WatchInv, [Next]_vars, NEW c \in Clients,
             pc[c] = "check", pc'[c] = "idle"
      PROVE  \E k \in watched[c] : WrittenSince(c, k)
  <2>1. PICK k \in Keys : ExecAborts(c, k)
    BY <1>1, ExecMoves DEF WatchInv, ExecChecks, ExecRuns, TypeOK
  <2>2. k \in watched[c] /\ version[k] > 0 /\ version[k] # recorded[c][k]
    BY <1>1, <2>1 DEF ExecAborts, Changed, Exists, WatchInv, ComparesWatched
  <2>3. WrittenSince(c, k)
    BY <1>1, <2>2 DEF WatchInv, QuietKeepsVersion, TypeOK
  <2> QED
    BY <2>2, <2>3
<1>2. TypeOK /\ WatchInv /\ [Next]_vars =>
        [\A c \in Clients :
           pc[c] = "check" /\ pc'[c] = "idle" => \E k \in watched[c] : WrittenSince(c, k)]_vars
  BY <1>1
<1> QED
  BY <1>2, WatchInvHolds, PTL DEF Spec, AbortJustified

-----------------------------------------------------------------------------
(* The responses EXEC collects.  Outside "run" nothing is left of an       *)
(* earlier EXEC: this is what makes OneResponsePerCommand inductive.       *)
ResponsesInv ==
  \A c \in Clients :
    /\ pc[c] = "run" /\ ~unwound[c] => isResponseQueued[c] /\ responses[c] = ran[c]
    /\ pc[c] # "run" => /\ ~isResponseQueued[c] /\ responses[c] = 0
                        /\ ran[c] = 0 /\ ~unwound[c]

(* A step touches the responses of one client at most.                     *)
OthersKeep(c) ==
  \A d \in Clients \ {c} :
    /\ pc'[d] = pc[d] /\ unwound'[d] = unwound[d] /\ ran'[d] = ran[d]
    /\ isResponseQueued'[d] = isResponseQueued[d] /\ responses'[d] = responses[d]

(* A command collects one response while responses are collected, and none *)
(* otherwise; UNWATCH throws them away.                                    *)
LEMMA ExecuteResponds ==
  ASSUME TypeOK, NEW c \in Clients, NEW cmd \in Commands, ExecuteBuiltIn(c, cmd)
  PROVE  /\ \/ /\ isResponseQueued'[c] = isResponseQueued[c]
               /\ responses'[c] = IF isResponseQueued[c] THEN responses[c] + 1 ELSE responses[c]
            \/ /\ cmd.op = "unwatch" /\ ~isMultiActive[c]
               /\ ~isResponseQueued'[c] /\ responses'[c] = 0
         /\ \A d \in Clients \ {c} : /\ isResponseQueued'[d] = isResponseQueued[d]
                                     /\ responses'[d] = responses[d]
<1>1. CASE Enqueue(c, cmd)
  BY <1>1 DEF Enqueue, SendResponse, TypeOK
<1>2. CASE StoreCommand(c, cmd)
  BY <1>2 DEF StoreCommand, SendResponse, TypeOK
<1>3. CASE ~isMultiActive[c] /\ UnwatchCmd(c, cmd)
  BY <1>3 DEF UnwatchCmd, DiscardWatch, TypeOK
<1>4. CASE MultiCmd(c, cmd)
  BY <1>4 DEF MultiCmd, SendResponse, TypeOK
<1> QED
  BY <1>1, <1>2, <1>3, <1>4 DEF ExecuteBuiltIn

(* ResponsesInv for one client.                                            *)
InStepFor(c) ==
  /\ pc[c] = "run" /\ ~unwound[c] => isResponseQueued[c] /\ responses[c] = ran[c]
  /\ pc[c] # "run" => /\ ~isResponseQueued[c] /\ responses[c] = 0
                      /\ ran[c] = 0 /\ ~unwound[c]

(* A step that touches one client has to be looked at for that client.     *)
LEMMA OneClientSteps ==
  ASSUME ResponsesInv, NEW c \in Clients, OthersKeep(c), InStepFor(c)'
  PROVE  ResponsesInv'
BY DEF ResponsesInv, OthersKeep, InStepFor

(* Every step keeps the responses in step with the commands run.           *)
LEMMA ResponsesStep ==
  ASSUME TypeOK, ResponsesInv, [Next]_vars
  PROVE  ResponsesInv'
<1>1. ASSUME NEW c \in Clients, NEW cmd \in Commands, Command(c, cmd)
      PROVE  ResponsesInv'
  <2>1. OthersKeep(c)
    BY <1>1, ExecuteResponds DEF Command, execVars, OthersKeep
  <2>2. InStepFor(c)'
    BY <1>1, ExecuteResponds DEF Command, execVars, ResponsesInv, InStepFor
  <2> QED
    BY <2>1, <2>2, OneClientSteps
<1>2. ASSUME NEW c \in Clients, NEW ks \in KeyLists, WatchCmd(c, ks)
      PROVE  ResponsesInv'
  BY <1>2 DEF WatchCmd, handlerVars, execVars, ResponsesInv
<1>3. ASSUME NEW c \in Clients, DiscardCmd(c)
      PROVE  ResponsesInv'
  <2>1. OthersKeep(c)
    BY <1>3 DEF DiscardCmd, DiscardWatch, execVars, OthersKeep, TypeOK
  <2>2. InStepFor(c)'
    BY <1>3 DEF DiscardCmd, DiscardWatch, execVars, ResponsesInv, InStepFor, TypeOK
  <2> QED
    BY <2>1, <2>2, OneClientSteps
<1>4. ASSUME NEW c \in Clients, ExecEmpty(c)
      PROVE  ResponsesInv'
  BY <1>4 DEF ExecEmpty, execVars, ResponsesInv
<1>5. ASSUME NEW c \in Clients, ExecStarts(c)
      PROVE  ResponsesInv'
  BY <1>5 DEF ExecStarts, handlerVars, ResponsesInv, TypeOK
<1>6. ASSUME NEW c \in Clients, NEW k \in Keys, ExecChecks(c, k)
      PROVE  ResponsesInv'
  BY <1>6 DEF ExecChecks, handlerVars, ResponsesInv
<1>7. ASSUME NEW c \in Clients, NEW k \in Keys, ExecAborts(c, k)
      PROVE  ResponsesInv'
  <2>1. OthersKeep(c)
    BY <1>7 DEF ExecAborts, DiscardWatch, OthersKeep, TypeOK
  <2>2. InStepFor(c)'
    BY <1>7 DEF ExecAborts, DiscardWatch, ResponsesInv, InStepFor, TypeOK
  <2> QED
    BY <2>1, <2>2, OneClientSteps
<1>8. ASSUME NEW c \in Clients, ExecRuns(c)
      PROVE  ResponsesInv'
  <2>1. OthersKeep(c)
    BY <1>8 DEF ExecRuns, OthersKeep, TypeOK
  <2>2. InStepFor(c)'
    BY <1>8 DEF ExecRuns, ResponsesInv, InStepFor, TypeOK
  <2> QED
    BY <2>1, <2>2, OneClientSteps
<1>9. ASSUME NEW c \in Clients, ExecRunsNext(c)
      PROVE  ResponsesInv'
  <2> DEFINE cmd == Head(run[c])
  <2>1. cmd \in Commands
    BY <1>9 DEF ExecRunsNext, TypeOK
  <2>2. /\ ran'[c] = ran[c] + 1 /\ pc'[c] = "run" /\ pc[c] = "run"
        /\ unwound'[c] = (unwound[c] \/ (cmd.op = "unwatch" /\ ~isMultiActive[c]))
        /\ \A d \in Clients \ {c} : /\ ran'[d] = ran[d] /\ unwound'[d] = unwound[d]
                                    /\ pc'[d] = pc[d]
    BY <1>9 DEF ExecRunsNext, TypeOK
  <2>3. ExecuteBuiltIn(c, cmd)
    BY <1>9 DEF ExecRunsNext
  <2> HIDE DEF cmd
  <2>4. OthersKeep(c)
    BY <2>1, <2>2, <2>3, ExecuteResponds DEF OthersKeep
  <2>5. InStepFor(c)'
    BY <2>1, <2>2, <2>3, ExecuteResponds DEF ResponsesInv, InStepFor
  <2> QED
    BY <2>4, <2>5, OneClientSteps
<1>10. ASSUME NEW c \in Clients, ExecReplies(c)
       PROVE  ResponsesInv'
  <2>1. OthersKeep(c)
    BY <1>10 DEF ExecReplies, OthersKeep, TypeOK
  <2>2. InStepFor(c)'
    BY <1>10 DEF ExecReplies, ForgetResponses, ResponsesInv, InStepFor, TypeOK
  <2> QED
    BY <2>1, <2>2, OneClientSteps
<1>11. ASSUME NEW k \in Keys, DeadlinePasses(k)
       PROVE  ResponsesInv'
  BY <1>11 DEF DeadlinePasses, handlerVars, execVars, ResponsesInv
<1>12. CASE UNCHANGED vars
  BY <1>12 DEF vars, handlerVars, execVars, ResponsesInv
<1> QED
  BY <1>1, <1>2, <1>3, <1>4, <1>5, <1>6, <1>7, <1>8, <1>9, <1>10, <1>11, <1>12 DEF Next

(* EXEC replies one response for each command it has run, unless UNWATCH   *)
(* was one of them, and outside EXEC no response is collected.             *)
THEOREM OneReplyPerCommand == Spec => []OneResponsePerCommand
<1>1. Init => ResponsesInv
  BY DEF Init, ResponsesInv
<1>2. TypeOK /\ ResponsesInv /\ [Next]_vars => ResponsesInv'
  BY ResponsesStep
<1>3. ResponsesInv => OneResponsePerCommand
  BY DEF ResponsesInv, OneResponsePerCommand
<1> QED
  BY <1>1, <1>2, <1>3, TransactionTypesHold, PTL DEF Spec

-----------------------------------------------------------------------------
(* THE SORTED SET.  Nodes, places and levels.                              *)
LEMMA Apart ==
  /\ Nodes \subseteq Places /\ Places \subseteq Nat /\ Head0 \in Places /\ Head0 \notin Nodes
  /\ Nil \notin Places /\ \A p \in Places : p # Head0 => p \in Nodes
  /\ maxLevel \in Nat /\ Top \in Levels /\ Levels \subseteq Nat /\ 0 \in Levels
  /\ \A i \in Levels : i # Top => i + 1 \in Levels
  /\ \A i \in Levels : i <= Top
BY SortedSetsAssumption DEF Nodes, Places, Head0, Levels, Top

(* The pointers of one level.  A walk along them ends when each leads to a *)
(* node of a higher number, for some numbering.                            *)
Level(i) == [p \in Places |-> forward[p][i]]
Ends(next) ==
  \E B \in Nat : \E r \in [Places -> 0..B] :
    \A p \in Places : next[p] # Nil => r[p] < r[next[p]]

LEMMA DownAlong ==
  ASSUME NEW next \in [Places -> Nodes \cup {Nil}], Ends(next), NEW T,
         \A p \in Places : next[p] = Nil \/ next[p] \in T => p \in T
  PROVE  \A p \in Places : p \in T
<1>0. PICK B \in Nat : \E r \in [Places -> 0..B] :
        \A p \in Places : next[p] # Nil => r[p] < r[next[p]]
  BY DEF Ends
<1>1. PICK r \in [Places -> 0..B] : \A p \in Places : next[p] # Nil => r[p] < r[next[p]]
  BY <1>0
<1> DEFINE I == {B - r[p] : p \in {q \in Places : q \notin T}}
<1>2. SUFFICES ASSUME I # {} PROVE FALSE
  OBVIOUS
<1>3. I \subseteq Nat
  <2>1. \A p \in Places : r[p] \in 0..B /\ B - r[p] \in Nat
    OBVIOUS
  <2> QED
    BY <2>1
<1>4. PICK k \in I : \A y \in I : k <= y
  BY <1>2, <1>3, LeastNumber
<1>5. PICK p \in Places : p \notin T /\ k = B - r[p]
  BY <1>4
<1>6. next[p] \in Places /\ next[p] # Nil /\ next[p] \notin T
  BY <1>5, Apart
<1>7. k <= B - r[next[p]]
  BY <1>4, <1>6
<1>8. r[p] < r[next[p]]
  BY <1>1, <1>6
<1>9. r[p] \in 0..B /\ r[next[p]] \in 0..B
  BY <1>6
<1> QED
  BY <1>5, <1>7, <1>8, <1>9

-----------------------------------------------------------------------------
(* Walking.                                                                *)
Shape == SortedTypeOK /\ \A i \in Levels : Ends(Level(i))
Goes(may, i, p) == forward[p.node][i] # Nil /\ NextPlace(p, i) \in may

LEMMA LevelType ==
  ASSUME SortedTypeOK, NEW i \in Levels
  PROVE  /\ Level(i) \in [Places -> Nodes \cup {Nil}]
         /\ \A p \in Places : Level(i)[p] = forward[p][i]
BY DEF SortedTypeOK, Level

LEMMA VisitType ==
  ASSUME SortedTypeOK, NEW i \in Levels, NEW p \in Visits
  PROVE  /\ p.node \in Places /\ p.rank \in Int
         /\ forward[p.node][i] # Nil => NextPlace(p, i) \in Visits
<1>1. p.node \in Places /\ p.rank \in Int
  BY DEF Visits
<1>2. forward[p.node][i] \in Nodes \cup {Nil} /\ span[p.node][i] \in Int
  BY <1>1 DEF SortedTypeOK
<1>3. forward[p.node][i] # Nil => forward[p.node][i] \in Places
  BY <1>2, Apart
<1> QED
  BY <1>1, <1>2, <1>3 DEF Visits, NextPlace

LEMMA AlongIs ==
  ASSUME SortedTypeOK, NEW i \in Levels, Ends(Level(i)), NEW may
  PROVE  /\ Along(may, i) \in [Visits -> Visits]
         /\ \A p \in Visits :
              Along(may, i)[p] = IF Goes(may, i, p) THEN Along(may, i)[NextPlace(p, i)] ELSE p
<1>1. PICK B \in Nat : \E r \in [Places -> 0..B] :
        \A p \in Places : Level(i)[p] # Nil => r[p] < r[Level(i)[p]]
  BY DEF Ends
<1>2. PICK r \in [Places -> 0..B] : \A p \in Places : Level(i)[p] # Nil => r[p] < r[Level(i)[p]]
  BY <1>1
<1> DEFINE mu == [p \in Visits |-> B - r[p.node]]
           G == {p \in Visits : Goes(may, i, p)}
           step == [p \in Visits |-> IF Goes(may, i, p) THEN NextPlace(p, i) ELSE p]
           same == [p \in Visits |-> [q \in Visits |-> q]]
           stop == [p \in Visits |-> p]
<1>3. mu \in [Visits -> 0..B]
  <2> SUFFICES ASSUME NEW p \in Visits PROVE B - r[p.node] \in 0..B
    OBVIOUS
  <2>1. r[p.node] \in 0..B
    BY VisitType
  <2> QED
    BY <2>1
<1>4. G \in SUBSET Visits
  OBVIOUS
<1>5. step \in [Visits -> Visits] /\ same \in [Visits -> [Visits -> Visits]] /\ stop \in [Visits -> Visits]
  BY VisitType DEF Goes
<1>6. \A p \in Visits : p \in G => mu[step[p]] < mu[p]
  <2> SUFFICES ASSUME NEW p \in Visits, Goes(may, i, p) PROVE mu[NextPlace(p, i)] < mu[p]
    OBVIOUS
  <2>1. p.node \in Places /\ Level(i)[p.node] = forward[p.node][i] /\ forward[p.node][i] # Nil
    BY VisitType, LevelType DEF Goes
  <2>2. NextPlace(p, i) \in Visits /\ NextPlace(p, i).node = forward[p.node][i]
    BY <2>1, VisitType DEF NextPlace
  <2>3. r[p.node] < r[forward[p.node][i]]
    BY <1>2, <2>1
  <2>4. r[p.node] \in 0..B /\ r[forward[p.node][i]] \in 0..B
    BY <2>1, <2>2, VisitType
  <2> QED
    BY <2>2, <2>3, <2>4
<1> HIDE DEF mu
<1>7. \E f \in [Visits -> Visits] : Recursive(f, Visits, G, step, same, stop)
  <2> HIDE DEF G, step, same, stop
  <2> QED
    BY <1>3, <1>4, <1>5, <1>6, RecursionExists
<1> DEFINE Def(f) == [p \in Visits |->
                        IF forward[p.node][i] # Nil /\ NextPlace(p, i) \in may
                        THEN f[NextPlace(p, i)] ELSE p]
<1>8. PICK f \in [Visits -> Visits] :
        \A p \in Visits : f[p] = IF Goes(may, i, p) THEN f[NextPlace(p, i)] ELSE p
  <2>1. PICK f \in [Visits -> Visits] :
          \A p \in Visits : f[p] = IF p \in G THEN same[p][f[step[p]]] ELSE stop[p]
    BY <1>7 DEF Recursive
  <2>2. \A p \in Visits : f[p] = IF Goes(may, i, p) THEN f[NextPlace(p, i)] ELSE p
    <3> SUFFICES ASSUME NEW p \in Visits
                 PROVE  f[p] = IF Goes(may, i, p) THEN f[NextPlace(p, i)] ELSE p
      OBVIOUS
    <3>1. CASE Goes(may, i, p)
      <4>1. NextPlace(p, i) \in Visits
        BY <3>1, VisitType DEF Goes
      <4>2. f[NextPlace(p, i)] \in Visits
        BY <4>1
      <4>3. p \in G /\ step[p] = NextPlace(p, i)
        BY <3>1
      <4>4. f[p] = same[p][f[NextPlace(p, i)]]
        BY <2>1, <4>3
      <4> QED
        BY <3>1, <4>2, <4>4
    <3>2. CASE ~Goes(may, i, p)
      BY <2>1, <3>2
    <3> QED
      BY <3>1, <3>2
  <2> QED
    BY <2>2
<1>9. f = Def(f)
  BY <1>8 DEF Goes
<1>10. Along(may, i) = CHOOSE g : g = Def(g)
  BY DEF Along
<1>11. Along(may, i) = Def(Along(may, i))
  <2> HIDE DEF Def
  <2> QED
    BY <1>9, <1>10
<1> DEFINE g == Along(may, i)
<1>12. g = Def(g)
  BY <1>11
<1> HIDE DEF g
<1>13. \A p \in Visits : g[p] = IF Goes(may, i, p) THEN g[NextPlace(p, i)] ELSE p
  BY <1>12 DEF Goes
<1>14. DOMAIN g = Visits /\ g = [p \in Visits |-> g[p]]
  BY <1>12
<1>15. \A p \in Visits : g[p] \in Visits
  <2> DEFINE T == {x \in Places : \A p \in Visits : p.node = x => g[p] \in Visits}
  <2>1. ASSUME NEW x \in Places, Level(i)[x] = Nil \/ Level(i)[x] \in T PROVE x \in T
    <3> SUFFICES ASSUME NEW p \in Visits, p.node = x PROVE g[p] \in Visits
      OBVIOUS
    <3>1. CASE Goes(may, i, p)
      <4>1. NextPlace(p, i) \in Visits /\ NextPlace(p, i).node = Level(i)[x] /\ Level(i)[x] # Nil
        BY <3>1, VisitType, LevelType DEF Goes, NextPlace
      <4>2. g[NextPlace(p, i)] \in Visits
        BY <2>1, <4>1
      <4> QED
        BY <1>13, <3>1, <4>2
    <3>2. CASE ~Goes(may, i, p)
      BY <1>13, <3>2
    <3> QED
      BY <3>1, <3>2
  <2>2. \A x \in Places : x \in T
    <3> HIDE DEF T
    <3> QED
      BY <2>1, DownAlong, LevelType
  <2> QED
    BY <2>2, VisitType
<1>16. g \in [Visits -> Visits]
  BY <1>14, <1>15
<1> QED
  BY <1>13, <1>16 DEF g

(* What holds at the start of a walk along a level and is kept by every    *)
(* step of it holds at its end, where it may not go on.                    *)
LEMMA AlongKeeps ==
  ASSUME SortedTypeOK, NEW i \in Levels, Ends(Level(i)), NEW may, NEW C \in SUBSET Visits,
         \A p \in C : Goes(may, i, p) => NextPlace(p, i) \in C,
         NEW p \in C
  PROVE  Along(may, i)[p] \in C /\ ~Goes(may, i, Along(may, i)[p])
<1>1. PICK g \in [Visits -> Visits] : /\ g = Along(may, i)
        /\ \A q \in Visits : g[q] = IF Goes(may, i, q) THEN g[NextPlace(q, i)] ELSE q
  BY AlongIs
<1> DEFINE T == {x \in Places : \A q \in C : q.node = x => g[q] \in C /\ ~Goes(may, i, g[q])}
<1>2. ASSUME NEW x \in Places, Level(i)[x] = Nil \/ Level(i)[x] \in T PROVE x \in T
  <2> SUFFICES ASSUME NEW q \in C, q.node = x PROVE g[q] \in C /\ ~Goes(may, i, g[q])
    OBVIOUS
  <2>1. CASE Goes(may, i, q)
    <3>1. NextPlace(q, i) \in C /\ NextPlace(q, i).node = Level(i)[x] /\ Level(i)[x] # Nil
      BY <2>1, VisitType, LevelType DEF Goes, NextPlace
    <3>2. g[NextPlace(q, i)] \in C /\ ~Goes(may, i, g[NextPlace(q, i)])
      BY <1>2, <3>1
    <3> QED
      BY <1>1, <2>1, <3>2
  <2>2. CASE ~Goes(may, i, q)
    BY <1>1, <2>2
  <2> QED
    BY <2>1, <2>2
<1>3. \A x \in Places : x \in T
  <2> HIDE DEF T
  <2> QED
    BY <1>2, DownAlong, LevelType
<1> QED
  BY <1>1, <1>3, VisitType

(* A walk goes down the levels.                                            *)
From(walk, i) == IF i = Top THEN Start ELSE walk[i + 1]

LEMMA StartType == Start \in Visits /\ Start.node = Head0 /\ Start.rank = 0
BY Apart DEF Start, Visits

LEMMA WalkIs ==
  ASSUME Shape, NEW may
  PROVE  /\ Walk(may) \in [Levels -> Visits]
         /\ \A i \in Levels : Walk(may)[i] = Along(may, i)[From(Walk(may), i)]
<1>1. PICK along \in [Levels -> [Visits -> Visits]] : \A i \in Levels : along[i] = Along(may, i)
  <2>1. [i \in Levels |-> Along(may, i)] \in [Levels -> [Visits -> Visits]]
    BY AlongIs DEF Shape
  <2> QED
    BY <2>1
<1> DEFINE mu == [i \in Levels |-> Top - i]
           G == {i \in Levels : i # Top}
           step == [i \in Levels |-> IF i = Top THEN i ELSE i + 1]
           stop == [i \in Levels |-> along[i][Start]]
<1>2. Top \in Nat /\ \A i \in Levels : i \in Nat /\ i <= Top
  BY Apart
<1>3. mu \in [Levels -> 0..Top] /\ G \in SUBSET Levels
  BY <1>2
<1>4. step \in [Levels -> Levels] /\ stop \in [Levels -> Visits]
  BY Apart, StartType, <1>1
<1>5. \A i \in Levels : i \in G => mu[step[i]] < mu[i]
  <2> SUFFICES ASSUME NEW i \in Levels, i # Top PROVE Top - (i + 1) < Top - i
    BY Apart
  <2> QED
    BY <1>2
<1>6. PICK e \in [Levels -> Visits] : Recursive(e, Levels, G, step, along, stop)
  <2> HIDE DEF mu, G, step, stop
  <2> QED
    BY <1>1, <1>2, <1>3, <1>4, <1>5, RecursionExists
<1> DEFINE Def(f) == [i \in Levels |-> Along(may, i)[IF i = Top THEN Start ELSE f[i + 1]]]
<1>7. \A i \in Levels : e[i] = along[i][IF i = Top THEN Start ELSE e[i + 1]]
  <2> SUFFICES ASSUME NEW i \in Levels PROVE e[i] = along[i][IF i = Top THEN Start ELSE e[i + 1]]
    OBVIOUS
  <2>1. e[i] = IF i \in G THEN along[i][e[step[i]]] ELSE stop[i]
    BY <1>6 DEF Recursive
  <2> QED
    BY <2>1
<1>8. e = Def(e)
  BY <1>1, <1>7
<1>9. Walk(may) = CHOOSE f : f = Def(f)
  BY DEF Walk
<1>10. Walk(may) = Def(Walk(may))
  <2> HIDE DEF Def
  <2> QED
    BY <1>8, <1>9
<1> DEFINE w == Walk(may)
<1>11. w = Def(w)
  BY <1>10
<1> HIDE DEF w
<1>12. DOMAIN w = Levels /\ w = [i \in Levels |-> w[i]]
  BY <1>11
<1>13. \A i \in Levels : w[i] = along[i][From(w, i)]
  BY <1>1, <1>11 DEF From
<1> DEFINE I == {Top - i : i \in {j \in Levels : w[j] \notin Visits}}
<1>14. I = {}
  <2> SUFFICES ASSUME I # {} PROVE FALSE
    OBVIOUS
  <2>1. I \subseteq Nat
    BY <1>2
  <2>2. PICK k \in I : \A y \in I : k <= y
    BY <2>1, LeastNumber
  <2>3. PICK i \in Levels : w[i] \notin Visits /\ k = Top - i
    BY <2>2
  <2>4. From(w, i) \notin Visits
    BY <1>1, <1>13, <2>3
  <2>5. i # Top /\ w[i + 1] \notin Visits
    BY <2>4, StartType DEF From
  <2>6. i + 1 \in Levels
    BY <2>5, Apart
  <2>7. Top - (i + 1) \in I
    BY <2>5, <2>6
  <2>8. k <= Top - (i + 1)
    BY <2>2, <2>7
  <2>9. i \in Int /\ Top \in Int
    BY <1>2
  <2> QED
    BY <2>3, <2>8, <2>9
<1>15. w \in [Levels -> Visits]
  <2>1. ASSUME NEW i \in Levels PROVE w[i] \in Visits
    <3>1. w[i] \notin Visits => Top - i \in I
      OBVIOUS
    <3> QED
      BY <1>14, <3>1
  <2> QED
    BY <1>12, <2>1
<1> QED
  BY <1>1, <1>13, <1>15 DEF w

(* What holds where the walk starts on level k, and is kept by every step  *)
(* on k and below, holds where it ends on each of these levels.            *)
LEMMA WalkKeeps ==
  ASSUME Shape, NEW may, NEW C \in [Levels -> SUBSET Visits], NEW k \in Levels,
         From(Walk(may), k) \in C[k],
         \A j \in 0..k : \A p \in C[j] : Goes(may, j, p) => NextPlace(p, j) \in C[j],
         \A j \in 0..k : j < k => C[j + 1] \subseteq C[j]
  PROVE  \A j \in 0..k : Walk(may)[j] \in C[j] /\ ~Goes(may, j, Walk(may)[j])
<1>1. PICK w \in [Levels -> Visits] :
        w = Walk(may) /\ \A i \in Levels : w[i] = Along(may, i)[From(w, i)]
  BY WalkIs
<1>2. k \in Nat /\ 0..k \subseteq Levels /\ Top \in Nat /\ k <= Top
  BY Apart DEF Levels, Top
<1>3. ASSUME NEW j \in 0..k, From(w, j) \in C[j]
      PROVE  w[j] \in C[j] /\ ~Goes(may, j, w[j])
  <2>1. j \in Levels /\ C[j] \in SUBSET Visits /\ SortedTypeOK /\ Ends(Level(j))
    BY <1>2 DEF Shape
  <2>2. \A p \in C[j] : Goes(may, j, p) => NextPlace(p, j) \in C[j]
    OBVIOUS
  <2>3. Along(may, j)[From(w, j)] \in C[j] /\ ~Goes(may, j, Along(may, j)[From(w, j)])
    BY <1>3, <2>1, <2>2, AlongKeeps
  <2> QED
    BY <1>1, <2>1, <2>3
<1> DEFINE I == {k - j : j \in {i \in 0..k : From(w, i) \notin C[i]}}
<1>4. I = {}
  <2> SUFFICES ASSUME I # {} PROVE FALSE
    OBVIOUS
  <2>1. I \subseteq Nat
    BY <1>2
  <2>2. PICK m \in I : \A y \in I : m <= y
    BY <2>1, LeastNumber
  <2>3. PICK j \in 0..k : From(w, j) \notin C[j] /\ m = k - j
    BY <2>2
  <2>4. j < k /\ j \in Nat /\ j # Top /\ j + 1 \in 0..k
    BY <1>1, <1>2, <2>3
  <2>5. ~(m <= k - (j + 1))
    BY <1>2, <2>3, <2>4
  <2>6. From(w, j + 1) \in C[j + 1]
    BY <2>2, <2>4, <2>5
  <2>7. w[j + 1] \in C[j + 1]
    BY <1>3, <2>4, <2>6
  <2>8. C[j + 1] \subseteq C[j]
    BY <2>4
  <2> QED
    BY <2>3, <2>4, <2>7, <2>8 DEF From
<1>5. \A j \in 0..k : From(w, j) \in C[j]
  BY <1>4
<1> QED
  BY <1>1, <1>3, <1>5

-----------------------------------------------------------------------------
(* Ordered finite sets: R relates the smaller to the larger.               *)
IsOrder(R, S) ==
  /\ \A a \in S : <<a, a>> \notin R
  /\ \A a, b \in S : a # b => <<a, b>> \in R \/ <<b, a>> \in R
  /\ \A a, b, c \in S : <<a, b>> \in R /\ <<b, c>> \in R => <<a, c>> \in R
Below(n, S, R) == {x \in S : <<x, n>> \in R}
Place(n, S, R) == Cardinality(Below(n, S, R)) + 1
Increasing(list, R) == \A a, b \in DOMAIN list : a < b => <<list[a], list[b]>> \in R

LEMMA PlaceType ==
  ASSUME NEW S, IsFiniteSet(S), NEW R, IsOrder(R, S), NEW n \in S
  PROVE  /\ IsFiniteSet(Below(n, S, R)) /\ Cardinality(Below(n, S, R)) \in Nat
         /\ Cardinality(S) \in Nat /\ Place(n, S, R) \in 1..Cardinality(S)
<1> DEFINE T == Below(n, S, R)
<1>1. T \in SUBSET S /\ T # S
  BY DEF IsOrder, Below
<1>2. IsFiniteSet(T) /\ Cardinality(T) <= Cardinality(S) /\ Cardinality(S) # Cardinality(T)
  BY <1>1, FS_Subset
<1>3. Cardinality(T) \in Nat /\ Cardinality(S) \in Nat
  BY <1>2, FS_CardinalityType
<1> QED
  BY <1>2, <1>3 DEF Place

LEMMA PlaceGrows ==
  ASSUME NEW S, IsFiniteSet(S), NEW R, IsOrder(R, S), NEW a \in S, NEW b \in S, <<a, b>> \in R
  PROVE  Place(a, S, R) < Place(b, S, R)
<1> DEFINE T == Below(a, S, R)
           U == Below(b, S, R)
<1>1. T \in SUBSET U /\ a \in U /\ a \notin T
  BY DEF IsOrder, Below
<1>2. IsFiniteSet(U) /\ Cardinality(U) \in Nat /\ Cardinality(T) \in Nat
  BY PlaceType
<1>3. Cardinality(T) <= Cardinality(U) /\ Cardinality(U) # Cardinality(T)
  BY <1>1, <1>2, FS_Subset
<1> QED
  BY <1>2, <1>3 DEF Place

LEMMA PlaceTells ==
  ASSUME NEW S, IsFiniteSet(S), NEW R, IsOrder(R, S), NEW a \in S, NEW b \in S
  PROVE  /\ Place(a, S, R) = Place(b, S, R) => a = b
         /\ Place(a, S, R) < Place(b, S, R) => <<a, b>> \in R
<1>1. Place(a, S, R) \in Nat /\ Place(b, S, R) \in Nat
  BY PlaceType
<1>2. a = b \/ <<a, b>> \in R \/ <<b, a>> \in R
  BY DEF IsOrder
<1>3. <<a, b>> \in R => Place(a, S, R) < Place(b, S, R)
  BY PlaceGrows
<1>4. <<b, a>> \in R => Place(b, S, R) < Place(a, S, R)
  BY PlaceGrows
<1> QED
  BY <1>1, <1>2, <1>3, <1>4

(* Every place is somebody's.                                              *)
LEMMA PlaceTaken ==
  ASSUME NEW S, IsFiniteSet(S), NEW R, IsOrder(R, S)
  PROVE  \A k \in 1..Cardinality(S) : \E n \in S : Place(n, S, R) = k
<1> DEFINE T == 1..Cardinality(S)
           f == [n \in S |-> Place(n, S, R)]
<1>1. Cardinality(S) \in Nat
  BY FS_CardinalityType
<1>2. IsFiniteSet(T) /\ Cardinality(T) = Cardinality(S)
  BY <1>1, FS_Interval
<1>3. f \in [S -> T]
  BY PlaceType
<1>4. \A a, b \in S : f[a] = f[b] => a = b
  BY PlaceTells
<1>5. f \in Injection(S, T)
  <2> HIDE DEF f
  <2> QED
    BY <1>3, <1>4 DEF Injection, IsInjective
<1>6. f \in Surjection(S, T)
  <2> HIDE DEF f
  <2> QED
    BY <1>2, <1>5, FS_Injection
<1> QED
  BY <1>6 DEF Surjection

(* There is one list of S in order, and its places are the numbers.        *)
LEMMA PlaceInList ==
  ASSUME NEW S, IsFiniteSet(S), NEW R, IsOrder(R, S),
         NEW list \in [1..Cardinality(S) -> S], Increasing(list, R)
  PROVE  /\ \A a \in 1..Cardinality(S) : Place(list[a], S, R) = a
         /\ \A n \in S : list[Place(n, S, R)] = n
<1>1. PICK k \in Nat : k = Cardinality(S)
  BY FS_CardinalityType
<1>2. PICK g \in [1..k -> 1..k] : \A a \in 1..k : g[a] = Place(list[a], S, R)
  <2>1. [a \in 1..k |-> Place(list[a], S, R)] \in [1..k -> 1..k]
    BY <1>1, PlaceType
  <2> QED
    BY <2>1
<1>3. \A a, b \in 1..k : a < b => g[a] < g[b]
  <2> SUFFICES ASSUME NEW a \in 1..k, NEW b \in 1..k, a < b PROVE g[a] < g[b]
    OBVIOUS
  <2>1. <<list[a], list[b]>> \in R /\ list[a] \in S /\ list[b] \in S
    BY <1>1 DEF Increasing
  <2>2. Place(list[a], S, R) < Place(list[b], S, R)
    BY <2>1, PlaceGrows
  <2> QED
    BY <1>2, <2>2
<1>4. \A a \in 1..k : g[a] >= a
  <2> DEFINE I == {a \in 1..k : ~(g[a] >= a)}
  <2> SUFFICES ASSUME I # {} PROVE FALSE
    OBVIOUS
  <2>1. I \subseteq Nat
    OBVIOUS
  <2>2. PICK a \in I : \A y \in I : a <= y
    BY <2>1, LeastNumber
  <2>3. a \in 1..k /\ g[a] \in 1..k /\ ~(g[a] >= a)
    OBVIOUS
  <2>4. a - 1 \in 1..k /\ a - 1 < a
    BY <2>3
  <2>5. g[a - 1] >= a - 1 /\ g[a - 1] < g[a] /\ g[a - 1] \in 1..k
    <3>1. a - 1 \notin I
      BY <2>2, <2>3, <2>4
    <3> QED
      BY <1>3, <2>3, <2>4, <3>1
  <2> QED
    BY <2>3, <2>5
<1>5. \A a \in 1..k : g[a] <= a
  <2> DEFINE I == {k - a : a \in {b \in 1..k : ~(g[b] <= b)}}
  <2> SUFFICES ASSUME I # {} PROVE FALSE
    OBVIOUS
  <2>1. I \subseteq Nat
    <3>1. \A b \in 1..k : k - b \in Nat
      OBVIOUS
    <3> QED
      BY <3>1
  <2>2. PICK d \in I : \A y \in I : d <= y
    BY <2>1, LeastNumber
  <2>3. PICK a \in 1..k : ~(g[a] <= a) /\ d = k - a
    BY <2>2
  <2>4. g[a] \in 1..k /\ a + 1 \in 1..k /\ a < a + 1
    BY <2>3
  <2>5. ~(d <= k - (a + 1))
    BY <2>3
  <2>6. g[a + 1] <= a + 1
    <3>1. k - (a + 1) \notin I
      BY <2>2, <2>5
    <3> QED
      BY <2>4, <3>1
  <2>7. g[a] < g[a + 1] /\ g[a + 1] \in 1..k
    BY <1>3, <2>4
  <2> QED
    BY <2>3, <2>4, <2>6, <2>7
<1>6. \A a \in 1..k : g[a] = a
  <2> SUFFICES ASSUME NEW a \in 1..k PROVE g[a] = a
    OBVIOUS
  <2>1. g[a] \in 1..k /\ g[a] >= a /\ g[a] <= a
    BY <1>4, <1>5
  <2> QED
    BY <2>1
<1>7. ASSUME NEW n \in S PROVE list[Place(n, S, R)] = n
  <2>1. Place(n, S, R) \in 1..k
    BY <1>1, PlaceType
  <2>2. Place(list[Place(n, S, R)], S, R) = Place(n, S, R) /\ list[Place(n, S, R)] \in S
    BY <1>1, <1>2, <1>6, <2>1
  <2> QED
    BY <2>2, PlaceTells
<1> QED
  BY <1>1, <1>2, <1>6, <1>7

LEMMA ListExists ==
  ASSUME NEW S, IsFiniteSet(S), NEW R, IsOrder(R, S)
  PROVE  \E list \in [1..Cardinality(S) -> S] : Increasing(list, R)
<1> DEFINE list == [k \in 1..Cardinality(S) |-> CHOOSE n \in S : Place(n, S, R) = k]
<1>1. ASSUME NEW k \in 1..Cardinality(S) PROVE list[k] \in S /\ Place(list[k], S, R) = k
  <2>1. \E n \in S : Place(n, S, R) = k
    BY PlaceTaken
  <2>2. list[k] = CHOOSE n \in S : Place(n, S, R) = k
    OBVIOUS
  <2> QED
    BY <2>1, <2>2
<1>2. list \in [1..Cardinality(S) -> S] /\ DOMAIN list = 1..Cardinality(S)
  BY <1>1
<1> HIDE DEF list
<1>3. Increasing(list, R)
  <2> SUFFICES ASSUME NEW a \in 1..Cardinality(S), NEW b \in 1..Cardinality(S), a < b
               PROVE  <<list[a], list[b]>> \in R
    BY <1>2 DEF Increasing
  <2> QED
    BY <1>1, PlaceTells
<1> QED
  BY <1>2, <1>3

-----------------------------------------------------------------------------
(* The pointers next lead through S in the order R, from the head to Nil.  *)
After(p, n, R) == p = Head0 \/ <<p, n>> \in R
Chained(next, S, R) ==
  \A p \in S \cup {Head0} :
    /\ next[p] \in S \cup {Nil}
    /\ next[p] # Nil => After(p, next[p], R)
    /\ \A n \in S : After(p, n, R) => next[p] # Nil /\ (n = next[p] \/ <<next[p], n>> \in R)

LEMMA ChainedAgain ==
  ASSUME NEW S, NEW R, NEW next, Chained(next, S, R), NEW R2, NEW next2,
         \A a, b \in S : <<a, b>> \in R <=> <<a, b>> \in R2,
         \A p \in S \cup {Head0} : next2[p] = next[p]
  PROVE  Chained(next2, S, R2)
BY DEF Chained, After

LEMMA OrderAgain ==
  ASSUME NEW S, NEW R, IsOrder(R, S), NEW R2, NEW T \in SUBSET S,
         \A a, b \in T : <<a, b>> \in R <=> <<a, b>> \in R2
  PROVE  IsOrder(R2, T)
BY DEF IsOrder

LEMMA ChainedInsert ==
  ASSUME NEW S \in SUBSET Nodes, NEW n \in Nodes, n \notin S,
         NEW R, IsOrder(R, S \cup {n}), NEW next, Chained(next, S, R),
         NEW u \in S \cup {Head0}, After(u, n, R), next[u] # Nil => <<n, next[u]>> \in R,
         NEW next2, \A p \in S \cup {n, Head0} :
                      next2[p] = IF p = n THEN next[u] ELSE IF p = u THEN n ELSE next[p]
  PROVE  Chained(next2, S \cup {n}, R)
<1> DEFINE T == S \cup {n}
<1>1. n # Head0 /\ n # Nil /\ Head0 \notin S /\ n # u /\ \A x \in S : x # Nil
  BY Apart
<1>2. next[u] \in S \cup {Nil}
  BY DEF Chained
<1>3. ASSUME NEW x \in S, <<n, x>> \in R
      PROVE  next[u] # Nil /\ (x = next[u] \/ <<next[u], x>> \in R)
  <2>1. After(u, x, R)
    BY <1>3 DEF After, IsOrder
  <2> QED
    BY <2>1 DEF Chained
<1>4. ASSUME NEW p \in T \cup {Head0}
      PROVE  /\ next2[p] \in T \cup {Nil}
             /\ next2[p] # Nil => After(p, next2[p], R)
             /\ \A x \in T : After(p, x, R) =>
                  next2[p] # Nil /\ (x = next2[p] \/ <<next2[p], x>> \in R)
  <2>1. CASE p = n
    <3>1. next2[p] = next[u]
      BY <2>1
    <3>2. \A x \in T : After(p, x, R) => x \in S /\ <<n, x>> \in R
      BY <1>1, <2>1 DEF After, IsOrder
    <3> QED
      BY <1>2, <1>3, <2>1, <3>1, <3>2 DEF After
  <2>2. CASE p = u
    <3>1. next2[p] = n
      BY <1>1, <2>2
    <3>2. \A x \in S : After(u, x, R) => <<n, x>> \in R
      <4> SUFFICES ASSUME NEW x \in S, After(u, x, R) PROVE <<n, x>> \in R
        OBVIOUS
      <4>1. next[u] \in S /\ <<n, next[u]>> \in R /\ (x = next[u] \/ <<next[u], x>> \in R)
        BY <1>2 DEF Chained
      <4> QED
        BY <4>1 DEF IsOrder
    <3> QED
      BY <1>1, <2>2, <3>1, <3>2
  <2>3. CASE p # n /\ p # u
    <3>1. next2[p] = next[p] /\ p \in S \cup {Head0}
      BY <2>3
    <3>2. next[p] \in S \cup {Nil} /\ (next[p] # Nil => After(p, next[p], R))
      BY <3>1 DEF Chained
    <3>3. ASSUME After(p, n, R) PROVE next[p] # Nil /\ <<next[p], n>> \in R
      <4>1. CASE u = Head0
        <5>1. p \in S /\ <<p, n>> \in R
          BY <2>3, <3>1, <3>3, <4>1 DEF After
        <5>2. next[u] # Nil /\ next[u] \in S /\ <<n, next[u]>> \in R
              /\ (p = next[u] \/ <<next[u], p>> \in R)
          BY <1>2, <4>1, <5>1 DEF Chained, After
        <5> QED
          BY <5>1, <5>2 DEF IsOrder
      <4>2. CASE u \in S
        <5>1. <<u, n>> \in R
          BY <1>1, <4>2 DEF After
        <5>2. After(p, u, R)
          <6>1. CASE p = Head0
            BY <6>1 DEF After
          <6>2. CASE p \in S
            <7>1. <<p, n>> \in R
              BY <1>1, <3>3, <6>2 DEF After
            <7>2. ASSUME <<u, p>> \in R PROVE FALSE
              <8>1. next[u] \in S /\ <<n, next[u]>> \in R /\ (p = next[u] \/ <<next[u], p>> \in R)
                BY <1>2, <4>2, <6>2, <7>2 DEF Chained, After
              <8> QED
                BY <6>2, <7>1, <8>1 DEF IsOrder
            <7> QED
              BY <2>3, <4>2, <6>2, <7>2 DEF After, IsOrder
          <6> QED
            BY <3>1, <6>1, <6>2
        <5>3. next[p] # Nil /\ next[p] \in S /\ (u = next[p] \/ <<next[p], u>> \in R)
          BY <3>1, <3>2, <4>2, <5>2 DEF Chained
        <5> QED
          BY <4>2, <5>1, <5>3 DEF IsOrder
      <4> QED
        BY <4>1, <4>2
    <3>4. \A x \in S : After(p, x, R) => next[p] # Nil /\ (x = next[p] \/ <<next[p], x>> \in R)
      BY <3>1 DEF Chained
    <3> QED
      BY <3>1, <3>2, <3>3, <3>4
  <2> QED
    BY <2>1, <2>2, <2>3
<1> QED
  BY <1>4 DEF Chained

LEMMA ChainedRemove ==
  ASSUME NEW S \in SUBSET Nodes, NEW e \in S,
         NEW R, IsOrder(R, S), NEW next, Chained(next, S, R),
         NEW u \in S \cup {Head0}, next[u] = e,
         NEW next2, \A p \in (S \ {e}) \cup {Head0} :
                      next2[p] = IF p = u THEN next[e] ELSE next[p]
  PROVE  Chained(next2, S \ {e}, R)
<1> DEFINE T == S \ {e}
<1>1. e # Head0 /\ e # Nil /\ Head0 \notin S /\ \A x \in S : x # Nil
  BY Apart
<1>2. next[e] \in S \cup {Nil} /\ (next[e] # Nil => <<e, next[e]>> \in R)
  BY <1>1 DEF Chained, After
<1>3. \A x \in S : <<e, x>> \in R => next[e] # Nil /\ (x = next[e] \/ <<next[e], x>> \in R)
  BY DEF Chained, After
<1>4. After(u, e, R) /\ \A x \in S : After(u, x, R) => x = e \/ <<e, x>> \in R
  BY <1>1 DEF Chained
<1>5. ASSUME NEW p \in T \cup {Head0}
      PROVE  /\ next2[p] \in T \cup {Nil}
             /\ next2[p] # Nil => After(p, next2[p], R)
             /\ \A x \in T : After(p, x, R) =>
                  next2[p] # Nil /\ (x = next2[p] \/ <<next2[p], x>> \in R)
  <2>1. CASE p = u
    <3>1. next2[p] = next[e]
      BY <2>1
    <3>2. next[e] # e
      BY <1>1, <1>2 DEF IsOrder
    <3>3. next[e] # Nil => After(u, next[e], R)
      <4> SUFFICES ASSUME next[e] # Nil, u # Head0 PROVE <<u, next[e]>> \in R
        BY DEF After
      <4>1. u \in S /\ <<u, e>> \in R /\ next[e] \in S /\ <<e, next[e]>> \in R
        BY <1>2, <1>4 DEF After
      <4> QED
        BY <4>1 DEF IsOrder
    <3> QED
      BY <1>2, <1>3, <1>4, <2>1, <3>1, <3>2, <3>3
  <2>2. CASE p # u
    <3>1. next2[p] = next[p] /\ p \in S \cup {Head0}
      BY <2>2
    <3>2. next[p] \in S \cup {Nil} /\ (next[p] # Nil => After(p, next[p], R))
      BY <3>1 DEF Chained
    <3>3. next[p] # e
      <4> SUFFICES ASSUME next[p] = e PROVE FALSE
        OBVIOUS
      <4>1. After(p, e, R) /\ \A x \in S : After(p, x, R) => x = e \/ <<e, x>> \in R
        BY <1>1, <3>1 DEF Chained
      <4>2. CASE u = Head0
        <5>1. p \in S /\ <<e, p>> \in R /\ <<p, e>> \in R
          BY <1>4, <2>2, <3>1, <4>1, <4>2 DEF After
        <5> QED
          BY <5>1 DEF IsOrder
      <4>3. CASE p = Head0
        <5>1. u \in S /\ <<u, e>> \in R /\ (u = e \/ <<e, u>> \in R)
          BY <1>4, <2>2, <4>1, <4>3 DEF After
        <5> QED
          BY <5>1 DEF IsOrder
      <4>4. CASE u \in S /\ p \in S
        <5>1. <<u, e>> \in R /\ <<p, e>> \in R
          BY <1>1, <1>4, <4>1, <4>4 DEF After
        <5>2. <<u, p>> \in R => p = e \/ <<e, p>> \in R
          BY <1>4, <4>4 DEF After
        <5>3. <<p, u>> \in R => u = e \/ <<e, u>> \in R
          BY <4>1, <4>4 DEF After
        <5> QED
          BY <2>2, <4>4, <5>1, <5>2, <5>3 DEF IsOrder
      <4> QED
        BY <3>1, <4>2, <4>3, <4>4
    <3>4. \A x \in S : After(p, x, R) => next[p] # Nil /\ (x = next[p] \/ <<next[p], x>> \in R)
      BY <3>1 DEF Chained
    <3> QED
      BY <3>1, <3>2, <3>3, <3>4
  <2> QED
    BY <2>1, <2>2
<1> QED
  BY <1>5 DEF Chained

LEMMA EndsInsert ==
  ASSUME NEW next \in [Places -> Nodes \cup {Nil}], Ends(next),
         NEW n \in Nodes, NEW u \in Places, u # n, \A p \in Places : next[p] # n,
         NEW next2, \A p \in Places :
                      next2[p] = IF p = n THEN next[u] ELSE IF p = u THEN n ELSE next[p]
  PROVE  Ends(next2)
<1>0. PICK B \in Nat : \E r \in [Places -> 0..B] :
        \A p \in Places : next[p] # Nil => r[p] < r[next[p]]
  BY DEF Ends
<1>1. PICK r \in [Places -> 0..B] : \A p \in Places : next[p] # Nil => r[p] < r[next[p]]
  BY <1>0
<1> DEFINE r2 == [p \in Places |-> IF p = n THEN r[u] + r[u] + 1 ELSE r[p] + r[p]]
           B2 == B + B + 1
<1>2. n \in Places /\ \A p \in Places : next[p] # Nil => next[p] \in Places
  BY Apart
<1>3. B2 \in Nat /\ \A p \in Places : r[p] \in 0..B
  OBVIOUS
<1>4. r2 \in [Places -> 0..B2]
  BY <1>3
<1>5. ASSUME NEW p \in Places, next2[p] # Nil PROVE r2[p] < r2[next2[p]]
  <2>1. CASE p = n
    <3>1. next2[p] = next[u] /\ next[u] \in Places /\ next[u] # n /\ r[u] < r[next[u]]
      BY <1>1, <1>2, <1>5, <2>1
    <3>2. r2[p] = r[u] + r[u] + 1 /\ r2[next2[p]] = r[next[u]] + r[next[u]]
      BY <2>1, <3>1
    <3>3. r[u] \in Int /\ r[next[u]] \in Int
      BY <1>3, <3>1
    <3> QED
      BY <3>1, <3>2, <3>3
  <2>2. CASE p = u
    <3>1. next2[p] = n /\ r2[p] = r[u] + r[u] /\ r2[n] = r[u] + r[u] + 1 /\ r[u] \in Int
      BY <1>2, <1>3, <2>2
    <3> QED
      BY <3>1
  <2>3. CASE p # n /\ p # u
    <3>1. next2[p] = next[p] /\ next[p] \in Places /\ next[p] # n /\ r[p] < r[next[p]]
      BY <1>1, <1>2, <1>5, <2>3
    <3>2. r2[p] = r[p] + r[p] /\ r2[next2[p]] = r[next[p]] + r[next[p]]
      BY <2>3, <3>1
    <3>3. r[p] \in Int /\ r[next[p]] \in Int
      BY <1>3, <3>1
    <3> QED
      BY <3>1, <3>2, <3>3
  <2> QED
    BY <2>1, <2>2, <2>3
<1> HIDE DEF r2, B2
<1> QED
  BY <1>3, <1>4, <1>5 DEF Ends

LEMMA EndsRemove ==
  ASSUME NEW next \in [Places -> Nodes \cup {Nil}], Ends(next),
         NEW e \in Nodes, NEW u \in Places, next[u] = e,
         NEW next2, \A p \in Places : next2[p] = IF p = u THEN next[e] ELSE next[p]
  PROVE  Ends(next2)
<1>0. PICK B \in Nat : \E r \in [Places -> 0..B] :
        \A p \in Places : next[p] # Nil => r[p] < r[next[p]]
  BY DEF Ends
<1>1. PICK r \in [Places -> 0..B] : \A p \in Places : next[p] # Nil => r[p] < r[next[p]]
  BY <1>0
<1>2. e \in Places /\ e # Nil /\ \A p \in Places : next[p] # Nil => next[p] \in Places
  BY Apart
<1>3. \A p \in Places : r[p] \in Int
  OBVIOUS
<1>4. ASSUME NEW p \in Places, next2[p] # Nil PROVE r[p] < r[next2[p]]
  <2>1. CASE p = u
    <3>1. next2[p] = next[e] /\ r[u] < r[e] /\ r[e] < r[next[e]] /\ next[e] \in Places
      BY <1>1, <1>2, <1>4, <2>1
    <3>2. r[u] \in Int /\ r[e] \in Int /\ r[next[e]] \in Int
      BY <1>2, <1>3, <3>1
    <3> QED
      BY <2>1, <3>1, <3>2
  <2>2. CASE p # u
    BY <1>1, <1>4, <2>2
  <2> QED
    BY <2>1, <2>2
<1> QED
  BY <1>4 DEF Ends

-----------------------------------------------------------------------------
(* The nodes of the members by score and name; those on level i; and the   *)
(* place of a node, the head's being 0.                                    *)
ScoreOrder == {e \in Nodes \X Nodes :
                 score[e[1]] < score[e[2]] \/ (score[e[1]] = score[e[2]] /\ member[e[1]] < member[e[2]])}
On(i) == {n \in InSet : height[n] > i}
PosIn(p, S, R) == IF p = Head0 THEN 0 ELSE Place(p, S, R)
Pos(p) == PosIn(p, InSet, ScoreOrder)

Made == 1..made
Linked ==
  /\ \A p \in Places, i \in Levels : forward[p][i] \in Made \cup {Nil}
  /\ \A m \in In : dictionary[m] \in Made /\ member[dictionary[m]] = m
  /\ \A n \in Made : height[n] >= 1
Counted ==
  /\ removals \in Nat /\ length = Cardinality(InSet) + removals
  /\ removals = 0 => InSet = Made
InSomeOrder ==
  removals = 0 =>
    \E R \in SUBSET (Nodes \X Nodes) : IsOrder(R, InSet) /\ Chained(Level(0), InSet, R)
InScoreOrder == \A i \in Levels : Chained(Level(i), On(i), ScoreOrder)
SpansRight ==
  \A i \in Levels : \A p \in On(i) \cup {Head0} :
    forward[p][i] # Nil => span[p][i] = Pos(forward[p][i]) - Pos(p)

SortedInv ==
  /\ Shape /\ Linked /\ Counted /\ InSomeOrder
  /\ ~reordered /\ ~topCrossed => ~topRemoved
  /\ ~reordered /\ ~topRemoved => InScoreOrder
  /\ ~reordered /\ ~topCrossed => SpansRight

-----------------------------------------------------------------------------
(* Nodes and members.                                                      *)
LEMMA OrderOf ==
  ASSUME NEW S, NEW sc \in [Nodes -> Int], NEW mem \in [Nodes -> Nat], S \subseteq Nodes,
         \A a, b \in S : mem[a] = mem[b] => a = b, NEW R,
         \A a, b \in S : <<a, b>> \in R <=> (sc[a] < sc[b] \/ (sc[a] = sc[b] /\ mem[a] < mem[b]))
  PROVE  IsOrder(R, S)
<1>1. \A a \in S : sc[a] \in Int /\ mem[a] \in Int
  OBVIOUS
<1>2. \A a \in S : <<a, a>> \notin R
  BY <1>1
<1>3. \A a, b \in S : a # b => <<a, b>> \in R \/ <<b, a>> \in R
  BY <1>1
<1>4. \A a, b, c \in S : <<a, b>> \in R /\ <<b, c>> \in R => <<a, c>> \in R
  BY <1>1
<1> QED
  BY <1>2, <1>3, <1>4 DEF IsOrder

LEMMA ScoreOrderIs ==
  \A a, b \in Nodes :
    <<a, b>> \in ScoreOrder <=> (score[a] < score[b] \/ (score[a] = score[b] /\ member[a] < member[b]))
<1> SUFFICES ASSUME NEW a \in Nodes, NEW b \in Nodes
             PROVE  <<a, b>> \in ScoreOrder <=>
                      (score[a] < score[b] \/ (score[a] = score[b] /\ member[a] < member[b]))
  OBVIOUS
<1>1. <<a, b>> \in Nodes \X Nodes
  OBVIOUS
<1> QED
  BY <1>1 DEF ScoreOrder

LEMMA NodesFinite ==
  ASSUME NEW S, S \subseteq Nodes
  PROVE  IsFiniteSet(S)
<1>1. IsFiniteSet(Nodes)
  BY SortedSetsAssumption, FS_Interval DEF Nodes
<1> QED
  BY <1>1, FS_Subset

LEMMA NodesOfMembers ==
  ASSUME SortedTypeOK, Linked
  PROVE  /\ Made \subseteq Nodes /\ InSet \subseteq Made /\ IsFiniteSet(InSet) /\ Head0 \notin InSet
         /\ made \in Nat /\ (made < MaxNodes => made + 1 \in Nodes) /\ made + 1 \notin Made
         /\ \A m \in In : m \in Nat /\ dictionary[m] \in InSet /\ member[dictionary[m]] = m
         /\ \A n \in InSet : member[n] \in In /\ dictionary[member[n]] = n
         /\ \A a, b \in InSet : member[a] = member[b] => a = b
         /\ IsOrder(ScoreOrder, InSet)
<1>1. made \in Nat /\ made <= MaxNodes /\ MaxNodes \in Nat
  BY SortedSetsAssumption DEF SortedTypeOK
<1>2. Made \subseteq Nodes /\ (made < MaxNodes => made + 1 \in Nodes) /\ made + 1 \notin Made
  BY <1>1 DEF Made, Nodes
<1>3. \A m \in In : m \in Nat /\ dictionary[m] \in InSet /\ dictionary[m] \in Made /\ member[dictionary[m]] = m
  BY SortedSetsAssumption DEF Linked, In, InSet
<1>4. \A n \in InSet : n \in Made /\ member[n] \in In /\ dictionary[member[n]] = n
  <2> SUFFICES ASSUME NEW n \in InSet PROVE n \in Made /\ member[n] \in In /\ dictionary[member[n]] = n
    OBVIOUS
  <2>1. PICK m \in In : n = dictionary[m]
    BY DEF InSet
  <2> QED
    BY <1>3, <2>1
<1>5. InSet \subseteq Made /\ InSet \subseteq Nodes
  BY <1>2, <1>4
<1>6. \A a, b \in InSet : member[a] = member[b] => a = b
  BY <1>4
<1>7. \A a, b \in InSet : <<a, b>> \in ScoreOrder <=>
        (score[a] < score[b] \/ (score[a] = score[b] /\ member[a] < member[b]))
  BY <1>5, ScoreOrderIs
<1>8. score \in [Nodes -> Int] /\ member \in [Nodes -> Nat]
  BY DEF SortedTypeOK
<1>9. IsOrder(ScoreOrder, InSet)
  BY <1>5, <1>6, <1>7, <1>8, OrderOf
<1>10. IsFiniteSet(InSet) /\ Head0 \notin InSet
  BY <1>5, NodesFinite, Apart
<1> QED
  BY <1>1, <1>2, <1>3, <1>4, <1>5, <1>6, <1>9, <1>10

LEMMA OnLevel ==
  ASSUME SortedTypeOK, Linked, NEW i \in Levels
  PROVE  /\ On(i) \subseteq InSet /\ On(0) = InSet /\ IsOrder(ScoreOrder, On(i))
         /\ i # Top => On(i + 1) \subseteq On(i)
<1>1. On(i) \subseteq InSet
  BY DEF On
<1>2. \A n \in InSet : height[n] \in Int /\ height[n] >= 1
  <2> SUFFICES ASSUME NEW n \in InSet PROVE height[n] \in Int /\ height[n] >= 1
    OBVIOUS
  <2>1. n \in Made /\ n \in Places
    BY NodesOfMembers, Apart
  <2>2. height[n] \in 0..maxLevel
    BY <2>1 DEF SortedTypeOK
  <2> QED
    BY <2>1, <2>2 DEF Linked
<1>3. On(0) = InSet
  BY <1>2 DEF On
<1>4. IsOrder(ScoreOrder, On(i))
  BY <1>1, NodesOfMembers, OrderAgain
<1>5. i # Top => On(i + 1) \subseteq On(i)
  <2>1. i \in Int
    BY Apart
  <2> QED
    BY <1>2, <2>1 DEF On
<1> QED
  BY <1>1, <1>3, <1>4, <1>5

LEMMA PosIs ==
  ASSUME SortedTypeOK, Linked, NEW p \in InSet \cup {Head0}
  PROVE  /\ Pos(p) \in Int /\ (p = Head0 => Pos(p) = 0)
         /\ p # Head0 => /\ p \in InSet /\ Pos(p) = Place(p, InSet, ScoreOrder)
                         /\ Pos(p) \in 1..Cardinality(InSet)
<1>1. CASE p = Head0
  BY <1>1 DEF Pos, PosIn
<1>2. CASE p # Head0
  BY <1>2, PlaceType, NodesOfMembers DEF Pos, PosIn
<1> QED
  BY <1>1, <1>2

(* Where a walk gets.                                                      *)
LEMMA WalkOnMade ==
  ASSUME Shape, Linked, NEW may
  PROVE  \A i \in Levels : Walk(may)[i] \in Visits /\ Walk(may)[i].node \in Made \cup {Head0}
<1> DEFINE D == {p \in Visits : p.node \in Made \cup {Head0}}
<1>1. PICK C \in [Levels -> SUBSET Visits] : \A i \in Levels : C[i] = D
  <2>1. [i \in Levels |-> D] \in [Levels -> SUBSET Visits]
    OBVIOUS
  <2> QED
    BY <2>1
<1>2. Top \in Levels /\ 0..Top = Levels /\ \A j \in 0..Top : j < Top => j + 1 \in Levels
  BY Apart DEF Levels, Top
<1>3. From(Walk(may), Top) \in C[Top]
  BY <1>1, <1>2, StartType DEF From
<1>4. \A j \in 0..Top : \A p \in C[j] : Goes(may, j, p) => NextPlace(p, j) \in C[j]
  <2> SUFFICES ASSUME NEW j \in Levels, NEW p \in D, Goes(may, j, p) PROVE NextPlace(p, j) \in D
    BY <1>1, <1>2
  <2>1. NextPlace(p, j) \in Visits /\ NextPlace(p, j).node = forward[p.node][j]
    BY VisitType DEF Goes, NextPlace, Shape
  <2>2. forward[p.node][j] \in Made \cup {Nil} /\ forward[p.node][j] # Nil
    BY VisitType DEF Goes, Linked, Shape
  <2> QED
    BY <2>1, <2>2
<1>5. \A j \in 0..Top : j < Top => C[j + 1] \subseteq C[j]
  BY <1>1, <1>2
<1>6. \A j \in 0..Top : Walk(may)[j] \in C[j]
  <2> HIDE DEF D
  <2> QED
    BY <1>2, <1>3, <1>4, <1>5, WalkKeeps
<1> QED
  BY <1>1, <1>2, <1>6

LEMMA WalkOnLevel ==
  ASSUME Shape, Linked, InScoreOrder, NEW may
  PROVE  \A i \in Levels :
           /\ Walk(may)[i] \in Visits /\ ~Goes(may, i, Walk(may)[i])
           /\ \/ Walk(may)[i].node = Head0
              \/ Walk(may)[i].node \in On(i) /\ Walk(may)[i] \in may
           /\ SpansRight => Walk(may)[i].rank = Pos(Walk(may)[i].node)
<1> DEFINE D(i) == {p \in Visits : /\ p.node = Head0 \/ (p.node \in On(i) /\ p \in may)
                                   /\ SpansRight => p.rank = Pos(p.node)}
<1>1. PICK C \in [Levels -> SUBSET Visits] : \A i \in Levels : C[i] = D(i)
  <2>1. [i \in Levels |-> D(i)] \in [Levels -> SUBSET Visits]
    OBVIOUS
  <2> QED
    BY <2>1
<1>2. Top \in Levels /\ 0..Top = Levels /\ \A j \in 0..Top : j < Top => j + 1 \in Levels /\ j # Top
  BY Apart DEF Levels, Top
<1>3. From(Walk(may), Top) \in C[Top]
  <2>1. Start \in D(Top)
    BY StartType DEF Pos, PosIn
  <2> QED
    BY <1>1, <1>2, <2>1 DEF From
<1>4. \A j \in 0..Top : \A p \in C[j] : Goes(may, j, p) => NextPlace(p, j) \in C[j]
  <2> SUFFICES ASSUME NEW j \in Levels, NEW p \in D(j), Goes(may, j, p) PROVE NextPlace(p, j) \in D(j)
    BY <1>1, <1>2
  <2> DEFINE q == NextPlace(p, j)
  <2>1. q \in Visits /\ q.node = forward[p.node][j] /\ q.rank = p.rank + span[p.node][j] /\ q \in may
    BY VisitType DEF Goes, NextPlace, Shape
  <2>2. p \in Visits /\ p.node \in On(j) \cup {Head0} /\ forward[p.node][j] # Nil
    BY DEF Goes
  <2>3. Level(j)[p.node] = forward[p.node][j]
    BY <2>2, VisitType, LevelType DEF Shape
  <2>4. q.node \in On(j)
    BY <2>1, <2>2, <2>3 DEF InScoreOrder, Chained
  <2>5. ASSUME SpansRight PROVE q.rank = Pos(q.node)
    <3>1. span[p.node][j] = Pos(q.node) - Pos(p.node)
      BY <2>1, <2>2, <2>5 DEF SpansRight
    <3>2. p.rank = Pos(p.node)
      BY <2>5
    <3>3. Pos(p.node) \in Int /\ Pos(q.node) \in Int
      BY <2>2, <2>4, PosIs, OnLevel DEF Shape
    <3> QED
      BY <2>1, <3>1, <3>2, <3>3
  <2> QED
    BY <2>1, <2>4, <2>5
<1>5. \A j \in 0..Top : j < Top => C[j + 1] \subseteq C[j]
  BY <1>1, <1>2, OnLevel DEF Shape
<1>6. \A j \in 0..Top : Walk(may)[j] \in C[j] /\ ~Goes(may, j, Walk(may)[j])
  <2> HIDE DEF D
  <2> QED
    BY <1>2, <1>3, <1>4, <1>5, WalkKeeps
<1>7. \A i \in Levels : Walk(may)[i] \in D(i) /\ ~Goes(may, i, Walk(may)[i])
  BY <1>1, <1>2, <1>6
<1> QED
  BY <1>7

-----------------------------------------------------------------------------
(* ZADD of a new member: node n, put behind the end of walk w on each of   *)
(* its levels.                                                             *)
Behind(n, h, w) ==
  \A p \in Places, i \in Levels :
    forward'[p][i] = IF i >= h THEN forward[p][i]
                     ELSE IF p = n THEN forward[w[i].node][i]
                     ELSE IF w[i].node = p THEN n ELSE forward[p][i]
Measured(n, h, w) ==
  \A p \in Places, i \in Levels :
    span'[p][i] = IF i >= h THEN IF w[i].node = p THEN span[p][i] + 1 ELSE span[p][i]
                  ELSE IF p = n THEN SpanFromNew(w[i], i, w[0])
                  ELSE IF w[i].node = p THEN SpanUpToNew(w[i], w[0]) ELSE span[p][i]
Inserting(m, s, h, n, w) ==
  /\ w \in [Levels -> Visits] /\ w = Walk({p \in Visits : Before(p.node, s, m)})
  /\ n \in Nodes /\ n \notin Made
  /\ \A i \in Levels : w[i].node \in Made \cup {Head0}
  /\ Made' = Made \cup {n} /\ In' = In \cup {m} /\ InSet' = InSet \cup {n}
  /\ \A a \in Made : member'[a] = member[a] /\ score'[a] = score[a] /\ height'[a] = height[a]
  /\ member'[n] = m /\ score'[n] = s /\ height'[n] = h
  /\ \A a \in In : dictionary'[a] = dictionary[a]
  /\ dictionary'[m] = n
  /\ Behind(n, h, w) /\ Measured(n, h, w)

LEMMA InsertTypes ==
  ASSUME SortedInv, NEW m \in Members, NEW s \in Scores, NEW h \in 1..maxLevel, Insert(m, s, h)
  PROVE  SortedTypeOK'
<1> DEFINE w == Walk({p \in Visits : Before(p.node, s, m)})
           n == made + 1
<1>1. SortedTypeOK /\ m \in Nat /\ s \in Int /\ maxLevel \in Nat
  BY SortedSetsAssumption DEF SortedInv, Shape
<1>2. \A i \in Levels : w[i] \in Visits /\ w[i].node \in Places /\ w[i].rank \in Int
  BY WalkOnMade, VisitType DEF SortedInv, Shape
<1>3. n \in Nodes /\ n \in Places /\ h \in 0..maxLevel
  BY <1>1, NodesOfMembers, Apart DEF Insert, SortedInv
<1> HIDE DEF w
<1>4. made' \in 0..MaxNodes /\ member' \in [Nodes -> Nat] /\ score' \in [Nodes -> Int]
  <2>1. n \in 0..MaxNodes
    BY <1>3, SortedSetsAssumption DEF Nodes
  <2> QED
    BY <1>1, <2>1 DEF Insert, SortedTypeOK
<1>5. height' \in [Places -> 0..maxLevel] /\ dictionary' \in [Members -> Nodes \cup {Nil}]
  BY <1>1, <1>3 DEF Insert, SortedTypeOK
<1>6. forward' \in [Places -> [Levels -> Nodes \cup {Nil}]]
  <2>1. \A p \in Places, i \in Levels :
          (IF i >= h THEN forward[p][i]
           ELSE IF p = n THEN forward[w[i].node][i]
           ELSE IF w[i].node = p THEN n ELSE forward[p][i]) \in Nodes \cup {Nil}
    BY <1>1, <1>2, <1>3 DEF SortedTypeOK
  <2>2. forward' = [p \in Places |-> [i \in Levels |->
           IF i >= h THEN forward[p][i]
           ELSE IF p = n THEN forward[w[i].node][i]
           ELSE IF w[i].node = p THEN n ELSE forward[p][i]]]
    BY DEF Insert, w
  <2> QED
    BY <2>1, <2>2
<1>7. length' \in Nat /\ length \in Int
  BY <1>1 DEF Insert, SortedTypeOK
<1>8. span' \in [Places -> [Levels -> Int]]
  <2>1. \A i \in Levels : SpanFromNew(w[i], i, w[0]) \in Int /\ SpanUpToNew(w[i], w[0]) \in Int
    <3> SUFFICES ASSUME NEW i \in Levels
                 PROVE  SpanFromNew(w[i], i, w[0]) \in Int /\ SpanUpToNew(w[i], w[0]) \in Int
      OBVIOUS
    <3>1. w[i].rank \in Int /\ w[i].node \in Places
      BY <1>2
    <3>2. w[0].rank \in Int
      BY <1>2, Apart
    <3>3. span[w[i].node][i] \in Int
      BY <1>1, <3>1 DEF SortedTypeOK
    <3> QED
      BY <1>7, <3>1, <3>2, <3>3 DEF SpanFromNew, SpanUpToNew, OldSpan
  <2>2. \A p \in Places, i \in Levels :
          (IF i >= h THEN IF w[i].node = p THEN span[p][i] + 1 ELSE span[p][i]
           ELSE IF p = n THEN SpanFromNew(w[i], i, w[0])
           ELSE IF w[i].node = p THEN SpanUpToNew(w[i], w[0]) ELSE span[p][i]) \in Int
    <3> SUFFICES ASSUME NEW p \in Places, NEW i \in Levels
                 PROVE  (IF i >= h THEN IF w[i].node = p THEN span[p][i] + 1 ELSE span[p][i]
                         ELSE IF p = n THEN SpanFromNew(w[i], i, w[0])
                         ELSE IF w[i].node = p THEN SpanUpToNew(w[i], w[0]) ELSE span[p][i]) \in Int
      OBVIOUS
    <3>1. span[p][i] \in Int
      BY <1>1 DEF SortedTypeOK
    <3> QED
      BY <2>1, <3>1
  <2>3. span' = [p \in Places |-> [i \in Levels |->
           IF i >= h THEN IF w[i].node = p THEN span[p][i] + 1 ELSE span[p][i]
           ELSE IF p = n THEN SpanFromNew(w[i], i, w[0])
           ELSE IF w[i].node = p THEN SpanUpToNew(w[i], w[0]) ELSE span[p][i]]]
    BY DEF Insert, LastOf, Across, w
  <2> QED
    BY <2>2, <2>3
<1> QED
  BY <1>4, <1>5, <1>6, <1>7, <1>8 DEF SortedTypeOK

LEMMA InsertStarts ==
  ASSUME SortedInv, NEW m \in Members, NEW s \in Scores, NEW h \in 1..maxLevel,
         m \notin In, Insert(m, s, h)
  PROVE  \E n, w : Inserting(m, s, h, n, w)
<1> DEFINE w == Walk({p \in Visits : Before(p.node, s, m)})
           n == made + 1
<1>1. SortedTypeOK /\ Linked /\ Shape
  BY DEF SortedInv, Shape
<1>2. /\ w \in [Levels -> Visits] /\ \A i \in Levels : w[i].node \in Made \cup {Head0}
  BY <1>1, WalkIs, WalkOnMade
<1>3. n \in Nodes /\ n \notin Made /\ made \in Nat /\ Made \subseteq Nodes
  BY <1>1, NodesOfMembers DEF Insert
<1>4. Made' = Made \cup {n}
  <2>1. made' = made + 1
    BY DEF Insert
  <2>2. made \in Nat => 1..(made + 1) = (1..made) \cup {made + 1}
    OBVIOUS
  <2>3. Made' = 1..made'
    BY DEF Made
  <2> QED
    BY <1>3, <2>1, <2>2, <2>3 DEF Made
<1>5. In' = In \cup {m} /\ dictionary'[m] = n /\ \A a \in In : dictionary'[a] = dictionary[a]
  BY <1>1, <1>3, Apart DEF Insert, In, SortedTypeOK
<1>6. InSet' = InSet \cup {n}
  BY <1>5 DEF InSet
<1>7. /\ \A a \in Made : member'[a] = member[a] /\ score'[a] = score[a] /\ height'[a] = height[a]
      /\ member'[n] = m /\ score'[n] = s /\ height'[n] = h
  BY <1>1, <1>3, Apart DEF Insert, SortedTypeOK
<1>8. Behind(n, h, w)
  <2> HIDE DEF w
  <2>1. forward' = [p \in Places |-> [i \in Levels |->
           IF i >= h THEN forward[p][i]
           ELSE IF p = n THEN forward[w[i].node][i]
           ELSE IF w[i].node = p THEN n ELSE forward[p][i]]]
    BY DEF Insert, w
  <2> QED
    BY <2>1 DEF Behind
<1>9. Measured(n, h, w)
  <2> HIDE DEF w
  <2>1. span' = [p \in Places |-> [i \in Levels |->
           IF i >= h THEN IF w[i].node = p THEN span[p][i] + 1 ELSE span[p][i]
           ELSE IF p = n THEN SpanFromNew(w[i], i, w[0])
           ELSE IF w[i].node = p THEN SpanUpToNew(w[i], w[0]) ELSE span[p][i]]]
    BY DEF Insert, LastOf, Across, w
  <2> QED
    BY <2>1 DEF Measured
<1> HIDE DEF w, n
<1>10. Inserting(m, s, h, n, w)
  <2>1. w = Walk({p \in Visits : Before(p.node, s, m)})
    BY DEF w
  <2> QED
    BY <1>2, <1>3, <1>4, <1>5, <1>6, <1>7, <1>8, <1>9, <2>1 DEF Inserting
<1> QED
  BY <1>10

LEMMA InsertLinks ==
  ASSUME SortedInv, NEW m \in Members, NEW s, NEW h \in 1..maxLevel,
         NEW n, NEW w, Inserting(m, s, h, n, w), SortedTypeOK'
  PROVE  Linked' /\ \A i \in Levels : Ends(Level(i)')
<1>1. SortedTypeOK /\ Linked /\ \A i \in Levels : Ends(Level(i))
  BY DEF SortedInv, Shape
<1>2. /\ n \in Nodes /\ n \notin Made /\ Behind(n, h, w) /\ Made \subseteq Places
      /\ Made' = Made \cup {n} /\ In' = In \cup {m}
      /\ \A i \in Levels : w[i].node \in Made \cup {Head0} /\ w[i].node \in Places
  BY <1>1, NodesOfMembers, Apart DEF Inserting
<1>3. \A p \in Places, i \in Levels : forward[p][i] \in Made \cup {Nil}
  BY <1>1 DEF Linked
<1>4. \A p \in Places, i \in Levels : forward'[p][i] \in Made' \cup {Nil}
  BY <1>2, <1>3 DEF Behind
<1>5. \A a \in In' : dictionary'[a] \in Made' /\ member'[dictionary'[a]] = a
  <2>1. \A a \in In : dictionary'[a] \in Made /\ member'[dictionary'[a]] = a
    BY <1>1 DEF Linked, Inserting
  <2>2. dictionary'[m] = n /\ member'[n] = m
    BY DEF Inserting
  <2> QED
    BY <1>2, <2>1, <2>2
<1>6. \A a \in Made' : height'[a] >= 1
  <2>1. \A a \in Made : height'[a] >= 1
    BY <1>1 DEF Linked, Inserting
  <2>2. height'[n] = h /\ h >= 1
    BY Apart DEF Inserting
  <2> QED
    BY <1>2, <2>1, <2>2
<1>7. ASSUME NEW i \in Levels PROVE Ends(Level(i)')
  <2>1. \A p \in Places : Level(i)'[p] = forward'[p][i] /\ Level(i)[p] = forward[p][i]
    BY DEF Level
  <2>2. Level(i) \in [Places -> Nodes \cup {Nil}]
    BY <1>1, LevelType
  <2>3. CASE i >= h
    <3>1. \A p \in Places : Level(i)'[p] = Level(i)[p]
      BY <1>2, <2>1, <2>3 DEF Behind
    <3> QED
      BY <1>1, <3>1 DEF Ends
  <2>4. CASE ~(i >= h)
    <3> DEFINE u == w[i].node
    <3>1. \A p \in Places : Level(i)'[p] = IF p = n THEN Level(i)[u] ELSE IF p = u THEN n ELSE Level(i)[p]
      BY <1>2, <2>1, <2>4 DEF Behind
    <3>2. u \in Places /\ u # n
      BY <1>2, Apart
    <3>3. \A p \in Places : Level(i)[p] # n
      BY <1>2, <1>3, <2>1, Apart
    <3> HIDE DEF u
    <3> QED
      BY <1>1, <1>2, <2>2, <3>1, <3>2, <3>3, EndsInsert
  <2> QED
    BY <2>3, <2>4
<1> QED
  BY <1>4, <1>5, <1>6, <1>7 DEF Linked

LEMMA InsertCounts ==
  ASSUME SortedInv, NEW m \in Members, NEW s, NEW h,
         NEW n, NEW w, Inserting(m, s, h, n, w), Insert(m, s, h)
  PROVE  Counted'
<1>1. SortedTypeOK /\ Linked /\ Counted
  BY DEF SortedInv, Shape
<1>2. n \notin InSet /\ InSet' = InSet \cup {n} /\ Made' = Made \cup {n} /\ IsFiniteSet(InSet)
  BY <1>1, NodesOfMembers DEF Inserting
<1>3. Cardinality(InSet') = Cardinality(InSet) + 1 /\ Cardinality(InSet) \in Nat
  BY <1>2, FS_AddElement, FS_CardinalityType
<1>4. removals' = removals /\ length' = length + 1
  BY DEF Insert
<1> QED
  BY <1>1, <1>2, <1>3, <1>4 DEF Counted

(* A new node can be put into an order behind any node, or first.          *)
LEMMA OrderInsert ==
  ASSUME NEW S \in SUBSET Nodes, NEW n \in Nodes, n \notin S, NEW R, IsOrder(R, S),
         NEW u \in S \cup {Head0}
  PROVE  \E R2 \in SUBSET (Nodes \X Nodes) :
           /\ IsOrder(R2, S \cup {n}) /\ After(u, n, R2)
           /\ \A a, b \in S : <<a, b>> \in R <=> <<a, b>> \in R2
           /\ \A b \in S : After(u, b, R) => <<n, b>> \in R2
<1> DEFINE R2 == {e \in Nodes \X Nodes :
                    \/ e[1] \in S /\ e[2] \in S /\ e \in R
                    \/ e[2] = n /\ e[1] \in S /\ ~After(u, e[1], R)
                    \/ e[1] = n /\ e[2] \in S /\ After(u, e[2], R)}
<1>1. R2 \in SUBSET (Nodes \X Nodes)
  OBVIOUS
<1>2. \A a, b \in S : <<a, b>> \in R <=> <<a, b>> \in R2
  OBVIOUS
<1>3. \A a \in S : <<a, n>> \in R2 <=> ~After(u, a, R)
  OBVIOUS
<1>4. \A a \in S : <<n, a>> \in R2 <=> After(u, a, R)
  OBVIOUS
<1>5. <<n, n>> \notin R2
  OBVIOUS
<1> HIDE DEF R2
<1>6. After(u, n, R2)
  BY <1>3 DEF After, IsOrder
<1>7. \A a, b \in S : <<a, b>> \in R /\ After(u, a, R) => After(u, b, R)
  BY DEF After, IsOrder
<1>8. \A a, b \in S : ~After(u, a, R) /\ After(u, b, R) => <<a, b>> \in R
  BY DEF After, IsOrder
<1>9. \A a \in S \cup {n} : <<a, a>> \notin R2
  BY <1>2, <1>5 DEF IsOrder
<1>10. \A a, b \in S \cup {n} : a # b => <<a, b>> \in R2 \/ <<b, a>> \in R2
  BY <1>2, <1>3, <1>4 DEF IsOrder
<1>11. ASSUME NEW a \in S \cup {n}, NEW b \in S \cup {n}, NEW c \in S \cup {n},
              <<a, b>> \in R2, <<b, c>> \in R2
       PROVE  <<a, c>> \in R2
  <2>1. CASE a = n
    BY <1>2, <1>3, <1>4, <1>5, <1>7, <1>11, <2>1
  <2>2. CASE a # n /\ b = n
    BY <1>2, <1>3, <1>4, <1>5, <1>8, <1>11, <2>2
  <2>3. CASE a # n /\ b # n /\ c = n
    BY <1>2, <1>3, <1>4, <1>7, <1>11, <2>3
  <2>4. CASE a # n /\ b # n /\ c # n
    <3>1. a \in S /\ b \in S /\ c \in S
      BY <2>4
    <3> QED
      BY <1>2, <1>11, <3>1 DEF IsOrder
  <2> QED
    BY <2>1, <2>2, <2>3, <2>4
<1>12. IsOrder(R2, S \cup {n})
  BY <1>9, <1>10, <1>11 DEF IsOrder
<1> QED
  BY <1>1, <1>2, <1>4, <1>6, <1>12

LEMMA InsertSomewhere ==
  ASSUME SortedInv, NEW m \in Members, NEW s, NEW h \in 1..maxLevel,
         NEW n, NEW w, Inserting(m, s, h, n, w), Insert(m, s, h)
  PROVE  InSomeOrder'
<1> SUFFICES ASSUME removals = 0
             PROVE  \E R \in SUBSET (Nodes \X Nodes) : IsOrder(R, InSet') /\ Chained(Level(0)', InSet', R)
  <2>1. removals' = removals
    BY DEF Insert
  <2> QED
    BY <2>1 DEF InSomeOrder, IsOrder, Chained, After
<1>1. SortedTypeOK /\ Linked /\ Counted /\ InSomeOrder
  BY DEF SortedInv, Shape
<1>2. InSet = Made /\ InSet \in SUBSET Nodes /\ n \in Nodes /\ n \notin InSet /\ InSet' = InSet \cup {n}
  BY <1>1, NodesOfMembers DEF Inserting, Counted
<1>3. PICK R \in SUBSET (Nodes \X Nodes) : IsOrder(R, InSet) /\ Chained(Level(0), InSet, R)
  BY <1>1 DEF InSomeOrder
<1> DEFINE u == w[0].node
           next == Level(0)
           next2 == Level(0)'
<1>4. u \in InSet \cup {Head0}
  BY <1>2, Apart DEF Inserting
<1>5. \A p \in InSet \cup {n, Head0} : next2[p] = IF p = n THEN next[u] ELSE IF p = u THEN n ELSE next[p]
  <2>1. \A p \in Places : next2[p] = IF p = n THEN next[u] ELSE IF p = u THEN n ELSE next[p]
    <3>1. Behind(n, h, w) /\ 0 \in Levels /\ u \in Places
      BY <1>2, <1>4, Apart DEF Inserting
    <3>2. ~(0 >= h)
      BY Apart
    <3> QED
      BY <3>1, <3>2 DEF Behind, Level
  <2> QED
    BY <1>2, <2>1, Apart
<1> HIDE DEF u, next, next2
<1>6. PICK R2 \in SUBSET (Nodes \X Nodes) :
           /\ IsOrder(R2, InSet \cup {n}) /\ After(u, n, R2)
           /\ \A a, b \in InSet : <<a, b>> \in R <=> <<a, b>> \in R2
           /\ \A b \in InSet : After(u, b, R) => <<n, b>> \in R2
  BY <1>2, <1>3, <1>4, OrderInsert
<1>7. Chained(next, InSet, R)
  BY <1>3 DEF next
<1>8. Chained(next, InSet, R2)
  BY <1>6, <1>7, ChainedAgain
<1>9. next[u] # Nil => <<n, next[u]>> \in R2
  BY <1>4, <1>6, <1>7 DEF Chained
<1>10. Chained(next2, InSet \cup {n}, R2)
  BY <1>2, <1>4, <1>5, <1>6, <1>8, <1>9, ChainedInsert
<1> QED
  BY <1>2, <1>6, <1>10 DEF next2

(* Pointers in order leave a lower part D of S at one place only.          *)
LEMMA OneCrossing ==
  ASSUME NEW S \in SUBSET Nodes, NEW R, IsOrder(R, S), NEW next, Chained(next, S, R),
         NEW D \in SUBSET S, \A a \in D, b \in S : <<b, a>> \in R => b \in D,
         NEW u \in D \cup {Head0}, next[u] \notin D,
         NEW p \in D \cup {Head0}, next[p] \notin D
  PROVE  u = p
<1>1. Head0 \notin S
  BY Apart
<1>2. ASSUME NEW x \in D \cup {Head0}, NEW y \in D, next[x] \notin D PROVE ~After(x, y, R)
  <2> SUFFICES ASSUME After(x, y, R) PROVE FALSE
    OBVIOUS
  <2>1. next[x] \in S \cup {Nil} /\ next[x] # Nil /\ (y = next[x] \/ <<next[x], y>> \in R)
    BY DEF Chained
  <2> QED
    BY <1>2, <2>1
<1>3. CASE u = Head0
  BY <1>2, <1>3 DEF After
<1>4. CASE p = Head0
  BY <1>2, <1>4 DEF After
<1>5. CASE u \in D /\ p \in D
  BY <1>2, <1>5 DEF After, IsOrder
<1> QED
  BY <1>3, <1>4, <1>5

LEMMA PlaceInsert ==
  ASSUME NEW S, IsFiniteSet(S), NEW n, n \notin S, NEW R2, IsOrder(R2, S \cup {n}),
         NEW R, \A a, b \in S : <<a, b>> \in R <=> <<a, b>> \in R2, NEW a \in S
  PROVE  Place(a, S \cup {n}, R2) = IF <<n, a>> \in R2 THEN Place(a, S, R) + 1 ELSE Place(a, S, R)
<1> DEFINE B == Below(a, S, R)
           B2 == Below(a, S \cup {n}, R2)
<1>1. B \subseteq S /\ B2 = IF <<n, a>> \in R2 THEN B \cup {n} ELSE B
  BY DEF Below
<1>2. IsFiniteSet(B) /\ Cardinality(B) \in Nat /\ n \notin B
  BY <1>1, FS_Subset, FS_CardinalityType
<1>3. Cardinality(B \cup {n}) = Cardinality(B) + 1
  BY <1>2, FS_AddElement
<1> QED
  BY <1>1, <1>2, <1>3 DEF Place

LEMMA PlaceBehind ==
  ASSUME NEW S, IsFiniteSet(S), NEW R, IsOrder(R, S), NEW n, n \notin S,
         NEW R2, <<n, n>> \notin R2, NEW u \in S, \A a \in S : <<a, n>> \in R2 <=> ~After(u, a, R),
         u # Head0
  PROVE  Place(n, S \cup {n}, R2) = Place(u, S, R) + 1
<1> DEFINE B == Below(u, S, R)
           B2 == Below(n, S \cup {n}, R2)
<1>1. \A a \in S : <<a, n>> \in R2 <=> (a = u \/ <<a, u>> \in R)
  BY DEF After, IsOrder
<1>2. B2 = B \cup {u} /\ u \notin B
  BY <1>1 DEF Below, IsOrder
<1>3. IsFiniteSet(B) /\ Cardinality(B) \in Nat
  BY PlaceType
<1>4. Cardinality(B \cup {u}) = Cardinality(B) + 1
  BY <1>2, <1>3, FS_AddElement
<1> QED
  BY <1>2, <1>3, <1>4 DEF Place

(* The order of the new node among the others, by score.                   *)
LEMMA InsertOrder ==
  ASSUME SortedInv, NEW m \in Members, m \notin In, NEW s \in Scores, NEW h,
         NEW n, NEW w, Inserting(m, s, h, n, w), SortedTypeOK'
  PROVE  /\ \A a, b \in InSet : <<a, b>> \in ScoreOrder <=> <<a, b>> \in ScoreOrder'
         /\ \A a \in InSet : <<a, n>> \in ScoreOrder' <=> Before(a, s, m)
         /\ \A a \in InSet : <<n, a>> \in ScoreOrder' <=> ~Before(a, s, m)
         /\ \A a, b \in InSet : Before(b, s, m) /\ <<a, b>> \in ScoreOrder => Before(a, s, m)
         /\ IsOrder(ScoreOrder', InSet \cup {n})
<1>1. SortedTypeOK /\ Linked
  BY DEF SortedInv, Shape
<1>2. InSet \subseteq Nodes /\ n \in Nodes /\ n \notin InSet /\ s \in Int /\ m \in Nat /\ InSet \subseteq Made
  BY <1>1, NodesOfMembers, SortedSetsAssumption DEF Inserting
<1>3. \A a \in InSet : /\ score[a] \in Int /\ member[a] \in Nat /\ member[a] # m
                       /\ score'[a] = score[a] /\ member'[a] = member[a]
  BY <1>1, <1>2, NodesOfMembers DEF SortedTypeOK, Inserting
<1>4. score'[n] = s /\ member'[n] = m
  BY DEF Inserting
<1>5. \A a, b \in Nodes :
        <<a, b>> \in ScoreOrder' <=> (score'[a] < score'[b] \/ (score'[a] = score'[b] /\ member'[a] < member'[b]))
  <2> SUFFICES ASSUME NEW a \in Nodes, NEW b \in Nodes
               PROVE  <<a, b>> \in ScoreOrder' <=>
                        (score'[a] < score'[b] \/ (score'[a] = score'[b] /\ member'[a] < member'[b]))
    OBVIOUS
  <2>1. <<a, b>> \in Nodes \X Nodes
    OBVIOUS
  <2> QED
    BY <2>1 DEF ScoreOrder
<1>6. \A a, b \in InSet : <<a, b>> \in ScoreOrder <=> <<a, b>> \in ScoreOrder'
  <2> SUFFICES ASSUME NEW a \in InSet, NEW b \in InSet
               PROVE  <<a, b>> \in ScoreOrder <=> <<a, b>> \in ScoreOrder'
    OBVIOUS
  <2>1. a \in Nodes /\ b \in Nodes
    BY <1>2
  <2>2. <<a, b>> \in ScoreOrder <=> (score[a] < score[b] \/ (score[a] = score[b] /\ member[a] < member[b]))
    BY <2>1, ScoreOrderIs
  <2> QED
    BY <1>3, <1>5, <2>1, <2>2
<1>7. \A a \in InSet : <<a, n>> \in ScoreOrder' <=> Before(a, s, m)
  BY <1>2, <1>3, <1>4, <1>5 DEF Before
<1>8. \A a \in InSet : <<n, a>> \in ScoreOrder' <=> ~Before(a, s, m)
  BY <1>2, <1>3, <1>4, <1>5 DEF Before
<1>9. \A a, b \in InSet : Before(b, s, m) /\ <<a, b>> \in ScoreOrder => Before(a, s, m)
  BY <1>2, <1>3, ScoreOrderIs DEF Before
<1>10. IsOrder(ScoreOrder', InSet \cup {n})
  <2> DEFINE T == InSet \cup {n}
  <2>1. T \subseteq Nodes /\ score' \in [Nodes -> Int] /\ member' \in [Nodes -> Nat]
    BY <1>2 DEF SortedTypeOK
  <2>2. \A a, b \in T : member'[a] = member'[b] => a = b
    BY <1>1, <1>3, <1>4, NodesOfMembers
  <2>3. \A a, b \in T :
          <<a, b>> \in ScoreOrder' <=> (score'[a] < score'[b] \/ (score'[a] = score'[b] /\ member'[a] < member'[b]))
    BY <1>5, <2>1
  <2> HIDE DEF T
  <2>4. IsOrder(ScoreOrder', T)
    BY <2>1, <2>2, <2>3, OrderOf
  <2> QED
    BY <2>4 DEF T
<1> QED
  BY <1>6, <1>7, <1>8, <1>9, <1>10

(* The walk of an insertion ends on each level right before the members    *)
(* that come later.                                                        *)
LEMMA InsertWalk ==
  ASSUME SortedInv, InScoreOrder, NEW m \in Members, m \notin In, NEW s \in Scores, NEW h,
         NEW n, NEW w, Inserting(m, s, h, n, w), SortedTypeOK', NEW i \in Levels
  PROVE  /\ w[i].node = Head0 \/ (w[i].node \in On(i) /\ Before(w[i].node, s, m))
         /\ forward[w[i].node][i] \in On(i) \cup {Nil}
         /\ forward[w[i].node][i] # Nil => ~Before(forward[w[i].node][i], s, m)
         /\ SpansRight => w[i].rank = Pos(w[i].node)
<1> DEFINE may == {p \in Visits : Before(p.node, s, m)}
<1>1. Shape /\ Linked /\ SortedTypeOK /\ w = Walk(may)
  BY DEF SortedInv, Inserting, Shape
<1>2. /\ w[i] \in Visits /\ ~Goes(may, i, w[i])
      /\ w[i].node = Head0 \/ (w[i].node \in On(i) /\ w[i] \in may)
      /\ SpansRight => w[i].rank = Pos(w[i].node)
  <2> HIDE DEF may
  <2> QED
    BY <1>1, WalkOnLevel
<1>3. forward[w[i].node][i] \in On(i) \cup {Nil}
  <2>1. Level(i)[w[i].node] = forward[w[i].node][i]
    BY <1>1, <1>2, VisitType, LevelType
  <2> QED
    BY <1>2, <2>1 DEF InScoreOrder, Chained
<1>4. forward[w[i].node][i] # Nil => ~Before(forward[w[i].node][i], s, m)
  BY <1>1, <1>2, VisitType DEF Goes, NextPlace
<1> QED
  BY <1>2, <1>3, <1>4

LEMMA InsertInOrder ==
  ASSUME SortedInv, InScoreOrder, NEW m \in Members, m \notin In, NEW s \in Scores,
         NEW h \in 1..maxLevel,
         NEW n, NEW w, Inserting(m, s, h, n, w), SortedTypeOK'
  PROVE  /\ InScoreOrder'
         /\ \A i \in Levels : On(i)' = IF i >= h THEN On(i) ELSE On(i) \cup {n}
<1>1. SortedTypeOK /\ Linked
  BY DEF SortedInv, Shape
<1>2. /\ n \in Nodes /\ n \notin InSet /\ InSet' = InSet \cup {n} /\ Behind(n, h, w) /\ h \in Int
      /\ \A i \in Levels : w[i].node \in Places
      /\ \A a \in InSet : height'[a] = height[a]
      /\ height'[n] = h
  <2>1. h \in Int
    OBVIOUS
  <2>2. InSet \subseteq Made /\ Made \subseteq Places /\ Head0 \in Places
    BY <1>1, NodesOfMembers, Apart
  <2> QED
    BY <2>1, <2>2 DEF Inserting
<1>3. ASSUME NEW i \in Levels
      PROVE  /\ On(i)' = IF i >= h THEN On(i) ELSE On(i) \cup {n}
             /\ Chained(Level(i)', On(i)', ScoreOrder')
  <2>1. i \in Int
    BY Apart
  <2>2. On(i)' = IF i >= h THEN On(i) ELSE On(i) \cup {n}
    BY <1>2, <2>1 DEF On
  <2>3. Chained(Level(i), On(i), ScoreOrder) /\ On(i) \subseteq InSet /\ On(i) \in SUBSET Nodes
    BY <1>1, OnLevel, NodesOfMembers DEF InScoreOrder
  <2>4. \A a, b \in On(i) : <<a, b>> \in ScoreOrder <=> <<a, b>> \in ScoreOrder'
    BY <2>3, InsertOrder
  <2>5. \A p \in Places : Level(i)'[p] = forward'[p][i] /\ Level(i)[p] = forward[p][i]
    BY DEF Level
  <2>6. On(i) \cup {n, Head0} \subseteq Places
    BY <1>2, <2>3, Apart
  <2>7. CASE i >= h
    <3>1. \A p \in On(i) \cup {Head0} : Level(i)'[p] = Level(i)[p]
      BY <1>2, <2>5, <2>6, <2>7 DEF Behind
    <3>2. Chained(Level(i)', On(i), ScoreOrder')
      BY <2>3, <2>4, <3>1, ChainedAgain
    <3> QED
      BY <2>2, <2>7, <3>2
  <2>8. CASE ~(i >= h)
    <3> DEFINE u == w[i].node
               next == Level(i)
               next2 == Level(i)'
    <3>1. \A p \in On(i) \cup {n, Head0} : next2[p] = IF p = n THEN next[u] ELSE IF p = u THEN n ELSE next[p]
      BY <1>2, <2>5, <2>6, <2>8 DEF Behind
    <3>2. /\ u = Head0 \/ (u \in On(i) /\ Before(u, s, m))
          /\ next[u] \in On(i) \cup {Nil}
          /\ next[u] # Nil => ~Before(next[u], s, m)
      BY <1>2, <2>5, InsertWalk
    <3>3. After(u, n, ScoreOrder')
      BY <2>3, <3>2, InsertOrder DEF After
    <3>4. next[u] # Nil => <<n, next[u]>> \in ScoreOrder'
      <4> SUFFICES ASSUME next[u] # Nil PROVE <<n, next[u]>> \in ScoreOrder'
        OBVIOUS
      <4>1. next[u] \in InSet /\ ~Before(next[u], s, m)
        BY <2>3, <3>2
      <4> HIDE DEF next, u
      <4> QED
        BY <4>1, InsertOrder
    <3>5. IsOrder(ScoreOrder', On(i) \cup {n})
      <4>1. IsOrder(ScoreOrder', InSet \cup {n}) /\ On(i) \cup {n} \in SUBSET (InSet \cup {n})
        BY <2>3, InsertOrder
      <4> QED
        BY <4>1, OrderAgain
    <3>6. Chained(next, On(i), ScoreOrder')
      BY <2>3, <2>4, ChainedAgain
    <3>7. u \in On(i) \cup {Head0} /\ n \notin On(i)
      BY <1>2, <2>3, <3>2
    <3>8. Chained(next2, On(i) \cup {n}, ScoreOrder')
      <4> HIDE DEF u, next, next2
      <4> QED
        BY <1>2, <2>3, <3>1, <3>3, <3>4, <3>5, <3>6, <3>7, ChainedInsert
    <3> QED
      BY <2>2, <2>8, <3>8
  <2> QED
    BY <2>2, <2>7, <2>8
<1>4. InScoreOrder'
  BY <1>3 DEF InScoreOrder, Chained, After
<1> QED
  BY <1>3, <1>4

LEMMA InsertPlaces ==
  ASSUME SortedInv, InScoreOrder, NEW m \in Members, m \notin In, NEW s \in Scores, NEW h,
         NEW n, NEW w, Inserting(m, s, h, n, w), SortedTypeOK'
  PROVE  /\ \A a \in InSet : PosIn(a, InSet', ScoreOrder') = IF Before(a, s, m) THEN Pos(a) ELSE Pos(a) + 1
         /\ PosIn(n, InSet', ScoreOrder') = Pos(w[0].node) + 1
<1>1. /\ SortedTypeOK /\ Linked /\ IsFiniteSet(InSet) /\ InSet \subseteq Nodes
      /\ n \in Nodes /\ n \notin InSet /\ InSet' = InSet \cup {n}
      /\ IsOrder(ScoreOrder, InSet) /\ IsOrder(ScoreOrder', InSet \cup {n})
  <2>1. SortedTypeOK /\ Linked
    BY DEF SortedInv, Shape
  <2>2. IsOrder(ScoreOrder', InSet \cup {n})
    BY InsertOrder
  <2> QED
    BY <2>1, <2>2, NodesOfMembers DEF Inserting
<1>2. PICK R2 : R2 = ScoreOrder'
  OBVIOUS
<1>3. \A a \in InSet \cup {n} : PosIn(a, InSet', ScoreOrder') = Place(a, InSet \cup {n}, R2)
  BY <1>1, <1>2, Apart DEF PosIn
<1>4. /\ IsOrder(R2, InSet \cup {n}) /\ <<n, n>> \notin R2
      /\ \A a, b \in InSet : <<a, b>> \in ScoreOrder <=> <<a, b>> \in R2
      /\ \A a \in InSet : <<n, a>> \in R2 <=> ~Before(a, s, m)
      /\ \A a \in InSet : <<a, n>> \in R2 <=> Before(a, s, m)
  BY <1>1, <1>2, InsertOrder DEF IsOrder
<1>5. ASSUME NEW a \in InSet PROVE PosIn(a, InSet', ScoreOrder') = IF Before(a, s, m) THEN Pos(a) ELSE Pos(a) + 1
  <2>1. Place(a, InSet \cup {n}, R2)
          = IF <<n, a>> \in R2 THEN Place(a, InSet, ScoreOrder) + 1 ELSE Place(a, InSet, ScoreOrder)
    BY <1>1, <1>4, PlaceInsert
  <2>2. Pos(a) = Place(a, InSet, ScoreOrder)
    BY <1>1, PosIs, Apart
  <2> QED
    BY <1>3, <1>4, <2>1, <2>2
<1> DEFINE u == w[0].node
<1>6. /\ u = Head0 \/ (u \in InSet /\ Before(u, s, m))
      /\ Level(0)[u] # Nil => Level(0)[u] \in InSet /\ ~Before(Level(0)[u], s, m)
      /\ Chained(Level(0), InSet, ScoreOrder)
  <2>1. 0 \in Levels /\ On(0) = InSet
    BY <1>1, Apart, OnLevel
  <2>2. /\ u = Head0 \/ (u \in InSet /\ Before(u, s, m))
        /\ forward[u][0] \in InSet \cup {Nil}
        /\ forward[u][0] # Nil => ~Before(forward[u][0], s, m)
    BY <2>1, InsertWalk
  <2>3. Level(0)[u] = forward[u][0]
    BY <1>1, <2>2, Apart DEF Level
  <2> QED
    BY <2>1, <2>2, <2>3 DEF InScoreOrder
<1> HIDE DEF u
<1>7. ASSUME NEW a \in InSet PROVE <<a, n>> \in R2 <=> ~After(u, a, ScoreOrder)
  <2>1. ASSUME After(u, a, ScoreOrder) PROVE ~Before(a, s, m)
    <3>1. /\ Level(0)[u] \in InSet /\ ~Before(Level(0)[u], s, m)
          /\ a = Level(0)[u] \/ <<Level(0)[u], a>> \in ScoreOrder
      BY <1>6, <2>1 DEF Chained
    <3> QED
      BY <3>1, InsertOrder
  <2>2. ASSUME ~After(u, a, ScoreOrder) PROVE Before(a, s, m)
    <3>1. u \in InSet /\ Before(u, s, m) /\ (a = u \/ <<a, u>> \in ScoreOrder)
      BY <1>1, <1>6, <2>2 DEF After, IsOrder
    <3> QED
      BY <3>1, InsertOrder
  <2> QED
    BY <1>4, <2>1, <2>2
<1>8. PosIn(n, InSet', ScoreOrder') = Pos(u) + 1
  <2>1. CASE u = Head0
    <3>1. Below(n, InSet \cup {n}, R2) = {}
      BY <1>4, <1>7, <2>1 DEF Below, After
    <3>2. Pos(u) = 0 /\ Place(n, InSet \cup {n}, R2) = 1
      BY <2>1, <3>1, FS_EmptySet DEF Pos, PosIn, Place
    <3> QED
      BY <1>3, <3>2
  <2>2. CASE u # Head0
    <3>1. u \in InSet /\ Pos(u) = Place(u, InSet, ScoreOrder)
      BY <1>1, <1>6, <2>2, PosIs
    <3>2. Place(n, InSet \cup {n}, R2) = Place(u, InSet, ScoreOrder) + 1
      BY <1>1, <1>4, <1>7, <2>2, <3>1, PlaceBehind
    <3> QED
      BY <1>3, <3>1, <3>2
  <2> QED
    BY <2>1, <2>2
<1> QED
  BY <1>5, <1>8 DEF u

LEMMA InsertMeasures ==
  ASSUME SortedInv, InScoreOrder, SpansRight, NEW m \in Members, m \notin In, NEW s \in Scores,
         NEW h \in 1..maxLevel,
         NEW n, NEW w, Inserting(m, s, h, n, w), SortedTypeOK'
  PROVE  SpansRight'
<1>1. /\ SortedTypeOK /\ Linked /\ InSet \subseteq Nodes /\ InSet \in SUBSET Nodes
      /\ n \in Nodes /\ n \notin InSet /\ n # Head0 /\ Head0 \notin InSet
      /\ Behind(n, h, w) /\ Measured(n, h, w)
      /\ \A p \in InSet : p # Nil
  <2>1. SortedTypeOK /\ Linked
    BY DEF SortedInv, Shape
  <2> QED
    BY <2>1, NodesOfMembers, Apart DEF Inserting
<1>2. h \in Int /\ 0 \in Levels
  BY Apart
<1>3. PICK pos : \A x \in Places : pos[x] = Pos(x)
  <2>1. \A x \in Places : [y \in Places |-> Pos(y)][x] = Pos(x)
    OBVIOUS
  <2> QED
    BY <2>1
<1>4. PICK pos2 : \A x \in Places : pos2[x] = PosIn(x, InSet', ScoreOrder')
  <2>1. \A x \in Places : [y \in Places |-> PosIn(y, InSet', ScoreOrder')][x] = PosIn(x, InSet', ScoreOrder')
    OBVIOUS
  <2> QED
    BY <2>1
<1>5. /\ \A a \in InSet : pos2[a] = IF Before(a, s, m) THEN pos[a] ELSE pos[a] + 1
      /\ pos2[Head0] = 0 /\ pos[Head0] = 0
      /\ \A a \in InSet \cup {Head0} : pos[a] \in Int
  <2>1. \A a \in InSet \cup {Head0} : a \in Places
    BY <1>1, Apart
  <2>2. pos2[Head0] = 0 /\ pos[Head0] = 0
    BY <1>3, <1>4, <2>1 DEF Pos, PosIn
  <2>3. \A a \in InSet : pos2[a] = IF Before(a, s, m) THEN pos[a] ELSE pos[a] + 1
    BY <1>3, <1>4, <2>1, InsertPlaces
  <2>4. \A a \in InSet \cup {Head0} : pos[a] \in Int
    BY <1>1, <1>3, <2>1, PosIs
  <2> QED
    BY <2>2, <2>3, <2>4
<1>6. PICK first : first = w[0].node
  OBVIOUS
<1>7. (first = Head0 \/ first \in InSet) /\ w[0].rank = pos[first] /\ pos2[n] = pos[first] + 1
      /\ pos[first] \in Int
  <2>1. (first = Head0 \/ first \in On(0)) /\ w[0].rank = Pos(first) /\ On(0) = InSet
    BY <1>1, <1>2, <1>6, InsertWalk, OnLevel
  <2>2. first \in Places /\ n \in Places
    BY <1>1, <2>1, Apart
  <2>3. PosIn(n, InSet', ScoreOrder') = Pos(first) + 1
    BY <1>6, InsertPlaces
  <2> QED
    BY <1>3, <1>4, <1>5, <2>1, <2>2, <2>3
<1>8. ASSUME NEW i \in Levels, NEW p \in On(i)' \cup {Head0}, forward'[p][i] # Nil
      PROVE  forward'[p][i] \in Places /\ p \in Places /\ span'[p][i] = pos2[forward'[p][i]] - pos2[p]
  <2>1. /\ On(i) \subseteq InSet /\ i \in Int /\ IsOrder(ScoreOrder, On(i))
        /\ On(i) \in SUBSET Nodes /\ Nil \notin On(i)
    <3>1. On(i) \subseteq InSet /\ IsOrder(ScoreOrder, On(i))
      BY <1>1, OnLevel
    <3>2. i \in Int
      BY Apart
    <3>3. On(i) \subseteq Nodes /\ Nil \notin On(i)
      BY <1>1, <3>1
    <3> QED
      BY <3>1, <3>2, <3>3
  <2>2. PICK u : u = w[i].node
    OBVIOUS
  <2>3. PICK next : next = Level(i)
    OBVIOUS
  <2>4. Chained(next, On(i), ScoreOrder) /\ \A x \in Places : next[x] = forward[x][i]
    BY <2>3 DEF InScoreOrder, Level
  <2>5. On(i) \cup {Head0} \subseteq Places /\ \A x \in On(i) \cup {Head0} : next[x] \in On(i) \cup {Nil}
    BY <1>1, <2>1, <2>4, Apart DEF Chained
  <2>6. /\ u = Head0 \/ (u \in On(i) /\ Before(u, s, m))
        /\ next[u] # Nil => ~Before(next[u], s, m)
        /\ w[i].rank = pos[u]
    <3>1. /\ u = Head0 \/ (u \in On(i) /\ Before(u, s, m))
          /\ forward[u][i] # Nil => ~Before(forward[u][i], s, m)
          /\ w[i].rank = Pos(u)
      BY <2>2, InsertWalk
    <3>2. u \in Places
      BY <2>5, <3>1
    <3> QED
      BY <1>3, <2>4, <3>1, <3>2
  <2>7. u \in Places /\ pos2[u] = pos[u] /\ pos[u] \in Int
    BY <1>5, <2>1, <2>5, <2>6
  <2>8. On(i)' = IF i >= h THEN On(i) ELSE On(i) \cup {n}
    BY InsertInOrder
  <2>9. p \in Places /\ (p = n => ~(i >= h)) /\ (p # n => p \in On(i) \cup {Head0})
    BY <1>1, <2>1, <2>5, <2>8, Apart
  <2>10. \A x \in On(i) \cup {Head0} : next[x] # Nil =>
           /\ span[x][i] = pos[next[x]] - pos[x]
           /\ pos[x] \in Int /\ pos[next[x]] \in Int
           /\ next[x] \in InSet /\ next[x] \in Places
    <3> SUFFICES ASSUME NEW x \in On(i) \cup {Head0}, next[x] # Nil
                 PROVE  /\ span[x][i] = pos[next[x]] - pos[x]
                        /\ pos[x] \in Int /\ pos[next[x]] \in Int
                        /\ next[x] \in InSet /\ next[x] \in Places
      OBVIOUS
    <3>1. next[x] \in InSet /\ next[x] \in Places /\ x \in Places /\ next[x] = forward[x][i]
      BY <2>1, <2>4, <2>5
    <3>2. span[x][i] = Pos(next[x]) - Pos(x)
      BY <3>1 DEF SpansRight
    <3> QED
      BY <1>3, <1>5, <2>1, <3>1, <3>2
  <2>11. next[u] # Nil => pos2[next[u]] = pos[next[u]] + 1 /\ span[u][i] = pos[next[u]] - pos[u]
                          /\ pos[next[u]] \in Int /\ next[u] \in Places
    BY <1>5, <2>6, <2>10
  <2>12. ASSUME p # u, p \in On(i) \cup {Head0}, next[p] # Nil
         PROVE  pos2[next[p]] - pos2[p] = span[p][i] /\ next[p] \in Places
    <3>1. PICK q : q = next[p]
      OBVIOUS
    <3>2. /\ q \in InSet /\ q \in Places /\ q \in On(i)
          /\ span[p][i] = pos[q] - pos[p] /\ pos[p] \in Int /\ pos[q] \in Int
      BY <2>5, <2>10, <2>12, <3>1
    <3>3. CASE p # Head0 /\ ~Before(p, s, m)
      <4>1. p \in InSet /\ <<p, q>> \in ScoreOrder
        BY <2>1, <2>4, <2>12, <3>1, <3>3 DEF Chained, After
      <4>2. ~Before(q, s, m)
        BY <3>2, <3>3, <4>1, InsertOrder
      <4>3. pos2[p] = pos[p] + 1 /\ pos2[q] = pos[q] + 1
        BY <1>5, <3>2, <3>3, <4>1, <4>2
      <4> QED
        BY <3>1, <3>2, <4>3
    <3>4. CASE p = Head0 \/ Before(p, s, m)
      <4>1. Before(q, s, m)
        <5> SUFFICES ASSUME ~Before(q, s, m) PROVE FALSE
          OBVIOUS
        <5>1. PICK D : D = {x \in On(i) : Before(x, s, m)}
          OBVIOUS
        <5>2. D \in SUBSET On(i) /\ u \in D \cup {Head0} /\ p \in D \cup {Head0}
          BY <2>6, <2>12, <3>4, <5>1
        <5>3. \A a \in D, b \in On(i) : <<b, a>> \in ScoreOrder => b \in D
          BY <2>1, <5>1, InsertOrder
        <5>4. next[u] \notin D /\ next[p] \notin D
          BY <2>1, <2>6, <3>1, <5>1
        <5>5. PICK S, R : S = On(i) /\ R = ScoreOrder
          OBVIOUS
        <5>6. S \in SUBSET Nodes /\ IsOrder(R, S) /\ Chained(next, S, R)
          BY <2>1, <2>4, <5>5
        <5>7. D \in SUBSET S /\ \A a \in D, b \in S : <<b, a>> \in R => b \in D
          BY <5>2, <5>3, <5>5
        <5>8. u \in D \cup {Head0} /\ p \in D \cup {Head0} /\ next[u] \notin D /\ next[p] \notin D
          BY <5>2, <5>4
        <5>9. u = p
          BY <5>6, <5>7, <5>8, OneCrossing
        <5> QED
          BY <2>12, <5>9
      <4>2. pos2[q] = pos[q] /\ pos2[p] = pos[p]
        BY <1>5, <2>1, <2>12, <3>2, <3>4, <4>1
      <4> QED
        BY <3>1, <3>2, <4>2
    <3> QED
      BY <3>3, <3>4
  <2>13. CASE i >= h
    <3>1. p \in On(i) \cup {Head0} /\ forward'[p][i] = next[p]
      BY <1>1, <2>4, <2>9, <2>13 DEF Behind
    <3>2. span'[p][i] = IF u = p THEN span[p][i] + 1 ELSE span[p][i]
      BY <1>1, <2>2, <2>9, <2>13 DEF Measured
    <3>3. CASE u = p
      BY <1>8, <2>7, <2>11, <3>1, <3>2, <3>3
    <3>4. CASE u # p
      BY <1>8, <2>9, <2>12, <3>1, <3>2, <3>4
    <3> QED
      BY <3>3, <3>4
  <2>14. CASE ~(i >= h) /\ p = n
    <3>1. forward'[p][i] = next[u] /\ span'[p][i] = SpanFromNew(w[i], i, w[0])
      BY <1>1, <2>2, <2>4, <2>7, <2>9, <2>14 DEF Behind, Measured
    <3>2. SpanFromNew(w[i], i, w[0]) = span[u][i] - (pos[first] - pos[u])
      BY <1>7, <1>8, <2>2, <2>4, <2>6, <2>7, <3>1 DEF SpanFromNew, OldSpan
    <3> QED
      BY <1>7, <1>8, <2>7, <2>9, <2>11, <2>14, <3>1, <3>2
  <2>15. CASE ~(i >= h) /\ p = u /\ p # n
    <3>1. forward'[p][i] = n /\ span'[p][i] = SpanUpToNew(w[i], w[0])
      BY <1>1, <2>2, <2>9, <2>15 DEF Behind, Measured
    <3>2. SpanUpToNew(w[i], w[0]) = pos[first] - pos[u] + 1
      BY <1>7, <2>6 DEF SpanUpToNew
    <3>3. n \in Places
      BY <1>1, Apart
    <3> QED
      BY <1>7, <2>7, <2>15, <3>1, <3>2, <3>3
  <2>16. CASE ~(i >= h) /\ p # u /\ p # n
    <3>1. p \in On(i) \cup {Head0} /\ forward'[p][i] = next[p] /\ span'[p][i] = span[p][i]
      BY <1>1, <2>2, <2>4, <2>9, <2>16 DEF Behind, Measured
    <3> QED
      BY <1>8, <2>9, <2>12, <2>16, <3>1
  <2> QED
    BY <2>13, <2>14, <2>15, <2>16
<1>9. ASSUME NEW i \in Levels, NEW p \in On(i)' \cup {Head0}, forward'[p][i] # Nil
      PROVE  span'[p][i] = PosIn(forward'[p][i], InSet', ScoreOrder') - PosIn(p, InSet', ScoreOrder')
  BY <1>4, <1>8, <1>9
<1> QED
  BY <1>9 DEF SpansRight, Pos

LEMMA InsertKeeps ==
  ASSUME SortedInv, NEW m \in Members, m \notin In, NEW s \in Scores, NEW h \in 1..maxLevel,
         Insert(m, s, h)
  PROVE  SortedInv'
<1>1. PICK n, w : Inserting(m, s, h, n, w)
  BY InsertStarts
<1>2. SortedTypeOK'
  BY InsertTypes
<1>3. Linked' /\ \A i \in Levels : Ends(Level(i)')
  BY <1>1, <1>2, InsertLinks
<1>4. Counted' /\ InSomeOrder'
  BY <1>1, InsertCounts, InsertSomewhere
<1>5. reordered' = reordered /\ topCrossed' = topCrossed /\ topRemoved' = topRemoved
  BY DEF Insert
<1>6. ASSUME ~reordered, ~topRemoved PROVE InScoreOrder'
  <2>1. InScoreOrder
    BY <1>6 DEF SortedInv
  <2> QED
    BY <1>1, <1>2, <2>1, InsertInOrder
<1>7. ASSUME ~reordered, ~topCrossed PROVE SpansRight'
  <2>1. InScoreOrder /\ SpansRight
    BY <1>7 DEF SortedInv
  <2> QED
    BY <1>1, <1>2, <2>1, InsertMeasures
<1>8. Shape'
  BY <1>2, <1>3 DEF Shape, Ends
<1>9. ~reordered' /\ ~topCrossed' => ~topRemoved'
  BY <1>5 DEF SortedInv
<1> QED
  BY <1>3, <1>4, <1>5, <1>6, <1>7, <1>8, <1>9 DEF SortedInv

-----------------------------------------------------------------------------
(* ZADD of a member that is there.                                         *)
LEMMA RescoreKeeps ==
  ASSUME SortedInv, NEW m \in Members, m \in In, NEW s \in Scores, Rescore(m, s)
  PROVE  SortedInv'
<1>1. SortedTypeOK /\ Linked /\ Shape /\ Counted /\ InSomeOrder /\ s \in Int
  BY SortedSetsAssumption DEF SortedInv, Shape
<1>2. InSet \subseteq Nodes /\ dictionary[m] \in Nodes
  BY <1>1, NodesOfMembers
<1>3. UNCHANGED <<made, member, height, forward, span, length, dictionary, removals, topCrossed, topRemoved>>
  BY DEF Rescore
<1>4. score' \in [Nodes -> Int]
  BY <1>1, <1>2 DEF Rescore, SortedTypeOK
<1>5. SortedTypeOK'
  BY <1>1, <1>3, <1>4 DEF SortedTypeOK
<1>6. In' = In /\ InSet' = InSet /\ Made' = Made
  BY <1>3 DEF In, InSet, Made
<1>7. \A i \in Levels : Level(i)' = Level(i) /\ On(i)' = On(i)
  BY <1>3, <1>6 DEF Level, On
<1>8. Linked'
  BY <1>1, <1>3, <1>6 DEF Linked
<1>9. Counted'
  BY <1>1, <1>3, <1>6 DEF Counted
<1>10. InSomeOrder'
  <2>1. Level(0)' = Level(0)
    BY <1>7, Apart
  <2> QED
    BY <1>1, <1>3, <1>6, <2>1 DEF InSomeOrder
<1>11. Shape'
  <2>1. \A i \in Levels : Ends(Level(i)')
    BY <1>1, <1>7 DEF Shape
  <2> QED
    BY <1>5, <2>1 DEF Shape, Ends
<1>12. ASSUME ~reordered' PROVE \A a, b \in InSet : <<a, b>> \in ScoreOrder <=> <<a, b>> \in ScoreOrder'
  <2> SUFFICES ASSUME NEW a \in InSet, NEW b \in InSet
               PROVE  <<a, b>> \in ScoreOrder <=> <<a, b>> \in ScoreOrder'
    OBVIOUS
  <2>1. /\ member[a] \in In /\ dictionary[member[a]] = a
        /\ member[b] \in In /\ dictionary[member[b]] = b
    BY <1>1, NodesOfMembers
  <2>2. Precedes(score, member[a], member[b]) <=> Precedes(score', member[a], member[b])
    BY <1>12, <2>1 DEF Rescore, Precedes
  <2>3. <<a, b>> \in Nodes \X Nodes
    BY <1>2
  <2> QED
    BY <1>3, <2>1, <2>2, <2>3 DEF ScoreOrder, Precedes
<1>13. ~reordered' => ~reordered
  BY DEF Rescore
<1>14. ASSUME ~reordered', ~topRemoved' PROVE InScoreOrder'
  <2>1. InScoreOrder
    BY <1>3, <1>13, <1>14 DEF SortedInv
  <2>2. ASSUME NEW i \in Levels PROVE Chained(Level(i)', On(i)', ScoreOrder')
    <3>1. Chained(Level(i), On(i), ScoreOrder) /\ On(i) \subseteq InSet
      BY <1>1, <2>1, OnLevel DEF InScoreOrder
    <3>2. Chained(Level(i), On(i), ScoreOrder')
      BY <1>12, <1>14, <3>1, ChainedAgain
    <3> QED
      BY <1>7, <3>2
  <2> QED
    BY <2>2 DEF InScoreOrder, Chained, After
<1>15. ASSUME ~reordered', ~topCrossed' PROVE SpansRight'
  <2>1. SpansRight
    BY <1>3, <1>13, <1>15 DEF SortedInv
  <2>2. \A x \in InSet \cup {Head0} : PosIn(x, InSet', ScoreOrder') = Pos(x)
    <3>1. \A x \in InSet : Below(x, InSet', ScoreOrder') = Below(x, InSet, ScoreOrder)
      BY <1>6, <1>12, <1>15 DEF Below
    <3> QED
      BY <3>1 DEF PosIn, Pos, Place
  <2>3. ASSUME NEW i \in Levels, NEW p \in On(i) \cup {Head0}, forward[p][i] # Nil
        PROVE  span[p][i] = PosIn(forward[p][i], InSet', ScoreOrder') - PosIn(p, InSet', ScoreOrder')
    <3>1. span[p][i] = Pos(forward[p][i]) - Pos(p)
      BY <2>1, <2>3 DEF SpansRight
    <3>2. InScoreOrder
      BY <1>3, <1>13, <1>15 DEF SortedInv
    <3>3. p \in Places /\ On(i) \subseteq InSet
      BY <1>1, <1>2, OnLevel, Apart
    <3>4. Level(i)[p] = forward[p][i]
      BY <3>3 DEF Level
    <3>5. forward[p][i] \in InSet /\ p \in InSet \cup {Head0}
      BY <2>3, <3>2, <3>3, <3>4 DEF InScoreOrder, Chained
    <3> QED
      BY <2>2, <3>1, <3>5
  <2> QED
    BY <1>3, <1>7, <2>3 DEF SpansRight, Pos
<1>16. ~reordered' /\ ~topCrossed' => ~topRemoved'
  BY <1>3, <1>13 DEF SortedInv
<1> QED
  BY <1>8, <1>9, <1>10, <1>11, <1>14, <1>15, <1>16 DEF SortedInv

-----------------------------------------------------------------------------
(* ZREM: node e, unlinked at the end of walk w on every level but the top. *)
Bypassed(e, w) ==
  \A p \in Places, i \in Levels :
    forward'[p][i] = IF i # Top /\ w[i].node = p /\ forward[p][i] = e THEN forward[e][i]
                     ELSE forward[p][i]
Shortened(e, w) ==
  \A p \in Places, i \in Levels :
    span'[p][i] = IF ~(i # Top /\ w[i].node = p) THEN span[p][i]
                  ELSE IF forward[p][i] = e THEN span[p][i] + span[e][i] - 1 ELSE span[p][i] - 1
Removing(m, e, w) ==
  /\ w \in [Levels -> Visits] /\ w = Walk({p \in Visits : Before(p.node, score[e], m)})
  /\ e = dictionary[m] /\ e \in InSet /\ member[e] = m
  /\ \A i \in Levels : w[i].node \in Made \cup {Head0}
  /\ In' = In \ {m} /\ InSet' = InSet \ {e} /\ \A a \in In' : dictionary'[a] = dictionary[a]
  /\ UNCHANGED <<made, member, score, height, length, reordered>>
  /\ removals' = removals + 1
  /\ topCrossed' = (topCrossed \/ forward[Head0][Top] # Nil)
  /\ topRemoved' = (topRemoved \/ height[e] = maxLevel)
  /\ Bypassed(e, w) /\ Shortened(e, w)

LEMMA AllButTop == \A i \in Levels : i \in Unlinked <=> i # Top
BY Apart DEF Levels, Unlinked, Top

LEMMA RemoveTypes ==
  ASSUME SortedInv, NEW m \in Members, ZRem(m)
  PROVE  SortedTypeOK'
<1> DEFINE e == dictionary[m]
           w == Walk({p \in Visits : Before(p.node, score[e], m)})
<1>1. SortedTypeOK /\ e \in Nodes /\ e \in Places
  BY NodesOfMembers, Apart DEF SortedInv, Shape, ZRem
<1> HIDE DEF w
<1>2. forward' \in [Places -> [Levels -> Nodes \cup {Nil}]]
  <2>1. forward' = [p \in Places |-> [i \in Levels |->
           IF (i \in Unlinked /\ w[i].node = p) /\ forward[p][i] = e THEN forward[e][i] ELSE forward[p][i]]]
    BY DEF ZRem, w
  <2> HIDE DEF e
  <2> QED
    BY <1>1, <2>1 DEF SortedTypeOK
<1>3. span' \in [Places -> [Levels -> Int]]
  <2>1. span' = [p \in Places |-> [i \in Levels |->
           IF ~(i \in Unlinked /\ w[i].node = p) THEN span[p][i]
           ELSE IF forward[p][i] = e THEN span[p][i] + span[e][i] - 1 ELSE span[p][i] - 1]]
    BY DEF ZRem, w
  <2> HIDE DEF e
  <2>2. \A p \in Places, i \in Levels : span[p][i] \in Int
    BY <1>1 DEF SortedTypeOK
  <2>3. \A p \in Places, i \in Levels :
          (IF ~(i \in Unlinked /\ w[i].node = p) THEN span[p][i]
           ELSE IF forward[p][i] = e THEN span[p][i] + span[e][i] - 1 ELSE span[p][i] - 1) \in Int
    BY <1>1, <2>2
  <2> QED
    BY <2>1, <2>3
<1>4. dictionary' \in [Members -> Nodes \cup {Nil}]
  BY <1>1 DEF ZRem, SortedTypeOK
<1> QED
  BY <1>1, <1>2, <1>3, <1>4 DEF ZRem, SortedTypeOK

LEMMA RemoveStarts ==
  ASSUME SortedInv, NEW m \in Members, ZRem(m)
  PROVE  \E e, w : Removing(m, e, w)
<1> DEFINE e == dictionary[m]
           w == Walk({p \in Visits : Before(p.node, score[e], m)})
<1>1. SortedTypeOK /\ Linked /\ Shape /\ m \in In
  BY DEF SortedInv, Shape, ZRem
<1>2. e \in InSet /\ member[e] = m
  BY <1>1, NodesOfMembers
<1>3. w \in [Levels -> Visits] /\ \A i \in Levels : w[i].node \in Made \cup {Head0}
  <2> HIDE DEF e
  <2> QED
    BY <1>1, WalkIs, WalkOnMade
<1>4. /\ UNCHANGED <<made, member, score, height, length, reordered>>
      /\ removals' = removals + 1
      /\ topCrossed' = (topCrossed \/ forward[Head0][Top] # Nil)
      /\ topRemoved' = (topRemoved \/ height[e] = maxLevel)
  BY DEF ZRem
<1>5. In' = In \ {m} /\ \A a \in In' : dictionary'[a] = dictionary[a]
  <2>1. dictionary' = [dictionary EXCEPT ![m] = Nil] /\ dictionary \in [Members -> Nodes \cup {Nil}]
    BY <1>1 DEF ZRem, SortedTypeOK
  <2> QED
    BY <2>1 DEF In
<1>6. InSet' = InSet \ {e}
  <2>1. InSet' = {dictionary[a] : a \in In \ {m}}
    BY <1>5 DEF InSet
  <2>2. \A a \in In : dictionary[a] = e => a = m
    BY <1>1, NodesOfMembers
  <2> HIDE DEF e
  <2> QED
    BY <1>1, <1>2, <2>1, <2>2, NodesOfMembers DEF InSet
<1>7. Bypassed(e, w)
  <2> HIDE DEF w
  <2>1. forward' = [p \in Places |-> [i \in Levels |->
           IF (i \in Unlinked /\ w[i].node = p) /\ forward[p][i] = e THEN forward[e][i] ELSE forward[p][i]]]
    BY DEF ZRem, w
  <2> HIDE DEF e
  <2> QED
    BY <2>1, AllButTop DEF Bypassed
<1>8. Shortened(e, w)
  <2> HIDE DEF w
  <2>1. span' = [p \in Places |-> [i \in Levels |->
           IF ~(i \in Unlinked /\ w[i].node = p) THEN span[p][i]
           ELSE IF forward[p][i] = e THEN span[p][i] + span[e][i] - 1 ELSE span[p][i] - 1]]
    BY DEF ZRem, w
  <2> HIDE DEF e
  <2> QED
    BY <2>1, AllButTop DEF Shortened
<1>9. w = Walk({p \in Visits : Before(p.node, score[e], m)}) /\ e = dictionary[m]
  OBVIOUS
<1> HIDE DEF e, w
<1>10. Removing(m, e, w)
  BY <1>2, <1>3, <1>4, <1>5, <1>6, <1>7, <1>8, <1>9 DEF Removing
<1> QED
  BY <1>10

LEMMA RemoveLinks ==
  ASSUME SortedInv, NEW m \in Members, NEW e, NEW w, Removing(m, e, w)
  PROVE  Linked' /\ Counted' /\ InSomeOrder' /\ \A i \in Levels : Ends(Level(i)')
<1>1. SortedTypeOK /\ Linked /\ Counted /\ \A i \in Levels : Ends(Level(i))
  BY DEF SortedInv, Shape
<1>2. /\ e \in InSet /\ e \in Nodes /\ e \in Places /\ Bypassed(e, w) /\ IsFiniteSet(InSet)
      /\ InSet' = InSet \ {e} /\ In' = In \ {m} /\ Made' = Made
      /\ \A i \in Levels : w[i].node \in Places
  <2>1. InSet \subseteq Nodes /\ Made \subseteq Places /\ Nodes \subseteq Places /\ Head0 \in Places
        /\ IsFiniteSet(InSet)
    BY <1>1, NodesOfMembers, Apart
  <2>2. Made' = Made
    BY DEF Removing, Made
  <2> QED
    BY <2>1, <2>2 DEF Removing
<1>3. \A p \in Places, i \in Levels : forward'[p][i] \in Made' \cup {Nil}
  <2>1. \A p \in Places, i \in Levels : forward[p][i] \in Made \cup {Nil}
    BY <1>1 DEF Linked
  <2> QED
    BY <1>2, <2>1 DEF Bypassed
<1>4. \A a \in In' : dictionary'[a] \in Made' /\ member'[dictionary'[a]] = a
  BY <1>1, <1>2 DEF Removing, Linked
<1>5. \A a \in Made' : height'[a] >= 1
  BY <1>1, <1>2 DEF Removing, Linked
<1>6. Counted' /\ InSomeOrder'
  <2>1. Cardinality(InSet') = Cardinality(InSet) - 1 /\ Cardinality(InSet) \in Nat
    BY <1>2, FS_RemoveElement, FS_CardinalityType
  <2>2. removals' = removals + 1 /\ length' = length /\ removals \in Nat
    BY <1>1 DEF Removing, Counted
  <2>3. removals' # 0 /\ removals' \in Nat
    BY <2>2
  <2> QED
    BY <1>1, <2>1, <2>2, <2>3 DEF Counted, InSomeOrder
<1>7. ASSUME NEW i \in Levels PROVE Ends(Level(i)')
  <2> DEFINE u == w[i].node
  <2>1. \A p \in Places : Level(i)'[p] = forward'[p][i] /\ Level(i)[p] = forward[p][i]
    BY DEF Level
  <2>2. CASE i # Top /\ Level(i)[u] = e
    <3>1. \A p \in Places : Level(i)'[p] = IF p = u THEN Level(i)[e] ELSE Level(i)[p]
      BY <1>2, <2>1, <2>2 DEF Bypassed
    <3>2. Level(i) \in [Places -> Nodes \cup {Nil}] /\ u \in Places
      BY <1>1, <1>2, LevelType
    <3> HIDE DEF u
    <3> QED
      BY <1>1, <1>2, <2>2, <3>1, <3>2, EndsRemove
  <2>3. CASE ~(i # Top /\ Level(i)[u] = e)
    <3>1. \A p \in Places : Level(i)'[p] = Level(i)[p]
      BY <1>2, <2>1, <2>3 DEF Bypassed
    <3> QED
      BY <1>1, <3>1 DEF Ends
  <2> QED
    BY <2>2, <2>3
<1> QED
  BY <1>3, <1>4, <1>5, <1>6, <1>7 DEF Linked

(* The walk ends on each level right before the node, when it is there.    *)
LEMMA RemoveWalk ==
  ASSUME SortedInv, InScoreOrder, NEW m \in Members, NEW e, NEW w, Removing(m, e, w), NEW i \in Levels
  PROVE  /\ w[i].node = Head0 \/ (w[i].node \in On(i) /\ <<w[i].node, e>> \in ScoreOrder)
         /\ Level(i)[w[i].node] \in On(i) \cup {Nil}
         /\ Level(i)[w[i].node] # Nil =>
              Level(i)[w[i].node] = e \/ <<e, Level(i)[w[i].node]>> \in ScoreOrder
         /\ e \in On(i) => Level(i)[w[i].node] = e
         /\ \A p \in On(i) \cup {Head0} : Level(i)[p] = e => e \in On(i)
<1> DEFINE may == {p \in Visits : Before(p.node, score[e], m)}
<1>1. /\ Shape /\ Linked /\ SortedTypeOK /\ w = Walk(may) /\ e \in InSet /\ member[e] = m
      /\ Chained(Level(i), On(i), ScoreOrder)
  BY DEF SortedInv, Removing, Shape, InScoreOrder
<1>2. /\ w[i] \in Visits /\ ~Goes(may, i, w[i])
      /\ w[i].node = Head0 \/ (w[i].node \in On(i) /\ w[i] \in may)
  <2> HIDE DEF may
  <2> QED
    BY <1>1, WalkOnLevel
<1>3. On(i) \subseteq InSet /\ InSet \subseteq Nodes /\ IsOrder(ScoreOrder, InSet)
      /\ \A a \in InSet : a # Nil
  BY <1>1, OnLevel, NodesOfMembers, Apart
<1>4. \A a \in InSet : Before(a, score[e], m) <=> <<a, e>> \in ScoreOrder
  BY <1>1, <1>3, ScoreOrderIs DEF Before
<1>5. w[i].node = Head0 \/ (w[i].node \in On(i) /\ <<w[i].node, e>> \in ScoreOrder)
  BY <1>2, <1>3, <1>4
<1>6. PICK u : u = w[i].node
  OBVIOUS
<1>7. PICK next : next = Level(i)
  OBVIOUS
<1>8. next[u] = forward[u][i] /\ next[u] \in On(i) \cup {Nil}
  <2>1. Level(i)[w[i].node] = forward[w[i].node][i]
    BY <1>1, <1>2, VisitType, LevelType
  <2> QED
    BY <1>1, <1>5, <1>6, <1>7, <2>1 DEF Chained
<1>9. next[u] # Nil => next[u] = e \/ <<e, next[u]>> \in ScoreOrder
  <2> SUFFICES ASSUME next[u] # Nil PROVE next[u] = e \/ <<e, next[u]>> \in ScoreOrder
    OBVIOUS
  <2>1. NextPlace(w[i], i) \in Visits /\ NextPlace(w[i], i).node = next[u]
    BY <1>1, <1>2, <1>6, <1>8, VisitType DEF NextPlace
  <2>2. ~Before(next[u], score[e], m)
    BY <1>2, <1>6, <1>8, <2>1 DEF Goes
  <2>3. next[u] \in InSet
    BY <1>3, <1>8
  <2> QED
    BY <1>1, <1>3, <1>4, <2>2, <2>3 DEF IsOrder
<1>10. ASSUME e \in On(i) PROVE next[u] = e
  <2>1. After(u, e, ScoreOrder) /\ u \in On(i) \cup {Head0}
    BY <1>5, <1>6 DEF After
  <2>2. next[u] # Nil /\ (e = next[u] \/ <<next[u], e>> \in ScoreOrder)
    BY <1>1, <1>7, <1>10, <2>1 DEF Chained
  <2> QED
    BY <1>1, <1>3, <1>8, <1>9, <2>2 DEF IsOrder
<1>11. \A p \in On(i) \cup {Head0} : Level(i)[p] = e => e \in On(i)
  BY <1>1, <1>3 DEF Chained
<1> QED
  BY <1>5, <1>6, <1>7, <1>8, <1>9, <1>10, <1>11

LEMMA RemoveInOrder ==
  ASSUME SortedInv, InScoreOrder, NEW m \in Members, NEW e, NEW w, Removing(m, e, w), e \notin On(Top)
  PROVE  InScoreOrder'
<1>1. SortedTypeOK /\ Linked /\ e \in InSet /\ InSet \subseteq Nodes /\ Bypassed(e, w)
      /\ Head0 \notin InSet
  BY NodesOfMembers DEF SortedInv, Shape, Removing
<1>2. \A i \in Levels : On(i)' = On(i) \ {e}
  BY DEF Removing, On
<1>3. ScoreOrder' = ScoreOrder
  BY DEF Removing, ScoreOrder
<1>4. ASSUME NEW i \in Levels PROVE Chained(Level(i)', On(i) \ {e}, ScoreOrder)
  <2>1. PICK u, next, next2 : u = w[i].node /\ next = Level(i) /\ next2 = Level(i)'
    OBVIOUS
  <2>2. /\ On(i) \subseteq InSet /\ On(i) \in SUBSET Nodes /\ IsOrder(ScoreOrder, On(i))
        /\ Chained(next, On(i), ScoreOrder)
    BY <1>1, <2>1, OnLevel DEF InScoreOrder
  <2>3. /\ u \in On(i) \cup {Head0} /\ (e \in On(i) => next[u] = e)
        /\ \A p \in On(i) \cup {Head0} : next[p] = e => e \in On(i)
    BY <2>1, RemoveWalk
  <2>4. \A p \in On(i) \cup {Head0} : p \in Places
    BY <1>1, <2>2, Apart
  <2>5. e \in Places /\ \A p \in Places : next2[p] = forward'[p][i] /\ next[p] = forward[p][i]
    BY <1>1, <2>1, Apart DEF Level
  <2>6. CASE e \in On(i)
    <3>1. \A p \in On(i) \cup {Head0} : next2[p] = IF p = u THEN next[e] ELSE next[p]
      BY <1>1, <2>1, <2>3, <2>4, <2>5, <2>6 DEF Bypassed
    <3>2. Chained(next2, On(i) \ {e}, ScoreOrder)
      BY <2>2, <2>3, <2>6, <3>1, ChainedRemove
    <3> QED
      BY <2>1, <3>2
  <2>7. CASE e \notin On(i)
    <3>1. \A p \in On(i) \cup {Head0} : next2[p] = next[p]
      BY <1>1, <2>1, <2>3, <2>4, <2>5, <2>7 DEF Bypassed
    <3>2. Chained(next2, On(i), ScoreOrder) /\ On(i) \ {e} = On(i)
      BY <2>2, <2>7, <3>1, ChainedAgain
    <3> QED
      BY <2>1, <3>2
  <2> QED
    BY <2>6, <2>7
<1>5. \A i \in Levels : Chained(Level(i)', On(i)', ScoreOrder')
  BY <1>2, <1>3, <1>4
<1> QED
  BY <1>5 DEF InScoreOrder, Chained, After

LEMMA RemoveMeasures ==
  ASSUME SortedInv, InScoreOrder, SpansRight, NEW m \in Members, NEW e, NEW w, Removing(m, e, w),
         forward[Head0][Top] = Nil
  PROVE  SpansRight'
<1>1. /\ SortedTypeOK /\ Linked /\ e \in InSet /\ InSet \subseteq Nodes /\ Bypassed(e, w)
      /\ Head0 \notin InSet /\ IsFiniteSet(InSet) /\ IsOrder(ScoreOrder, InSet)
      /\ InSet' = InSet \ {e} /\ Shortened(e, w)
  BY NodesOfMembers DEF SortedInv, Shape, Removing
<1>2. \A i \in Levels : On(i)' = On(i) \ {e}
  BY DEF Removing, On
<1>3. PICK S, R : S = InSet \ {e} /\ R = ScoreOrder /\ InSet' = S /\ ScoreOrder' = R
  BY <1>1 DEF Removing, ScoreOrder
<1>4. PICK pos : \A x \in Places : pos[x] = Pos(x)
  <2>1. \A x \in Places : [y \in Places |-> Pos(y)][x] = Pos(x)
    OBVIOUS
  <2> QED
    BY <2>1
<1>5. PICK pos2 : \A x \in Places : pos2[x] = PosIn(x, S, R)
  <2>1. \A x \in Places : [y \in Places |-> PosIn(y, S, R)][x] = PosIn(x, S, R)
    OBVIOUS
  <2> QED
    BY <2>1
<1>6. /\ \A a \in S : pos2[a] = IF <<e, a>> \in R THEN pos[a] - 1 ELSE pos[a]
      /\ pos2[Head0] = 0 /\ pos[Head0] = 0
      /\ \A a \in InSet \cup {Head0} : pos[a] \in Int
  <2>1. \A a \in InSet \cup {Head0} : a \in Places
    BY <1>1, Apart
  <2>2. pos2[Head0] = 0 /\ pos[Head0] = 0
    BY <1>4, <1>5, <2>1 DEF Pos, PosIn
  <2>3. \A a \in InSet \cup {Head0} : pos[a] \in Int
    BY <1>1, <1>4, <2>1, PosIs
  <2>4. ASSUME NEW a \in S PROVE pos2[a] = IF <<e, a>> \in R THEN pos[a] - 1 ELSE pos[a]
    <3>1. IsFiniteSet(S) /\ e \notin S /\ S \cup {e} = InSet /\ a \in InSet
      BY <1>1, <1>3, FS_RemoveElement
    <3>2. Place(a, InSet, R) = IF <<e, a>> \in R THEN Place(a, S, R) + 1 ELSE Place(a, S, R)
      <4>1. IsOrder(R, S \cup {e})
        BY <1>1, <1>3, <3>1
      <4>2. Place(a, S \cup {e}, R) = IF <<e, a>> \in R THEN Place(a, S, R) + 1 ELSE Place(a, S, R)
        BY <3>1, <4>1, PlaceInsert
      <4> QED
        BY <3>1, <4>2
    <3>3. Place(a, S, R) \in Int
      <4>1. IsOrder(R, S)
        BY <1>1, <1>3, OrderAgain
      <4> QED
        BY <3>1, <4>1, PlaceType
    <3>4. pos[a] = Place(a, InSet, R) /\ pos2[a] = Place(a, S, R)
      BY <1>1, <1>3, <1>4, <1>5, <2>1, <3>1 DEF Pos, PosIn
    <3> QED
      BY <3>2, <3>3, <3>4
  <2> QED
    BY <2>2, <2>3, <2>4
<1>7. ASSUME NEW i \in Levels, NEW p \in On(i)' \cup {Head0}, forward'[p][i] # Nil
      PROVE  forward'[p][i] \in Places /\ p \in Places /\ span'[p][i] = pos2[forward'[p][i]] - pos2[p]
  <2>1. PICK u, next, T : u = w[i].node /\ next = Level(i) /\ T = On(i)
    OBVIOUS
  <2>2. T \subseteq InSet /\ T \in SUBSET Nodes /\ IsOrder(R, T) /\ Chained(next, T, R) /\ Nil \notin T
    <3>1. On(i) \subseteq InSet /\ IsOrder(ScoreOrder, On(i))
      BY <1>1, OnLevel
    <3>2. Chained(Level(i), On(i), ScoreOrder)
      BY DEF InScoreOrder
    <3> QED
      BY <1>1, <1>3, <2>1, <3>1, <3>2, Apart
  <2>3. /\ u = Head0 \/ (u \in T /\ <<u, e>> \in R)
        /\ next[u] \in T \cup {Nil}
        /\ next[u] # Nil => next[u] = e \/ <<e, next[u]>> \in R
        /\ e \in T => next[u] = e
        /\ \A x \in T \cup {Head0} : next[x] = e => e \in T
    BY <1>3, <2>1, RemoveWalk
  <2>4. T \cup {Head0} \subseteq Places /\ e \in Places /\ e # Head0 /\ e # Nil
    BY <1>1, <2>2, Apart
  <2>5. \A x \in Places : next[x] = forward[x][i]
    BY <2>1 DEF Level
  <2>6. p \in T \cup {Head0} /\ p # e /\ p \in Places
    BY <1>2, <2>1, <2>4
  <2>7. i # Top
    <3> SUFFICES ASSUME i = Top PROVE FALSE
      OBVIOUS
    <3>1. next[Head0] = Nil
      BY <2>4, <2>5
    <3>2. T = {}
      BY <2>2, <3>1 DEF Chained, After
    <3> QED
      BY <1>1, <1>7, <2>4, <2>5, <2>6, <3>1, <3>2 DEF Bypassed
  <2>8. \A x \in T \cup {Head0} : next[x] # Nil =>
          /\ span[x][i] = pos[next[x]] - pos[x]
          /\ pos[x] \in Int /\ pos[next[x]] \in Int
          /\ next[x] \in T /\ next[x] \in Places
    <3> SUFFICES ASSUME NEW x \in T \cup {Head0}, next[x] # Nil
                 PROVE  /\ span[x][i] = pos[next[x]] - pos[x]
                        /\ pos[x] \in Int /\ pos[next[x]] \in Int
                        /\ next[x] \in T /\ next[x] \in Places
      OBVIOUS
    <3>1. next[x] \in T /\ next[x] \in Places /\ x \in Places /\ next[x] = forward[x][i]
      BY <2>2, <2>4, <2>5 DEF Chained
    <3>2. span[x][i] = Pos(next[x]) - Pos(x)
      BY <2>1, <3>1 DEF SpansRight
    <3> QED
      BY <1>4, <1>6, <2>2, <3>1, <3>2
  <2>9. forward'[p][i] = IF p = u /\ next[p] = e THEN next[e] ELSE next[p]
    BY <1>1, <2>1, <2>4, <2>5, <2>6, <2>7 DEF Bypassed
  <2>10. span'[p][i] = IF p # u THEN span[p][i]
                       ELSE IF next[p] = e THEN span[p][i] + span[e][i] - 1 ELSE span[p][i] - 1
    BY <1>1, <2>1, <2>4, <2>5, <2>6, <2>7 DEF Shortened
  <2>11. pos2[u] = pos[u]
    <3>1. u # e /\ (u # Head0 => ~(<<e, u>> \in R) /\ u \in S)
      BY <1>1, <1>3, <2>2, <2>3, <2>4 DEF IsOrder
    <3> QED
      BY <1>6, <2>3, <3>1
  <2>12. CASE p = u /\ next[p] = e
    <3>1. e \in T /\ next[e] # Nil /\ forward'[p][i] = next[e]
      BY <1>7, <2>3, <2>6, <2>9, <2>12
    <3>2. /\ span[e][i] = pos[next[e]] - pos[e] /\ pos[e] \in Int /\ pos[next[e]] \in Int
          /\ next[e] \in T /\ next[e] \in Places
      BY <2>8, <3>1
    <3>3. span[p][i] = pos[e] - pos[p] /\ pos[p] \in Int
      BY <2>4, <2>6, <2>8, <2>12
    <3>4. <<e, next[e]>> \in R /\ next[e] # e
      BY <2>2, <2>4, <3>1 DEF Chained, After, IsOrder
    <3>5. pos2[next[e]] = pos[next[e]] - 1
      BY <1>3, <1>6, <2>2, <3>2, <3>4
    <3> QED
      BY <2>6, <2>10, <2>11, <2>12, <3>1, <3>2, <3>3, <3>5
  <2>13. CASE p = u /\ next[p] # e
    <3>1. next[u] # Nil /\ forward'[p][i] = next[u]
      BY <1>7, <2>9, <2>13
    <3>2. <<e, next[u]>> \in R /\ next[u] \in S
      BY <1>3, <2>2, <2>3, <2>13, <3>1
    <3>3. pos2[next[u]] = pos[next[u]] - 1
      BY <1>6, <3>2
    <3>4. /\ span[u][i] = pos[next[u]] - pos[u] /\ pos[u] \in Int /\ pos[next[u]] \in Int
          /\ next[u] \in Places
      BY <2>6, <2>8, <2>13, <3>1
    <3> QED
      BY <2>6, <2>10, <2>11, <2>13, <3>1, <3>3, <3>4
  <2>14. CASE p # u
    <3>1. PICK q : q = next[p]
      OBVIOUS
    <3>2. /\ forward'[p][i] = q /\ q # Nil /\ span'[p][i] = span[p][i]
          /\ span[p][i] = pos[q] - pos[p] /\ pos[p] \in Int /\ pos[q] \in Int
          /\ q \in T /\ q \in Places
      BY <1>7, <2>6, <2>8, <2>9, <2>10, <2>14, <3>1
    <3>3. CASE p # Head0 /\ <<e, p>> \in R
      <4>1. p \in T /\ <<p, q>> \in R
        BY <2>2, <2>6, <3>1, <3>2, <3>3 DEF Chained, After
      <4>2. <<e, q>> \in R /\ q # e
        BY <1>1, <1>3, <2>2, <3>2, <3>3, <4>1 DEF IsOrder
      <4>3. pos2[p] = pos[p] - 1 /\ pos2[q] = pos[q] - 1
        BY <1>3, <1>6, <2>2, <2>6, <3>2, <3>3, <4>1, <4>2
      <4> QED
        BY <2>6, <3>2, <4>3
    <3>4. CASE p = Head0 \/ ~(<<e, p>> \in R)
      <4>1. PICK D : D = {x \in T : <<x, e>> \in R}
        OBVIOUS
      <4>2. D \in SUBSET T /\ u \in D \cup {Head0} /\ p \in D \cup {Head0}
        <5>1. p # Head0 => <<p, e>> \in R
          BY <1>1, <1>3, <2>2, <2>6, <3>4 DEF IsOrder
        <5> QED
          BY <2>3, <2>6, <4>1, <5>1
      <4>3. \A a \in D, b \in T : <<b, a>> \in R => b \in D
        BY <1>1, <1>3, <2>2, <4>1 DEF IsOrder
      <4>4. next[u] \notin D
        BY <1>1, <1>3, <2>2, <2>3, <4>1 DEF IsOrder
      <4>5. next[p] \in D
        <5> SUFFICES ASSUME next[p] \notin D PROVE FALSE
          OBVIOUS
        <5>1. T \in SUBSET Nodes /\ IsOrder(R, T) /\ Chained(next, T, R)
          BY <2>2
        <5>2. D \in SUBSET T /\ \A a \in D, b \in T : <<b, a>> \in R => b \in D
          BY <4>2, <4>3
        <5>3. u \in D \cup {Head0} /\ p \in D \cup {Head0} /\ next[u] \notin D /\ next[p] \notin D
          BY <4>2, <4>4
        <5>4. u = p
          BY <5>1, <5>2, <5>3, OneCrossing
        <5> QED
          BY <2>14, <5>4
      <4>6. q \in S /\ ~(<<e, q>> \in R)
        BY <1>1, <1>3, <2>2, <3>1, <4>1, <4>5 DEF IsOrder
      <4>7. pos2[q] = pos[q]
        BY <1>6, <4>6
      <4>8. pos2[p] = pos[p]
        BY <1>3, <1>6, <2>2, <2>6, <3>4
      <4> QED
        BY <2>6, <3>2, <4>7, <4>8
    <3> QED
      BY <3>3, <3>4
  <2> QED
    BY <2>12, <2>13, <2>14
<1>8. ASSUME NEW i \in Levels, NEW p \in On(i)' \cup {Head0}, forward'[p][i] # Nil
      PROVE  span'[p][i] = PosIn(forward'[p][i], InSet', ScoreOrder') - PosIn(p, InSet', ScoreOrder')
  BY <1>3, <1>5, <1>7, <1>8
<1> QED
  BY <1>8 DEF SpansRight, Pos

LEMMA RemoveKeeps ==
  ASSUME SortedInv, NEW m \in Members, ZRem(m)
  PROVE  SortedInv'
<1>1. PICK e, w : Removing(m, e, w)
  BY RemoveStarts
<1>2. SortedTypeOK'
  BY RemoveTypes
<1>3. Linked' /\ Counted' /\ InSomeOrder' /\ \A i \in Levels : Ends(Level(i)')
  BY <1>1, RemoveLinks
<1>4. Shape'
  BY <1>2, <1>3 DEF Shape, Ends
<1>5. /\ reordered' = reordered
      /\ topCrossed' = (topCrossed \/ forward[Head0][Top] # Nil)
      /\ topRemoved' = (topRemoved \/ height[e] = maxLevel)
      /\ e \in InSet
  BY <1>1 DEF Removing
<1>6. SortedTypeOK /\ Linked
  BY DEF SortedInv, Shape
<1>7. e \in On(Top) <=> height[e] = maxLevel
  <2>1. height[e] \in 0..maxLevel
    BY <1>5, <1>6, NodesOfMembers, Apart DEF SortedTypeOK
  <2> QED
    BY <1>5, <2>1, Apart DEF On, Top
<1>8. ASSUME ~reordered, ~topRemoved' PROVE InScoreOrder'
  <2>1. InScoreOrder /\ e \notin On(Top)
    BY <1>5, <1>7, <1>8 DEF SortedInv
  <2> QED
    BY <1>1, <2>1, RemoveInOrder
<1>9. ASSUME ~reordered, ~topCrossed' PROVE SpansRight' /\ ~topRemoved'
  <2>1. ~topCrossed /\ ~topRemoved /\ forward[Head0][Top] = Nil /\ InScoreOrder /\ SpansRight
    BY <1>5, <1>9 DEF SortedInv
  <2>2. SpansRight'
    BY <1>1, <2>1, RemoveMeasures
  <2>3. Level(Top)[Head0] = Nil
    BY <2>1, Apart DEF Level
  <2>4. e \notin On(Top)
    BY <2>1, <2>3, Apart DEF InScoreOrder, Chained, After
  <2> QED
    BY <1>5, <1>7, <2>1, <2>2, <2>4
<1> QED
  BY <1>3, <1>4, <1>5, <1>8, <1>9 DEF SortedInv

-----------------------------------------------------------------------------
(* All of it.                                                              *)
LEMMA InitSorted == SortedInit => SortedInv
<1> SUFFICES ASSUME SortedInit PROVE SortedInv
  OBVIOUS
<1>1. SortedTypeOK
  BY SortedSetsAssumption, Apart DEF SortedInit, SortedTypeOK
<1>2. In = {} /\ InSet = {} /\ Made = {}
  BY DEF SortedInit, In, InSet, Made
<1>3. \A p \in Places, i \in Levels : forward[p][i] = Nil /\ Level(i)[p] = Nil
  BY DEF SortedInit, Level
<1>4. \A i \in Levels : Ends(Level(i))
  <2> SUFFICES ASSUME NEW i \in Levels PROVE Ends(Level(i))
    OBVIOUS
  <2>1. [p \in Places |-> 0] \in [Places -> 0..0] /\ 0 \in Nat
    OBVIOUS
  <2> QED
    BY <1>3, <2>1 DEF Ends
<1>5. Linked
  BY <1>2, <1>3 DEF Linked
<1>6. Counted
  BY <1>2, FS_EmptySet DEF SortedInit, Counted
<1>7. \A i \in Levels : \A R : On(i) = {} /\ Chained(Level(i), {}, R)
  BY <1>2, <1>3, Apart DEF On, Chained
<1>8. InSomeOrder
  <2>1. {} \in SUBSET (Nodes \X Nodes) /\ IsOrder({}, InSet) /\ Chained(Level(0), InSet, {})
    BY <1>2, <1>7, Apart DEF IsOrder
  <2> QED
    BY <2>1 DEF InSomeOrder
<1>9. InScoreOrder
  BY <1>7 DEF InScoreOrder
<1>10. SpansRight
  BY <1>3, <1>7, Apart DEF SpansRight
<1> QED
  BY <1>1, <1>4, <1>5, <1>6, <1>8, <1>9, <1>10 DEF SortedInv, Shape, SortedInit

LEMMA SortedStep == SortedInv /\ [SortedNext]_sortedVars => SortedInv'
<1> SUFFICES ASSUME SortedInv, [SortedNext]_sortedVars PROVE SortedInv'
  OBVIOUS
<1>1. CASE SortedNext
  <2>1. ASSUME NEW m \in Members, NEW s \in Scores, NEW h \in 1..maxLevel, ZAdd(m, s, h)
        PROVE  SortedInv'
    BY <2>1, RescoreKeeps, InsertKeeps DEF ZAdd
  <2>2. ASSUME NEW m \in Members, ZRem(m) PROVE SortedInv'
    BY <2>2, RemoveKeeps
  <2> QED
    BY <1>1, <2>1, <2>2 DEF SortedNext
<1>2. CASE UNCHANGED sortedVars
  <2>1. UNCHANGED <<made, member, score, height, forward, span, length, dictionary, removals,
                    reordered, topCrossed, topRemoved>>
    BY <1>2 DEF sortedVars, nodeVars
  <2>2. In' = In /\ InSet' = InSet /\ Made' = Made /\ ScoreOrder' = ScoreOrder
    BY <2>1 DEF In, InSet, Made, ScoreOrder
  <2>3. \A i : Level(i)' = Level(i) /\ On(i)' = On(i)
    BY <2>1, <2>2 DEF Level, On
  <2>4. Shape'
    <3>1. SortedTypeOK'
      BY <2>1 DEF SortedInv, Shape, SortedTypeOK
    <3>2. \A i \in Levels : Ends(Level(i)')
      BY <2>3 DEF SortedInv, Shape
    <3> QED
      BY <3>1, <3>2 DEF Shape, Ends
  <2>5. Linked' /\ Counted' /\ InSomeOrder'
    BY <2>1, <2>2, <2>3 DEF SortedInv, Linked, Counted, InSomeOrder
  <2>6. InScoreOrder => InScoreOrder'
    <3>1. InScoreOrder => \A i \in Levels : Chained(Level(i)', On(i)', ScoreOrder')
      BY <2>2, <2>3 DEF InScoreOrder
    <3> QED
      BY <3>1 DEF InScoreOrder, Chained, After
  <2>7. SpansRight => SpansRight'
    BY <2>1, <2>2, <2>3 DEF SpansRight, Pos
  <2> QED
    BY <2>1, <2>4, <2>5, <2>6, <2>7 DEF SortedInv
<1> QED
  BY <1>1, <1>2

(* The skip list is a skip list: every level ends, and in spite of the     *)
(* stored length and the top level that removals leave as they are, each   *)
(* level lists its members by score and name, and each span is the number  *)
(* of places it goes on, until the histories of SortedInv say otherwise.   *)
THEOREM SkipListInvariant == SortedSpec => []SortedInv
<1> QED
  BY InitSorted, SortedStep, PTL DEF SortedSpec

-----------------------------------------------------------------------------
(* The lists of the levels.                                                *)

(* Pointers in order go on by one place.                                   *)
LEMMA ChainedPlaces ==
  ASSUME NEW S \in SUBSET Nodes, IsFiniteSet(S), NEW R, IsOrder(R, S), NEW next, Chained(next, S, R),
         NEW p \in S \cup {Head0}
  PROVE  /\ next[p] # Nil => next[p] \in S /\ PosIn(next[p], S, R) = PosIn(p, S, R) + 1
         /\ next[p] = Nil => PosIn(p, S, R) = Cardinality(S)
         /\ PosIn(p, S, R) \in 0..Cardinality(S)
<1> DEFINE D == IF p = Head0 THEN {} ELSE Below(p, S, R) \cup {p}
<1>1. Head0 \notin S /\ Nil \notin S
  BY Apart
<1>2. D \subseteq S /\ \A x \in S : x \in D \/ After(p, x, R)
  BY DEF Below, After, IsOrder
<1>3. PosIn(p, S, R) = Cardinality(D) /\ PosIn(p, S, R) \in 0..Cardinality(S)
  <2>1. CASE p = Head0
    BY <2>1, FS_EmptySet, FS_CardinalityType DEF PosIn
  <2>2. CASE p # Head0
    <3>1. /\ IsFiniteSet(Below(p, S, R)) /\ Cardinality(Below(p, S, R)) \in Nat
          /\ Cardinality(S) \in Nat /\ Place(p, S, R) \in 1..Cardinality(S)
      BY <2>2, PlaceType
    <3>2. p \notin Below(p, S, R)
      BY <2>2 DEF Below, IsOrder
    <3>3. Cardinality(D) = Cardinality(Below(p, S, R)) + 1
      BY <2>2, <3>1, <3>2, FS_AddElement
    <3> QED
      BY <2>2, <3>1, <3>3 DEF PosIn, Place
  <2> QED
    BY <2>1, <2>2
<1>4. ASSUME next[p] # Nil PROVE next[p] \in S /\ PosIn(next[p], S, R) = PosIn(p, S, R) + 1
  <2>1. PICK q \in S : q = next[p]
    BY <1>4 DEF Chained
  <2>2. After(p, q, R) /\ \A x \in S : After(p, x, R) => x = q \/ <<q, x>> \in R
    BY <1>4, <2>1 DEF Chained
  <2>3. Below(q, S, R) \subseteq D
    BY <1>2, <2>1, <2>2 DEF Below, IsOrder
  <2>4. D \subseteq Below(q, S, R)
    BY <1>1, <2>1, <2>2 DEF Below, After, IsOrder
  <2> QED
    BY <1>1, <1>3, <2>1, <2>3, <2>4 DEF PosIn, Place
<1>5. ASSUME next[p] = Nil PROVE PosIn(p, S, R) = Cardinality(S)
  <2>1. S \subseteq D
    BY <1>2, <1>5 DEF Chained
  <2>2. D = S
    BY <1>2, <2>1
  <2> QED
    BY <1>3, <2>2
<1> QED
  BY <1>3, <1>4, <1>5

LEMMA SubSeqStarts ==
  ASSUME NEW S, NEW k \in Nat, NEW list \in [1..k -> S], NEW a \in 1..k
  PROVE  SubSeq(list, a, k) = <<list[a]>> \o SubSeq(list, a + 1, k)
<1>1. list \in Seq(S) /\ Len(list) = k
  BY LenProperties, SeqDef
<1>2. SubSeq(list, a, k) \in Seq(S) /\ Len(SubSeq(list, a, k)) = k - a + 1
      /\ \A j \in 1..(k - a + 1) : SubSeq(list, a, k)[j] = list[a + j - 1]
  BY <1>1, SubSeqProperties
<1>3. SubSeq(list, a + 1, k) \in Seq(S) /\ Len(SubSeq(list, a + 1, k)) = k - a
      /\ \A j \in 1..(k - a) : SubSeq(list, a + 1, k)[j] = list[a + j]
  BY <1>1
<1> DEFINE s == SubSeq(list, a, k)
           t == <<list[a]>> \o SubSeq(list, a + 1, k)
<1>4. /\ t \in Seq(S) /\ Len(t) = k - a + 1
      /\ \A j \in 1..(k - a + 1) : t[j] = list[a + j - 1]
  BY <1>1, <1>3
<1> HIDE DEF s, t
<1>5. s \in Seq(S) /\ Len(s) = k - a + 1 /\ \A j \in 1..(k - a + 1) : s[j] = list[a + j - 1]
  BY <1>2 DEF s
<1>6. s = t
  BY <1>4, <1>5
<1> QED
  BY <1>6 DEF s, t

LEMMA ChainIs ==
  ASSUME Shape, NEW i \in Levels
  PROVE  /\ ChainFrom(Nil, i) = <<>>
         /\ \A p \in Nodes : /\ ChainFrom(p, i) \in Seq(Nodes)
                             /\ ChainFrom(p, i) = <<p>> \o ChainFrom(forward[p][i], i)
<1> DEFINE D == Nodes \cup {Nil}
           next == Level(i)
<1>1. next \in [Places -> D] /\ Ends(next) /\ \A p \in Places : next[p] = forward[p][i]
  BY LevelType DEF Shape
<1>2. Nodes \subseteq Places /\ Nil \notin Nodes
  BY Apart
<1>3. PICK B \in Nat : \E r \in [Places -> 0..B] : \A p \in Places : next[p] # Nil => r[p] < r[next[p]]
  BY <1>1 DEF Ends
<1>4. PICK r \in [Places -> 0..B] : \A p \in Places : next[p] # Nil => r[p] < r[next[p]]
  BY <1>3
<1> DEFINE mu == [p \in D |-> IF p = Nil THEN 0 ELSE B - r[p] + 1]
           step == [p \in D |-> IF p = Nil THEN Nil ELSE next[p]]
           comb == [p \in D |-> [s \in Seq(Nodes) |-> IF p = Nil THEN s ELSE <<p>> \o s]]
           stop == [p \in D |-> <<>>]
<1>5. mu \in [D -> 0..(B + 1)] /\ \A p \in Nodes : mu[step[p]] < mu[p]
  <2>1. \A p \in Nodes : r[p] \in 0..B
    BY <1>2
  <2>2. mu \in [D -> 0..(B + 1)]
    BY <2>1
  <2>3. ASSUME NEW p \in Nodes PROVE mu[step[p]] < mu[p]
    <3>1. step[p] = next[p] /\ mu[p] = B - r[p] + 1 /\ r[p] \in 0..B
      BY <1>2, <2>1
    <3>2. CASE next[p] = Nil
      BY <3>1, <3>2
    <3>3. CASE next[p] # Nil
      <4>1. next[p] \in Nodes /\ r[next[p]] \in 0..B /\ r[p] < r[next[p]]
        BY <1>1, <1>2, <1>4, <2>1, <3>3
      <4>2. mu[next[p]] = B - r[next[p]] + 1
        BY <3>3, <4>1
      <4> QED
        BY <3>1, <4>1, <4>2
    <3> QED
      BY <3>2, <3>3
  <2> QED
    BY <2>2, <2>3
<1>6. step \in [D -> D] /\ comb \in [D -> [Seq(Nodes) -> Seq(Nodes)]] /\ stop \in [D -> Seq(Nodes)]
      /\ Nodes \in SUBSET D /\ B + 1 \in Nat
  BY <1>1, <1>2
<1>7. PICK f \in [D -> Seq(Nodes)] : Recursive(f, D, Nodes, step, comb, stop)
  <2> HIDE DEF D, mu, step, comb, stop
  <2>1. \A p \in D : p \in Nodes => mu[step[p]] < mu[p]
    BY <1>5
  <2> QED
    BY <1>5, <1>6, <2>1, RecursionExists
<1> DEFINE Def(g) == [p \in D |-> IF p = Nil THEN <<>> ELSE <<p>> \o g[forward[p][i]]]
<1>8. f = Def(f)
  <2>1. ASSUME NEW p \in D PROVE f[p] = IF p = Nil THEN <<>> ELSE <<p>> \o f[forward[p][i]]
    <3>1. f[p] = IF p \in Nodes THEN comb[p][f[step[p]]] ELSE stop[p]
      BY <1>7 DEF Recursive
    <3>2. CASE p = Nil
      BY <1>2, <3>1, <3>2
    <3>3. CASE p # Nil
      <4>1. p \in Nodes /\ step[p] = next[p] /\ next[p] = forward[p][i] /\ next[p] \in D
        BY <1>1, <1>2, <3>3
      <4>2. f[next[p]] \in Seq(Nodes)
        BY <4>1
      <4>3. comb[p][f[next[p]]] = <<p>> \o f[next[p]]
        BY <3>3, <4>2
      <4> QED
        BY <3>1, <3>3, <4>1, <4>3
    <3> QED
      BY <3>2, <3>3
  <2> QED
    BY <2>1
<1> DEFINE chain == CHOOSE g : g = Def(g)
<1>9. chain = Def(chain)
  <2> HIDE DEF Def
  <2> QED
    BY <1>8
<1>10. \A p : ChainFrom(p, i) = chain[p]
  BY DEF ChainFrom
<1>11. PICK g : g = chain
  OBVIOUS
<1>12. \A p \in D : g[p] = IF p = Nil THEN <<>> ELSE <<p>> \o g[forward[p][i]]
  <2>1. g = [p \in D |-> IF p = Nil THEN <<>> ELSE <<p>> \o g[forward[p][i]]]
    BY <1>9, <1>11
  <2> HIDE DEF D
  <2> QED
    BY <2>1
<1>13. \A p : ChainFrom(p, i) = g[p]
  BY <1>10, <1>11
<1> HIDE DEF chain, Def, step, comb, stop, mu
<1>14. \A p \in Nodes : g[p] \in Seq(Nodes)
  <2> DEFINE T == {x \in Places : x \in Nodes => g[x] \in Seq(Nodes)}
  <2>1. ASSUME NEW x \in Places, next[x] = Nil \/ next[x] \in T PROVE x \in T
    <3> SUFFICES ASSUME x \in Nodes PROVE g[x] \in Seq(Nodes)
      OBVIOUS
    <3>1. next[x] \in D /\ next[x] = forward[x][i]
      BY <1>1
    <3>2. g[next[x]] \in Seq(Nodes)
      <4>1. g[Nil] = <<>> /\ <<>> \in Seq(Nodes)
        <5>1. Nil \in D
          OBVIOUS
        <5>2. g[Nil] = <<>>
          BY <1>12, <5>1, Zenon
        <5> QED
          BY <5>2
      <4>2. next[x] # Nil => next[x] \in Nodes /\ next[x] \in T
        BY <2>1, <3>1
      <4> HIDE DEF next
      <4> QED
        BY <4>1, <4>2
    <3>3. g[x] = <<x>> \o g[next[x]]
      BY <1>2, <1>12, <3>1
    <3> QED
      BY <3>2, <3>3
  <2>2. \A x \in Places : x \in T
    <3> HIDE DEF T, next
    <3> QED
      BY <1>1, <2>1, DownAlong
  <2> QED
    BY <1>2, <2>2
<1> QED
  BY <1>2, <1>12, <1>13, <1>14

(* A level in order is listed in order.                                    *)
LEMMA ChainLists ==
  ASSUME Shape, NEW i \in Levels, NEW S \in SUBSET Nodes, IsFiniteSet(S), NEW R, IsOrder(R, S),
         Chained(Level(i), S, R),
         NEW list \in [1..Cardinality(S) -> S], Increasing(list, R)
  PROVE  /\ \A p \in S : ChainFrom(p, i) = SubSeq(list, Place(p, S, R), Cardinality(S))
         /\ Listed(i) = list
<1>1. PICK k \in Nat : k = Cardinality(S)
  BY FS_CardinalityType
<1>2. PICK next : next = Level(i)
  OBVIOUS
<1>3. next \in [Places -> Nodes \cup {Nil}] /\ Ends(next) /\ Chained(next, S, R)
      /\ \A p \in Places : next[p] = forward[p][i]
  BY <1>2, LevelType DEF Shape
<1>4. S \subseteq Nodes /\ S \subseteq Places /\ Head0 \in Places /\ Nil \notin S /\ Head0 \notin S
  BY Apart
<1>5. \A n \in S : list[Place(n, S, R)] = n /\ Place(n, S, R) \in 1..k /\ PosIn(n, S, R) = Place(n, S, R)
  BY <1>1, <1>4, PlaceInList, PlaceType DEF PosIn
<1>6. list \in [1..k -> S]
  BY <1>1
<1>7. list \in Seq(S) /\ Len(list) = k
  BY <1>6, LenProperties, SeqDef
<1> DEFINE T == {x \in Places : x \in S => ChainFrom(x, i) = SubSeq(list, Place(x, S, R), k)}
<1>8. ASSUME NEW x \in Places, next[x] = Nil \/ next[x] \in T PROVE x \in T
  <2> SUFFICES ASSUME x \in S PROVE ChainFrom(x, i) = SubSeq(list, Place(x, S, R), k)
    OBVIOUS
  <2>1. PICK a \in 1..k : a = Place(x, S, R)
    BY <1>5
  <2>2. list[a] = x
    BY <1>5, <2>1
  <2>3. ChainFrom(x, i) = <<x>> \o ChainFrom(next[x], i)
    BY <1>3, <1>4, ChainIs
  <2>4. SubSeq(list, a, k) = <<x>> \o SubSeq(list, a + 1, k)
    BY <1>6, <2>2, SubSeqStarts
  <2>5. CASE next[x] = Nil
    <3>1. PosIn(x, S, R) = k
      BY <1>1, <1>3, <2>5, ChainedPlaces
    <3>2. a = k
      BY <1>5, <2>1, <3>1
    <3>3. ChainFrom(next[x], i) = <<>>
      BY <2>5, ChainIs
    <3>4. SubSeq(list, a + 1, k) = <<>>
      BY <1>7, <3>2
    <3> QED
      BY <2>1, <2>3, <2>4, <3>3, <3>4
  <2>6. CASE next[x] # Nil
    <3>1. next[x] \in S /\ PosIn(next[x], S, R) = PosIn(x, S, R) + 1
      BY <1>3, <2>6, ChainedPlaces
    <3>2. Place(next[x], S, R) = a + 1
      BY <1>5, <2>1, <3>1
    <3>3. ChainFrom(next[x], i) = SubSeq(list, a + 1, k)
      BY <1>8, <2>6, <3>1, <3>2
    <3> QED
      BY <2>1, <2>3, <2>4, <3>3
  <2> QED
    BY <2>5, <2>6
<1>9. \A x \in Places : x \in T
  <2> HIDE DEF T
  <2> QED
    BY <1>3, <1>8, DownAlong
<1>10. \A p \in S : ChainFrom(p, i) = SubSeq(list, Place(p, S, R), k)
  BY <1>4, <1>9
<1>11. Listed(i) = list
  <2>1. Listed(i) = ChainFrom(next[Head0], i)
    BY <1>3, <1>4 DEF Listed
  <2>2. PosIn(Head0, S, R) = 0
    BY DEF PosIn
  <2>3. CASE next[Head0] = Nil
    <3>1. k = 0
      BY <1>1, <1>3, <2>2, <2>3, ChainedPlaces
    <3>2. Listed(i) = <<>>
      BY <2>1, <2>3, ChainIs
    <3>3. list = <<>>
      BY <1>7, <3>1
    <3> QED
      BY <3>2, <3>3
  <2>4. CASE next[Head0] # Nil
    <3>1. next[Head0] \in S /\ PosIn(next[Head0], S, R) = 1
      BY <1>3, <2>2, <2>4, ChainedPlaces
    <3>2. Listed(i) = SubSeq(list, 1, k)
      BY <1>5, <1>10, <2>1, <3>1
    <3>3. SubSeq(list, 1, k) = list
      BY <1>7
    <3> QED
      BY <3>2, <3>3
  <2> QED
    BY <2>3, <2>4
<1> QED
  BY <1>1, <1>10, <1>11

(* Members in order.                                                       *)
LEMMA SortedIs ==
  ASSUME SortedTypeOK, Linked, NEW S \in SUBSET InSet
  PROVE  /\ IsFiniteSet(S) /\ IsOrder(ScoreOrder, S)
         /\ Sorted(S) \in [1..Cardinality(S) -> S] /\ Increasing(Sorted(S), ScoreOrder)
         /\ \A list \in [1..Cardinality(S) -> S] : Increasing(list, ScoreOrder) => list = Sorted(S)
<1>1. IsFiniteSet(S) /\ IsOrder(ScoreOrder, S)
  BY NodesOfMembers, FS_Subset, OrderAgain
<1>2. \A a, b \in S : Precedes(score, member[a], member[b]) <=> <<a, b>> \in ScoreOrder
  <2> SUFFICES ASSUME NEW a \in S, NEW b \in S
               PROVE  Precedes(score, member[a], member[b]) <=> <<a, b>> \in ScoreOrder
    OBVIOUS
  <2>1. dictionary[member[a]] = a /\ dictionary[member[b]] = b /\ a \in Nodes /\ b \in Nodes
    BY NodesOfMembers
  <2> QED
    BY <2>1, ScoreOrderIs DEF Precedes
<1>3. PICK F : F = [1..Cardinality(S) -> S]
  OBVIOUS
<1>4. \A list \in F : Increasing(list, ScoreOrder) <=>
        \A a, b \in DOMAIN list : a < b => Precedes(score, member[list[a]], member[list[b]])
  <2> SUFFICES ASSUME NEW list \in [1..Cardinality(S) -> S]
               PROVE  Increasing(list, ScoreOrder) <=>
                        \A a, b \in DOMAIN list : a < b => Precedes(score, member[list[a]], member[list[b]])
    BY <1>3
  <2>1. \A a \in DOMAIN list : list[a] \in S
    OBVIOUS
  <2> QED
    BY <1>2, <2>1 DEF Increasing
<1>5. \E list \in F : Increasing(list, ScoreOrder)
  BY <1>1, <1>3, ListExists
<1>6. Sorted(S) = CHOOSE list \in F :
        \A a, b \in DOMAIN list : a < b => Precedes(score, member[list[a]], member[list[b]])
  BY <1>3 DEF Sorted
<1>7. Sorted(S) \in F /\ Increasing(Sorted(S), ScoreOrder)
  BY <1>4, <1>5, <1>6
<1>8. ASSUME NEW list \in [1..Cardinality(S) -> S], Increasing(list, ScoreOrder) PROVE list = Sorted(S)
  <2>1. PICK k, other : k = Cardinality(S) /\ other = Sorted(S)
    OBVIOUS
  <2>2. list \in [1..k -> S] /\ other \in [1..k -> S]
    BY <1>3, <1>7, <2>1
  <2>3. ASSUME NEW a \in 1..k PROVE list[a] = other[a]
    <3>1. Place(list[a], S, ScoreOrder) = a
      BY <1>1, <1>8, <2>1, PlaceInList
    <3>2. Place(other[a], S, ScoreOrder) = a
      BY <1>1, <1>3, <1>7, <2>1, PlaceInList
    <3>3. list[a] \in S /\ other[a] \in S
      BY <2>2
    <3> QED
      BY <1>1, <3>1, <3>2, <3>3, PlaceTells
  <2>4. list = [a \in 1..k |-> list[a]] /\ other = [a \in 1..k |-> other[a]]
    BY <2>2
  <2>5. list = other
    BY <2>3, <2>4, Zenon
  <2> QED
    BY <2>1, <2>5
<1> QED
  BY <1>1, <1>3, <1>7, <1>8

(* A list of a set in order has each of its elements once.                 *)
LEMMA ListHas ==
  ASSUME NEW S, IsFiniteSet(S), NEW R, IsOrder(R, S),
         NEW list \in [1..Cardinality(S) -> S], Increasing(list, R)
  PROVE  IsInjective(list) /\ Range(list) = S
<1>1. PICK k : k = Cardinality(S)
  OBVIOUS
<1>2. \A a \in 1..k : Place(list[a], S, R) = a
  BY <1>1, PlaceInList
<1>3. \A n \in S : Place(n, S, R) \in 1..k /\ list[Place(n, S, R)] = n
  BY <1>1, PlaceInList, PlaceType
<1>4. DOMAIN list = 1..k /\ \A a \in 1..k : list[a] \in S
  BY <1>1
<1>5. IsInjective(list)
  BY <1>2, <1>4 DEF IsInjective
<1>6. Range(list) = S
  BY <1>3, <1>4 DEF Range
<1> QED
  BY <1>5, <1>6

LEMMA OrderedLevels == SortedInv => LevelsInOrder
<1> SUFFICES ASSUME SortedInv PROVE LevelsInOrder
  OBVIOUS
<1>1. SortedTypeOK /\ Linked /\ Shape /\ Counted
  BY DEF SortedInv, Shape
<1>2. InSet \in SUBSET Nodes /\ 0 \in Levels
  BY <1>1, NodesOfMembers, Apart
<1>3. ASSUME ~reordered, ~topRemoved, NEW i \in Levels PROVE Listed(i) = Sorted(On(i))
  <2>1. PICK S, list : S = On(i) /\ list = Sorted(S)
    OBVIOUS
  <2>2. S \in SUBSET InSet /\ S \in SUBSET Nodes
    BY <1>1, <1>2, <2>1, OnLevel
  <2>3. /\ IsFiniteSet(S) /\ IsOrder(ScoreOrder, S)
        /\ list \in [1..Cardinality(S) -> S] /\ Increasing(list, ScoreOrder)
    BY <1>1, <2>1, <2>2, SortedIs
  <2>4. Chained(Level(i), S, ScoreOrder)
    BY <1>3, <2>1 DEF SortedInv, InScoreOrder
  <2>5. Listed(i) = list
    BY <1>1, <2>2, <2>3, <2>4, ChainLists
  <2> QED
    BY <2>1, <2>5
<1>4. ASSUME removals = 0 PROVE IsInjective(Listed(0)) /\ Range(Listed(0)) = Range(Ordered)
  <2>1. PICK R : IsOrder(R, InSet) /\ Chained(Level(0), InSet, R)
    BY <1>4 DEF SortedInv, InSomeOrder
  <2>2. /\ IsFiniteSet(InSet) /\ IsOrder(ScoreOrder, InSet)
        /\ Ordered \in [1..Cardinality(InSet) -> InSet] /\ Increasing(Ordered, ScoreOrder)
    BY <1>1, SortedIs DEF Ordered
  <2>3. Range(Ordered) = InSet
    BY <2>2, ListHas
  <2>4. PICK list \in [1..Cardinality(InSet) -> InSet] : Increasing(list, R)
    BY <2>1, <2>2, ListExists
  <2>5. Listed(0) = list
    BY <1>1, <1>2, <2>1, <2>2, <2>4, ChainLists
  <2>6. IsInjective(list) /\ Range(list) = InSet
    BY <2>1, <2>2, <2>4, ListHas
  <2> QED
    BY <2>3, <2>5, <2>6
<1> QED
  BY <1>1, <1>3, <1>4 DEF LevelsInOrder, On

(* For every number of members, levels and nodes: each level lists its     *)
(* members in order, none is missing and none is there twice.              *)
THEOREM LevelsStayInOrder == SortedSpec => []LevelsInOrder
<1> QED
  BY SkipListInvariant, OrderedLevels, PTL

-----------------------------------------------------------------------------
(* What the commands answer.                                               *)

(* A walk over a lower part of the members ends at the last of them.       *)
LEMMA WalkEnds ==
  ASSUME SortedInv, InScoreOrder, NEW may
  PROVE  LET end == LastOf(Walk(may))
         IN  /\ end \in Visits /\ ~Goes(may, 0, end)
             /\ end.node = Head0 \/ (end.node \in InSet /\ end \in may)
             /\ Level(0)[end.node] = forward[end.node][0] /\ forward[end.node][0] \in InSet \cup {Nil}
             /\ SpansRight => end.rank = Pos(end.node)
             /\ Chained(Level(0), InSet, ScoreOrder)
<1> DEFINE end == LastOf(Walk(may))
<1>1. SortedTypeOK /\ Linked /\ Shape /\ 0 \in Levels
  BY Apart DEF SortedInv, Shape
<1>2. On(0) = InSet /\ InSet \subseteq Nodes
  BY <1>1, OnLevel, NodesOfMembers
<1>3. end = Walk(may)[0]
  BY DEF LastOf
<1> HIDE DEF end
<1>4. /\ end \in Visits /\ ~Goes(may, 0, end)
      /\ end.node = Head0 \/ (end.node \in InSet /\ end \in may)
      /\ SpansRight => end.rank = Pos(end.node)
  BY <1>1, <1>2, <1>3, WalkOnLevel
<1>5. Chained(Level(0), InSet, ScoreOrder)
  BY <1>1, <1>2 DEF InScoreOrder
<1>6. Level(0)[end.node] = forward[end.node][0]
  BY <1>1, <1>4, VisitType, LevelType
<1>7. forward[end.node][0] \in InSet \cup {Nil}
  BY <1>4, <1>5, <1>6 DEF Chained
<1> QED
  BY <1>4, <1>5, <1>6, <1>7 DEF end

LEMMA PositionIs ==
  ASSUME SortedInv, NEW m \in In
  PROVE  Position(m) + 1 = Pos(dictionary[m])
<1>1. SortedTypeOK /\ Linked
  BY DEF SortedInv, Shape
<1> DEFINE e == dictionary[m]
           A == {a \in In : Precedes(score, a, m)}
           B == Below(e, InSet, ScoreOrder)
           f == [n \in B |-> member[n]]
<1>2. /\ InSet \subseteq Nodes /\ IsFiniteSet(InSet) /\ e \in InSet
      /\ \A a \in In : dictionary[a] \in InSet /\ member[dictionary[a]] = a
      /\ \A n \in InSet : member[n] \in In /\ dictionary[member[n]] = n
  BY <1>1, NodesOfMembers
<1>3. \A n \in InSet : <<n, e>> \in ScoreOrder <=> Precedes(score, member[n], m)
  <2> SUFFICES ASSUME NEW n \in InSet
               PROVE  <<n, e>> \in ScoreOrder <=> Precedes(score, member[n], m)
    OBVIOUS
  <2>1. n \in Nodes /\ e \in Nodes /\ dictionary[member[n]] = n /\ member[e] = m
    BY <1>2
  <2> QED
    BY <2>1, ScoreOrderIs DEF Precedes
<1> HIDE DEF e
<1>4. f \in [B -> A] /\ (\A x, y \in B : f[x] = f[y] => x = y) /\ \A a \in A : \E n \in B : f[n] = a
  <2>1. \A n \in B : member[n] \in A
    BY <1>2, <1>3 DEF Below
  <2>2. \A a \in A : dictionary[a] \in B /\ member[dictionary[a]] = a
    BY <1>2, <1>3 DEF Below
  <2>3. \A x, y \in B : member[x] = member[y] => x = y
    BY <1>2 DEF Below
  <2> HIDE DEF A, B
  <2> QED
    BY <2>1, <2>2, <2>3
<1>5. IsFiniteSet(B)
  BY <1>2, FS_Subset DEF Below
<1>6. Cardinality(A) = Cardinality(B)
  <2> HIDE DEF A, B, f
  <2>1. f \in Surjection(B, A) /\ f \in Injection(B, A)
    BY <1>4 DEF Surjection, Injection, IsInjective
  <2> QED
    BY <1>5, <2>1, FS_Surjection
<1>7. Pos(e) = Cardinality(B) + 1
  BY <1>1, <1>2, PosIs, NodesOfMembers DEF Place
<1> QED
  BY <1>6, <1>7 DEF Position, e

LEMMA RankRight == SortedInv => RankIsPosition
<1> SUFFICES ASSUME SortedInv, ~reordered, ~topCrossed, NEW m \in In PROVE ZRank(m) = Position(m)
  BY DEF RankIsPosition
<1>1. SortedTypeOK /\ Linked /\ InScoreOrder /\ SpansRight
  BY DEF SortedInv, Shape
<1> DEFINE may == {p \in Visits : UpTo(p.node, score[dictionary[m]], m)}
<1>2. PICK e : e = dictionary[m]
  OBVIOUS
<1>3. PICK end : end = LastOf(Walk(may))
  OBVIOUS
<1>4. PICK u, next : u = end.node /\ next = Level(0)
  OBVIOUS
<1>5. /\ end \in Visits /\ ~Goes(may, 0, end)
      /\ u = Head0 \/ (u \in InSet /\ end \in may)
      /\ next[u] = forward[u][0] /\ next[u] \in InSet \cup {Nil}
      /\ end.rank = Pos(u) /\ Chained(next, InSet, ScoreOrder)
  <2> HIDE DEF may
  <2> QED
    BY <1>1, <1>3, <1>4, WalkEnds
<1>6. e \in InSet /\ member[e] = m /\ InSet \subseteq Nodes /\ IsOrder(ScoreOrder, InSet)
      /\ \A a, b \in InSet : member[a] = member[b] => a = b
  BY <1>1, <1>2, NodesOfMembers
<1>7. \A a \in InSet : UpTo(a, score[e], m) <=> a = e \/ <<a, e>> \in ScoreOrder
  <2> SUFFICES ASSUME NEW a \in InSet PROVE UpTo(a, score[e], m) <=> a = e \/ <<a, e>> \in ScoreOrder
    OBVIOUS
  <2>1. a \in Nodes /\ e \in Nodes /\ (member[a] = m => a = e)
    BY <1>6
  <2>2. score[a] \in Int /\ score[e] \in Int /\ member[a] \in Int /\ member[e] \in Int
    BY <1>1, <2>1 DEF SortedTypeOK
  <2> QED
    BY <1>6, <2>1, <2>2, ScoreOrderIs DEF UpTo
<1>8. next[u] # Nil => ~UpTo(next[u], score[e], m)
  <2> SUFFICES ASSUME next[u] # Nil PROVE ~UpTo(next[u], score[e], m)
    OBVIOUS
  <2>1. NextPlace(end, 0) \in Visits /\ NextPlace(end, 0).node = next[u]
    BY <1>1, <1>4, <1>5, VisitType, Apart DEF NextPlace
  <2> QED
    BY <1>2, <1>4, <1>5, <2>1 DEF Goes
<1>9. u # e => After(u, e, ScoreOrder)
  <2>1. u # Head0 => UpTo(u, score[e], m)
    BY <1>2, <1>4, <1>5
  <2> QED
    BY <1>5, <1>7, <2>1 DEF After
<1>10. u = e
  <2> SUFFICES ASSUME u # e PROVE FALSE
    OBVIOUS
  <2>1. next[u] # Nil /\ next[u] \in InSet /\ (e = next[u] \/ <<next[u], e>> \in ScoreOrder)
    BY <1>5, <1>6, <1>9 DEF Chained
  <2> QED
    BY <1>7, <1>8, <2>1
<1>11. ZRank(m) = Pos(e) - 1
  BY <1>2, <1>3, <1>5, <1>10 DEF ZRank
<1>12. Position(m) + 1 = Pos(e) /\ Pos(e) \in Int
  BY <1>1, <1>2, <1>6, PositionIs, PosIs
<1>13. Position(m) \in Int
  <2>1. IsFiniteSet(In)
    <3>1. [a \in In |-> dictionary[a]] \in Injection(In, InSet)
      BY <1>1, NodesOfMembers DEF Injection, IsInjective
    <3> QED
      BY <1>1, <3>1, NodesOfMembers, FS_Injection
  <2> QED
    BY <2>1, FS_Subset, FS_CardinalityType DEF Position
<1> QED
  BY <1>11, <1>12, <1>13

(* ZRANK is right for every number of members and every way the spans came *)
(* about, as long as no member was reordered and no removal was next to a  *)
(* node of the top level.                                                  *)
THEOREM RanksAreRight == SortedSpec => []RankIsPosition
<1> QED
  BY SkipListInvariant, RankRight, PTL

LEMMA SearchRight == SortedInv => SearchStartsRight
<1> SUFFICES ASSUME SortedInv, ~reordered, ~topRemoved, NEW s \in Scores,
                    NEW S, S = {n \in InSet : score[n] >= s}
             PROVE  FirstGE(s) = IF S = {} THEN Nil ELSE Sorted(S)[1]
  BY DEF SearchStartsRight
<1>1. SortedTypeOK /\ Linked /\ InScoreOrder /\ s \in Int
  BY SortedSetsAssumption DEF SortedInv, Shape
<1> DEFINE may == {p \in Visits : BelowScore(p.node, s)}
<1>2. PICK end : end = LastOf(Walk(may))
  OBVIOUS
<1>3. PICK u, next : u = end.node /\ next = Level(0)
  OBVIOUS
<1>4. /\ end \in Visits /\ ~Goes(may, 0, end)
      /\ u = Head0 \/ (u \in InSet /\ end \in may)
      /\ next[u] = forward[u][0] /\ next[u] \in InSet \cup {Nil}
      /\ Chained(next, InSet, ScoreOrder)
  <2> HIDE DEF may
  <2> QED
    BY <1>1, <1>2, <1>3, WalkEnds
<1>5. InSet \subseteq Nodes /\ IsOrder(ScoreOrder, InSet) /\ (\A n \in InSet : n # Nil)
      /\ \A n \in InSet : score[n] \in Int
  <2>1. InSet \subseteq Nodes /\ IsOrder(ScoreOrder, InSet)
    BY <1>1, NodesOfMembers
  <2> QED
    BY <1>1, <2>1, Apart DEF SortedTypeOK
<1>6. FirstGE(s) = next[u]
  BY <1>2, <1>3, <1>4 DEF FirstGE
<1>7. next[u] # Nil => next[u] \in S
  <2> SUFFICES ASSUME next[u] # Nil PROVE next[u] \in S
    OBVIOUS
  <2>1. NextPlace(end, 0) \in Visits /\ NextPlace(end, 0).node = next[u]
    BY <1>1, <1>3, <1>4, VisitType, Apart DEF NextPlace
  <2>2. ~BelowScore(next[u], s) /\ next[u] \in InSet
    BY <1>3, <1>4, <2>1 DEF Goes
  <2> QED
    BY <1>1, <1>5, <2>2 DEF BelowScore
<1>8. ASSUME NEW n \in S PROVE next[u] # Nil /\ (n = next[u] \/ <<next[u], n>> \in ScoreOrder)
  <2>1. n \in InSet /\ score[n] >= s
    OBVIOUS
  <2>2. u # Head0 => u \in InSet /\ score[u] < s
    BY <1>3, <1>4 DEF BelowScore
  <2>3. After(u, n, ScoreOrder)
    <3> SUFFICES ASSUME u # Head0 PROVE <<u, n>> \in ScoreOrder
      BY DEF After
    <3>1. u \in Nodes /\ n \in Nodes /\ score[u] < score[n]
      BY <1>1, <1>5, <2>1, <2>2
    <3> QED
      BY <3>1, ScoreOrderIs
  <2>4. u \in InSet \cup {Head0}
    BY <2>2
  <2> QED
    BY <1>4, <2>1, <2>3, <2>4 DEF Chained
<1>9. CASE S = {}
  BY <1>6, <1>7, <1>9
<1>10. CASE S # {}
  <2>1. PICK q \in S : q = next[u]
    BY <1>7, <1>8, <1>10
  <2>2. S \in SUBSET InSet
    OBVIOUS
  <2>3. /\ IsFiniteSet(S) /\ IsOrder(ScoreOrder, S)
        /\ Sorted(S) \in [1..Cardinality(S) -> S] /\ Increasing(Sorted(S), ScoreOrder)
    BY <1>1, <2>2, SortedIs
  <2>4. Below(q, S, ScoreOrder) = {}
    BY <1>8, <2>1, <2>3 DEF Below, IsOrder
  <2>5. Place(q, S, ScoreOrder) = 1
    BY <2>4, FS_EmptySet DEF Place
  <2>6. Sorted(S)[1] = q
    <3>1. PICK list : list = Sorted(S)
      OBVIOUS
    <3>2. /\ IsFiniteSet(S) /\ IsOrder(ScoreOrder, S)
          /\ list \in [1..Cardinality(S) -> S] /\ Increasing(list, ScoreOrder)
      BY <2>3, <3>1
    <3>3. \A n \in S : list[Place(n, S, ScoreOrder)] = n
      BY <3>2, PlaceInList
    <3> QED
      BY <2>1, <2>5, <3>1, <3>3
  <2> QED
    BY <1>6, <1>10, <2>1, <2>6
<1> QED
  BY <1>9, <1>10

(* GEOSEARCH starts at the first member with the score, for every number   *)
(* of members.                                                             *)
THEOREM SearchesStartRight == SortedSpec => []SearchStartsRight
<1> QED
  BY SkipListInvariant, SearchRight, PTL

(* The element of a rank: the last one when there are not so many, and the *)
(* head when there is none.                                                *)
LEMMA ElementIs ==
  ASSUME SortedInv, InScoreOrder, SpansRight, NEW rank \in Nat, rank + 1 < length
  PROVE  IF InSet = {} THEN GetElement(rank) = Head0
         ELSE /\ GetElement(rank) \in InSet
              /\ Place(GetElement(rank), InSet, ScoreOrder) = Smaller(rank + 1, Cardinality(InSet))
<1>1. SortedTypeOK /\ Linked
  BY DEF SortedInv, Shape
<1> DEFINE may == {p \in Visits : p.rank <= CountsFrom1(rank)}
<1>2. PICK end : end = LastOf(Walk(may))
  OBVIOUS
<1>3. PICK u, next : u = end.node /\ next = Level(0)
  OBVIOUS
<1>4. /\ end \in Visits /\ ~Goes(may, 0, end)
      /\ u = Head0 \/ (u \in InSet /\ end \in may)
      /\ next[u] = forward[u][0] /\ next[u] \in InSet \cup {Nil}
      /\ end.rank = Pos(u) /\ Chained(next, InSet, ScoreOrder)
  <2> HIDE DEF may
  <2> QED
    BY <1>1, <1>2, <1>3, WalkEnds
<1>5. GetElement(rank) = u
  <2>1. ~(CountsFrom1(rank) >= length)
    BY <1>1 DEF CountsFrom1, SortedTypeOK
  <2> QED
    BY <1>2, <1>3, <2>1 DEF GetElement
<1>6. InSet \in SUBSET Nodes /\ IsFiniteSet(InSet) /\ IsOrder(ScoreOrder, InSet) /\ Head0 \notin InSet
      /\ Cardinality(InSet) \in Nat /\ 0 \in Levels
  BY <1>1, NodesOfMembers, Apart, FS_CardinalityType
<1>7. /\ Pos(u) \in 0..Cardinality(InSet)
      /\ next[u] # Nil => next[u] \in InSet /\ Pos(next[u]) = Pos(u) + 1
      /\ next[u] = Nil => Pos(u) = Cardinality(InSet)
  <2>1. u \in InSet \cup {Head0}
    BY <1>4
  <2> QED
    BY <1>4, <1>6, <2>1, ChainedPlaces DEF Pos
<1>8. next[u] # Nil => Pos(u) >= rank + 1
  <2> SUFFICES ASSUME next[u] # Nil PROVE Pos(u) >= rank + 1
    OBVIOUS
  <2>1. NextPlace(end, 0) \in Visits /\ NextPlace(end, 0).rank = end.rank + span[u][0]
    BY <1>1, <1>3, <1>4, <1>6, VisitType DEF NextPlace
  <2>2. span[u][0] = Pos(next[u]) - Pos(u)
    <3>1. u \in On(0) \cup {Head0}
      BY <1>1, <1>4, <1>6, OnLevel
    <3> QED
      BY <1>4, <1>6, <3>1 DEF SpansRight
  <2>3. NextPlace(end, 0).rank = Pos(u) + 1
    BY <1>4, <1>7, <2>1, <2>2
  <2>4. ~(Pos(u) + 1 <= rank + 1)
    BY <1>3, <1>4, <2>1, <2>3 DEF Goes, CountsFrom1
  <2> QED
    BY <1>7, <2>4
<1>9. u # Head0 => Pos(u) <= rank + 1 /\ Pos(u) = Place(u, InSet, ScoreOrder)
  BY <1>4 DEF CountsFrom1, Pos, PosIn
<1>10. CASE InSet = {}
  BY <1>4, <1>5, <1>10
<1>11. CASE InSet # {}
  <2>1. Cardinality(InSet) # 0
    BY <1>6, <1>11, FS_EmptySet
  <2>2. u # Head0
    <3> SUFFICES ASSUME u = Head0 PROVE FALSE
      OBVIOUS
    <3>1. Pos(u) = 0
      BY DEF Pos, PosIn
    <3> QED
      BY <1>7, <1>8, <2>1, <3>1
  <2>3. Pos(u) = Smaller(rank + 1, Cardinality(InSet))
    BY <1>6, <1>7, <1>8, <1>9, <2>2 DEF Smaller
  <2> QED
    BY <1>4, <1>5, <1>9, <1>11, <2>2, <2>3
<1> QED
  BY <1>10, <1>11

(* The first c elements from the k-th on.                                  *)
LEMMA StartOfTail ==
  ASSUME NEW S, NEW n \in Nat, NEW list \in [1..n -> S], NEW k \in 1..n, NEW c \in 0..(n - k + 1)
  PROVE  SubSeq(SubSeq(list, k, n), 1, c) = SubSeq(list, k, k + c - 1)
<1>1. list \in Seq(S) /\ Len(list) = n
  BY LenProperties, SeqDef
<1> DEFINE mid == SubSeq(list, k, n)
<1>2. mid \in Seq(S) /\ Len(mid) = n - k + 1 /\ \A j \in 1..(n - k + 1) : mid[j] = list[k + j - 1]
  BY <1>1, SubSeqProperties
<1> HIDE DEF mid
<1> DEFINE s == SubSeq(mid, 1, c)
           t == SubSeq(list, k, k + c - 1)
<1>3. s \in Seq(S) /\ Len(s) = c /\ \A j \in 1..c : s[j] = mid[j]
  BY <1>2
<1>4. t \in Seq(S) /\ Len(t) = c /\ \A j \in 1..c : t[j] = list[k + j - 1]
  BY <1>1
<1> HIDE DEF s, t
<1>5. \A j \in 1..c : s[j] = t[j]
  BY <1>2, <1>3, <1>4
<1>6. s = t
  BY <1>3, <1>4, <1>5
<1> QED
  BY <1>6 DEF s, t, mid

LEMMA SliceRight == SortedInv => RangeIsSlice
<1> SUFFICES ASSUME SortedInv, ~reordered, ~topCrossed
             PROVE  /\ ZCard = Len(Ordered) + removals
                    /\ \A from, to \in Int : ZRange(from, to) = Slice(from, to)
  <2>1. MaxNodes + 1 \in Int
    BY SortedSetsAssumption
  <2>2. -(MaxNodes + 1)..(MaxNodes + 1) \subseteq Int
    BY <2>1
  <2> QED
    BY <2>2 DEF RangeIsSlice
<1>1. /\ SortedTypeOK /\ Linked /\ Shape /\ Counted /\ InScoreOrder /\ SpansRight
      /\ length \in Nat /\ removals \in Nat
  BY DEF SortedInv, Shape, SortedTypeOK, Counted
<1>2. /\ InSet \in SUBSET Nodes /\ IsFiniteSet(InSet) /\ IsOrder(ScoreOrder, InSet) /\ Head0 \notin InSet
      /\ 0 \in Levels /\ On(0) = InSet /\ Nil # Head0
  BY <1>1, NodesOfMembers, Apart, OnLevel
<1>3. PICK n \in Nat : n = Cardinality(InSet)
  BY <1>2, FS_CardinalityType
<1>4. PICK list : list = Ordered
  OBVIOUS
<1>5. /\ list \in [1..n -> InSet] /\ Increasing(list, ScoreOrder)
      /\ list \in [1..Cardinality(InSet) -> InSet]
  BY <1>1, <1>3, <1>4, SortedIs DEF Ordered
<1>6. list \in Seq(InSet) /\ Len(list) = n
  BY <1>5, LenProperties, SeqDef
<1>7. length = n + removals
  BY <1>1, <1>3 DEF Counted
<1>8. /\ \A p \in InSet : ChainFrom(p, 0) = SubSeq(list, Place(p, InSet, ScoreOrder), n)
      /\ ChainFrom(forward[Head0][0], 0) = list
  <2>1. Chained(Level(0), InSet, ScoreOrder)
    BY <1>1, <1>2 DEF InScoreOrder
  <2> QED
    BY <1>1, <1>2, <1>3, <1>5, <2>1, ChainLists DEF Listed
<1>9. ASSUME NEW from \in Int, NEW to \in Int PROVE ZRange(from, to) = Slice(from, to)
  <2>1. PICK lo, hi, hi2, first :
          /\ lo = FromEnd(from) /\ hi = FromEnd(to) /\ first = GetElement(lo)
          /\ hi2 = IF hi > length THEN length - 1 ELSE hi
    OBVIOUS
  <2>2. lo \in Nat /\ hi \in Nat /\ hi2 \in Int
    BY <1>1, <2>1 DEF FromEnd, Larger
  <2>3. PICK chain : chain = IF first = Head0 THEN <<Head0>> \o ChainFrom(forward[Head0][0], 0)
                             ELSE ChainFrom(first, 0)
    OBVIOUS
  <2>4. ZRange(from, to) = IF lo > hi \/ lo >= length THEN <<>>
                           ELSE SubSeq(chain, 1, Smaller(hi2 - lo + 1, Len(chain)))
    BY <2>1, <2>3 DEF ZRange
  <2>5. Slice(from, to) = IF lo > hi \/ lo + 1 >= n + removals THEN <<>>
                          ELSE IF n = 0 THEN <<Head0>>
                          ELSE SubSeq(list, Smaller(lo + 1, n), Smaller(Smaller(lo + 1, n) + (hi - lo), n))
    BY <1>4, <1>6, <2>1 DEF Slice
  <2>6. CASE lo > hi \/ lo >= length
    BY <1>1, <1>7, <2>2, <2>4, <2>5, <2>6
  <2>7. CASE ~(lo > hi \/ lo >= length) /\ lo + 1 >= length
    <3>1. first = Nil
      BY <2>1, <2>7 DEF GetElement, CountsFrom1
    <3>2. chain = <<>>
      BY <1>1, <1>2, <2>3, <3>1, ChainIs
    <3>3. Smaller(hi2 - lo + 1, Len(chain)) \in Int /\ Smaller(hi2 - lo + 1, Len(chain)) <= 0
      BY <2>2, <3>2 DEF Smaller
    <3>4. ZRange(from, to) = <<>>
      BY <2>4, <2>7, <3>2, <3>3
    <3> QED
      BY <1>7, <2>5, <2>7, <3>4
  <2>8. CASE lo <= hi /\ lo + 1 < length
    <3>1. IF InSet = {} THEN first = Head0
          ELSE first \in InSet /\ Place(first, InSet, ScoreOrder) = Smaller(lo + 1, n)
      BY <1>1, <1>3, <2>1, <2>2, <2>8, ElementIs
    <3>2. ZRange(from, to) = SubSeq(chain, 1, Smaller(hi2 - lo + 1, Len(chain)))
      <4>1. ~(lo > hi \/ lo >= length)
        BY <1>1, <2>2, <2>8
      <4> QED
        BY <2>4, <4>1
    <3>3. hi2 - lo + 1 >= 1 /\ hi2 - lo + 1 \in Int
      BY <1>1, <2>1, <2>2, <2>8
    <3>4. CASE n = 0
      <4>1. InSet = {}
        BY <1>2, <1>3, <3>4, FS_EmptySet
      <4>2. list = <<>>
        BY <1>6, <3>4
      <4>3. chain = <<Head0>>
        <5>1. chain = <<Head0>> \o ChainFrom(forward[Head0][0], 0)
          BY <2>3, <3>1, <4>1
        <5>2. ChainFrom(forward[Head0][0], 0) = <<>>
          BY <1>8, <4>2
        <5>3. <<Head0>> \o <<>> = <<Head0>>
          OBVIOUS
        <5> QED
          BY <5>1, <5>2, <5>3
      <4>4. Smaller(hi2 - lo + 1, Len(chain)) = 1
        BY <3>3, <4>3 DEF Smaller
      <4>5. SubSeq(chain, 1, 1) = <<Head0>>
        <5>1. <<Head0>> \in Seq({Head0}) /\ Len(<<Head0>>) = 1
          OBVIOUS
        <5> QED
          BY <4>3, <5>1, SubSeqFull
      <4>6. ~(lo > hi \/ lo + 1 >= n + removals)
        BY <1>1, <1>7, <2>2, <2>8
      <4>7. Slice(from, to) = <<Head0>>
        BY <2>5, <3>4, <4>6
      <4> QED
        BY <3>2, <4>4, <4>5, <4>7
    <3>5. CASE n # 0
      <4>1. InSet # {}
        BY <1>2, <1>3, <3>5, FS_EmptySet
      <4>2. PICK k \in 1..n : k = Smaller(lo + 1, n)
        BY <2>2, <3>5 DEF Smaller
      <4>3. chain = SubSeq(list, k, n)
        BY <1>2, <1>8, <2>3, <3>1, <4>1, <4>2
      <4>4. Len(chain) = n - k + 1
        BY <1>6, <4>3
      <4>5. PICK c \in 0..(n - k + 1) : c = Smaller(hi2 - lo + 1, Len(chain))
        BY <3>3, <4>4 DEF Smaller
      <4>6. Smaller(k + (hi - lo), n) = k + c - 1
        <5>1. /\ n \in Nat /\ k \in Int /\ c \in Int /\ lo \in Int /\ hi \in Int
              /\ length \in Int /\ removals \in Nat /\ hi2 \in Int
          BY <1>1, <2>2
        <5>2. k = IF lo + 1 <= n THEN lo + 1 ELSE n
          BY <4>2 DEF Smaller
        <5>3. c = IF hi2 - lo + 1 <= n - k + 1 THEN hi2 - lo + 1 ELSE n - k + 1
          BY <4>4, <4>5 DEF Smaller
        <5>4. hi2 = IF hi > length THEN length - 1 ELSE hi
          BY <2>1
        <5>5. Smaller(k + (hi - lo), n) = IF k + (hi - lo) <= n THEN k + (hi - lo) ELSE n
          BY DEF Smaller
        <5>6. CASE lo + 1 <= n
          <6>1. k = lo + 1
            BY <5>2, <5>6
          <6>2. CASE hi > length
            BY <1>7, <5>1, <5>3, <5>4, <5>5, <5>6, <6>1, <6>2
          <6>3. CASE ~(hi > length)
            BY <1>7, <5>1, <5>3, <5>4, <5>5, <5>6, <6>1, <6>3
          <6> QED
            BY <6>2, <6>3
        <5>7. CASE ~(lo + 1 <= n)
          <6>1. k = n
            BY <5>2, <5>7
          <6>2. c = 1
            BY <3>3, <5>1, <5>3, <6>1
          <6>3. k + (hi - lo) >= n
            BY <2>8, <5>1, <6>1
          <6> QED
            BY <5>1, <5>5, <6>1, <6>2, <6>3
        <5> QED
          BY <5>6, <5>7
      <4>7. ZRange(from, to) = SubSeq(SubSeq(list, k, n), 1, c)
        BY <3>2, <4>3, <4>5
      <4>8. SubSeq(SubSeq(list, k, n), 1, c) = SubSeq(list, k, k + c - 1)
        BY <1>5, StartOfTail
      <4>9. Slice(from, to) = SubSeq(list, k, k + c - 1)
        <5>1. ~(lo > hi \/ lo + 1 >= n + removals)
          BY <1>1, <1>7, <2>2, <2>8
        <5> QED
          BY <2>5, <3>5, <4>2, <4>6, <5>1
      <4> QED
        BY <4>7, <4>8, <4>9
    <3> QED
      BY <3>4, <3>5
  <2> QED
    BY <1>1, <2>2, <2>6, <2>7, <2>8
<1>10. ZCard = Len(Ordered) + removals
  BY <1>4, <1>6, <1>7 DEF ZCard
<1> QED
  BY <1>9, <1>10

(* ZCARD and ZRANGE, for every number of members and, by SliceRight, for   *)
(* every pair of numbers: what they list is a slice of the members in      *)
(* order, off by what the stored length still counts.                      *)
THEOREM RangesAreSlices == SortedSpec => []RangeIsSlice
<1> QED
  BY SkipListInvariant, SliceRight, PTL
=============================================================================
