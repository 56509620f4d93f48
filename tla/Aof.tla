--------------------------------- MODULE Aof ---------------------------------
(***************************************************************************)
(* The append-only file with --appendonly yes: what                        *)
(* Handler.HandleModifyingCmd logs and when, what RebuildState does with   *)
(* the log after a restart, and what is left of the answered commands.     *)
(*                                                                         *)
(* The commands work on one list: RPUSH of one element, LPOP without a     *)
(* count, and BLPOP with and without a timeout.  A command is a number;    *)
(* the element RPUSH adds is the number of that RPUSH, so that a second    *)
(* copy of an element is seen.  LPOP takes no lock, so that it is two      *)
(* steps: all that it reads of the list (module ListOps has its accesses   *)
(* one by one), and what it stores.  An LPOP that indexes past the end,    *)
(* the list having become shorter meanwhile, panics: that is one of the    *)
(* ways in which ProcessCrashes can come between the two.  A client        *)
(* is a connection of main's accept loop, a link is the connection of a    *)
(* replica to its master, whose handler never rebuilds.                    *)
(*                                                                         *)
(* MissesTheLast, StaysUndone and KeepsMutex are faulty twins of the       *)
(* operator defined after them: no action uses them, a mutation puts one   *)
(* in place of its twin to show that a property notices.                   *)
(***************************************************************************)
EXTENDS Naturals, Sequences, FiniteSets, SequencesExt

CONSTANTS
  Clients,      \* connections of clients
  Links,        \* the connection to the master: empty on a master
  Nobody,       \* holder of a free mutex
  MaxCommands,  \* commands sent at most
  MaxCrashes,   \* restarts at most
  MaxFaults     \* failed writes of the log and crashes of the machine at most

ASSUME AofAssumption ==
  /\ Nobody \notin Clients \cup Links
  /\ Clients \cap Links = {}
  /\ MaxCommands \in Nat /\ MaxCrashes \in Nat /\ MaxFaults \in Nat

VARIABLES
  file,       \* the records of the active incremental file
  \* one process
  list,       \* the list in the store
  exists,     \* whether the key is in s.elements; it is never deleted
  waiters,    \* connections blocked in BLPOP, the longest waiting first
  done,       \* store.IsDoneRebuilding
  rebuilder,  \* who holds rebuildMutex while it replays; Nobody
  data,       \* what RebuildState has read and not yet replayed
  \* one connection
  pc,         \* "closed", "joining", "rebuilding", "idle", "writing",
              \* "executing", "popping" or "blocked"
  cmd,        \* the command the handler is at, or 0
  aofBuffer,  \* h.aofBuffer
  slice,       \* the slice an LPOP is about to store
  \* history
  issued,     \* the commands sent: kind, link or not, restarts before it
  answered,   \* the RPUSH a client has an answer to
  lost,       \* commands with no record left, because a write failed or a crash came
  applied,    \* how often this process has executed each RPUSH
  unexecuted, \* what the first process has logged and not executed
  crashes, faults,
  skipped,    \* this process could not open the file when it was to replay it
  exact,      \* the first process executed one command after the other, in
              \* the order of its log
  expected    \* the list the first restart has to bring back

processVars == <<list, exists, waiters, done, rebuilder, data>>
connVars == <<pc, cmd, aofBuffer, slice>>
historyVars == <<issued, answered, lost, applied, unexecuted, crashes, faults, skipped, exact, expected>>
vars == <<file, processVars, connVars, historyVars>>

Conns == Clients \cup Links
Ids == 1..MaxCommands
Kinds == {"rpush", "lpop", "blpop", "blpop timeout"}

(* A client's connection starts with the wait for rebuildMutex; one that   *)
(* is still to come counts as waiting.  A link's handler does not wait.    *)
NewConnections == [c \in Conns |-> IF c \in Clients THEN "joining" ELSE "closed"]

Init ==
  /\ file = <<>>
  /\ list = <<>> /\ exists = FALSE /\ waiters = <<>>
  /\ done = FALSE /\ rebuilder = Nobody /\ data = <<>>
  /\ pc = NewConnections
  /\ cmd = [c \in Conns |-> 0]
  /\ aofBuffer = [c \in Conns |-> <<>>]
  /\ slice = [c \in Conns |-> <<>>]
  /\ issued = <<>> /\ answered = {} /\ lost = {}
  /\ applied = [i \in Ids |-> 0]
  /\ unexecuted = <<>>
  /\ crashes = 0 /\ faults = 0
  /\ skipped = FALSE
  /\ exact = TRUE /\ expected = <<>>

(* The commands that have a whole record.                                  *)
IdsOf(records) == {r.id : r \in {q \in Range(records) : q.whole}}

Fault == faults < MaxFaults /\ faults' = faults + 1

(* GetActiveIncrementalFile: the file is looked up in the manifest each    *)
(* time, and then opened.  Either may fail: without a name from the        *)
(* manifest the path is that of the directory, which does not open.        *)
OpenFails == Fault

-----------------------------------------------------------------------------
(* A connection.                                                           *)

LinkConnects(c) ==
  /\ c \in Links
  /\ pc[c] = "closed"
  /\ pc' = [pc EXCEPT ![c] = "idle"]
  /\ UNCHANGED <<file, processVars, cmd, aofBuffer, slice, historyVars>>

(* The end of a connection takes with it what its handler could not write. *)
(* The client may come back.                                               *)
Reconnects(c) ==
  /\ c \in Clients
  /\ pc[c] = "idle"
  /\ pc' = [pc EXCEPT ![c] = "joining"]
  /\ aofBuffer' = [aofBuffer EXCEPT ![c] = <<>>]
  /\ lost' = lost \cup (Range(aofBuffer[c]) \ IdsOf(file))
  /\ UNCHANGED <<file, processVars, cmd, slice, issued, answered, applied, unexecuted,
                 crashes, faults, skipped, exact, expected>>

(* RebuildState gets the mutex: the first to come reads the whole file.    *)
MissesTheLast(records) == IF records = <<>> THEN records ELSE Front(records)
ReadAll(records) == records
Joins(c) ==
  /\ pc[c] = "joining"
  /\ rebuilder = Nobody
  /\ IF done
     THEN /\ pc' = [pc EXCEPT ![c] = "idle"]
          /\ UNCHANGED <<rebuilder, data, exact>>
     ELSE /\ pc' = [pc EXCEPT ![c] = "rebuilding"]
          /\ rebuilder' = c
          /\ data' = ReadAll(file)
          /\ exact' = (exact /\ \A i \in IdsOf(file) : issued[i].born < crashes)
  /\ UNCHANGED <<file, list, exists, waiters, done, cmd, aofBuffer, slice, issued, answered, lost,
                 applied, unexecuted, crashes, faults, skipped, expected>>

(* The file cannot be opened: the state is not rebuilt, and never will be. *)
JoinFails(c) ==
  /\ pc[c] = "joining"
  /\ rebuilder = Nobody /\ ~done
  /\ OpenFails
  /\ pc' = [pc EXCEPT ![c] = "idle"]
  /\ done' = TRUE
  /\ skipped' = TRUE
  /\ exact' = FALSE
  /\ UNCHANGED <<file, list, exists, waiters, rebuilder, data, cmd, aofBuffer, slice, issued,
                 answered, lost, applied, unexecuted, crashes, expected>>

-----------------------------------------------------------------------------
(* HandleModifyingCmd logs, and propagates, before the handler executes.   *)
(* A replayed command is logged like any other.                            *)
(* FlushWriteCmdsToAOF opens the file, or gives up and keeps the buffer.   *)
Logs(c, i) ==
  /\ cmd' = [cmd EXCEPT ![c] = i]
  /\ aofBuffer' = [aofBuffer EXCEPT ![c] = Append(@, i)]
  /\ \/ /\ pc' = [pc EXCEPT ![c] = "writing"]
        /\ UNCHANGED <<faults, exact>>
     \/ /\ OpenFails
        /\ pc' = [pc EXCEPT ![c] = "executing"]
        /\ exact' = FALSE

Issues(c, kind) ==
  /\ pc[c] = "idle"
  /\ Len(issued) < MaxCommands
  /\ Logs(c, Len(issued) + 1)
  /\ issued' = Append(issued, [kind |-> kind, link |-> c \in Links, born |-> crashes])
  /\ UNCHANGED <<file, processVars, slice, answered, lost, applied, unexecuted, crashes,
                 skipped, expected>>

(* A record at the end of which the write was cut stops the replay.        *)
Replays(c) ==
  /\ pc[c] = "rebuilding"
  /\ data # <<>> /\ Head(data).whole
  /\ Logs(c, Head(data).id)
  /\ data' = Tail(data)
  /\ UNCHANGED <<file, list, exists, waiters, done, rebuilder, slice, issued, answered, lost,
                 applied, unexecuted, crashes, skipped, expected>>

StaysUndone == FALSE
NowDone == TRUE
KeepsMutex(c) == c
Unlocked(c) == Nobody
ReplayEnds(c) ==
  /\ pc[c] = "rebuilding"
  /\ data # <<>> => ~Head(data).whole
  /\ pc' = [pc EXCEPT ![c] = "idle"]
  /\ done' = NowDone
  /\ rebuilder' = Unlocked(c)
  /\ data' = <<>>
  /\ UNCHANGED <<file, list, exists, waiters, cmd, aofBuffer, slice, historyVars>>

(* The records of the buffer are written one by one.                       *)
Wrote(c, records) ==
  /\ pc[c] = "writing"
  /\ file' = records
  /\ aofBuffer' = [aofBuffer EXCEPT ![c] = Tail(@)]
  /\ pc' = [pc EXCEPT ![c] = IF Len(aofBuffer[c]) <= 1 THEN "executing" ELSE "writing"]

Record(c, whole) == [id |-> Head(aofBuffer[c]), whole |-> whole]

Writes(c) ==
  /\ aofBuffer[c] # <<>>
  /\ Wrote(c, Append(file, Record(c, TRUE)))
  /\ unexecuted' = IF crashes = 0 THEN Append(unexecuted, Head(aofBuffer[c])) ELSE <<>>
  /\ UNCHANGED <<processVars, cmd, slice, issued, answered, lost, applied, crashes, faults,
                 skipped, exact, expected>>

(* A write comes to an end before the record does (a full disk), perhaps   *)
(* before its first byte; nobody looks at the error.                       *)
WritesShort(c) ==
  /\ aofBuffer[c] # <<>>
  /\ Fault
  /\ Wrote(c, Append(file, Record(c, FALSE))) \/ Wrote(c, file)
  /\ lost' = lost \cup ({Head(aofBuffer[c])} \ IdsOf(file))
  /\ exact' = FALSE
  /\ UNCHANGED <<processVars, cmd, slice, issued, answered, applied, unexecuted, crashes,
                 skipped, expected>>

-----------------------------------------------------------------------------
(* The handler executes and answers.                                       *)

(* The handlers of conns go on.  SendResponse is silent on a link and      *)
(* while a rebuild is under way.                                           *)
Answers(conns) ==
  /\ pc' = [c \in Conns |-> IF c \notin conns THEN pc[c]
                            ELSE IF rebuilder = c THEN "rebuilding" ELSE "idle"]
  /\ cmd' = [c \in Conns |-> IF c \in conns THEN 0 ELSE cmd[c]]
  /\ answered' = IF rebuilder = Nobody
                 THEN answered \cup {i \in {cmd[c] : c \in conns \cap Clients} :
                                       issued[i].kind = "rpush"}
                 ELSE answered

(* The first process keeps to the order of its log, the second one only    *)
(* replays, and no LPOP of another connection is under way.                *)
InOrder(c) ==
  /\ IF crashes = 0 THEN unexecuted # <<>> /\ Head(unexecuted) = cmd[c] ELSE done \/ rebuilder = c
  /\ \A d \in Conns \ {c} : pc[d] # "popping"

Executes(c, kinds) ==
  /\ issued[cmd[c]].kind \in kinds
  /\ unexecuted' = RemoveFirst(unexecuted, cmd[c])
  /\ exact' = (exact /\ InOrder(c))

(* A waiting BLPOP gets the element before it reaches the list.            *)
RPush(c) ==
  /\ pc[c] = "executing"
  /\ Executes(c, {"rpush"})
  /\ applied' = [applied EXCEPT ![cmd[c]] = @ + 1]
  /\ IF waiters = <<>>
     THEN list' = Append(list, cmd[c]) /\ exists' = TRUE /\ Answers({c}) /\ UNCHANGED waiters
     ELSE waiters' = Tail(waiters) /\ Answers({c, Head(waiters)}) /\ UNCHANGED <<list, exists>>
  /\ UNCHANGED <<file, done, rebuilder, data, aofBuffer, slice, issued, lost, crashes, faults,
                 skipped, expected>>

Pop(s) == IF s = <<>> THEN s ELSE Tail(s)

(* LPOP on a key that is there.  On an empty list it goes all the way.     *)
LPopReads(c) ==
  /\ pc[c] = "executing"
  /\ issued[cmd[c]].kind = "lpop"
  /\ exists
  /\ slice' = [slice EXCEPT ![c] = Pop(list)]
  /\ pc' = [pc EXCEPT ![c] = "popping"]
  /\ UNCHANGED <<file, processVars, cmd, aofBuffer, historyVars>>

LPopStores(c) ==
  /\ pc[c] = "popping"
  /\ Executes(c, {"lpop"})
  /\ list' = slice[c]
  /\ slice' = [slice EXCEPT ![c] = <<>>]
  /\ Answers({c})
  /\ UNCHANGED <<file, exists, waiters, done, rebuilder, data, aofBuffer, issued, lost, applied,
                 crashes, faults, skipped, expected>>

(* LPOP without the key, and BLPOP that finds an element, which it pops    *)
(* with s.mu locked.                                                       *)
PopsAtOnce(c) ==
  /\ pc[c] = "executing"
  /\ \/ ~exists /\ Executes(c, {"lpop"})
     \/ list # <<>> /\ Executes(c, {"blpop", "blpop timeout"})
  /\ list' = Pop(list)
  /\ Answers({c})
  /\ UNCHANGED <<file, exists, waiters, done, rebuilder, data, aofBuffer, slice, issued, lost,
                 applied, crashes, faults, skipped, expected>>

(* BLPOP that finds none.  In the first process this ends exactness: the   *)
(* log has the BLPOP before the RPUSH it will be served by.                *)
Blocks(c) ==
  /\ list = <<>>
  /\ pc[c] = "executing"
  /\ issued[cmd[c]].kind \in {"blpop", "blpop timeout"}
  /\ pc' = [pc EXCEPT ![c] = "blocked"]
  /\ waiters' = Append(waiters, c)
  /\ unexecuted' = RemoveFirst(unexecuted, cmd[c])
  /\ exact' = (exact /\ crashes > 0 /\ InOrder(c))
  /\ UNCHANGED <<file, list, exists, done, rebuilder, data, cmd, aofBuffer, slice, issued,
                 answered, lost, applied, crashes, faults, skipped, expected>>

TimesOut(c) ==
  /\ pc[c] = "blocked"
  /\ issued[cmd[c]].kind = "blpop timeout"
  /\ \E n \in DOMAIN waiters : waiters[n] = c /\ waiters' = RemoveAt(waiters, n)
  /\ Answers({c})
  /\ UNCHANGED <<file, list, exists, done, rebuilder, data, aofBuffer, slice, issued, lost,
                 applied, unexecuted, crashes, faults, skipped, exact, expected>>

-----------------------------------------------------------------------------
(* Crashes.                                                                *)

Buffered == UNION {Range(aofBuffer[c]) : c \in Conns}

(* What the log says the list is, when it goes on from s.                  *)
Effect(s, i) == IF issued[i].kind = "rpush" THEN Append(s, i) ELSE Pop(s)
Outcome(s, ids) ==
  LET after[n \in 0..Len(ids)] == IF n = 0 THEN s ELSE Effect(after[n - 1], ids[n])
  IN  after[Len(ids)]

(* The process ends, and another one starts with what is left of the file. *)
Restarts(rest) ==
  /\ crashes < MaxCrashes
  /\ crashes' = crashes + 1
  /\ file' = rest
  /\ lost' = lost \cup ((IdsOf(file) \cup Buffered) \ IdsOf(rest))
  /\ list' = <<>> /\ exists' = FALSE /\ waiters' = <<>>
  /\ done' = FALSE /\ rebuilder' = Nobody /\ data' = <<>>
  /\ pc' = NewConnections
  /\ cmd' = [c \in Conns |-> 0]
  /\ aofBuffer' = [c \in Conns |-> <<>>]
  /\ slice' = [c \in Conns |-> <<>>]
  /\ applied' = [i \in Ids |-> 0]
  /\ unexecuted' = <<>>
  /\ skipped' = FALSE
  /\ UNCHANGED <<issued, answered>>

ProcessCrashes ==
  /\ Restarts(file)
  /\ exact' = (exact /\ crashes = 0)
  /\ expected' = IF exact /\ crashes = 0 THEN Outcome(list, unexecuted) ELSE <<>>
  /\ UNCHANGED faults

(* Nothing ever syncs the file: a crash of the machine takes any number of *)
(* records off its end, and may cut the last one it leaves.                *)
MachineCrashes(n, cut) ==
  /\ n < Len(file)
  /\ Fault
  /\ Restarts(SubSeq(file, 1, n) \o (IF cut THEN <<[file[n + 1] EXCEPT !.whole = FALSE]>> ELSE <<>>))
  /\ exact' = FALSE
  /\ expected' = <<>>

-----------------------------------------------------------------------------
Steps(c) ==
  \/ Joins(c) \/ Replays(c) \/ ReplayEnds(c)
  \/ Writes(c) \/ RPush(c) \/ LPopReads(c) \/ LPopStores(c) \/ PopsAtOnce(c)
  \/ Blocks(c) \/ TimesOut(c)

Next ==
  \/ \E c \in Conns :
       \/ Steps(c)
       \/ LinkConnects(c) \/ Reconnects(c) \/ JoinFails(c) \/ WritesShort(c)
       \/ \E kind \in Kinds : Issues(c, kind)
  \/ ProcessCrashes
  \/ \E n \in 0..(Len(file) - 1), cut \in BOOLEAN : MachineCrashes(n, cut)

Spec == Init /\ [][Next]_vars

(* Go schedules every goroutine that can run; what follows needs it of the *)
(* clients' alone.  Nobody needs to send, and nothing needs to fail.       *)
Fairness == \A c \in Clients : WF_vars(Steps(c))
LiveSpec == Spec /\ Fairness

-----------------------------------------------------------------------------
(* What a replay can read: everything before the first cut record.         *)
Readable(records) ==
  {records[n].id : n \in {m \in DOMAIN records : \A k \in 1..m : records[k].whole}}
BehindACut(i) == i \in IdsOf(file) \ Readable(file)

(* An answered RPUSH is in the store after a restart, however the          *)
(* handlers' steps, other restarts and other connections interleave,       *)
(* unless its record was never written (a failed write, a crash of the     *)
(* machine), or stands behind a record that was cut: what is logged after  *)
(* a cut record is never read again (commands.go:1234-1250, 1285-1292).    *)
AnsweredIsRestored ==
  done /\ ~skipped =>
    \A i \in answered : applied[i] > 0 \/ i \in lost \/ BehindACut(i)

Copies(i) == Cardinality({n \in DOMAIN file : file[n].whole /\ file[n].id = i})
Rebuilds(i) == (crashes - issued[i].born) + (IF issued[i].link THEN 1 ELSE 0)

(* Every restart logs the log again, so a command has up to 2^n records    *)
(* after n restarts, and from the second restart on it is executed more    *)
(* than once.  It is never worse than that: nobody replays a second time   *)
(* in one process.  What a link logs before the first client connects is   *)
(* replayed by the very process that has executed it                       *)
(* (commands.go:1254-1295, replica.go:61-63).                              *)
LogDoubles ==
  \A i \in DOMAIN issued :
    LET n == Rebuilds(i)
    IN  /\ Copies(i) <= 2 ^ n
        /\ applied[i] <= IF n = 0 \/ issued[i].link THEN 2 ^ n ELSE 2 ^ (n - 1)

(* The first restart brings back the list as the crash left it, with what  *)
(* was logged and not yet executed added: as long as the first process     *)
(* executed its commands one after the other, in the order it logged them, *)
(* and no BLPOP had to wait.  Two handlers log and execute their commands  *)
(* in different orders (commands.go:1024-1029), an LPOP that another       *)
(* command overtakes stores an outdated list over it (store.go:390), and a *)
(* BLPOP that waited is replayed before the RPUSH that served it.          *)
RestartRestores ==
  exact /\ crashes = 1 /\ rebuilder # Nobody /\ data = <<>>
    => (pc[rebuilder] = "rebuilding" => list = expected)

(* A connection waits for the rebuild no longer than the rebuild takes,    *)
(* and a rebuild ends unless it replays a BLPOP without timeout that finds *)
(* nothing: then rebuildMutex is held for good and no client is served     *)
(* again (commands.go:1258-1259, store.go:415).                            *)
StuckRebuild ==
  rebuilder # Nobody /\ pc[rebuilder] = "blocked" /\ issued[cmd[rebuilder]].kind = "blpop"
WaitingIsServed ==
  \A c \in Clients : pc[c] = "joining" ~> (pc[c] # "joining" \/ StuckRebuild)
=============================================================================
