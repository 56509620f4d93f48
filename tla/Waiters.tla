------------------------------- MODULE Waiters -------------------------------
(***************************************************************************)
(* What BLPOP and XREAD share inside store.Store: the mutex s.mu, the map  *)
(* s.blockingClients of wait queues, and the one-slot channels             *)
(* (make(chan string, 1)) the queues hold.  A client is the goroutine that *)
(* serves one connection: it runs one command at a time.                   *)
(*                                                                         *)
(* A critical section that cannot block is one atomic step taken while mu  *)
(* is Free.  The only operation that can block while it holds s.mu is the  *)
(* send `ch <- value[0]` of checkForBlockingClients, so mu names a holder  *)
(* only in the states where a goroutine is stuck in that send.             *)
(*                                                                         *)
(* KeepWaiter and DropLongest are faulty twins of the operator defined     *)
(* after them: no action uses them, a mutation puts one in place of its    *)
(* twin to show that a property notices.                                   *)
(***************************************************************************)
EXTENDS Naturals, Sequences, FiniteSets, SequencesExt

CONSTANTS
  Clients,   \* goroutines, one per connection
  Keys,      \* keys of the store
  Chans,     \* channels that may be made; a new one is used for every wait
  Values,    \* list values
  StreamID,  \* the stream ID an XADD sends (which one does not matter)
  Empty,     \* content of a channel's empty slot
  Free,      \* holder of an unlocked mutex
  NoChan     \* channel of a client that is not waiting

ASSUME WaitersAssumption ==
  /\ Free \notin Clients
  /\ NoChan \notin Chans
  /\ StreamID \notin Values
  /\ Empty \notin Values \cup {StreamID}

VARIABLES
  mu,              \* holder of s.mu, or Free
  blockingClients, \* s.blockingClients: the queue of channels of each key
  made,            \* which command made a channel: "none", "blpop" or "xread"
  buf,             \* the slot of each channel
  pc,              \* where each client stands in its command
  myChan,          \* the local variable ch of BLPop and XRead
  timed            \* whether the client's wait has a timeout (a timeoutChan)

waitVars == <<mu, blockingClients, made, buf, pc, myChan, timed>>

Msgs == Values \cup {StreamID}

(* A missing entry of s.blockingClients reads as an empty queue, so the    *)
(* model does not tell the two apart.                                      *)
WaitersInit ==
  /\ mu = Free
  /\ blockingClients = [k \in Keys |-> <<>>]
  /\ made = [ch \in Chans |-> "none"]
  /\ buf = [ch \in Chans |-> Empty]
  /\ pc = [c \in Clients |-> "idle"]
  /\ myChan = [c \in Clients |-> NoChan]
  /\ timed = [c \in Clients |-> FALSE]

(* The types of these variables, PCs being the places of a module's        *)
(* commands.                                                               *)
WaitersTypeOK(PCs) ==
  /\ mu \in Clients \cup {Free}
  /\ blockingClients \in [Keys -> Seq(Chans)]
  /\ made \in [Chans -> {"none", "blpop", "xread"}]
  /\ buf \in [Chans -> Msgs \cup {Empty}]
  /\ pc \in [Clients -> PCs]
  /\ myChan \in [Clients -> Chans \cup {NoChan}]
  /\ timed \in [Clients -> BOOLEAN]

-----------------------------------------------------------------------------
(* Removing a channel from a queue: the first occurrence goes.             *)
KeepWaiter(queue, ch) == queue
DropLongest(queue, ch) == IF queue = <<>> THEN queue ELSE Tail(queue)
Unregister(queue, ch) == RemoveFirst(queue, ch)

(* A client starts to wait on the new channel ch made by the command       *)
(* `kind`; queues is the map with the channel registered.                  *)
StartWait(c, ch, kind, queues, hasTimeout, where) ==
  /\ made[ch] = "none"
  /\ made' = [made EXCEPT ![ch] = kind]
  /\ blockingClients' = queues
  /\ myChan' = [myChan EXCEPT ![c] = ch]
  /\ timed' = [timed EXCEPT ![c] = hasTimeout]
  /\ pc' = [pc EXCEPT ![c] = where]
  /\ UNCHANGED <<mu, buf>>

(* The wait of c is over: its channel becomes garbage.                     *)
EndWait(c) ==
  /\ pc' = [pc EXCEPT ![c] = "idle"]
  /\ myChan' = [myChan EXCEPT ![c] = NoChan]
  /\ timed' = [timed EXCEPT ![c] = FALSE]

(* Receiving from the channel of c empties its slot.                       *)
Drain(c) == buf' = [buf EXCEPT ![myChan[c]] = Empty]

(* The select statement takes its timeout branch.  When a message is there *)
(* too, Go picks either branch.                                            *)
TimerFires(c, from, to) ==
  /\ pc[c] = from
  /\ timed[c]
  /\ pc' = [pc EXCEPT ![c] = to]
  /\ UNCHANGED <<mu, blockingClients, made, buf, myChan, timed>>

-----------------------------------------------------------------------------
WaitingPCs == {"blpopWait", "blpopTimedOut", "xreadWait", "xreadTimedOut", "xreadWoken"}

(* Every channel in a wait queue belongs to a client whose wait is still   *)
(* going on: no command returns and leaves a stale registration behind,    *)
(* to which a later RPUSH would hand a value nobody reads.                 *)
RegisteredIsWaiting ==
  \A k \in Keys : \A i \in DOMAIN blockingClients[k] :
    \E c \in Clients : /\ myChan[c] = blockingClients[k][i]
                       /\ pc[c] \in WaitingPCs
=============================================================================
