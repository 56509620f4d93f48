------------------------------- MODULE ListOps -------------------------------
(***************************************************************************)
(* The lists of store.Store: RPUSH, LPUSH, BLPOP and LPOP, one client per  *)
(* goroutine, with the wait queues of module Waiters.                      *)
(*                                                                         *)
(* Pushed values are distinct, so that a value lost or handed out twice    *)
(* can be told.  popped counts how often each value was given to a client  *)
(* as the reply of a pop.  LPOP takes no lock: raced records that the list *)
(* of an LPOP was changed behind what the LPOP had read of it.             *)
(*                                                                         *)
(* SameQueue, WaitsAnyway, PollNothing, NoLimit and StoreAll are faulty    *)
(* twins of the operator defined after them: no action uses them, a        *)
(* mutation puts one in place of its twin to show that a property notices. *)
(***************************************************************************)
EXTENDS Waiters, Integers

CONSTANTS
  NoKey,      \* arg of a client that is in no list command
  MaxBatch,   \* values one push carries at most
  PopCounts   \* counts LPOP is called with (whatever Atoi returns, also 0
              \* and negative ones); {} when nobody calls it

ASSUME ListOpsAssumption ==
  /\ NoKey \notin Keys
  /\ MaxBatch \in Nat \ {0}
  /\ PopCounts \subseteq Int

VARIABLES
  elements,  \* s.elements; a missing key reads as an empty list
  entries,   \* keys that have an entry in s.elements; none is ever deleted
  arg,       \* key of the list command a client is in
  side,      \* end of the list a blocked push adds to: "L" or "R"
  vals,      \* values a blocked push still holds, or an LPOP has read
  want,      \* numberElements of an LPOP
  rest,      \* the slice an LPOP is about to store
  pushed,    \* values pushed so far
  popped,    \* how often each value was popped
  raced,     \* an LPOP was overtaken, see Overtaken
  crashed    \* whether the process runs ("no"), has panicked ("panic") or was
             \* stopped by the runtime for a concurrent map access ("fatal")

listVars ==
  <<elements, entries, arg, side, vals, want, rest, pushed, popped, raced, crashed>>

LPopPCs == {"lpopCheck", "lpopCompare", "lpopCut", "lpopRead", "lpopStore"}
ListPCs == {"idle", "pushSend", "blpopWait", "blpopTimedOut"} \cup LPopPCs

ListInit ==
  /\ elements = [k \in Keys |-> <<>>]
  /\ entries = {}
  /\ arg = [c \in Clients |-> NoKey]
  /\ side = [c \in Clients |-> "R"]
  /\ vals = [c \in Clients |-> <<>>]
  /\ want = [c \in Clients |-> 0]
  /\ rest = [c \in Clients |-> <<>>]
  /\ pushed = {}
  /\ popped = [v \in Values |-> 0]
  /\ raced = FALSE
  /\ crashed = "no"

-----------------------------------------------------------------------------
(* The batches of new values a push may carry.                             *)
FreshBatches ==
  {vs \in UNION {[1..n -> Values \ pushed] : n \in 1..MaxBatch} : IsInjective(vs)}

(* LPUSH a b c leaves c at the head: LPush reverses its arguments.         *)
InOrder(end, vs) == IF end = "L" THEN Reverse(vs) ELSE vs

(* Adding values to one end of a list.                                     *)
Join(end, vs, list) == IF end = "L" THEN vs \o list ELSE list \o vs

(* A push with a waiter hands over its first value and adds the others.    *)
Leftover(vs) == Tail(vs)

(* waiters[1:]                                                             *)
SameQueue(queue) == queue
Served(queue) == Tail(queue)

EndCall(c) == arg' = [arg EXCEPT ![c] = NoKey]

(* LPop reads and writes the map s.elements without s.mu: the Go runtime   *)
(* may detect the concurrent access, on whatever keys, and stop the        *)
(* process, when c writes while another client is in LPop, or reads while  *)
(* another is at LPop's store.                                             *)
Detected(c, where) ==
  crashed' \in IF \E d \in Clients \ {c} : pc[d] \in where THEN {"no", "fatal"} ELSE {"no"}
ReadsElements(c) == Detected(c, {"lpopStore"})

(* The LPOPs that c overtakes by a change of list k.  An LPOP that has     *)
(* settled how many elements it takes relies on the head of the list; once *)
(* it has cut the slice to store, on all of it.                            *)
Overtaken(c, k, end) ==
  {d \in Clients \ {c} : /\ arg[d] = k
                         /\ pc[d] = "lpopStore" \/ (pc[d] = "lpopRead" /\ end = "L")}
WritesElements(c, k, end) ==
  /\ raced' = (raced \/ Overtaken(c, k, end) # {})
  /\ Detected(c, LPopPCs)

(* Adding values to a list makes its entry in the map.                     *)
AddTo(c, k, end, vs) ==
  /\ elements' = [elements EXCEPT ![k] = Join(end, vs, @)]
  /\ entries' = entries \cup {k}
  /\ WritesElements(c, k, end)

(* What a push stores besides the value it hands over, if anything.        *)
AddOthers(c, k, end, vs) ==
  \/ Leftover(vs) # <<>> /\ AddTo(c, k, end, Leftover(vs))
  \/ Leftover(vs) = <<>> /\ ReadsElements(c) /\ UNCHANGED <<elements, entries, raced>>

-----------------------------------------------------------------------------
(* RPUSH and LPUSH when nobody waits on the key.                           *)
PushStores(c, k, end, vs) ==
  /\ pc[c] = "idle"
  /\ mu = Free
  /\ blockingClients[k] = <<>>
  /\ AddTo(c, k, end, InOrder(end, vs))
  /\ pushed' = pushed \cup Range(vs)
  /\ UNCHANGED <<waitVars, arg, side, vals, want, rest, popped>>

(* RPUSH and LPUSH when a client waits and its channel has room: the first *)
(* waiter gets the first value, the list the others.                       *)
PushServes(c, k, end, vs) ==
  /\ pc[c] = "idle"
  /\ mu = Free
  /\ blockingClients[k] # <<>>
  /\ LET ch == Head(blockingClients[k])
         ordered == InOrder(end, vs)
     IN /\ buf[ch] = Empty
        /\ buf' = [buf EXCEPT ![ch] = Head(ordered)]
        /\ AddOthers(c, k, end, ordered)
  /\ blockingClients' = [blockingClients EXCEPT ![k] = Served(@)]
  /\ pushed' = pushed \cup Range(vs)
  /\ UNCHANGED <<mu, made, pc, myChan, timed, arg, side, vals, want, rest, popped>>

(* RPUSH and LPUSH when the first waiter's channel is full: the goroutine  *)
(* blocks in the send with s.mu locked.  The channel, already off the      *)
(* queue, is kept in myChan.                                               *)
PushBlocks(c, k, end, vs) ==
  /\ pc[c] = "idle"
  /\ mu = Free
  /\ blockingClients[k] # <<>>
  /\ buf[Head(blockingClients[k])] # Empty
  /\ mu' = c
  /\ pc' = [pc EXCEPT ![c] = "pushSend"]
  /\ myChan' = [myChan EXCEPT ![c] = Head(blockingClients[k])]
  /\ blockingClients' = [blockingClients EXCEPT ![k] = Served(@)]
  /\ arg' = [arg EXCEPT ![c] = k]
  /\ side' = [side EXCEPT ![c] = end]
  /\ vals' = [vals EXCEPT ![c] = InOrder(end, vs)]
  /\ pushed' = pushed \cup Range(vs)
  /\ UNCHANGED <<made, buf, timed, elements, entries, want, rest, popped, raced, crashed>>

(* The blocked send goes through once the receiver has emptied the slot.   *)
PushResumes(c) ==
  /\ pc[c] = "pushSend"
  /\ buf[myChan[c]] = Empty
  /\ buf' = [buf EXCEPT ![myChan[c]] = Head(vals[c])]
  /\ AddOthers(c, arg[c], side[c], vals[c])
  /\ mu' = Free
  /\ EndWait(c)
  /\ EndCall(c)
  /\ vals' = [vals EXCEPT ![c] = <<>>]
  /\ side' = [side EXCEPT ![c] = "R"]
  /\ UNCHANGED <<blockingClients, made, want, rest, pushed, popped>>

-----------------------------------------------------------------------------
(* BLPOP on a list that has an element.                                    *)
BLPopNow(c, k) ==
  /\ pc[c] = "idle"
  /\ mu = Free
  /\ elements[k] # <<>>
  /\ elements' = [elements EXCEPT ![k] = Tail(@)]
  /\ popped' = [popped EXCEPT ![Head(elements[k])] = @ + 1]
  /\ WritesElements(c, k, "L")
  /\ UNCHANGED <<waitVars, entries, arg, side, vals, want, rest, pushed>>

(* BLPOP on an empty list: the client queues up a new channel.             *)
WaitsAnyway(k) == TRUE
WaitsOn(k) == elements[k] = <<>>
BLPopWaits(c, k, ch, hasTimeout) ==
  /\ pc[c] = "idle"
  /\ mu = Free
  /\ WaitsOn(k)
  /\ StartWait(c, ch, "blpop", [blockingClients EXCEPT ![k] = Append(@, ch)],
               hasTimeout, "blpopWait")
  /\ arg' = [arg EXCEPT ![c] = k]
  /\ ReadsElements(c)
  /\ UNCHANGED <<elements, entries, side, vals, want, rest, pushed, popped, raced>>

(* What BLPOP replies: a list value, or whatever else was sent to it.      *)
Reply(counts, msg) ==
  IF msg \in Values THEN [counts EXCEPT ![msg] = @ + 1] ELSE counts

(* The select takes its receive branch.                                    *)
BLPopReceives(c) ==
  /\ pc[c] = "blpopWait"
  /\ buf[myChan[c]] # Empty
  /\ popped' = Reply(popped, buf[myChan[c]])
  /\ Drain(c)
  /\ EndWait(c)
  /\ EndCall(c)
  /\ UNCHANGED <<mu, blockingClients, made, elements, entries, side, vals, want, rest,
                 pushed, raced, crashed>>

BLPopTimesOut(c) ==
  /\ TimerFires(c, "blpopWait", "blpopTimedOut")
  /\ UNCHANGED listVars

(* After the timeout: leave the queue under the lock, then look at the     *)
(* channel once more.  No push can fill the slot between the two, the      *)
(* channel being off the queue, so they are one step.                      *)
PollNothing(counts, msg) == counts
PollReply(counts, msg) == Reply(counts, msg)
BLPopGivesUp(c) ==
  /\ pc[c] = "blpopTimedOut"
  /\ mu = Free
  /\ blockingClients' = [blockingClients EXCEPT ![arg[c]] = Unregister(@, myChan[c])]
  /\ popped' = PollReply(popped, buf[myChan[c]])
  /\ Drain(c)
  /\ EndWait(c)
  /\ EndCall(c)
  /\ UNCHANGED <<mu, made, elements, entries, side, vals, want, rest, pushed, raced,
                 crashed>>

-----------------------------------------------------------------------------
(* LPOP, which never takes s.mu.  Every access of the map is a step of its *)
(* own: looking for the entry, comparing its length, taking the length,    *)
(* reading the elements one by one, slicing, and storing the slice.  On a  *)
(* list that exists and is empty LPOP goes all the way and stores an empty *)
(* slice.                                                                  *)
LPopStarts(c, k, n) ==
  /\ pc[c] = "idle"
  /\ pc' = [pc EXCEPT ![c] = "lpopCheck"]
  /\ arg' = [arg EXCEPT ![c] = k]
  /\ want' = [want EXCEPT ![c] = n]
  /\ UNCHANGED <<mu, blockingClients, made, buf, myChan, timed, elements, entries, side,
                 vals, rest, pushed, popped, raced, crashed>>

LPopChecks(c) ==
  /\ pc[c] = "lpopCheck"
  /\ \/ /\ arg[c] \in entries
        /\ pc' = [pc EXCEPT ![c] = "lpopCompare"]
        /\ UNCHANGED <<arg, want>>
     \/ /\ arg[c] \notin entries
        /\ pc' = [pc EXCEPT ![c] = "idle"]
        /\ want' = [want EXCEPT ![c] = 0]
        /\ EndCall(c)
  /\ UNCHANGED <<mu, blockingClients, made, buf, myChan, timed, elements, entries, side,
                 vals, rest, pushed, popped, raced, crashed>>

(* if numberElements >= len(list) { numberElements = len(list) }           *)
NoLimit(n, list) == FALSE
TakesAll(n, list) == n >= Len(list)
LPopCompares(c) ==
  /\ pc[c] = "lpopCompare"
  /\ pc' = [pc EXCEPT ![c] =
              IF TakesAll(want[c], elements[arg[c]]) THEN "lpopCut" ELSE "lpopRead"]
  /\ UNCHANGED <<mu, blockingClients, made, buf, myChan, timed, listVars>>

LPopCuts(c) ==
  /\ pc[c] = "lpopCut"
  /\ want' = [want EXCEPT ![c] = Len(elements[arg[c]])]
  /\ pc' = [pc EXCEPT ![c] = "lpopRead"]
  /\ UNCHANGED <<mu, blockingClients, made, buf, myChan, timed, elements, entries, arg,
                 side, vals, rest, pushed, popped, raced, crashed>>

(* s.elements[listKey][i]: an index past the end panics.                   *)
LPopReads(c) ==
  /\ pc[c] = "lpopRead"
  /\ Len(vals[c]) < want[c]
  /\ LET i == Len(vals[c]) + 1
         list == elements[arg[c]]
     IN \/ /\ i <= Len(list)
           /\ vals' = [vals EXCEPT ![c] = Append(@, list[i])]
           /\ UNCHANGED crashed
        \/ /\ i > Len(list)
           /\ crashed' = "panic"
           /\ UNCHANGED vals
  /\ UNCHANGED <<waitVars, elements, entries, arg, side, want, rest, pushed, popped, raced>>

(* s.elements[listKey][numberElements:]: a bound past the end or a         *)
(* negative one panics.  No element is read when it is negative.           *)
LPopSlices(c) ==
  /\ pc[c] = "lpopRead"
  /\ Len(vals[c]) >= want[c]
  /\ LET list == elements[arg[c]]
     IN \/ /\ want[c] \in 0..Len(list)
           /\ rest' = [rest EXCEPT ![c] = SubSeq(list, want[c] + 1, Len(list))]
           /\ pc' = [pc EXCEPT ![c] = "lpopStore"]
           /\ UNCHANGED crashed
        \/ /\ want[c] \notin 0..Len(list)
           /\ crashed' = "panic"
           /\ UNCHANGED <<rest, pc>>
  /\ UNCHANGED <<mu, blockingClients, made, buf, myChan, timed, elements, entries, arg,
                 side, vals, want, pushed, popped, raced>>

Times(v, vs) == Cardinality({i \in DOMAIN vs : vs[i] = v})
StoreAll(list, slice) == list
StoreRest(list, slice) == slice
LPopStores(c) ==
  /\ pc[c] = "lpopStore"
  /\ elements' = [elements EXCEPT ![arg[c]] = StoreRest(@, rest[c])]
  /\ popped' = [v \in Values |-> popped[v] + Times(v, vals[c])]
  /\ pc' = [pc EXCEPT ![c] = "idle"]
  /\ vals' = [vals EXCEPT ![c] = <<>>]
  /\ rest' = [rest EXCEPT ![c] = <<>>]
  /\ want' = [want EXCEPT ![c] = 0]
  /\ EndCall(c)
  /\ WritesElements(c, arg[c], "L")
  /\ UNCHANGED <<mu, blockingClients, made, buf, myChan, timed, entries, side, pushed>>

-----------------------------------------------------------------------------
CallPush(c) ==
  \E k \in Keys, end \in {"L", "R"}, vs \in FreshBatches :
    PushStores(c, k, end, vs) \/ PushServes(c, k, end, vs) \/ PushBlocks(c, k, end, vs)

CallBLPop(c) ==
  \E k \in Keys :
    \/ BLPopNow(c, k)
    \/ \E ch \in Chans, hasTimeout \in BOOLEAN : BLPopWaits(c, k, ch, hasTimeout)

CallLPop(c) == \E k \in Keys, n \in PopCounts : LPopStarts(c, k, n)

(* The steps of a command that is under way.                               *)
ListProgress(c) ==
  \/ PushResumes(c)
  \/ BLPopReceives(c) \/ BLPopTimesOut(c) \/ BLPopGivesUp(c)
  \/ LPopChecks(c) \/ LPopCompares(c) \/ LPopCuts(c)
  \/ LPopReads(c) \/ LPopSlices(c) \/ LPopStores(c)

ListNext ==
  /\ crashed = "no"
  /\ \E c \in Clients : CallPush(c) \/ CallBLPop(c) \/ CallLPop(c) \/ ListProgress(c)

vars == <<waitVars, listVars>>

Init == WaitersInit /\ ListInit
Spec == Init /\ [][ListNext]_vars

(* Goroutines that can run do run, and timers fire; nobody has to send a   *)
(* command.                                                                *)
LiveSpec == Spec /\ \A c \in Clients : WF_vars(crashed = "no" /\ ListProgress(c))

-----------------------------------------------------------------------------
(* The variables have the types of the code.                               *)
TypeOK ==
  /\ WaitersTypeOK(ListPCs)
  /\ elements \in [Keys -> Seq(Values)]
  /\ entries \in SUBSET Keys
  /\ arg \in [Clients -> Keys \cup {NoKey}]
  /\ side \in [Clients -> {"L", "R"}]
  /\ vals \in [Clients -> Seq(Values)]
  /\ want \in [Clients -> Int]
  /\ rest \in [Clients -> Seq(Values)]
  /\ pushed \in SUBSET Values
  /\ popped \in [Values -> Nat]
  /\ raced \in BOOLEAN
  /\ crashed \in {"no", "panic", "fatal"}

(* A push never blocks while it holds s.mu (store.go:459): the channel of  *)
(* the first waiter always has room.  If it had none, every command that   *)
(* takes s.mu would hang behind the push.                                  *)
PushNeverBlocks ==
  /\ mu = Free
  /\ \A k \in Keys : blockingClients[k] # <<>> => buf[Head(blockingClients[k])] = Empty

(* A client blocked in BLPOP with nothing in its channel is still in the   *)
(* queue of its key, so that a push can reach it: neither serving another  *)
(* waiter nor another waiter's timeout takes it off (store.go:431-456).    *)
WaiterReachable ==
  \A c \in Clients :
    pc[c] \in {"blpopWait", "blpopTimedOut"} /\ buf[myChan[c]] = Empty
      => \E i \in DOMAIN blockingClients[arg[c]] : blockingClients[arg[c]][i] = myChan[c]

(* What makes the three properties above inductive.  A client has a channel *)
(* exactly while it waits, and no other client has it; a registered channel*)
(* is empty, waits on that key, and is registered once.                    *)
BLPopPCs == {"blpopWait", "blpopTimedOut"}
NoPushInFlight == mu = Free /\ \A c \in Clients : pc[c] # "pushSend"
ChannelWhileWaiting ==
  \A c \in Clients :
    IF pc[c] \in BLPopPCs
    THEN myChan[c] \in Chans /\ made[myChan[c]] # "none" /\ arg[c] \in Keys
    ELSE myChan[c] = NoChan
OneOwner ==
  \A c, d \in Clients : c # d /\ myChan[c] # NoChan => myChan[c] # myChan[d]
RegisteredIsEmpty ==
  \A k \in Keys : \A i \in DOMAIN blockingClients[k] :
    /\ buf[blockingClients[k][i]] = Empty
    /\ \E c \in Clients :
         pc[c] \in BLPopPCs /\ arg[c] = k /\ myChan[c] = blockingClients[k][i]
RegisteredOnce ==
  \A k \in Keys : \A i, j \in DOMAIN blockingClients[k] :
    i # j => blockingClients[k][i] # blockingClients[k][j]
NewIsEmpty == \A ch \in Chans : made[ch] = "none" => buf[ch] = Empty
BusyHasKey == \A c \in Clients : pc[c] # "idle" => arg[c] \in Keys
QueueInv ==
  /\ NoPushInFlight /\ ChannelWhileWaiting /\ OneOwner
  /\ RegisteredIsEmpty /\ RegisteredOnce /\ WaiterReachable
  /\ NewIsEmpty /\ BusyHasKey

(* Where a value is: in lists, in channels, held by a blocked push, or     *)
(* given to a client.                                                      *)
Places(v) ==
  (UNION {{<<k, i>> : i \in {j \in DOMAIN elements[k] : elements[k][j] = v}} : k \in Keys})
  \cup {ch \in Chans : buf[ch] = v}
  \cup {c \in Clients : pc[c] = "pushSend" /\ v \in Range(vals[c])}
Copies(v) == Cardinality(Places(v)) + popped[v]

(* No pushed value is lost or handed out twice, whatever the order of      *)
(* pushes, hand-overs and timeouts - in particular when a timeout races    *)
(* the send to the same channel (store.go:417-428) - unless an unlocked    *)
(* LPOP was overtaken: a change at the head of its list after it settled   *)
(* how many elements it takes, or any change after it cut the slice it     *)
(* stores (store.go:377-390).  Other writes do an LPOP no harm.            *)
Conservation ==
  ~raced => \A v \in Values : Copies(v) = IF v \in pushed THEN 1 ELSE 0

(* The process panics only because an LPOP was overtaken, or in one that   *)
(* was called with a negative count (store.go:386, 390).                   *)
PanicNeedsRace ==
  crashed = "panic" => raced \/ \E c \in Clients : pc[c] = "lpopRead" /\ want[c] < 0

(* A client is left waiting beside a non-empty list only by a push of      *)
(* several values: it hands one of them to the first waiter and stores the *)
(* others, also when more clients wait (store.go:453-471).                 *)
Stranded(k) == elements[k] # <<>> /\ blockingClients[k] # <<>>
OnlyBatchStrands ==
  [][\A k \in Keys : Stranded(k)' /\ ~Stranded(k) /\ ~raced'
        => Cardinality(pushed' \ pushed) > 1]_vars

(* A value put into a waiter's channel reaches that client: neither the    *)
(* timeout branch nor a second waiter makes it wait for ever.              *)
HandedValueArrives ==
  \A v \in Values : (\E ch \in Chans : buf[ch] = v) ~> popped[v] > 0 \/ crashed # "no"

(* The promise of the blocking list, see module ListPromise: channels,     *)
(* the mutex and the timer cannot be told from an atomic hand-over.        *)
Owner(ch) == CHOOSE c \in Clients : myChan[c] = ch
InQueue == [k \in Keys |-> [i \in DOMAIN blockingClients[k] |-> Owner(blockingClients[k][i])]]
Handed == [c \in Clients |-> IF myChan[c] = NoChan THEN Empty ELSE buf[myChan[c]]]
Promise == INSTANCE ListPromise WITH list <- elements, queue <- InQueue, hand <- Handed
KeepsPromise == Promise!Spec
=============================================================================
