------------------------------ MODULE PubSub ------------------------------
(***************************************************************************)
(* Publish/subscribe: the PubSubServer that every connection shares, the   *)
(* three commands that use it, and the writer goroutine that main starts   *)
(* for each connection.                                                    *)
(*                                                                         *)
(* PUBLISH copies the subscribers of the channel under the read lock and   *)
(* offers the message to each of them with the lock released, so that      *)
(* subscriptions change, and other messages are offered, in between.  Each *)
(* connection has a bounded queue of messages, sendChan: an offer to a     *)
(* full one is skipped.  The writer takes one message at a time and writes *)
(* it to the connection.                                                   *)
(*                                                                         *)
(* Nobody unsubscribes a connection that is gone: it stays in channels,    *)
(* and it is still counted while its queue has room.                       *)
(***************************************************************************)
EXTENDS Integers, FiniteSets, SequencesExt

CONSTANTS
    Clients,      \* connections
    Channels,     \* names of channels
    SendCap,      \* capacity of sendChan, 256 in the code
    MaxMessages   \* bound on the messages published in a behaviour

ASSUME SendCapAssumption == SendCap \in Nat \ {0}

(* PUBLISH answers a number of connections: there are finitely many.       *)
ASSUME BoundsAssumption == IsFiniteSet(Clients) /\ MaxMessages \in Nat

VARIABLES
    channels,     \* PubSubServer.channels: the subscribers of each channel
    subs,         \* Handler.subs
    isSubscriber, \* Handler.IsSubscriberMode
    sendChan,     \* Handler.sendChan: numbers of messages, oldest first
    hand,         \* what the writer took and has not written: at most one
    writerUp,     \* the writer goroutine still runs
    open,         \* the peer has not closed the connection
    pc,           \* what the handler is doing: "ready", "publishing", "ended"
    job,          \* of a PUBLISH: the message, who is left, how many took it
    published,    \* history: the messages, numbered in the order of snapshots
    queued,       \* history: everything that entered a client's sendChan
    written       \* history: everything the writer wrote to an open connection

shared == <<channels, subs, isSubscriber>>
pipe   == <<sendChan, hand, writerUp, queued, written>>
vars   == <<shared, pipe, open, pc, job, published>>

NoJob == [message |-> 0, left |-> {}, count |-> 0]

(* A message knows its channel, who was subscribed when it was offered,    *)
(* which messages had been answered before it, and the count in its own    *)
(* answer, -1 while there is none.                                         *)
Message == [channel: Channels, audience: SUBSET Clients,
            earlier: SUBSET (1..MaxMessages), count: -1..Cardinality(Clients)]

Answered == {m \in DOMAIN published : published[m].count >= 0}

Init ==
    /\ channels = [ch \in Channels |-> {}]
    /\ subs = [c \in Clients |-> {}]
    /\ isSubscriber = [c \in Clients |-> FALSE]
    /\ sendChan = [c \in Clients |-> <<>>]
    /\ hand = [c \in Clients |-> <<>>]
    /\ writerUp = [c \in Clients |-> TRUE]
    /\ open = [c \in Clients |-> TRUE]
    /\ pc = [c \in Clients |-> "ready"]
    /\ job = [c \in Clients |-> NoJob]
    /\ published = <<>>
    /\ queued = [c \in Clients |-> <<>>]
    /\ written = [c \in Clients |-> <<>>]

-----------------------------------------------------------------------------
(* Faulty twins, for mutation only: each is a wrong version of the operator *)
(* defined after it, and nothing else uses it.                             *)

(* The select of Publish: an offer to a full queue is skipped at once.     *)
FullTooEarly(c) == Len(sendChan[c]) >= SendCap - 1
Full(c) == Len(sendChan[c]) = SendCap

(* Publish counts the offers that were taken, not all of them.             *)
CountsOffers(j, c, taken) == [j EXCEPT !.left = @ \ {c}, !.count = @ + 1]
Offered(j, c, taken) ==
    [j EXCEPT !.left = @ \ {c}, !.count = IF taken THEN @ + 1 ELSE @]

(* PUBLISH is answered when Publish returns, not while it offers.          *)
AnswersFirst(ch) ==
    [channel |-> ch, audience |-> channels[ch], earlier |-> Answered, count |-> 0]
Begun(ch) ==
    [channel |-> ch, audience |-> channels[ch], earlier |-> Answered, count |-> -1]

-----------------------------------------------------------------------------
(* The commands of a connection, as executeBuiltIn lets them through.      *)

(* The handler writes IsSubscriberMode and len(h.subs) after the lock is   *)
(* released, but no other goroutine reads them.                            *)
Subscribe(c, ch) ==
    /\ pc[c] = "ready"
    /\ channels' = [channels EXCEPT ![ch] = @ \cup {c}]
    /\ subs' = [subs EXCEPT ![c] = @ \cup {ch}]
    /\ isSubscriber' = [isSubscriber EXCEPT ![c] = TRUE]
    /\ UNCHANGED <<pipe, open, pc, job, published>>

(* Nothing here takes the connection out of subscriber mode again, in      *)
(* which executeBuiltIn refuses everything but SUBSCRIBE, UNSUBSCRIBE and  *)
(* PING: a refused command changes nothing.                                *)
Unsubscribe(c, ch) ==
    /\ pc[c] = "ready"
    /\ channels' = [channels EXCEPT ![ch] = @ \ {c}]
    /\ subs' = [subs EXCEPT ![c] = @ \ {ch}]
    /\ UNCHANGED <<isSubscriber, pipe, open, pc, job, published>>

(* PUBLISH, under the read lock: the subscribers are copied.  A channel    *)
(* nobody is subscribed to has no entry, and is answered with 0 at once.   *)
PublishSnapshot(c, ch) ==
    /\ pc[c] = "ready"
    /\ ~isSubscriber[c]
    /\ Len(published) < MaxMessages
    /\ published' = Append(published, Begun(ch))
    /\ job' = [job EXCEPT ![c] =
            [message |-> Len(published) + 1, left |-> channels[ch], count |-> 0]]
    /\ pc' = [pc EXCEPT ![c] = "publishing"]
    /\ UNCHANGED <<shared, pipe, open>>

(* One turn of the loop over the copy, which has no order.                 *)
PublishOffer(c, to) ==
    /\ pc[c] = "publishing"
    /\ to \in job[c].left
    /\ job' = [job EXCEPT ![c] = Offered(@, to, ~Full(to))]
    /\ IF Full(to)
         THEN UNCHANGED <<sendChan, queued>>
         ELSE /\ sendChan' = [sendChan EXCEPT ![to] = Append(@, job[c].message)]
              /\ queued' = [queued EXCEPT ![to] = Append(@, job[c].message)]
    /\ UNCHANGED <<shared, hand, writerUp, written, open, pc, published>>

PublishReply(c) ==
    /\ pc[c] = "publishing"
    /\ job[c].left = {}
    /\ published' = [published EXCEPT ![job[c].message].count = job[c].count]
    /\ job' = [job EXCEPT ![c] = NoJob]
    /\ pc' = [pc EXCEPT ![c] = "ready"]
    /\ UNCHANGED <<shared, pipe, open>>

-----------------------------------------------------------------------------
(* The writer goroutine of a connection: `for msg := range h.sendChan`.    *)

WriterTakes(c) ==
    /\ writerUp[c]
    /\ hand[c] = <<>>
    /\ sendChan[c] # <<>>
    /\ hand' = [hand EXCEPT ![c] = <<Head(sendChan[c])>>]
    /\ sendChan' = [sendChan EXCEPT ![c] = Tail(@)]
    /\ UNCHANGED <<shared, writerUp, queued, written, open, pc, job, published>>

(* Whether the writer goes on after a write: when the peer has closed the   *)
(* connection the message is lost, and the write may fail, which ends it.   *)
GoesOn(c) == IF open[c] THEN {TRUE} ELSE BOOLEAN

WriterWrites(c) ==
    /\ hand[c] # <<>>
    /\ hand' = [hand EXCEPT ![c] = <<>>]
    /\ written' = [written EXCEPT ![c] = IF open[c] THEN @ \o hand[c] ELSE @]
    /\ \E up \in GoesOn(c) : writerUp' = [writerUp EXCEPT ![c] = up]
    /\ UNCHANGED <<shared, sendChan, queued, open, pc, job, published>>

(* The peer goes away: the handler learns it from its next read.           *)
Close(c) ==
    /\ open[c]
    /\ open' = [open EXCEPT ![c] = FALSE]
    /\ UNCHANGED <<shared, pipe, pc, job, published>>

(* HandleIncomingStream returns, after a read error or because it cannot   *)
(* parse what it read.  It neither unsubscribes nor closes the connection. *)
HandlerEnds(c) ==
    /\ pc[c] = "ready"
    /\ pc' = [pc EXCEPT ![c] = "ended"]
    /\ UNCHANGED <<shared, pipe, open, job, published>>

Next ==
    \E c \in Clients :
        \/ \E ch \in Channels :
             \/ Subscribe(c, ch)
             \/ Unsubscribe(c, ch)
             \/ PublishSnapshot(c, ch)
        \/ \E to \in Clients : PublishOffer(c, to)
        \/ PublishReply(c)
        \/ WriterTakes(c)
        \/ WriterWrites(c)
        \/ Close(c)
        \/ HandlerEnds(c)

Spec == Init /\ [][Next]_vars

-----------------------------------------------------------------------------
(* The variables have the types of the code, and no queue is over its      *)
(* capacity.                                                               *)
TypeOK ==
    /\ channels \in [Channels -> SUBSET Clients]
    /\ subs \in [Clients -> SUBSET Channels]
    /\ isSubscriber \in [Clients -> BOOLEAN]
    /\ sendChan \in [Clients -> Seq(1..MaxMessages)]
    /\ \A c \in Clients : Len(sendChan[c]) <= SendCap /\ Len(hand[c]) <= 1
    /\ writerUp \in [Clients -> BOOLEAN]
    /\ open \in [Clients -> BOOLEAN]
    /\ pc \in [Clients -> {"ready", "publishing", "ended"}]
    /\ \A c \in Clients : job[c].left \subseteq Clients
    /\ published \in Seq(Message)

(* What PUBLISH replied is the number of connections whose queue took the  *)
(* message, each of them once, whatever was subscribed, unsubscribed or    *)
(* published while it went through its copy.                               *)
Times(m, queue) == Cardinality({i \in DOMAIN queue : queue[i] = m})

CountsWhoGotIt ==
    \A m \in Answered :
        /\ published[m].count = Cardinality({c \in Clients : Times(m, queued[c]) > 0})
        /\ \A c \in Clients : Times(m, queued[c]) <= 1

(* A message that started after another one was answered never overtakes   *)
(* it on the way to any connection, on whichever channels they were sent.  *)
(* (Messages published at the same time do arrive in different orders.)    *)
Pipeline(c) == written[c] \o hand[c] \o sendChan[c]

NeverOvertakes ==
    \A c \in Clients : \A i, j \in DOMAIN Pipeline(c) :
        i < j => Pipeline(c)[j] \notin published[Pipeline(c)[i]].earlier

(* On values of these types, a subscriber misses a message only if at least*)
(* SendCap others were queued for it: a loss is always the loss of one who *)
(* fell behind (commands.go:436-441).                                      *)
LossNeedsBacklog ==
    /\ TypeOK
    /\ \A m \in Answered : \A c \in published[m].audience :
         Times(m, queued[c]) = 0 =>
             Cardinality({x \in ToSet(queued[c]) : m \notin published[x].earlier}) >= SendCap
=============================================================================
