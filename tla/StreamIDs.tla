------------------------------ MODULE StreamIDs ------------------------------
(***************************************************************************)
(* The entry IDs of one stream: how XADD chooses or refuses an ID          *)
(* (resolveStreamID), how an ID survives being written as text and parsed  *)
(* again (convertID), and which entries XRANGE and XREAD find by binary    *)
(* search.  An int is MaxInt wide: one more wraps to the least int.        *)
(*                                                                         *)
(* ClockOnly and AtFound are faulty twins of the operator defined after    *)
(* them: no action uses them, a mutation puts one in place of its twin to  *)
(* show that a property notices.                                           *)
(***************************************************************************)
EXTENDS Integers, Sequences

CONSTANTS
  MaxInt,      \* the greatest int
  MaxIDs,      \* entries the stream takes at most
  Star,        \* the argument "*"
  Malformed    \* an argument convertID cannot parse

ASSUME StreamIDsAssumption ==
  /\ MaxInt \in Nat \ {0}
  /\ MaxIDs \in Nat
  /\ Star \notin [ms : Int, sq : Int] /\ Malformed \notin [ms : Int, sq : Int]

VARIABLES
  entries,  \* Stream.Entries, the IDs alone
  nowMs     \* time.Now().UnixMilli(), which may jump in either direction

idVars == <<entries, nowMs>>

MinInt == -MaxInt - 1
ID == [ms : MinInt..MaxInt, sq : MinInt..MaxInt]
Zero == [ms |-> 0, sq |-> 0]

(* The wrap-around of int addition.                                        *)
Successor(n) == IF n = MaxInt THEN MinInt ELSE n + 1

(* The `*` of `5-*`, as convertID returns it.                              *)
AutoSeq == -1

(* What a client may send: `*`, `ms-sq`, `ms-*`, or something else.        *)
Requests == [ms : 0..MaxInt, sq : {AutoSeq} \cup 0..MaxInt] \cup {Star, Malformed}

(* An argument parsed, or an ID printed with %d-%d and parsed again: a     *)
(* negative part adds a dash, convertID refuses it, and its callers go on  *)
(* with 0-0.  The -1 of `ms-*` is no dash; no entry has it.                *)
ConvertID(id) == IF id = Malformed \/ id.ms < 0 \/ id.sq < AutoSeq THEN Zero ELSE id

Less(a, b) == a.ms < b.ms \/ (a.ms = b.ms /\ a.sq < b.sq)
CompareStreamIDs(a, b) ==
  IF Less(ConvertID(a), ConvertID(b)) THEN -1
  ELSE IF ConvertID(a) = ConvertID(b) THEN 0 ELSE 1

Larger(a, b) == IF a > b THEN a ELSE b

-----------------------------------------------------------------------------
(* The last ID as XADD sees it, and whether there is one.                  *)
HasLast == entries # <<>>
LastID == IF HasLast THEN ConvertID(entries[Len(entries)]) ELSE Zero

(* `*`: the clock, or the time of the last entry if the clock is behind.   *)
ClockOnly(now, last) == now
GeneratedMs(now, last) == Larger(now, last)
Generated ==
  LET ms == GeneratedMs(nowMs, LastID.ms)
  IN [ms |-> ms, sq |-> IF ms = LastID.ms THEN Successor(LastID.sq) ELSE 0]

(* `ms-*`: the number after the last entry's, 1 for 0-*, 0 otherwise.      *)
Completed(request) ==
  IF request.sq # AutoSeq THEN request
  ELSE [request EXCEPT !.sq =
          IF HasLast /\ request.ms = LastID.ms THEN Successor(LastID.sq)
          ELSE IF request.ms = 0 THEN 1 ELSE 0]

(* Explicit IDs that resolveStreamID lets pass.                            *)
Accepted(id) == id # Zero /\ (HasLast => Less(LastID, id))

Added(id) ==
  /\ Len(entries) < MaxIDs
  /\ entries' = Append(entries, id)
  /\ UNCHANGED nowMs

XAddGenerated == Added(Generated)

(* A request that is malformed or not accepted changes nothing.            *)
XAddExplicit(request) ==
  /\ Accepted(Completed(request))
  /\ Added(Completed(request))

ClockJumps(ms) ==
  /\ nowMs' = ms
  /\ UNCHANGED entries

IDsInit == entries = <<>> /\ nowMs \in 1..MaxInt

IDsNext ==
  \/ XAddGenerated
  \/ \E request \in Requests \ {Star, Malformed} : XAddExplicit(request)
  \/ \E ms \in 1..MaxInt : ClockJumps(ms)

IDsSpec == IDsInit /\ [][IDsNext]_idVars

-----------------------------------------------------------------------------
(* slices.BinarySearchFunc: the first index (from 0) whose entry is not    *)
(* before the target, and whether the target is there.                     *)
SearchIndex(target) ==
  LET n == Len(entries)
      search[p \in (0..n) \X (0..n)] ==
        IF p[1] >= p[2] THEN p[1]
        ELSE LET h == (p[1] + p[2]) \div 2
             IN IF CompareStreamIDs(entries[h + 1], target) < 0
                THEN search[<<h + 1, p[2]>>]
                ELSE search[<<p[1], h>>]
  IN search[<<0, n>>]

Found(target) ==
  LET i == SearchIndex(target)
  IN i < Len(entries) /\ CompareStreamIDs(entries[i + 1], target) = 0

(* The index after the target, if it is there.                             *)
AtFound(target) == SearchIndex(target)
PastFound(target) == SearchIndex(target) + IF Found(target) THEN 1 ELSE 0

(* XRANGE and its arguments "-" and "+"; making the result panics when the *)
(* range ends before it starts.                                            *)
FirstID == [ms |-> 0, sq |-> 1]
XRangeEnd(end) == PastFound(end)
XRangePanics(start, end) == XRangeEnd(end) < SearchIndex(start)
XRange(start, end) == SubSeq(entries, SearchIndex(start) + 1, XRangeEnd(end))

(* XREAD, for one stream.                                                  *)
XReadStart(id) == PastFound(id)
XRead(id) == SubSeq(entries, XReadStart(id) + 1, Len(entries))

-----------------------------------------------------------------------------
(* The variables have the types of the code.                               *)
IDsTypeOK ==
  /\ entries \in Seq(ID)
  /\ nowMs \in 1..MaxInt

(* A generated ID whose sequence number overflowed is in the stream.       *)
Overflowed == \E i \in DOMAIN entries : entries[i].sq < 0

(* Consumers resume from the last ID they have seen, so every entry must   *)
(* get a greater ID than all before it, whatever the clock does and        *)
(* whichever forms of ID are mixed (store.go:527-568).                     *)
IDsIncrease ==
  \A i, j \in DOMAIN entries : i < j => Less(entries[i], entries[j])

(* That holds, on values of the types above, until a sequence number       *)
(* overflows.                                                              *)
IncreaseUntilOverflow == IDsTypeOK /\ (~Overflowed => IDsIncrease)

(* The entries at the places of I, in their order.                         *)
EntriesAt(I) ==
  LET picked[i \in 0..Len(entries)] ==
        IF i = 0 THEN <<>>
        ELSE IF i \in I THEN Append(picked[i - 1], entries[i]) ELSE picked[i - 1]
  IN  picked[Len(entries)]

(* What a client may give as a bound: nothing checks it.                   *)
Bounds == Requests \ {Star}

(* XRANGE returns the entries between its bounds as convertID reads them,  *)
(* both included (store.go:598-648).  It panics exactly when an entry is   *)
(* after the end and before the start: also for an end in the right order  *)
(* that convertID refuses, which is 0-0 (store.go:573, 615, 650-658).      *)
(* From "-", which is 0-1, to "+" it returns everything: no entry gets the *)
(* ID 0-0, which XREAD uses as the beginning of a stream (store.go:607).   *)
(* All this until a sequence number has overflowed.                        *)
Between(start, end) ==
  EntriesAt({i \in DOMAIN entries : ~Less(entries[i], start) /\ ~Less(end, entries[i])})
Outside(start, end) ==
  \E i \in DOMAIN entries : Less(end, entries[i]) /\ Less(entries[i], start)
XRangeMatches ==
  ~Overflowed =>
    /\ \A start, end \in Bounds :
         /\ XRangePanics(start, end) <=> Outside(ConvertID(start), ConvertID(end))
         /\ XRangePanics(start, end)
              \/ XRange(start, end) = Between(ConvertID(start), ConvertID(end))
    /\ HasLast => XRange(FirstID, entries[Len(entries)]) = entries

(* XREAD returns exactly the entries after the given ID, all of them if    *)
(* convertID refuses it: a consumer that passes the last ID it got misses  *)
(* nothing and sees nothing twice (store.go:682-720, 768-779).             *)
After(id) == EntriesAt({i \in DOMAIN entries : Less(id, entries[i])})
XReadMatches ==
  ~Overflowed =>
    \A id \in Bounds : XRead(id) = After(ConvertID(id))
=============================================================================
