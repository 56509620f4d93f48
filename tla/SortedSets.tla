----------------------------- MODULE SortedSets ------------------------------
(***************************************************************************)
(* One sorted set of store.Store: the skip list of skiplist.go and the     *)
(* commands on it, ZADD, ZREM, ZCARD, ZRANK, ZRANGE, and FirstGE, which    *)
(* GEOSEARCH starts from.  GEOADD is a ZADD with the score of a place.     *)
(* Every command holds s.mu, so it is one step, or one expression when it  *)
(* only reads.                                                             *)
(*                                                                         *)
(* The map sortedSets holds SkipList values, not pointers: a command works *)
(* on a copy of maxLevel and length, which shares the nodes and the        *)
(* dictionary.  ZADD stores its copy back, ZREM does not.                  *)
(*                                                                         *)
(* NotAcross, OnlyTheBottom, CountsFrom0 and SameScoreToo are faulty twins *)
(* of the operator defined after them: no action uses them, a mutation     *)
(* puts one in place of its twin to show that a property notices.          *)
(***************************************************************************)
EXTENDS Integers, Sequences, FiniteSets, SequencesExt

CONSTANTS
  Members,   \* numbers, in the order of the names
  Scores,    \* numbers; NaN, which ZADD accepts too, is in no order
  maxLevel,  \* zskiplistMaxLevel, 32 in the code
  MaxNodes,  \* nodes made at most
  Nil        \* no node

ASSUME SortedSetsAssumption ==
  /\ Members \subseteq Nat /\ Scores \subseteq Int
  /\ maxLevel \in Nat \ {0} /\ MaxNodes \in Nat
  /\ Nil \notin Int

Head0 == 0
Nodes == 1..MaxNodes
Places == Nodes \cup {Head0}
Levels == 0..(maxLevel - 1)
Top == maxLevel - 1

VARIABLES
  made,           \* nodes made so far
  member, score,  \* of a node
  height,         \* len(node.forward)
  forward, span,  \* of a node, level by level
  length,         \* the stored length
  dictionary,     \* the node of a member
  \* history
  removals,       \* members removed
  reordered,      \* a ZADD changed the order of the members
  topCrossed,     \* a removal while the top level had a node
  topRemoved      \* one of the nodes removed was on the top level

nodeVars == <<made, member, score, height, forward, span>>
sortedVars == <<nodeVars, length, dictionary, removals, reordered, topCrossed, topRemoved>>

SortedInit ==
  /\ made = 0
  /\ member = [n \in Nodes |-> 0]
  /\ score = [n \in Nodes |-> 0]
  /\ height = [n \in Places |-> IF n = Head0 THEN maxLevel ELSE 0]
  /\ forward = [n \in Places |-> [i \in Levels |-> Nil]]
  /\ span = [n \in Places |-> [i \in Levels |-> 0]]
  /\ length = 0
  /\ dictionary = [m \in Members |-> Nil]
  /\ removals = 0
  /\ reordered = FALSE /\ topCrossed = FALSE /\ topRemoved = FALSE

-----------------------------------------------------------------------------
(* Walking.  A walk goes down the levels, and on each as far as it may: its*)
(* end on level i is the node that the code keeps in update[i], with the   *)
(* sum of the spans in rank[i].                                            *)

Visits == [node : Places, rank : Int]
Start == [node |-> Head0, rank |-> 0]
NextPlace(p, i) == [node |-> forward[p.node][i], rank |-> p.rank + span[p.node][i]]

(* The walk may go on to the visits in `may`.                              *)
Along(may, i) ==
  LET along[p \in Visits] ==
        IF forward[p.node][i] # Nil /\ NextPlace(p, i) \in may
        THEN along[NextPlace(p, i)] ELSE p
  IN  along
Walk(may) ==
  LET end[i \in Levels] == Along(may, i)[IF i = Top THEN Start ELSE end[i + 1]]
  IN  end

LastOf(walk) == walk[0]

(* Before(n, s, m): node n comes before member m with score s.             *)
Before(n, s, m) == score[n] < s \/ (score[n] = s /\ member[n] < m)

-----------------------------------------------------------------------------
(* ZADD and GEOADD: Store.ZAdd, InsertElement.                             *)

(* Spans: of node n on level i, when the walk ended at p there and at      *)
(* `first` on level 0.  Where nothing follows, the span is first set to    *)
(* what is left of the list.                                               *)
OldSpan(p, i) == IF forward[p.node][i] = Nil THEN length + 2 - p.rank ELSE span[p.node][i]
SpanUpToNew(p, first) == first.rank - p.rank + 1
SpanFromNew(p, i, first) == OldSpan(p, i) - (first.rank - p.rank)

NotAcross(s) == s
Across(s) == s + 1

Insert(m, s, h) ==
  LET n == made + 1
      update == Walk({p \in Visits : Before(p.node, s, m)})
      first == LastOf(update)
      At(p, i) == update[i].node = p
  IN  /\ made < MaxNodes
      /\ made' = n
      /\ member' = [member EXCEPT ![n] = m]
      /\ score' = [score EXCEPT ![n] = s]
      /\ height' = [height EXCEPT ![n] = h]
      /\ forward' = [p \in Places |-> [i \in Levels |->
           IF i >= h THEN forward[p][i]
           ELSE IF p = n THEN forward[update[i].node][i]
           ELSE IF At(p, i) THEN n ELSE forward[p][i]]]
      /\ span' = [p \in Places |-> [i \in Levels |->
           IF i >= h THEN IF At(p, i) THEN Across(span[p][i]) ELSE span[p][i]
           ELSE IF p = n THEN SpanFromNew(update[i], i, first)
           ELSE IF At(p, i) THEN SpanUpToNew(update[i], first) ELSE span[p][i]]]
      /\ dictionary' = [dictionary EXCEPT ![m] = n]
      /\ length' = length + 1
      /\ UNCHANGED <<removals, reordered, topCrossed, topRemoved>>

In == {m \in Members : dictionary[m] # Nil}
Precedes(sc, a, b) ==
  sc[dictionary[a]] < sc[dictionary[b]] \/ (sc[dictionary[a]] = sc[dictionary[b]] /\ a < b)

(* A member that is there gets its score where it stands.                  *)
Rescore(m, s) ==
  /\ score' = [score EXCEPT ![dictionary[m]] = s]
  /\ reordered' = (reordered \/ \E a, b \in In : Precedes(score, a, b) # Precedes(score', a, b))
  /\ UNCHANGED <<made, member, height, forward, span, length, dictionary, removals,
                 topCrossed, topRemoved>>

ZAdd(m, s, h) ==
  \/ m \in In /\ Rescore(m, s)
  \/ m \notin In /\ Insert(m, s, h)

(* ZREM: Store.ZRem, RemoveElementByName.  The loop leaves the top level   *)
(* out.                                                                    *)
OnlyTheBottom == {0}
Unlinked == 0..(maxLevel - 2)

ZRem(m) ==
  LET e == dictionary[m]
      update == Walk({p \in Visits : Before(p.node, score[e], m)})
      At(p, i) == i \in Unlinked /\ update[i].node = p
  IN  /\ m \in In
      /\ forward' = [p \in Places |-> [i \in Levels |->
           IF At(p, i) /\ forward[p][i] = e THEN forward[e][i] ELSE forward[p][i]]]
      /\ span' = [p \in Places |-> [i \in Levels |->
           IF ~At(p, i) THEN span[p][i]
           ELSE IF forward[p][i] = e THEN span[p][i] + span[e][i] - 1 ELSE span[p][i] - 1]]
      /\ dictionary' = [dictionary EXCEPT ![m] = Nil]
      /\ removals' = removals + 1
      /\ topCrossed' = (topCrossed \/ forward[Head0][Top] # Nil)
      /\ topRemoved' = (topRemoved \/ height[e] = maxLevel)
      /\ UNCHANGED <<made, member, score, height, length, reordered>>

SortedNext ==
  \E m \in Members :
    \/ \E s \in Scores, h \in 1..maxLevel : ZAdd(m, s, h)
    \/ ZRem(m)

SortedSpec == SortedInit /\ [][SortedNext]_sortedVars

-----------------------------------------------------------------------------
(* What the reading commands answer.                                       *)

ZCard == length

(* FindElementRank: the walk goes up to the member itself.                 *)
UpTo(n, s, m) == score[n] < s \/ (score[n] = s /\ member[n] <= m)
ZRank(m) ==
  LastOf(Walk({p \in Visits : UpTo(p.node, score[dictionary[m]], m)})).rank - 1

(* GetElement.                                                             *)
CountsFrom0(rank) == rank
CountsFrom1(rank) == rank + 1
GetElement(rank) ==
  IF CountsFrom1(rank) >= length THEN Nil
  ELSE LastOf(Walk({p \in Visits : p.rank <= CountsFrom1(rank)})).node

(* The nodes from n on along level i.                                      *)
ChainFrom(n, i) ==
  LET chain[p \in Nodes \cup {Nil}] == IF p = Nil THEN <<>> ELSE <<p>> \o chain[forward[p][i]]
  IN  chain[n]

Larger(a, b) == IF a >= b THEN a ELSE b
Smaller(a, b) == IF a <= b THEN a ELSE b
FromEnd(x) == IF x < 0 THEN Larger(length + x, 0) ELSE x

(* ZRANGE: the nodes listed; the head stands for the empty name it has.    *)
ZRange(from, to) ==
  LET lo == FromEnd(from)
      hi == IF FromEnd(to) > length THEN length - 1 ELSE FromEnd(to)
      first == GetElement(lo)
      chain == IF first = Head0 THEN <<Head0>> \o ChainFrom(forward[Head0][0], 0)
                                ELSE ChainFrom(first, 0)
  IN  IF lo > FromEnd(to) \/ lo >= length THEN <<>>
      ELSE SubSeq(chain, 1, Smaller(hi - lo + 1, Len(chain)))

SameScoreToo(n, s) == score[n] <= s
BelowScore(n, s) == score[n] < s
FirstGE(s) == forward[LastOf(Walk({p \in Visits : BelowScore(p.node, s)})).node][0]

-----------------------------------------------------------------------------
(* What they should answer, from the dictionary alone.                     *)
InSet == {dictionary[m] : m \in In}
Sorted(nodes) ==
  CHOOSE seq \in [1..Cardinality(nodes) -> nodes] :
    \A a, b \in DOMAIN seq : a < b => Precedes(score, member[seq[a]], member[seq[b]])
Ordered == Sorted(InSet)
Position(m) == Cardinality({a \in In : Precedes(score, a, m)})
Listed(i) == ChainFrom(forward[Head0][i], i)

(* The variables have the types of the code.                               *)
SortedTypeOK ==
  /\ made \in 0..MaxNodes
  /\ member \in [Nodes -> Nat]
  /\ score \in [Nodes -> Int]
  /\ height \in [Places -> 0..maxLevel]
  /\ forward \in [Places -> [Levels -> Nodes \cup {Nil}]]
  /\ span \in [Places -> [Levels -> Int]]
  /\ length \in Nat
  /\ dictionary \in [Members -> Nodes \cup {Nil}]

(* Every level lists, in order, the members whose nodes reach it - until a *)
(* ZADD gives a member another place in the order, which it takes in the   *)
(* dictionary only (skiplist.go:81-84), or a node of the top level is      *)
(* removed, which stays linked there (skiplist.go:61).  Until the first    *)
(* removal no member is missing or listed twice, whatever its score.  The  *)
(* values are of the types above.                                          *)
LevelsInOrder ==
  /\ SortedTypeOK
  /\ ~reordered /\ ~topRemoved =>
       \A i \in Levels : Listed(i) = Sorted({n \in InSet : height[n] > i})
  /\ removals = 0 => IsInjective(Listed(0)) /\ Range(Listed(0)) = Range(Ordered)

(* ZRANK is the number of members before, however the spans came about.    *)
(* It is wrong after a removal next to a node of the top level, whose span *)
(* the removal skips (skiplist.go:61-68).                                  *)
RankIsPosition == ~reordered /\ ~topCrossed => \A m \in In : ZRank(m) = Position(m)

(* ZRANGE lists a slice of the members in order, with exceptions that add  *)
(* up from the stored length: it counts removed members, so ZCARD is never *)
(* less than it was (store.go:140); the last rank it knows is refused      *)
(* (skiplist.go:149); a rank past the members lists the last one, or the   *)
(* head's empty name when there is none; an end before the first member    *)
(* counts as the first (store.go:182-184).                                 *)
Slice(from, to) ==
  LET lo == FromEnd(from)
      hi == FromEnd(to)
      n == Len(Ordered)
      first == Smaller(lo + 1, n)
  IN  IF lo > hi \/ lo + 1 >= n + removals THEN <<>>
      ELSE IF n = 0 THEN <<Head0>>
      ELSE SubSeq(Ordered, first, Smaller(first + (hi - lo), n))
RangeIsSlice ==
  ~reordered /\ ~topCrossed =>
    /\ ZCard = Len(Ordered) + removals
    /\ \A from, to \in -(MaxNodes + 1)..(MaxNodes + 1) : ZRange(from, to) = Slice(from, to)

(* FirstGE finds the first member with at least the score: GEOSEARCH       *)
(* misses none of those behind it.                                         *)
SearchStartsRight ==
  ~reordered /\ ~topRemoved =>
    \A s \in Scores :
      LET above == {n \in InSet : score[n] >= s}
      IN  FirstGE(s) = IF above = {} THEN Nil ELSE Sorted(above)[1]
=============================================================================
