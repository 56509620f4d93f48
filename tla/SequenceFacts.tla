--------------------------- MODULE SequenceFacts ----------------------------
(***************************************************************************)
(* Facts about numbers, functions and sequences that the proofs about the  *)
(* components cite: the least number of a set, with which an argument by   *)
(* induction is one by a least counterexample; that a function defined by  *)
(* recursion on a number exists; what is left of a queue without the first *)
(* occurrence of an element; sequences without duplicates, and how often   *)
(* an element occurs; where a binary search ends; what picking a slice of  *)
(* a sequence returns; and that a function defined by recursion along      *)
(* steps exists.                                                           *)
(***************************************************************************)
EXTENDS Integers, SequencesExt, TLAPS, SequenceTheorems, FiniteSetTheorems,
        WellFoundedInduction

-----------------------------------------------------------------------------
(* Every non-empty set of numbers has a least element.                     *)
LEMMA LeastNumber ==
  ASSUME NEW I, I \subseteq Nat, I # {}
  PROVE  \E m \in I : \A y \in I : m <= y
<1>1. PICK LT : /\ IsWellFoundedOn(LT, Nat)
                /\ \A x, y \in Nat : <<y, x>> \in LT <=> y < x
  <2>1. \A x, y \in Nat : <<y, x>> \in OpToRel(<, Nat) <=> y < x
    BY DEF OpToRel
  <2> QED
    BY <2>1, NatLessThanWellFounded, Zenon
<1>2. PICK x \in I : \A y \in I : ~(<<y, x>> \in LT)
  BY <1>1, WFMin
<1>3. ASSUME NEW y \in I PROVE x <= y
  <2>1. x \in Nat /\ y \in Nat
    BY <1>2
  <2>2. ~(y < x)
    BY <1>1, <1>2, <2>1
  <2> QED
    BY <2>1, <2>2
<1> QED
  BY <1>3

(* It is what Min is.                                                      *)
LEMMA MinOfNumbers ==
  ASSUME NEW I, I \subseteq Nat, I # {}
  PROVE  Min(I) \in I
BY LeastNumber DEF Min

(* A base value and a step on the values of S define a function on 0..n.   *)
Recurses(S, base, step, n) ==
  \E f \in [0..n -> S] : f[0] = base /\ \A i \in 1..n : f[i] = step[i][f[i - 1]]

LEMMA RecursiveFunction ==
  ASSUME NEW S, NEW base \in S, NEW step \in [Nat -> [S -> S]], NEW n \in Nat
  PROVE  Recurses(S, base, step, n)
<1> DEFINE P(m) == \E f \in [0..m -> S] : f[0] = base /\ \A i \in 1..m : f[i] = step[i][f[i - 1]]
           I == {m \in Nat : ~P(m)}
<1>1. SUFFICES ASSUME I # {} PROVE FALSE
  BY DEF Recurses
<1>2. PICK m \in I : \A y \in I : m <= y
  BY <1>1, LeastNumber
<1>3. m # 0
  <2>1. P(0)
    <3> DEFINE f == [i \in 0..0 |-> base]
    <3>1. f \in [0..0 -> S] /\ f[0] = base /\ 1..0 = {}
      OBVIOUS
    <3> QED
      BY <3>1
  <2> QED
    BY <2>1
<1>4. m - 1 \in Nat /\ m - 1 \notin I
  <2>1. m \in Nat /\ m - 1 \in Nat /\ ~(m <= m - 1)
    BY <1>3
  <2> QED
    BY <1>2, <2>1, Zenon
<1>5. PICK f \in [0..(m-1) -> S] : f[0] = base /\ \A i \in 1..(m-1) : f[i] = step[i][f[i - 1]]
  BY <1>4
<1> DEFINE g == [i \in 0..m |-> IF i = m THEN step[m][f[m - 1]] ELSE f[i]]
<1>6. g \in [0..m -> S]
  <2>1. m \in Nat /\ m - 1 \in 0..(m-1)
    BY <1>4
  <2>2. step[m][f[m - 1]] \in S
    BY <2>1
  <2>3. \A i \in 0..m : i # m => i \in 0..(m-1)
    BY <2>1
  <2> QED
    BY <2>2, <2>3
<1>7. g[0] = base /\ \A i \in 1..m : g[i] = step[i][g[i - 1]]
  <2>1. m \in Nat /\ 0 \in 0..m /\ m # 0
    BY <1>3
  <2>2. ASSUME NEW i \in 1..m PROVE g[i] = step[i][g[i - 1]]
    <3>1. i - 1 \in 0..m /\ i - 1 # m /\ i \in 0..m /\ g[i-1] = f[i-1]
      BY <2>1
    <3>2. CASE i = m
      BY <3>1, <3>2
    <3>3. CASE i # m
      BY <1>5, <3>1, <3>3, <2>1
    <3> QED
      BY <3>2, <3>3
  <2> QED
    BY <1>5, <2>1, <2>2
<1> QED
  BY <1>6, <1>7

-----------------------------------------------------------------------------
(* r is the queue cut at one place that held x.                            *)
CutsOne(r, queue, x, S) ==
  \E n \in 1..Len(queue) :
    /\ queue[n] = x
    /\ r \in Seq(S)
    /\ Len(r) = Len(queue) - 1
    /\ \A i \in 1..(Len(queue) - 1) : r[i] = IF i < n THEN queue[i] ELSE queue[i + 1]

(* RemoveFirst takes one occurrence out of the queue and leaves the others *)
(* in place.                                                               *)
LEMMA RemoveFirstCuts ==
  ASSUME NEW S, NEW queue \in Seq(S), NEW x \in S,
         NEW m \in 1..Len(queue), queue[m] = x
  PROVE  CutsOne(RemoveFirst(queue, x), queue, x, S)
<1> DEFINE I == {i \in 1..Len(queue) : queue[i] = x}
           n == Min(I)
           a == SubSeq(queue, 1, n - 1)
           b == SubSeq(queue, n + 1, Len(queue))
<1>1. n \in I
  <2>1. m \in I /\ I \subseteq Nat
    OBVIOUS
  <2> QED
    BY <2>1, MinOfNumbers
<1>2. n \in 1..Len(queue) /\ queue[n] = x
  BY <1>1
<1>3. RemoveFirst(queue, x) = a \o b
  BY <1>2 DEF RemoveFirst, RemoveAt, SelectInSeq
<1> HIDE DEF n
<1>4. /\ a \in Seq(S) /\ Len(a) = n - 1
      /\ \A i \in 1..(n - 1) : a[i] = queue[i]
  <2>1. n - 1 \in Int /\ \A i \in 1..(n - 1) : queue[i] \in S
    BY <1>2
  <2> QED
    BY <1>2, <2>1, SubSeqProperties
<1>5. /\ b \in Seq(S) /\ Len(b) = Len(queue) - n
      /\ \A i \in 1..(Len(queue) - n) : b[i] = queue[i + n]
  <2>1. n + 1 \in Int /\ \A i \in (n + 1)..Len(queue) : queue[i] \in S
    BY <1>2
  <2>2. /\ b \in Seq(S)
        /\ Len(b) = IF n + 1 <= Len(queue) THEN Len(queue) - (n + 1) + 1 ELSE 0
        /\ \A i \in 1..(Len(queue) - (n + 1) + 1) : b[i] = queue[(n + 1) + i - 1]
    BY <2>1, SubSeqProperties
  <2> QED
    BY <1>2, <2>2
<1> HIDE DEF a, b
<1>6. /\ a \o b \in Seq(S)
      /\ Len(a \o b) = Len(a) + Len(b)
      /\ \A i \in 1..(Len(a) + Len(b)) :
           (a \o b)[i] = IF i <= Len(a) THEN a[i] ELSE b[i - Len(a)]
  BY <1>4, <1>5, ConcatProperties
<1>7. \A i \in 1..(Len(queue) - 1) :
        (a \o b)[i] = IF i < n THEN queue[i] ELSE queue[i + 1]
  <2> TAKE i \in 1..(Len(queue) - 1)
  <2>1. CASE i < n
    BY <2>1, <1>2, <1>4, <1>5, <1>6
  <2>2. CASE ~(i < n)
    <3>1. i - (n - 1) \in 1..(Len(queue) - n) /\ i \in 1..(Len(a) + Len(b)) /\ ~(i <= Len(a))
      BY <2>2, <1>2, <1>4, <1>5
    <3>2. (a \o b)[i] = b[i - (n - 1)]
      BY <3>1, <1>4, <1>6
    <3>3. b[i - (n - 1)] = queue[(i - (n - 1)) + n]
      BY <3>1, <1>5
    <3> QED
      BY <2>2, <3>2, <3>3, <1>2
  <2> QED
    BY <2>1, <2>2
<1>8. Len(a) + Len(b) = Len(queue) - 1
  BY <1>2, <1>4, <1>5
<1> QED
  BY <1>2, <1>3, <1>6, <1>7, <1>8 DEF CutsOne

(* It gives a queue of the same type, also when there is no occurrence.    *)
LEMMA RemoveFirstType ==
  ASSUME NEW S, NEW queue \in Seq(S), NEW x \in S
  PROVE  RemoveFirst(queue, x) \in Seq(S)
<1>1. CASE \E m \in 1..Len(queue) : queue[m] = x
  BY <1>1, RemoveFirstCuts DEF CutsOne
<1>2. CASE ~ \E m \in 1..Len(queue) : queue[m] = x
  BY <1>2 DEF RemoveFirst
<1> QED
  BY <1>1, <1>2

(* The first occurrence of the head is the head.                           *)
LEMMA RemoveFirstOfHead ==
  ASSUME NEW S, NEW queue \in Seq(S), queue # <<>>
  PROVE  RemoveFirst(queue, Head(queue)) = Tail(queue)
<1> DEFINE x == Head(queue)
           I == {i \in 1..Len(queue) : queue[i] = x}
           n == Min(I)
<1>1. Len(queue) \in Nat \ {0} /\ x = queue[1]
  BY EmptySeq, HeadTailProperties
<1>2. 1 \in I /\ I \subseteq Nat
  BY <1>1
<1>3. n \in I /\ \A y \in I : n <= y
  <2>1. \E m \in I : \A y \in I : m <= y
    BY <1>2, LeastNumber
  <2> QED
    BY <2>1 DEF Min
<1>4. n = 1
  BY <1>2, <1>3
<1>5. RemoveFirst(queue, x) = SubSeq(queue, 1, n - 1) \o SubSeq(queue, n + 1, Len(queue))
  BY <1>1, <1>3 DEF RemoveFirst, RemoveAt, SelectInSeq
<1> HIDE DEF n
<1>6. RemoveFirst(queue, x) = SubSeq(queue, 1, 0) \o SubSeq(queue, 2, Len(queue))
  BY <1>4, <1>5
<1>7. SubSeq(queue, 1, 0) = <<>> /\ SubSeq(queue, 2, Len(queue)) = Tail(queue)
  BY <1>1
<1>8. Tail(queue) \in Seq(S)
  BY HeadTailProperties
<1>9. <<>> \o Tail(queue) = Tail(queue)
  BY <1>8
<1> QED
  BY <1>6, <1>7, <1>9

(* What a queue holds apart from x is what it holds without an x.          *)
Holds(queue, y) == \E i \in DOMAIN queue : queue[i] = y
OnlyWithout(r, queue, x) ==
  \A y : /\ Holds(r, y) => Holds(queue, y)
         /\ y # x /\ Holds(queue, y) => Holds(r, y)

LEMMA RemoveFirstKeeps ==
  ASSUME NEW S, NEW queue \in Seq(S), NEW x \in S
  PROVE  OnlyWithout(RemoveFirst(queue, x), queue, x)
<1> DEFINE r == RemoveFirst(queue, x)
<1>0. DOMAIN queue = 1..Len(queue) /\ Len(queue) \in Nat
  OBVIOUS
<1>1. CASE \E m \in 1..Len(queue) : queue[m] = x
  <2>1. PICK n \in 1..Len(queue) :
          /\ queue[n] = x
          /\ r \in Seq(S)
          /\ Len(r) = Len(queue) - 1
          /\ \A i \in 1..(Len(queue) - 1) : r[i] = IF i < n THEN queue[i] ELSE queue[i + 1]
    BY <1>1, RemoveFirstCuts DEF CutsOne
  <2> HIDE DEF r
  <2>2. DOMAIN r = 1..(Len(queue) - 1)
    BY <2>1
  <2>3. ASSUME NEW i \in DOMAIN r PROVE \E j \in DOMAIN queue : r[i] = queue[j]
    <3>1. i \in DOMAIN queue /\ i + 1 \in DOMAIN queue
      BY <1>0, <2>2
    <3> QED
      BY <2>1, <2>2, <3>1
  <2>4. ASSUME NEW j \in DOMAIN queue, queue[j] # x
        PROVE  \E i \in DOMAIN r : r[i] = queue[j]
    <3>1. CASE j < n
      <4>1. j \in 1..(Len(queue) - 1)
        BY <1>0, <2>1, <3>1
      <4> QED
        BY <2>1, <2>2, <3>1, <4>1
    <3>2. CASE j > n
      <4>1. j - 1 \in 1..(Len(queue) - 1) /\ ~(j - 1 < n) /\ (j - 1) + 1 = j
        BY <1>0, <2>1, <3>2
      <4>2. r[j - 1] = queue[j]
        BY <2>1, <4>1
      <4> QED
        BY <2>2, <4>1, <4>2
    <3> QED
      BY <1>0, <2>1, <2>4, <3>1, <3>2
  <2> QED
    BY <2>3, <2>4 DEF OnlyWithout, Holds, r
<1>2. CASE ~ \E m \in 1..Len(queue) : queue[m] = x
  BY <1>0, <1>2 DEF RemoveFirst, OnlyWithout
<1> QED
  BY <1>1, <1>2

(* Removing the first occurrence any number of times leaves the others.    *)
RemoveTimes(queue, x, n) ==
  LET left[i \in 0..n] == IF i = 0 THEN queue ELSE RemoveFirst(left[i - 1], x)
  IN  left[n]

(* One removal after the other, as a function of their number.             *)
TakenOut(S, queue, x, n, r) ==
  \E left \in [0..n -> Seq(S)] :
    /\ left[0] = queue /\ left[n] = r
    /\ \A i \in 1..n : left[i] = RemoveFirst(left[i - 1], x)

LEMMA RemoveTimesSteps ==
  ASSUME NEW S, NEW queue \in Seq(S), NEW x \in S, NEW n \in Nat
  PROVE  TakenOut(S, queue, x, n, RemoveTimes(queue, x, n))
<1> DEFINE step == [i \in Nat |-> [q \in Seq(S) |-> RemoveFirst(q, x)]]
           Def(f) == [i \in 0..n |-> IF i = 0 THEN queue ELSE RemoveFirst(f[i - 1], x)]
           left == CHOOSE f : f = Def(f)
<1>1. \A q \in Seq(S) : RemoveFirst(q, x) \in Seq(S)
  BY RemoveFirstType
<1>2. PICK f \in [0..n -> Seq(S)] : f[0] = queue /\ \A i \in 1..n : f[i] = RemoveFirst(f[i - 1], x)
  <2>1. step \in [Nat -> [Seq(S) -> Seq(S)]]
    BY <1>1
  <2>2. \A i \in 1..n : \A q \in Seq(S) : step[i][q] = RemoveFirst(q, x)
    OBVIOUS
  <2> HIDE DEF step
  <2>3. Recurses(Seq(S), queue, step, n)
    BY <2>1, RecursiveFunction
  <2>4. \A i \in 1..n : i - 1 \in 0..n
    OBVIOUS
  <2> QED
    BY <2>2, <2>3, <2>4 DEF Recurses
<1>3. f = Def(f)
  <2>1. \A i \in 0..n : f[i] = Def(f)[i]
    BY <1>2
  <2>2. f = [i \in 0..n |-> f[i]]
    BY <1>2
  <2> QED
    BY <2>1, <2>2
<1>4. left = Def(left)
  BY <1>3, Zenon
<1>5. RemoveTimes(queue, x, n) = left[n]
  BY DEF RemoveTimes
<1> HIDE DEF left
<1>6. left[0] = queue /\ \A i \in 1..n : left[i] = RemoveFirst(left[i - 1], x)
  <2>1. \A i \in 0..n : left[i] = IF i = 0 THEN queue ELSE RemoveFirst(left[i - 1], x)
    BY <1>4
  <2> QED
    BY <2>1
<1>7. left \in [0..n -> Seq(S)]
  <2> DEFINE Bad == {i \in 0..n : left[i] \notin Seq(S)}
  <2>1. Bad = {}
    <3> SUFFICES ASSUME Bad # {} PROVE FALSE
      OBVIOUS
    <3>1. PICK m \in Bad : \A y \in Bad : m <= y
      <4>1. Bad \subseteq Nat
        OBVIOUS
      <4> HIDE DEF Bad
      <4> QED
        BY <4>1, LeastNumber
    <3>2. m \in 1..n /\ m - 1 \in 0..n /\ ~(m <= m - 1)
      BY <1>6, <3>1
    <3>3. left[m - 1] \in Seq(S)
      BY <3>1, <3>2
    <3> QED
      BY <1>1, <1>6, <3>1, <3>2, <3>3
  <2>2. left = [i \in 0..n |-> left[i]]
    BY <1>4
  <2> QED
    BY <2>1, <2>2
<1> QED
  BY <1>5, <1>6, <1>7 DEF TakenOut

LEMMA RemoveTimesKeeps ==
  ASSUME NEW S, NEW queue \in Seq(S), NEW x \in S, NEW n \in Nat
  PROVE  /\ RemoveTimes(queue, x, n) \in Seq(S)
         /\ OnlyWithout(RemoveTimes(queue, x, n), queue, x)
<1>1. \A q \in Seq(S) : /\ RemoveFirst(q, x) \in Seq(S)
                            /\ OnlyWithout(RemoveFirst(q, x), q, x)
  BY RemoveFirstType, RemoveFirstKeeps
<1>5. PICK left \in [0..n -> Seq(S)] :
        /\ left[0] = queue /\ left[n] = RemoveTimes(queue, x, n)
        /\ \A i \in 1..n : left[i] = RemoveFirst(left[i - 1], x)
  <2>1. TakenOut(S, queue, x, n, RemoveTimes(queue, x, n))
    BY RemoveTimesSteps
  <2> QED
    BY <2>1, Zenon DEF TakenOut
<1> DEFINE Good(q) == q \in Seq(S) /\ OnlyWithout(q, queue, x)
           Bad == {i \in 0..n : ~Good(left[i])}
<1>7. \A q : Good(q) => Good(RemoveFirst(q, x))
  BY <1>1 DEF OnlyWithout
<1>8. Good(queue)
  BY DEF OnlyWithout
<1> HIDE DEF Good
<1>9. Bad = {}
  <2> SUFFICES ASSUME Bad # {} PROVE FALSE
    OBVIOUS
  <2>1. PICK m \in Bad : \A y \in Bad : m <= y
    <3>1. Bad \subseteq Nat
      OBVIOUS
    <3> HIDE DEF Bad
    <3> QED
      BY <3>1, LeastNumber
  <2>2. m # 0
    BY <1>5, <1>8, <2>1
  <2>3. m \in 1..n /\ m - 1 \in 0..n /\ ~(m <= m - 1)
    BY <2>1, <2>2
  <2>4. Good(left[m - 1])
    BY <2>1, <2>3
  <2>5. Good(left[m])
    BY <1>5, <1>7, <2>3, <2>4
  <2> QED
    BY <2>1, <2>5
<1>10. Good(left[n])
  <2>1. n \in 0..n
    OBVIOUS
  <2> QED
    BY <1>9, <2>1
<1> QED
  BY <1>5, <1>10 DEF Good

-----------------------------------------------------------------------------
(* Sequences that hold nothing twice.                                      *)
Distinct(s) == \A i, j \in DOMAIN s : s[i] = s[j] => i = j

LEMMA ConcatDistinct ==
  ASSUME NEW S, NEW x \in Seq(S), NEW y \in Seq(S), Distinct(x), Distinct(y),
         Range(x) \cap Range(y) = {}
  PROVE  Distinct(x \o y) /\ Range(x \o y) = Range(x) \cup Range(y)
<1>1. PICK z : z = x \o y
  OBVIOUS
<1>2. /\ Len(x) \in Nat /\ Len(y) \in Nat /\ DOMAIN x = 1..Len(x) /\ DOMAIN y = 1..Len(y)
      /\ DOMAIN z = 1..(Len(x) + Len(y))
      /\ \A i \in 1..(Len(x) + Len(y)) : z[i] = IF i <= Len(x) THEN x[i] ELSE y[i - Len(x)]
  BY <1>1, ConcatProperties, LenProperties
<1>3. \A i \in DOMAIN z : \/ i \in DOMAIN x /\ z[i] = x[i]
                          \/ i - Len(x) \in DOMAIN y /\ z[i] = y[i - Len(x)] /\ i \in Nat
  BY <1>2
<1>4. \A i \in DOMAIN x : i \in DOMAIN z /\ z[i] = x[i]
  BY <1>2
<1>5. \A i \in DOMAIN y : i + Len(x) \in DOMAIN z /\ z[i + Len(x)] = y[i]
  BY <1>2
<1>6. Range(z) = Range(x) \cup Range(y)
  BY <1>3, <1>4, <1>5 DEF Range
<1>7. ASSUME NEW i \in DOMAIN z, NEW j \in DOMAIN z, z[i] = z[j]
      PROVE  i = j
  <2>1. CASE i \in DOMAIN x /\ z[i] = x[i] /\ j \in DOMAIN x /\ z[j] = x[j]
    BY <1>7, <2>1 DEF Distinct
  <2>2. CASE /\ i - Len(x) \in DOMAIN y /\ z[i] = y[i - Len(x)]
             /\ j - Len(x) \in DOMAIN y /\ z[j] = y[j - Len(x)]
    <3>1. i - Len(x) = j - Len(x)
      BY <1>7, <2>2 DEF Distinct
    <3> QED
      BY <1>2, <3>1
  <2> QED
    BY <1>3, <1>7, <2>1, <2>2 DEF Range
<1> QED
  BY <1>1, <1>6, <1>7 DEF Distinct

LEMMA TailDistinct ==
  ASSUME NEW S, NEW s \in Seq(S), s # <<>>, Distinct(s)
  PROVE  /\ Distinct(Tail(s)) /\ Range(Tail(s)) = Range(s) \ {Head(s)}
         /\ Head(s) \in Range(s) /\ Head(s) \in S
<1>1. PICK t : t = Tail(s)
  OBVIOUS
<1>2. /\ Len(s) \in Nat /\ Len(s) > 0 /\ DOMAIN s = 1..Len(s) /\ DOMAIN t = 1..(Len(s) - 1)
      /\ Head(s) = s[1] /\ Head(s) \in S
      /\ \A i \in 1..(Len(s) - 1) : t[i] = s[i + 1]
  <2>1. Len(s) \in Nat \ {0}
    BY EmptySeq, LenProperties
  <2> QED
    BY <1>1, <2>1, HeadTailProperties, LenProperties
<1>3. \A i \in DOMAIN t : i + 1 \in DOMAIN s /\ t[i] = s[i + 1] /\ i + 1 # 1 /\ i \in Nat
  BY <1>2
<1>4. \A i \in DOMAIN s : i = 1 \/ (i - 1 \in DOMAIN t /\ t[i - 1] = s[i])
  BY <1>2
<1>5. Distinct(t)
  <2> SUFFICES ASSUME NEW i \in DOMAIN t, NEW j \in DOMAIN t, t[i] = t[j] PROVE i = j
    BY DEF Distinct
  <2>1. i + 1 = j + 1
    BY <1>3 DEF Distinct
  <2> QED
    BY <1>3, <2>1
<1>6. 1 \in DOMAIN s
  BY <1>2
<1>7. Range(t) = Range(s) \ {Head(s)}
  <2>1. \A i \in DOMAIN t : t[i] \in Range(s) /\ t[i] # Head(s)
    <3> SUFFICES ASSUME NEW i \in DOMAIN t PROVE t[i] \in Range(s) /\ t[i] # Head(s)
      OBVIOUS
    <3>1. i + 1 \in DOMAIN s /\ t[i] = s[i + 1] /\ i + 1 # 1
      BY <1>3
    <3>2. s[i + 1] # s[1]
      BY <1>6, <3>1 DEF Distinct
    <3> QED
      BY <1>2, <3>1, <3>2 DEF Range
  <2>2. \A i \in DOMAIN s : s[i] # Head(s) => s[i] \in Range(t)
    <3> SUFFICES ASSUME NEW i \in DOMAIN s, s[i] # Head(s) PROVE s[i] \in Range(t)
      OBVIOUS
    <3>1. i - 1 \in DOMAIN t /\ t[i - 1] = s[i]
      BY <1>2, <1>4
    <3>2. PICK j \in DOMAIN t : t[j] = s[i]
      BY <3>1
    <3> QED
      BY <3>2 DEF Range
  <2>3. ASSUME NEW y \in Range(t) PROVE y \in Range(s) \ {Head(s)}
    <3>1. PICK i \in DOMAIN t : y = t[i]
      BY DEF Range
    <3> QED
      BY <2>1, <3>1
  <2>4. ASSUME NEW y \in Range(s), y # Head(s) PROVE y \in Range(t)
    <3>1. PICK i \in DOMAIN s : y = s[i]
      BY DEF Range
    <3> QED
      BY <2>2, <2>4, <3>1
  <2> QED
    BY <2>3, <2>4
<1>8. Head(s) \in Range(s)
  BY <1>2, <1>6 DEF Range
<1> QED
  BY <1>1, <1>2, <1>5, <1>7, <1>8

LEMMA ReverseDistinct ==
  ASSUME NEW S, NEW s \in Seq(S), Distinct(s)
  PROVE  Distinct(Reverse(s)) /\ Range(Reverse(s)) = Range(s)
<1>1. PICK n \in Nat : n = Len(s) /\ DOMAIN s = 1..n
  OBVIOUS
<1>2. PICK t : t = Reverse(s)
  OBVIOUS
<1>3. DOMAIN t = 1..n /\ \A i \in 1..n : t[i] = s[(n - i) + 1] /\ (n - i) + 1 \in 1..n
  BY <1>1, <1>2 DEF Reverse
<1>4. Distinct(t)
  <2> SUFFICES ASSUME NEW i \in 1..n, NEW j \in 1..n, t[i] = t[j] PROVE i = j
    BY <1>3 DEF Distinct
  <2>1. PICK a \in 1..n, b \in 1..n : a = (n - i) + 1 /\ b = (n - j) + 1
    BY <1>3
  <2>2. s[a] = s[b]
    BY <1>3, <2>1
  <2>3. a = b
    BY <1>1, <2>2 DEF Distinct
  <2> QED
    BY <1>1, <2>1, <2>3
<1>5. Range(t) = Range(s)
  <2>1. \A i \in 1..n : (n - i) + 1 \in 1..n /\ t[(n - i) + 1] = s[i]
    <3>1. \A i \in 1..n : (n - i) + 1 \in 1..n /\ (n - ((n - i) + 1)) + 1 = i
      BY <1>1
    <3> QED
      BY <1>3, <3>1
  <2> QED
    BY <1>1, <1>3, <2>1 DEF Range
<1> QED
  BY <1>2, <1>4, <1>5

(* Such a sequence has one place for what it holds.                        *)
LEMMA DistinctOnce ==
  ASSUME NEW s, Distinct(s), NEW v
  PROVE  /\ v \in Range(s) => \E i \in DOMAIN s : {j \in DOMAIN s : s[j] = v} = {i}
         /\ v \notin Range(s) => {j \in DOMAIN s : s[j] = v} = {}
<1>1. ASSUME v \in Range(s) PROVE \E i \in DOMAIN s : {j \in DOMAIN s : s[j] = v} = {i}
  <2>1. PICK i \in DOMAIN s : s[i] = v
    BY <1>1 DEF Range
  <2>2. \A j \in DOMAIN s : s[j] = v => j = i
    BY <2>1 DEF Distinct
  <2> QED
    BY <2>1, <2>2
<1>2. ASSUME v \notin Range(s) PROVE {j \in DOMAIN s : s[j] = v} = {}
  BY <1>2 DEF Range
<1> QED
  BY <1>1, <1>2

-----------------------------------------------------------------------------
(* How often a queue holds x.                                              *)
PlacesOf(queue, x) == {i \in DOMAIN queue : queue[i] = x}
Occurrences(queue, x) == Cardinality(PlacesOf(queue, x))

LEMMA OccurrencesCount ==
  ASSUME NEW S, NEW queue \in Seq(S), NEW x
  PROVE  /\ IsFiniteSet(PlacesOf(queue, x))
         /\ Occurrences(queue, x) \in Nat
         /\ Occurrences(queue, x) = 0 <=> ~Holds(queue, x)
<1>1. IsFiniteSet(PlacesOf(queue, x))
  <2>1. PlacesOf(queue, x) \subseteq 1..Len(queue) /\ Len(queue) \in Nat
    BY LenProperties DEF PlacesOf
  <2>2. IsFiniteSet(1..Len(queue))
    BY <2>1, FS_Interval
  <2> QED
    BY <2>1, <2>2, FS_Subset, Zenon
<1>2. Occurrences(queue, x) \in Nat /\ (Occurrences(queue, x) = 0 <=> PlacesOf(queue, x) = {})
  BY <1>1, FS_CardinalityType, FS_EmptySet DEF Occurrences
<1>3. PlacesOf(queue, x) = {} <=> ~Holds(queue, x)
  BY DEF PlacesOf, Holds
<1> QED
  BY <1>1, <1>2, <1>3

(* One place fewer: whatever stood there occurs less often, the rest no    *)
(* more often.                                                             *)
CutAt(r, queue, n) ==
  /\ Len(r) = Len(queue) - 1
  /\ \A i \in 1..(Len(queue) - 1) : r[i] = IF i < n THEN queue[i] ELSE queue[i + 1]

LEMMA CutOccurs ==
  ASSUME NEW S, NEW queue \in Seq(S), NEW r \in Seq(S), NEW n \in 1..Len(queue),
         CutAt(r, queue, n), NEW x
  PROVE  Occurrences(r, x) <= Occurrences(queue, x) - (IF queue[n] = x THEN 1 ELSE 0)
<1> DEFINE A == PlacesOf(r, x)
           B == PlacesOf(queue, x) \ {n}
           old == [i \in A |-> IF i < n THEN i ELSE i + 1]
<1>1. /\ Len(queue) \in Nat /\ n \in Nat /\ DOMAIN queue = 1..Len(queue)
      /\ DOMAIN r = 1..(Len(queue) - 1)
      /\ \A i \in 1..(Len(queue) - 1) : r[i] = IF i < n THEN queue[i] ELSE queue[i + 1]
  BY LenProperties DEF CutAt
<1>2. ASSUME NEW i \in A PROVE old[i] \in B /\ i \in Nat
  <2>1. i \in 1..(Len(queue) - 1) /\ r[i] = x
    BY <1>1 DEF PlacesOf
  <2>2. CASE i < n
    BY <1>1, <2>1, <2>2 DEF PlacesOf
  <2>3. CASE ~(i < n)
    <3>1. i + 1 \in 1..Len(queue) /\ i + 1 # n /\ queue[i + 1] = x
      BY <1>1, <2>1, <2>3
    <3> QED
      BY <1>1, <2>1, <2>3, <3>1 DEF PlacesOf
  <2> QED
    BY <2>2, <2>3
<1>3. old \in Injection(A, B)
  <2>1. old \in [A -> B]
    BY <1>2
  <2>2. ASSUME NEW i \in A, NEW j \in A, old[i] = old[j] PROVE i = j
    BY <1>1, <1>2, <2>2
  <2> QED
    BY <2>1, <2>2 DEF Injection, IsInjective
<1>4. IsFiniteSet(PlacesOf(queue, x))
  BY OccurrencesCount
<1>5. IsFiniteSet(B) /\ Cardinality(B) = IF n \in PlacesOf(queue, x) THEN Occurrences(queue, x) - 1
                                         ELSE Occurrences(queue, x)
  BY <1>4, FS_RemoveElement, Zenon DEF Occurrences
<1>6. n \in PlacesOf(queue, x) <=> queue[n] = x
  BY <1>1 DEF PlacesOf
<1> HIDE DEF B, A
<1>7. Cardinality(A) <= Cardinality(B)
  BY <1>3, <1>5, FS_Injection
<1>8. Occurrences(r, x) = Cardinality(A)
  BY DEF A, Occurrences
<1>9. Occurrences(queue, x) \in Nat
  BY OccurrencesCount
<1> QED
  BY <1>5, <1>6, <1>7, <1>8, <1>9

(* The head of a queue, and the first occurrence of what RemoveFirst takes.*)
LEMMA TailOccurs ==
  ASSUME NEW S, NEW queue \in Seq(S), queue # <<>>, NEW x
  PROVE  Occurrences(Tail(queue), x) <= Occurrences(queue, x) - (IF Head(queue) = x THEN 1 ELSE 0)
<1>1. /\ Len(queue) \in Nat \ {0} /\ Head(queue) = queue[1] /\ Tail(queue) \in Seq(S)
      /\ Len(Tail(queue)) = Len(queue) - 1
      /\ \A i \in 1..(Len(queue) - 1) : Tail(queue)[i] = queue[i + 1]
  BY EmptySeq, LenProperties, HeadTailProperties
<1>2. 1 \in 1..Len(queue)
  BY <1>1
<1>3. CutAt(Tail(queue), queue, 1)
  BY <1>1 DEF CutAt
<1> QED
  BY <1>1, <1>2, <1>3, CutOccurs

LEMMA RemoveFirstOccurs ==
  ASSUME NEW S, NEW queue \in Seq(S), NEW x \in S, NEW y
  PROVE  /\ Occurrences(RemoveFirst(queue, x), y) <= Occurrences(queue, y)
         /\ Holds(queue, x) =>
              Occurrences(RemoveFirst(queue, x), x) <= Occurrences(queue, x) - 1
<1>1. CASE \E m \in 1..Len(queue) : queue[m] = x
  <2>1. PICK r : r = RemoveFirst(queue, x)
    OBVIOUS
  <2>2. PICK n \in 1..Len(queue) : queue[n] = x /\ r \in Seq(S) /\ CutAt(r, queue, n)
    <3>1. CutsOne(r, queue, x, S)
      BY <1>1, <2>1, RemoveFirstCuts
    <3> QED
      BY <3>1 DEF CutsOne, CutAt
  <2>3. \A z : Occurrences(r, z) <= Occurrences(queue, z) - (IF queue[n] = z THEN 1 ELSE 0)
    BY <2>2, CutOccurs
  <2>4. \A z : Occurrences(r, z) \in Nat /\ Occurrences(queue, z) \in Nat
    BY <2>2, OccurrencesCount
  <2> QED
    BY <2>1, <2>2, <2>3, <2>4
<1>2. CASE ~ \E m \in 1..Len(queue) : queue[m] = x
  <2>1. RemoveFirst(queue, x) = queue
    BY <1>2 DEF RemoveFirst
  <2>2. ~Holds(queue, x)
    BY <1>2, LenProperties DEF Holds
  <2>3. Occurrences(queue, y) \in Nat
    BY OccurrencesCount
  <2> QED
    BY <2>1, <2>2, <2>3
<1> QED
  BY <1>1, <1>2

(* A queue followed by x, n times.                                         *)
FollowedBy(r, queue, x, n) ==
  /\ Len(r) = Len(queue) + n
  /\ \A i \in 1..Len(queue) : r[i] = queue[i]
  /\ \A i \in (Len(queue) + 1)..(Len(queue) + n) : r[i] = x

LEMMA FollowedOccurs ==
  ASSUME NEW S, NEW queue \in Seq(S), NEW r \in Seq(S), NEW x, NEW n \in Nat,
         FollowedBy(r, queue, x, n)
  PROVE  /\ \A y : y # x => Occurrences(r, y) = Occurrences(queue, y)
         /\ ~Holds(queue, x) => Occurrences(r, x) <= n
<1>1. /\ Len(queue) \in Nat /\ DOMAIN queue = 1..Len(queue)
      /\ DOMAIN r = 1..(Len(queue) + n)
      /\ \A i \in 1..Len(queue) : r[i] = queue[i]
      /\ \A i \in (Len(queue) + 1)..(Len(queue) + n) : r[i] = x
  BY LenProperties DEF FollowedBy
<1>2. \A i \in DOMAIN r : i \in 1..Len(queue) \/ i \in (Len(queue) + 1)..(Len(queue) + n)
  BY <1>1
<1>3. ASSUME NEW y, y # x PROVE PlacesOf(r, y) = PlacesOf(queue, y)
  <2>1. DOMAIN queue \subseteq DOMAIN r
    BY <1>1
  <2> QED
    BY <1>1, <1>2, <1>3, <2>1 DEF PlacesOf
<1>4. ASSUME ~Holds(queue, x) PROVE Occurrences(r, x) <= n
  <2> DEFINE B == (Len(queue) + 1)..(Len(queue) + n)
  <2>1. PlacesOf(r, x) \subseteq B
    BY <1>1, <1>2, <1>4 DEF PlacesOf, Holds
  <2>2. IsFiniteSet(B) /\ Cardinality(B) = n
    BY <1>1, FS_Interval
  <2> HIDE DEF B
  <2>3. Cardinality(PlacesOf(r, x)) <= Cardinality(B)
    BY <2>1, <2>2, FS_Subset
  <2> QED
    BY <2>2, <2>3 DEF Occurrences
<1> QED
  BY <1>3, <1>4 DEF Occurrences

(* The queue with x appended, and with x appended n times.                 *)
LEMMA AppendFollows ==
  ASSUME NEW S, NEW queue \in Seq(S), NEW x \in S
  PROVE  Append(queue, x) \in Seq(S) /\ FollowedBy(Append(queue, x), queue, x, 1)
BY AppendProperties, LenProperties DEF FollowedBy

LEMMA ConcatFollows ==
  ASSUME NEW S, NEW queue \in Seq(S), NEW x \in S, NEW n \in Nat
  PROVE  /\ queue \o [i \in 1..n |-> x] \in Seq(S)
         /\ FollowedBy(queue \o [i \in 1..n |-> x], queue, x, n)
<1> DEFINE more == [i \in 1..n |-> x]
<1>1. more \in Seq(S) /\ Len(more) = n /\ \A i \in 1..n : more[i] = x
  OBVIOUS
<1> HIDE DEF more
<1>2. PICK r : r = queue \o more
  OBVIOUS
<1>3. Len(queue) \in Nat
  BY LenProperties
<1>4. /\ r \in Seq(S) /\ Len(r) = Len(queue) + n
      /\ \A i \in 1..(Len(queue) + n) :
           r[i] = IF i <= Len(queue) THEN queue[i] ELSE more[i - Len(queue)]
  BY <1>1, <1>2, ConcatProperties
<1>5. ASSUME NEW i \in 1..Len(queue) PROVE r[i] = queue[i]
  BY <1>3, <1>4
<1>6. ASSUME NEW i \in (Len(queue) + 1)..(Len(queue) + n) PROVE r[i] = x
  <2>1. i \in 1..(Len(queue) + n) /\ ~(i <= Len(queue)) /\ i - Len(queue) \in 1..n
    BY <1>3
  <2> QED
    BY <1>1, <1>4, <2>1
<1>7. r \in Seq(S) /\ FollowedBy(r, queue, x, n)
  BY <1>4, <1>5, <1>6 DEF FollowedBy
<1> QED
  BY <1>2, <1>7 DEF more

(* Removing x as often as it occurs leaves no x, and adds nothing else.    *)
LEMMA RemoveTimesOccurs ==
  ASSUME NEW S, NEW queue \in Seq(S), NEW x \in S, NEW n \in Nat
  PROVE  /\ \A y : Occurrences(RemoveTimes(queue, x, n), y) <= Occurrences(queue, y)
         /\ Occurrences(queue, x) <= n => ~Holds(RemoveTimes(queue, x, n), x)
<1>1. PICK left \in [0..n -> Seq(S)] :
        /\ left[0] = queue /\ left[n] = RemoveTimes(queue, x, n)
        /\ \A i \in 1..n : left[i] = RemoveFirst(left[i - 1], x)
  <2>1. TakenOut(S, queue, x, n, RemoveTimes(queue, x, n))
    BY RemoveTimesSteps
  <2> QED
    BY <2>1, Zenon DEF TakenOut
<1>2. \A q \in Seq(S) : \A y : Occurrences(q, y) \in Nat /\ (Occurrences(q, y) = 0 <=> ~Holds(q, y))
  BY OccurrencesCount
<1>3. ASSUME NEW q \in Seq(S)
      PROVE  /\ \A y : Occurrences(RemoveFirst(q, x), y) <= Occurrences(q, y)
             /\ Occurrences(q, x) = 0 \/ Occurrences(RemoveFirst(q, x), x) <= Occurrences(q, x) - 1
  BY <1>2, RemoveFirstOccurs
<1> DEFINE Fewer(q, i) == /\ \A y : Occurrences(q, y) <= Occurrences(queue, y)
                          /\ Occurrences(q, x) = 0 \/ Occurrences(q, x) <= Occurrences(queue, x) - i
           Bad == {i \in 0..n : ~Fewer(left[i], i)}
<1>4. Fewer(queue, 0)
  BY <1>2
<1>5. ASSUME NEW i \in 1..n, Fewer(left[i - 1], i - 1) PROVE Fewer(left[i], i)
  <2>1. PICK q \in Seq(S) : q = left[i - 1]
    <3>1. i - 1 \in 0..n
      OBVIOUS
    <3> QED
      BY <3>1
  <2>2. PICK r \in Seq(S) : r = left[i]
    <3>1. i \in 0..n
      OBVIOUS
    <3> QED
      BY <3>1
  <2>3. r = RemoveFirst(q, x)
    BY <1>1, <2>1, <2>2
  <2>4. \A y : Occurrences(r, y) <= Occurrences(queue, y)
    <3> SUFFICES ASSUME NEW y PROVE Occurrences(r, y) <= Occurrences(queue, y)
      OBVIOUS
    <3>1. Occurrences(r, y) <= Occurrences(q, y) /\ Occurrences(q, y) <= Occurrences(queue, y)
      BY <1>3, <1>5, <2>1, <2>3
    <3>2. Occurrences(r, y) \in Nat /\ Occurrences(q, y) \in Nat /\ Occurrences(queue, y) \in Nat
      BY <1>2
    <3> QED
      BY <3>1, <3>2
  <2>5. Occurrences(r, x) = 0 \/ Occurrences(r, x) <= Occurrences(queue, x) - i
    <3>1. Occurrences(r, x) \in Nat /\ Occurrences(q, x) \in Nat /\ Occurrences(queue, x) \in Nat
      BY <1>2
    <3>2. Occurrences(r, x) <= Occurrences(q, x)
      BY <1>3, <2>3
    <3>3. Occurrences(q, x) = 0 \/ Occurrences(r, x) <= Occurrences(q, x) - 1
      BY <1>3, <2>3
    <3>4. Occurrences(q, x) = 0 \/ Occurrences(q, x) <= Occurrences(queue, x) - (i - 1)
      BY <1>5, <2>1
    <3> QED
      BY <3>1, <3>2, <3>3, <3>4
  <2> QED
    BY <2>2, <2>4, <2>5
<1> HIDE DEF Fewer
<1>6. Bad = {}
  <2> SUFFICES ASSUME Bad # {} PROVE FALSE
    OBVIOUS
  <2>1. PICK m \in Bad : \A y \in Bad : m <= y
    <3>1. Bad \subseteq Nat
      OBVIOUS
    <3> HIDE DEF Bad
    <3> QED
      BY <3>1, LeastNumber
  <2>2. m # 0
    BY <1>1, <1>4, <2>1
  <2>3. m \in 1..n /\ m - 1 \in 0..n /\ ~(m <= m - 1)
    BY <2>1, <2>2
  <2>4. Fewer(left[m - 1], m - 1)
    BY <2>1, <2>3
  <2>5. Fewer(left[m], m)
    BY <1>5, <2>3, <2>4
  <2> QED
    BY <2>1, <2>5
<1>7. Fewer(left[n], n)
  <2>1. n \in 0..n
    OBVIOUS
  <2> QED
    BY <1>6, <2>1
<1>8. PICK r \in Seq(S) : r = RemoveTimes(queue, x, n) /\ r = left[n]
  <2>1. n \in 0..n
    OBVIOUS
  <2> QED
    BY <1>1, <2>1
<1>9. \A y : Occurrences(r, y) <= Occurrences(queue, y)
  BY <1>7, <1>8 DEF Fewer
<1>10. ASSUME Occurrences(queue, x) <= n PROVE ~Holds(r, x)
  <2>1. Occurrences(r, x) = 0 \/ Occurrences(r, x) <= Occurrences(queue, x) - n
    BY <1>7, <1>8 DEF Fewer
  <2>2. Occurrences(r, x) \in Nat /\ Occurrences(queue, x) \in Nat
    BY <1>2
  <2>3. Occurrences(r, x) = 0
    BY <1>10, <2>1, <2>2
  <2> QED
    BY <1>2, <2>3
<1> QED
  BY <1>8, <1>9, <1>10

-----------------------------------------------------------------------------
(* The binary search over pairs of indexes, when the entries before the    *)
(* target are the first l of n.                                            *)
Search(f, n, before) ==
  f = [p \in (0..n) \X (0..n) |->
         IF p[1] >= p[2] THEN p[1]
         ELSE LET h == (p[1] + p[2]) \div 2
              IN  IF before[h + 1] THEN f[<<h + 1, p[2]>>] ELSE f[<<p[1], h>>]]

LEMMA Halves ==
  ASSUME NEW n \in Nat, NEW i \in 0..n, NEW j \in 0..n, i < j, NEW h, h = (i + j) \div 2
  PROVE  h \in 0..n /\ i <= h /\ h < j /\ h + 1 \in 0..n /\ h + 1 \in 1..n
OBVIOUS

LEMMA SearchExists ==
  ASSUME NEW n \in Nat, NEW l \in 0..n, NEW before, \A i \in 1..n : before[i] <=> i <= l
  PROVE  \E f : Search(f, n, before)
<1> DEFINE f == [p \in (0..n) \X (0..n) |->
                   IF p[1] >= p[2] THEN p[1] ELSE IF l <= p[1] THEN p[1]
                   ELSE IF l >= p[2] THEN p[2] ELSE l]
<1>1. \A i, j \in 0..n :
        f[<<i, j>>] = IF i >= j THEN i ELSE IF l <= i THEN i ELSE IF l >= j THEN j ELSE l
  OBVIOUS
<1> HIDE DEF f
<1>2. ASSUME NEW i \in 0..n, NEW j \in 0..n
      PROVE  f[<<i, j>>] = IF i >= j THEN i
                       ELSE LET h == (i + j) \div 2
                            IN  IF before[h + 1] THEN f[<<h + 1, j>>] ELSE f[<<i, h>>]
  <2>1. CASE i >= j
    BY <1>1, <2>1
  <2>2. CASE i < j
    <3>1. PICK h : h = (i + j) \div 2
      OBVIOUS
    <3>2. h \in 0..n /\ i <= h /\ h < j /\ h + 1 \in 0..n /\ h + 1 \in 1..n
      BY <2>2, <3>1, Halves
    <3>3. before[h + 1] <=> h + 1 <= l
      BY <3>2
    <3>4. f[<<i, j>>] = IF h + 1 <= l THEN f[<<h + 1, j>>] ELSE f[<<i, h>>]
      <4>1. f[<<i, j>>] = IF l <= i THEN i ELSE IF l >= j THEN j ELSE l
        BY <1>1, <2>2
      <4>2. f[<<h + 1, j>>] = IF h + 1 >= j THEN h + 1
                              ELSE IF l <= h + 1 THEN h + 1
                              ELSE IF l >= j THEN j ELSE l
        BY <1>1, <3>2
      <4>3. f[<<i, h>>] = IF i >= h THEN i ELSE IF l <= i THEN i
                          ELSE IF l >= h THEN h ELSE l
        BY <1>1, <3>2
      <4>4. CASE h + 1 <= l
        BY <2>2, <3>2, <4>1, <4>2, <4>4
      <4>5. CASE ~(h + 1 <= l)
        BY <2>2, <3>2, <4>1, <4>3, <4>5
      <4> QED
        BY <4>4, <4>5
    <3> QED
      BY <2>2, <3>1, <3>3, <3>4
  <2> QED
    BY <2>1, <2>2
<1>3. f = [p \in (0..n) \X (0..n) |-> f[p]]
  BY DEF f
<1>4. ASSUME NEW p \in (0..n) \X (0..n)
      PROVE  f[p] = IF p[1] >= p[2] THEN p[1]
                    ELSE LET h == (p[1] + p[2]) \div 2
                         IN  IF before[h + 1] THEN f[<<h + 1, p[2]>>] ELSE f[<<p[1], h>>]
  <2>1. PICK i \in 0..n, j \in 0..n : p = <<i, j>>
    OBVIOUS
  <2>2. p[1] = i /\ p[2] = j
    BY <2>1
  <2> QED
    BY <1>2, <2>1, <2>2
<1>5. Search(f, n, before)
  BY <1>3, <1>4, Zenon DEF Search
<1> QED
  BY <1>5

LEMMA SearchFinds ==
  ASSUME NEW n \in Nat, NEW l \in 0..n, NEW before, \A i \in 1..n : before[i] <=> i <= l,
         NEW f, Search(f, n, before)
  PROVE  f[<<0, n>>] = l
<1>0. \A i, j \in 0..n :
        f[<<i, j>>] = IF i >= j THEN i
                  ELSE LET h == (i + j) \div 2
                       IN  IF before[h + 1] THEN f[<<h + 1, j>>] ELSE f[<<i, h>>]
  BY DEF Search
<1> DEFINE Wrong == {d \in 0..n : \E i, j \in 0..n :
                       d = j - i /\ i <= l /\ l <= j /\ f[<<i, j>>] # l}
<1>1. CASE Wrong = {}
  <2>1. n - 0 \in 0..n /\ 0 \in 0..n /\ n \in 0..n /\ 0 <= l /\ l <= n /\ n = n - 0
    OBVIOUS
  <2> QED
    BY <1>1, <2>1
<1>2. CASE Wrong # {}
  <2>0. Wrong \in SUBSET Nat
    OBVIOUS
  <2>1. PICK d \in Wrong : \A e \in Wrong : d <= e
    BY <1>2, <2>0, LeastNumber
  <2>2. PICK i \in 0..n, j \in 0..n : d = j - i /\ i <= l /\ l <= j /\ f[<<i, j>>] # l
    BY <2>1
  <2>3. \A a, b \in 0..n : a <= l /\ l <= b /\ b - a < d => f[<<a, b>>] = l
    <3> SUFFICES ASSUME NEW a \in 0..n, NEW b \in 0..n,
                        a <= l, l <= b, b - a < d, f[<<a, b>>] # l
                 PROVE  FALSE
      OBVIOUS
    <3>1. b - a \in 0..n
      OBVIOUS
    <3>2. b - a \in Wrong
      BY <3>1
    <3>3. d <= b - a
      BY <2>1, <3>2
    <3> QED
      BY <2>2, <3>3
  <2>4. CASE i >= j
    <3>1. f[<<i, j>>] = i
      BY <1>0, <2>4
    <3>2. i = l
      BY <2>2, <2>4
    <3> QED
      BY <2>2, <3>1, <3>2
  <2>5. CASE i < j
    <3>1. PICK h : h = (i + j) \div 2
      OBVIOUS
    <3>2. h \in 0..n /\ i <= h /\ h < j /\ h + 1 \in 0..n /\ h + 1 \in 1..n
      BY <2>5, <3>1, Halves
    <3>3. f[<<i, j>>] = IF before[h + 1] THEN f[<<h + 1, j>>] ELSE f[<<i, h>>]
      BY <1>0, <2>5, <3>1
    <3>4. before[h + 1] <=> h + 1 <= l
      BY <3>2
    <3>5. CASE h + 1 <= l
      <4>1. j - (h + 1) < d /\ h + 1 \in 0..n
        BY <2>2, <3>2
      <4> QED
        BY <2>2, <2>3, <3>3, <3>4, <3>5, <4>1
    <3>6. CASE ~(h + 1 <= l)
      <4>1. l <= h /\ h - i < d
        BY <2>2, <3>2, <3>6
      <4> QED
        BY <2>2, <2>3, <3>2, <3>3, <3>4, <3>6, <4>1
    <3> QED
      BY <3>5, <3>6
  <2> QED
    BY <2>4, <2>5
<1> QED
  BY <1>1, <1>2

(* Picking the elements of a sequence at the places from a + 1 to b.       *)
Picks(f, s, I) ==
  f = [i \in 0..Len(s) |->
         IF i = 0 THEN <<>> ELSE IF i \in I THEN Append(f[i - 1], s[i]) ELSE f[i - 1]]

LEMMA SubSeqGrows ==
  ASSUME NEW S, NEW s \in Seq(S), NEW m \in 1..Len(s), NEW i \in m..Len(s)
  PROVE  SubSeq(s, m, i) = Append(SubSeq(s, m, i - 1), s[i])
<1>1. PICK n \in Nat : n = Len(s)
  BY LenProperties
<1>2. \A k \in 1..n : s[k] \in S
  BY <1>1, ElementOfSeq
<1>3. m \in Int /\ i \in Int /\ i - 1 \in Int /\ m <= i /\ 1 <= m /\ i <= n
  BY <1>1
<1>4. /\ SubSeq(s, m, i) \in Seq(S) /\ Len(SubSeq(s, m, i)) = i - m + 1
      /\ \A k \in 1..(i-m+1) : SubSeq(s, m, i)[k] = s[m + k - 1]
  <2>1. \A k \in m..i : s[k] \in S
    BY <1>2, <1>3
  <2> QED
    BY <1>3, <2>1, SubSeqProperties
<1>5. /\ SubSeq(s, m, i - 1) \in Seq(S) /\ Len(SubSeq(s, m, i - 1)) = i - m
      /\ \A k \in 1..(i-m) : SubSeq(s, m, i - 1)[k] = s[m + k - 1]
  <2>1. \A k \in m..(i-1) : s[k] \in S
    BY <1>2, <1>3
  <2>2. /\ SubSeq(s, m, i - 1) \in Seq(S)
        /\ Len(SubSeq(s, m, i - 1)) = IF m <= i - 1 THEN (i - 1) - m + 1 ELSE 0
        /\ \A k \in 1..((i-1)-m+1) : SubSeq(s, m, i - 1)[k] = s[m + k - 1]
    BY <1>3, <2>1, SubSeqProperties
  <2> QED
    BY <1>3, <2>2
<1>6. PICK q \in Seq(S) : q = SubSeq(s, m, i - 1)
  BY <1>5
<1>7. s[i] \in S
  BY <1>2, <1>3
<1>8. /\ Append(q, s[i]) \in Seq(S) /\ Len(Append(q, s[i])) = i - m + 1
      /\ \A k \in 1..(i-m) : Append(q, s[i])[k] = s[m + k - 1]
      /\ Append(q, s[i])[i - m + 1] = s[i]
  BY <1>3, <1>5, <1>6, <1>7, AppendProperties
<1>9. \A k \in 1..(i-m+1) : SubSeq(s, m, i)[k] = Append(q, s[i])[k]
  <2> SUFFICES ASSUME NEW k \in 1..(i-m+1) PROVE SubSeq(s, m, i)[k] = Append(q, s[i])[k]
    OBVIOUS
  <2>1. k \in 1..(i-m) \/ (k = i - m + 1 /\ m + k - 1 = i)
    BY <1>3
  <2> QED
    BY <1>4, <1>8, <2>1
<1>10. SubSeq(s, m, i) = Append(q, s[i])
  <2> DEFINE r == Append(q, s[i])
             t == SubSeq(s, m, i)
  <2>1. t \in Seq(S) /\ r \in Seq(S) /\ Len(t) = Len(r) /\ \A k \in 1..Len(t) : t[k] = r[k]
    BY <1>4, <1>8, <1>9
  <2> HIDE DEF r, t
  <2>2. t = r
    BY <2>1, SeqEqual
  <2> QED
    BY <2>2 DEF r, t
<1> QED
  BY <1>6, <1>10

LEMMA PicksSlice ==
  ASSUME NEW S, NEW s \in Seq(S), NEW a \in 0..Len(s), NEW b \in a..Len(s)
  PROVE  /\ \E f : Picks(f, s, (a + 1)..b)
         /\ \A f : Picks(f, s, (a + 1)..b) => f[Len(s)] = SubSeq(s, a + 1, b)
<1>1. PICK n \in Nat : n = Len(s)
  BY LenProperties
<1> DEFINE upto(i) == IF i <= b THEN i ELSE b
           g == [i \in 0..n |-> SubSeq(s, a + 1, upto(i))]
<1>2. a \in Int /\ b \in Int /\ 0 <= a /\ a <= b /\ b <= n
  BY <1>1
<1>3. g[0] = <<>> /\ g[n] = SubSeq(s, a + 1, b)
  <2>1. 0 \in 0..n /\ n \in 0..n /\ upto(0) = 0 /\ upto(n) = b
    BY <1>2
  <2>2. SubSeq(s, a + 1, 0) = <<>>
    BY <1>2, SubSeqEmpty
  <2> QED
    BY <2>1, <2>2
<1>4. ASSUME NEW i \in 1..n
      PROVE  g[i] = IF i \in (a + 1)..b THEN Append(g[i - 1], s[i]) ELSE g[i - 1]
  <2>1. i \in 0..n /\ i - 1 \in 0..n
    OBVIOUS
  <2>2. g[i] = SubSeq(s, a + 1, upto(i)) /\ g[i - 1] = SubSeq(s, a + 1, upto(i - 1))
    BY <2>1
  <2> HIDE DEF g
  <2>3. CASE i \in (a + 1)..b
    <3>1. upto(i) = i /\ upto(i - 1) = i - 1 /\ a + 1 \in 1..n /\ i \in (a+1)..n
      BY <1>2, <2>3
    <3>2. SubSeq(s, a + 1, i) = Append(SubSeq(s, a + 1, i - 1), s[i])
      BY <1>1, <3>1, SubSeqGrows
    <3> QED
      BY <2>2, <2>3, <3>1, <3>2
  <2>4. CASE i <= a
    <3>1. upto(i) = i /\ upto(i - 1) = i - 1 /\ i < a + 1 /\ i - 1 < a + 1
      BY <1>2, <2>4
    <3>2. SubSeq(s, a + 1, i) = <<>> /\ SubSeq(s, a + 1, i - 1) = <<>>
      BY <1>2, <3>1, SubSeqEmpty
    <3>3. i \notin (a + 1)..b
      BY <1>2, <2>4
    <3> QED
      BY <2>2, <3>1, <3>2, <3>3
  <2>5. CASE i > b
    <3>1. upto(i) = b /\ upto(i - 1) = b /\ i \notin (a + 1)..b
      BY <1>2, <2>5
    <3> QED
      BY <2>2, <3>1
  <2> QED
    BY <1>2, <2>3, <2>4, <2>5
<1>5. DOMAIN g = 0..n /\ g = [i \in 0..n |-> g[i]]
  OBVIOUS
<1> HIDE DEF g
<1>6. Picks(g, s, (a + 1)..b)
  <2>1. \A i \in 0..n : g[i] = IF i = 0 THEN <<>>
                               ELSE IF i \in (a + 1)..b THEN Append(g[i - 1], s[i])
                               ELSE g[i - 1]
    BY <1>3, <1>4
  <2> QED
    BY <1>1, <1>5, <2>1, Zenon DEF Picks
<1>7. ASSUME NEW f, Picks(f, s, (a + 1)..b)
      PROVE  f[n] = g[n]
  <2>1. \A i \in 0..n : f[i] = IF i = 0 THEN <<>>
                               ELSE IF i \in (a + 1)..b THEN Append(f[i - 1], s[i])
                               ELSE f[i - 1]
    BY <1>1, <1>7 DEF Picks
  <2> DEFINE Wrong == {i \in 0..n : f[i] # g[i]}
  <2>2. CASE Wrong = {}
    BY <2>2
  <2>3. CASE Wrong # {}
    <3>1. Wrong \in SUBSET Nat
      OBVIOUS
    <3>2. PICK m \in Wrong : \A y \in Wrong : m <= y
      BY <2>3, <3>1, LeastNumber
    <3>3. m # 0
      BY <1>3, <2>1, <3>2
    <3>4. m \in 1..n /\ m - 1 \in 0..n /\ ~(m <= m - 1)
      BY <3>2, <3>3
    <3>5. f[m - 1] = g[m - 1]
      BY <3>2, <3>4
    <3> QED
      BY <1>4, <2>1, <3>2, <3>4, <3>5
  <2> QED
    BY <2>2, <2>3
<1> QED
  BY <1>1, <1>3, <1>6, <1>7

-----------------------------------------------------------------------------
(* A function defined by recursion along steps that get smaller exists: f  *)
(* combines its value after the step, on G, and stops elsewhere.           *)
Recursive(f, D, G, step, comb, stop) ==
  \A d \in D : f[d] = IF d \in G THEN comb[d][f[step[d]]] ELSE stop[d]
LEMMA RecursionExists ==
  ASSUME NEW B \in Nat, NEW D, NEW S, NEW mu \in [D -> 0..B],
         NEW G \in SUBSET D, NEW step \in [D -> D],
         NEW comb \in [D -> [S -> S]], NEW stop \in [D -> S],
         \A d \in D : d \in G => mu[step[d]] < mu[d]
  PROVE  \E f \in [D -> S] : Recursive(f, D, G, step, comb, stop)
<1>1. PICK F : F = [D -> S]
  OBVIOUS
<1> DEFINE After(g) == [d \in D |-> IF d \in G THEN comb[d][g[step[d]]] ELSE stop[d]]
<1>2. \A g \in F : After(g) \in F /\ \A d \in D : After(g)[d] = IF d \in G THEN comb[d][g[step[d]]] ELSE stop[d]
  BY <1>1
<1> HIDE DEF After
<1>3. PICK once \in [F -> F] : \A g \in F : once[g] = After(g)
  <2>1. [g \in F |-> After(g)] \in [F -> F]
    BY <1>2
  <2> QED
    BY <2>1
<1>4. PICK turn \in [Nat -> [F -> F]] : \A k \in Nat : turn[k] = once
  <2>1. [k \in Nat |-> once] \in [Nat -> [F -> F]]
    OBVIOUS
  <2> QED
    BY <2>1
<1>5. PICK h \in [0..(B+1) -> F] : h[0] = stop /\ \A k \in 1..(B+1) : h[k] = turn[k][h[k - 1]]
  <2>1. B + 1 \in Nat /\ stop \in F
    BY <1>1
  <2>2. Recurses(F, stop, turn, B + 1)
    BY <2>1, RecursiveFunction
  <2> QED
    BY <2>2 DEF Recurses
<1>6. \A k \in 1..(B+1) : h[k - 1] \in F /\ h[k] = After(h[k - 1])
  <2> SUFFICES ASSUME NEW k \in 1..(B+1) PROVE h[k - 1] \in F /\ h[k] = After(h[k - 1])
    OBVIOUS
  <2>1. k - 1 \in 0..(B+1) /\ k \in Nat
    OBVIOUS
  <2>2. h[k - 1] \in F /\ turn[k] = once
    BY <1>4, <2>1
  <2> QED
    BY <1>3, <1>5, <2>2
<1>7. \A k \in 1..(B+1) : \A d \in D :
        h[k][d] = IF d \in G THEN comb[d][h[k - 1][step[d]]] ELSE stop[d]
  BY <1>2, <1>6
<1> DEFINE I == {k \in 0..B : \E d \in D : mu[d] <= k /\ h[k + 1][d] # h[k][d]}
<1>8. I = {}
  <2> SUFFICES ASSUME I # {} PROVE FALSE
    OBVIOUS
  <2>1. I \subseteq Nat
    OBVIOUS
  <2>2. PICK k \in I : \A y \in I : k <= y
    BY <2>1, LeastNumber
  <2>3. PICK d \in D : mu[d] <= k /\ h[k + 1][d] # h[k][d]
    BY <2>2
  <2>4. k \in 0..B /\ k + 1 \in 1..(B+1) /\ (k + 1) - 1 = k /\ mu[d] \in 0..B
    OBVIOUS
  <2>5. h[k + 1][d] = IF d \in G THEN comb[d][h[k][step[d]]] ELSE stop[d]
    BY <1>7, <2>4
  <2>6. CASE k = 0
    <3>1. d \notin G
      BY <2>3, <2>4, <2>6
    <3> QED
      BY <1>5, <2>3, <2>5, <2>6, <3>1
  <2>7. CASE k # 0
    <3>1. k \in 1..(B+1) /\ k - 1 \in 0..B /\ (k - 1) + 1 = k /\ ~(k <= k - 1)
      BY <2>4, <2>7
    <3>2. k - 1 \notin I
      BY <2>2, <3>1
    <3>3. h[k][d] = IF d \in G THEN comb[d][h[k - 1][step[d]]] ELSE stop[d]
      BY <1>7, <3>1
    <3>4. CASE d \in G
      <4>1. step[d] \in D /\ mu[step[d]] \in 0..B /\ mu[step[d]] < mu[d]
        BY <3>4
      <4>2. mu[step[d]] <= k - 1
        BY <2>3, <2>4, <4>1
      <4>3. h[k][step[d]] = h[k - 1][step[d]]
        BY <3>1, <3>2, <4>1, <4>2
      <4> QED
        BY <2>3, <2>5, <3>3, <4>3
    <3> QED
      BY <2>3, <2>5, <3>3, <3>4
  <2> QED
    BY <2>6, <2>7
<1>9. B \in 0..B /\ B \in 0..(B+1) /\ B + 1 \in 1..(B+1) /\ (B + 1) - 1 = B
  OBVIOUS
<1>10. \A d \in D : h[B + 1][d] = h[B][d]
  <2> SUFFICES ASSUME NEW d \in D PROVE h[B + 1][d] = h[B][d]
    OBVIOUS
  <2>1. mu[d] \in 0..B /\ mu[d] <= B
    OBVIOUS
  <2> QED
    BY <1>8, <1>9, <2>1
<1>11. \A d \in D : h[B][d] = IF d \in G THEN comb[d][h[B][step[d]]] ELSE stop[d]
  BY <1>7, <1>9, <1>10
<1>12. h[B] \in [D -> S]
  BY <1>1, <1>5, <1>9
<1> QED
  BY <1>11, <1>12 DEF Recursive
=============================================================================
