---------------------------- MODULE ReplayProofs ----------------------------
(***************************************************************************)
(* Proofs about the replay, for every set of bots, prices, quantities and  *)
(* loads: what the matching loops and the insertions of the validator's    *)
(* book compute, that the book keeps price-time priority whatever events   *)
(* it is fed, and that it follows the reference engine order by order      *)
(* while one bot waits for each answer.                                    *)
(***************************************************************************)
EXTENDS Replay, LoopTheorems, SequenceTheorems

Resting == [id : Nat, price : Nat, qty : Nat \ {0}, ts : Nat]
Books == [Sides -> Seq(Resting)]
LoopStates == [left : Nat, rest : Seq(Resting)]

-----------------------------------------------------------------------------
(* Sequences.                                                              *)

\* Min takes the least element of a set of numbers.
LEMMA MinIsLeast ==
    ASSUME NEW T \in SUBSET Nat, T # {}
    PROVE  Min(T) \in T /\ \A k \in T : Min(T) <= k
<1>1. PICK m \in T : \A k \in T : m <= k
  BY LeastElement
<1> QED
  BY <1>1 DEF Min

\* A slice of a sequence element by element.
LEMMA SliceProperties ==
    ASSUME NEW S, NEW s \in Seq(S), NEW m \in Nat \ {0}, NEW n \in Nat,
           m <= n + 1, n <= Len(s)
    PROVE  /\ SubSeq(s, m, n) \in Seq(S)
           /\ Len(SubSeq(s, m, n)) = n - m + 1
           /\ \A j \in 1 .. n - m + 1 : SubSeq(s, m, n)[j] = s[m + j - 1]
<1>1. m \in Int /\ n \in Int /\ \A j \in m .. n : s[j] \in S
  BY LenProperties, ElementOfSeq
<1>2. /\ SubSeq(s, m, n) \in Seq(S)
      /\ Len(SubSeq(s, m, n)) = IF m <= n THEN n - m + 1 ELSE 0
      /\ \A j \in 1 .. n - m + 1 : SubSeq(s, m, n)[j] = s[m + j - 1]
  BY <1>1, SubSeqProperties
<1> QED
  BY <1>2

\* r is s with e put before position i.
InsertedAt(r, S, s, i, e) ==
    /\ r \in Seq(S)
    /\ Len(r) = Len(s) + 1
    /\ \A j \in 1 .. Len(s) + 1 : r[j] = IF j < i THEN s[j] ELSE IF j = i THEN e ELSE s[j - 1]

\* r is s without the element at position i.
RemovedAt(r, S, s, i) ==
    /\ r \in Seq(S)
    /\ Len(r) = Len(s) - 1
    /\ \A j \in 1 .. Len(s) - 1 : r[j] = IF j < i THEN s[j] ELSE s[j + 1]

\* InsertAt element by element.
LEMMA InsertAtProperties ==
    ASSUME NEW S, NEW s \in Seq(S), NEW e \in S, NEW i \in 1 .. Len(s) + 1
    PROVE  InsertedAt(InsertAt(s, i, e), S, s, i, e)
<1> DEFINE before == SubSeq(s, 1, i - 1)
           after == SubSeq(s, i, Len(s))
<1>0. Len(s) \in Nat /\ \A j \in 1 .. Len(s) : s[j] \in S
  BY LenProperties, ElementOfSeq
<1>1. /\ before \in Seq(S)
      /\ Len(before) = i - 1
      /\ \A j \in 1 .. i - 1 : before[j] = s[j]
  <2>1. PICK k \in Nat : k = i - 1
    BY <1>0
  <2>2. /\ SubSeq(s, 1, k) \in Seq(S)
        /\ Len(SubSeq(s, 1, k)) = k - 1 + 1
        /\ \A j \in 1 .. k - 1 + 1 : SubSeq(s, 1, k)[j] = s[1 + j - 1]
    BY <1>0, <2>1, SliceProperties
  <2> QED
    BY <2>1, <2>2, <1>0
<1>2. /\ after \in Seq(S)
      /\ Len(after) = Len(s) - i + 1
      /\ \A j \in 1 .. Len(s) - i + 1 : after[j] = s[i + j - 1]
  <2>1. PICK k \in Nat \ {0}, n \in Nat : k = i /\ n = Len(s)
    BY <1>0
  <2>2. /\ SubSeq(s, k, n) \in Seq(S)
        /\ Len(SubSeq(s, k, n)) = n - k + 1
        /\ \A j \in 1 .. n - k + 1 : SubSeq(s, k, n)[j] = s[k + j - 1]
    BY <1>0, <2>1, SliceProperties
  <2> QED
    BY <2>1, <2>2, <1>0
<1>3. <<e>> \in Seq(S) /\ Len(<<e>>) = 1 /\ <<e>>[1] = e
  OBVIOUS
<1> HIDE DEF before, after
<1>4. PICK one : one = <<e>>
  OBVIOUS
<1>5. /\ before \o one \in Seq(S)
      /\ Len(before \o one) = i
      /\ \A j \in 1 .. i : (before \o one)[j] = IF j < i THEN s[j] ELSE e
  <2>1. one \in Seq(S) /\ Len(one) = 1 /\ one[1] = e
    BY <1>3, <1>4
  <2>2. /\ before \o one \in Seq(S)
        /\ Len(before \o one) = Len(before) + Len(one)
        /\ \A j \in 1 .. Len(before) + Len(one) :
              (before \o one)[j] = IF j <= Len(before) THEN before[j] ELSE one[j - Len(before)]
    BY <1>1, <2>1, ConcatProperties, Zenon
  <2> QED
    BY <2>1, <2>2, <1>1, <1>0
<1>6. PICK front : front = before \o one
  OBVIOUS
<1>7. front \in Seq(S) /\ Len(front) = i /\ \A j \in 1 .. i : front[j] = IF j < i THEN s[j] ELSE e
  BY <1>5, <1>6
<1>8. /\ front \o after \in Seq(S)
      /\ Len(front \o after) = Len(front) + Len(after)
      /\ \A j \in 1 .. Len(front) + Len(after) :
            (front \o after)[j] = IF j <= Len(front) THEN front[j] ELSE after[j - Len(front)]
  BY <1>2, <1>7, ConcatProperties, Zenon
<1>9. InsertAt(s, i, e) = front \o after
  BY <1>4, <1>6 DEF InsertAt, before, after
<1>10. PICK r : r = InsertAt(s, i, e)
  OBVIOUS
<1>11. r \in Seq(S) /\ Len(r) = Len(s) + 1
  BY <1>0, <1>2, <1>7, <1>8, <1>9, <1>10
<1>12. ASSUME NEW j \in 1 .. Len(s) + 1
       PROVE  r[j] = IF j < i THEN s[j] ELSE IF j = i THEN e ELSE s[j - 1]
  <2>1. r[j] = IF j <= i THEN front[j] ELSE after[j - i]
    BY <1>0, <1>2, <1>7, <1>8, <1>9, <1>10
  <2>2. CASE j <= i
    BY <2>1, <2>2, <1>7, <1>0
  <2>3. CASE j > i
    <3>1. j - i \in 1 .. Len(s) - i + 1 /\ i + (j - i) - 1 = j - 1
      BY <2>3, <1>0
    <3>2. after[j - i] = s[i + (j - i) - 1]
      BY <3>1, <1>2
    <3> QED
      BY <2>1, <2>3, <3>1, <3>2, <1>0
  <2> QED
    BY <2>2, <2>3, <1>0
<1>13. InsertedAt(r, S, s, i, e)
  BY <1>11, <1>12 DEF InsertedAt
<1> QED
  BY <1>10, <1>13

\* RemoveAt element by element.
LEMMA RemoveAtProperties ==
    ASSUME NEW S, NEW s \in Seq(S), NEW i \in 1 .. Len(s)
    PROVE  RemovedAt(RemoveAt(s, i), S, s, i)
<1> DEFINE before == SubSeq(s, 1, i - 1)
           after == SubSeq(s, i + 1, Len(s))
<1>0. Len(s) \in Nat /\ \A j \in 1 .. Len(s) : s[j] \in S
  BY LenProperties, ElementOfSeq
<1>1. /\ before \in Seq(S)
      /\ Len(before) = i - 1
      /\ \A j \in 1 .. i - 1 : before[j] = s[j]
  <2>1. PICK k \in Nat : k = i - 1
    BY <1>0
  <2>2. /\ SubSeq(s, 1, k) \in Seq(S)
        /\ Len(SubSeq(s, 1, k)) = k - 1 + 1
        /\ \A j \in 1 .. k - 1 + 1 : SubSeq(s, 1, k)[j] = s[1 + j - 1]
    BY <1>0, <2>1, SliceProperties
  <2> QED
    BY <2>1, <2>2, <1>0
<1>2. /\ after \in Seq(S)
      /\ Len(after) = Len(s) - i
      /\ \A j \in 1 .. Len(s) - i : after[j] = s[i + j]
  <2>1. PICK k \in Nat \ {0}, n \in Nat : k = i + 1 /\ n = Len(s)
    BY <1>0
  <2>2. /\ SubSeq(s, k, n) \in Seq(S)
        /\ Len(SubSeq(s, k, n)) = n - k + 1
        /\ \A j \in 1 .. n - k + 1 : SubSeq(s, k, n)[j] = s[k + j - 1]
    BY <1>0, <2>1, SliceProperties
  <2>3. after = SubSeq(s, k, n) /\ n - k + 1 = Len(s) - i
    BY <1>0, <2>1
  <2>4. \A j \in 1 .. Len(s) - i : k + j - 1 = i + j
    BY <1>0, <2>1
  <2> HIDE DEF after
  <2> QED
    BY <2>2, <2>3, <2>4
<1> HIDE DEF before, after
<1>3. /\ before \o after \in Seq(S)
      /\ Len(before \o after) = Len(before) + Len(after)
      /\ \A j \in 1 .. Len(before) + Len(after) :
            (before \o after)[j] = IF j <= Len(before) THEN before[j] ELSE after[j - Len(before)]
  BY <1>1, <1>2, ConcatProperties, Zenon
<1>4. RemoveAt(s, i) = before \o after
  BY DEF RemoveAt, before, after
<1>5. PICK r : r = RemoveAt(s, i)
  OBVIOUS
<1>6. r \in Seq(S) /\ Len(r) = Len(s) - 1
  BY <1>0, <1>1, <1>2, <1>3, <1>4, <1>5
<1>7. ASSUME NEW j \in 1 .. Len(s) - 1
      PROVE  r[j] = IF j < i THEN s[j] ELSE s[j + 1]
  <2>1. r[j] = IF j <= i - 1 THEN before[j] ELSE after[j - (i - 1)]
    BY <1>0, <1>1, <1>2, <1>3, <1>4, <1>5
  <2>2. CASE j < i
    BY <2>1, <2>2, <1>1, <1>0
  <2>3. CASE j >= i
    <3>1. j - (i - 1) \in 1 .. Len(s) - i /\ i + (j - (i - 1)) = j + 1
      BY <2>3, <1>0
    <3>2. after[j - (i - 1)] = s[i + (j - (i - 1))]
      BY <3>1, <1>2
    <3> QED
      BY <2>1, <2>3, <3>1, <3>2, <1>0
  <2> QED
    BY <2>2, <2>3, <1>0
<1>8. RemovedAt(r, S, s, i)
  BY <1>6, <1>7 DEF RemovedAt
<1> QED
  BY <1>5, <1>8

-----------------------------------------------------------------------------
(* The matching loop of the validator's book.                              *)

Stuck(o, m) == m.rest = <<>> \/ m.left = 0 \/ ~ Crosses(o, Head(m.rest))

\* Two entries are the same resting order, perhaps with another quantity.
SameOrder(x, y) == x.id = y.id /\ x.price = y.price /\ x.ts = y.ts

\* r is what is left of rest after orders were taken off its front.
SuffixOf(r, rest) ==
    /\ Len(r) <= Len(rest)
    /\ \A j \in 1 .. Len(r) : SameOrder(r[j], rest[j + (Len(rest) - Len(r))])

\* A round that does not break off takes at least one unit: it consumes the
\* best order, or leaves part of it and nothing of the incoming one.
LEMMA RoundTakes ==
    ASSUME NEW o, NEW m \in LoopStates, ~ Stuck(o, m)
    PROVE  /\ Round(o, m) \in LoopStates
           /\ Round(o, m).left < m.left
           /\ \/ /\ Head(m.rest).qty <= m.left
                 /\ Round(o, m).left = m.left - Head(m.rest).qty
                 /\ Round(o, m).rest = Tail(m.rest)
              \/ /\ Head(m.rest).qty > m.left
                 /\ Round(o, m).left = 0
                 /\ Len(Round(o, m).rest) = Len(m.rest)
                 /\ Round(o, m).rest[1] = [m.rest[1] EXCEPT !.qty = @ - m.left]
                 /\ \A j \in 2 .. Len(m.rest) : Round(o, m).rest[j] = m.rest[j]
<1>1. PICK rest \in Seq(Resting), left \in Nat : rest = m.rest /\ left = m.left
  BY DEF LoopStates
<1>2. rest # <<>> /\ left > 0
  BY <1>1 DEF Stuck
<1>3. /\ Head(rest) \in Resting /\ Head(rest) = rest[1]
      /\ Tail(rest) \in Seq(Resting)
      /\ Len(rest) \in Nat \ {0}
  BY <1>2, HeadTailProperties, EmptySeq
<1>4. PICK best \in Resting : best = rest[1] /\ best = Head(rest)
  BY <1>3
<1>5. best.qty \in Nat \ {0}
  BY DEF Resting
<1>6. CASE best.qty <= left
  <2>1. min64(left, best.qty) = best.qty
    BY <1>5, <1>6 DEF min64
  <2>2. Round(o, m) = [left |-> left - best.qty, rest |-> Tail(rest)]
    BY <1>1, <1>2, <1>4, <2>1 DEF Round, Stuck
  <2>3. left - best.qty \in Nat /\ left - best.qty < left
    BY <1>5, <1>6
  <2> QED
    BY <1>1, <1>3, <1>4, <1>6, <2>2, <2>3 DEF LoopStates
<1>7. CASE best.qty > left
  <2>1. min64(left, best.qty) = left /\ left # best.qty
    BY <1>5, <1>7 DEF min64
  <2>2. PICK part : part = [best EXCEPT !.qty = @ - left]
    OBVIOUS
  <2>3. part \in Resting
    <3>1. best.qty - left \in Nat \ {0}
      BY <1>5, <1>7
    <3> QED
      BY <2>2, <3>1 DEF Resting
  <2>4. PICK after : after = [rest EXCEPT ![1] = part]
    OBVIOUS
  <2>5. /\ after \in Seq(Resting)
        /\ Len(after) = Len(rest)
        /\ \A j \in 1 .. Len(rest) : after[j] = IF j = 1 THEN part ELSE rest[j]
    <3>1. 1 \in 1 .. Len(rest)
      BY <1>3
    <3> QED
      BY <3>1, <2>3, <2>4, ExceptSeq
  <2>6. [rest EXCEPT ![1].qty = @ - left] = after
    BY <1>4, <2>2, <2>4
  <2>7. Round(o, m) = [left |-> left - left, rest |-> [rest EXCEPT ![1].qty = @ - left]]
    BY <1>1, <1>2, <1>4, <2>1 DEF Round, Stuck
  <2>8. Round(o, m) = [left |-> 0, rest |-> after]
    <3>1. left - left = 0
      OBVIOUS
    <3> QED
      BY <2>6, <2>7, <3>1, Zenon
  <2>9. Round(o, m) \in LoopStates /\ Round(o, m).left = 0 /\ Round(o, m).rest = after
    BY <2>5, <2>8 DEF LoopStates
  <2>10. after[1] = [m.rest[1] EXCEPT !.qty = @ - m.left]
    BY <1>1, <1>3, <1>4, <2>2, <2>5
  <2>11. \A j \in 2 .. Len(m.rest) : after[j] = m.rest[j]
    BY <1>1, <1>3, <2>5
  <2> QED
    BY <1>1, <1>2, <1>4, <1>7, <2>5, <2>9, <2>10, <2>11
<1> QED
  BY <1>5, <1>6, <1>7

\* A round that breaks off changes nothing.
LEMMA RoundStuck ==
    ASSUME NEW o, NEW m, Stuck(o, m)
    PROVE  Round(o, m) = m
  BY DEF Round, Stuck

\* A round takes orders off the front.
LEMMA RoundKeepsSuffix ==
    ASSUME NEW o, NEW rest \in Seq(Resting), NEW m \in LoopStates, SuffixOf(m.rest, rest)
    PROVE  SuffixOf(Round(o, m).rest, rest)
<1>1. CASE Stuck(o, m)
  BY <1>1, RoundStuck
<1>2. CASE ~ Stuck(o, m)
  <2>1. PICK r : r = Round(o, m)
    OBVIOUS
  <2>2. /\ r \in LoopStates
        /\ \/ r.rest = Tail(m.rest)
           \/ /\ Len(r.rest) = Len(m.rest)
              /\ r.rest[1] = [m.rest[1] EXCEPT !.qty = @ - m.left]
              /\ \A j \in 2 .. Len(m.rest) : r.rest[j] = m.rest[j]
    BY <1>2, <2>1, RoundTakes
  <2>3. PICK s \in Seq(Resting) : s = m.rest /\ s # <<>>
    BY <1>2 DEF LoopStates, Stuck
  <2>4. /\ Len(s) \in Nat \ {0} /\ Len(rest) \in Nat /\ Len(s) <= Len(rest)
        /\ \A j \in 1 .. Len(s) : SameOrder(s[j], rest[j + (Len(rest) - Len(s))])
    <3>1. Len(s) \in Nat \ {0} /\ Len(rest) \in Nat
      BY <2>3, EmptySeq, LenProperties
    <3>2. SuffixOf(s, rest)
      BY <2>3
    <3> QED
      BY <3>1, <3>2 DEF SuffixOf
  <2>5. CASE r.rest = Tail(m.rest)
    <3>1. PICK t \in Seq(Resting) : t = Tail(s)
      BY <2>3, HeadTailProperties
    <3>2. Len(t) = Len(s) - 1 /\ \A j \in 1 .. Len(t) : t[j] = s[j + 1]
      BY <2>3, <3>1, HeadTailProperties
    <3>3. ASSUME NEW j \in 1 .. Len(t)
          PROVE  SameOrder(t[j], rest[j + (Len(rest) - Len(t))])
      <4>1. /\ j + 1 \in 1 .. Len(s)
            /\ (j + 1) + (Len(rest) - Len(s)) = j + (Len(rest) - Len(t))
        BY <2>4, <3>2
      <4>2. SameOrder(s[j + 1], rest[(j + 1) + (Len(rest) - Len(s))])
        BY <2>4, <4>1
      <4> QED
        BY <3>2, <4>1, <4>2
    <3> QED
      <4>1. Len(t) <= Len(rest)
        BY <2>4, <3>2
      <4>2. SuffixOf(t, rest)
        BY <3>3, <4>1 DEF SuffixOf
      <4> QED
        BY <2>1, <2>3, <2>5, <3>1, <4>2
  <2>6. CASE /\ Len(r.rest) = Len(s)
             /\ r.rest[1] = [s[1] EXCEPT !.qty = @ - m.left]
             /\ \A j \in 2 .. Len(s) : r.rest[j] = s[j]
    <3>1. s[1] \in Resting
      BY <2>4, ElementOfSeq
    <3>2. SameOrder(r.rest[1], s[1])
      BY <2>6, <3>1 DEF SameOrder, Resting
    <3>3. \A j \in 1 .. Len(s) : SameOrder(r.rest[j], s[j])
      <4>1. \A j \in 2 .. Len(s) : SameOrder(r.rest[j], s[j])
        BY <2>6 DEF SameOrder
      <4> QED
        BY <2>4, <3>2, <4>1
    <3> QED
      BY <2>1, <2>4, <2>6, <3>3 DEF SuffixOf, SameOrder
  <2> QED
    BY <2>2, <2>3, <2>5, <2>6
<1> QED
  BY <1>1, <1>2

\* The matching loop is the sequence of its rounds, and a set of states that
\* has the first one and is closed under rounds has them all.
LEMMA MatchRounds ==
    ASSUME NEW o, o.qty \in Nat, NEW rest, NEW S,
           [left |-> o.qty, rest |-> rest] \in S,
           \A m \in S : Round(o, m) \in S
    PROVE  \E at \in [0 .. o.qty -> S] :
              /\ at[0] = [left |-> o.qty, rest |-> rest]
              /\ \A i \in 1 .. o.qty : at[i] = Round(o, at[i - 1])
              /\ Match(o, rest) = at[o.qty]
<1> DEFINE start == [left |-> o.qty, rest |-> rest]
           body(h) == [i \in 0 .. o.qty |-> IF i = 0 THEN start ELSE Round(o, h[i - 1])]
           at == CHOOSE h : h = body(h)
<1>1. \E h : h = body(h)
  <2>1. PICK f : f = [m \in S |-> Round(o, m)]
    OBVIOUS
  <2>2. f \in [S -> S] /\ \A m \in S : f[m] = Round(o, m)
    BY <2>1
  <2>3. PICK g : IsLoop(g, S, f, start, o.qty)
    <3> HIDE DEF start
    <3>1. start \in S /\ \A y \in S : f[y] \in S
      BY <2>2 DEF start
    <3> QED
      BY <3>1, LoopExists
  <2>4. \A i \in 1 .. o.qty : g[i] = Round(o, g[i - 1])
    <3> SUFFICES ASSUME NEW i \in 1 .. o.qty PROVE g[i] = Round(o, g[i - 1])
      OBVIOUS
    <3>1. g[i - 1] \in S /\ g[i] = f[g[i - 1]]
      BY <2>3 DEF IsLoop
    <3> QED
      BY <2>2, <3>1
  <2>5. g = body(g)
    <3> HIDE DEF start
    <3>1. g[0] = start
      BY <2>3 DEF IsLoop
    <3>2. g = [i \in 0 .. o.qty |-> g[i]]
      BY <2>3 DEF IsLoop
    <3>3. \A i \in 0 .. o.qty : i = 0 \/ i \in 1 .. o.qty
      OBVIOUS
    <3>4. \A i \in 0 .. o.qty : g[i] = IF i = 0 THEN start ELSE Round(o, g[i - 1])
      BY <2>4, <3>1, <3>3
    <3> QED
      BY <3>2, <3>4
  <2> QED
    BY <2>5
<1>2. at = body(at)
  <2> HIDE DEF body
  <2> QED
    BY <1>1
<1>3. Match(o, rest) = at[o.qty]
  BY DEF Match
<1> HIDE DEF at
<1>4. at[0] = start /\ \A i \in 1 .. o.qty : at[i] = Round(o, at[i - 1])
  <2> HIDE DEF start
  <2> QED
    BY <1>2
<1>5. \A i \in 0 .. o.qty : at[i] \in S
  <2> DEFINE P == {i \in 0 .. o.qty : at[i] \in S}
  <2>1. 0 \in P
    BY <1>4
  <2>2. \A i \in 0 .. o.qty : i < o.qty /\ i \in P => i + 1 \in P
    <3> SUFFICES ASSUME NEW i \in 0 .. o.qty, i < o.qty, i \in P PROVE i + 1 \in P
      OBVIOUS
    <3>1. i + 1 \in 1 .. o.qty /\ (i + 1) - 1 = i
      OBVIOUS
    <3>2. at[i + 1] = Round(o, at[i])
      BY <1>4, <3>1
    <3> QED
      BY <3>1, <3>2
  <2> HIDE DEF P
  <2>3. 0 .. o.qty \subseteq P
    BY <2>1, <2>2, InductionUpTo
  <2> QED
    BY <2>3 DEF P
<1>6. at \in [0 .. o.qty -> S]
  <2>1. at = [i \in 0 .. o.qty |-> at[i]]
    <3>1. DOMAIN at = 0 .. o.qty
      BY <1>2
    <3>2. at = [i \in DOMAIN at |-> at[i]]
      BY <1>2
    <3> QED
      BY <3>1, <3>2
  <2> QED
    BY <2>1, <1>5
<1> QED
  BY <1>3, <1>4, <1>6

\* What matchBuy, matchSell and the loops of PlaceMarket leave: a suffix of the
\* orders they could meet, and either nothing of the incoming order or no
\* order that it crosses.  So o.qty rounds are enough for any book.
THEOREM MatchResult ==
    ASSUME NEW o, o.qty \in Nat, NEW rest \in Seq(Resting)
    PROVE  /\ Match(o, rest) \in LoopStates
           /\ Match(o, rest).left <= o.qty
           /\ SuffixOf(Match(o, rest).rest, rest)
           /\ Stuck(o, Match(o, rest))
<1> DEFINE S == {m \in LoopStates : m.left <= o.qty /\ SuffixOf(m.rest, rest)}
           start == [left |-> o.qty, rest |-> rest]
<1>1. start \in S
  <2>1. start \in LoopStates
    BY DEF LoopStates
  <2>2. SuffixOf(rest, rest)
    <3>1. Len(rest) \in Nat
      BY LenProperties
    <3>2. \A j \in 1 .. Len(rest) : j + (Len(rest) - Len(rest)) = j
      BY <3>1
    <3>3. \A j \in 1 .. Len(rest) : SameOrder(rest[j], rest[j + (Len(rest) - Len(rest))])
      BY <3>2 DEF SameOrder
    <3> QED
      BY <3>1, <3>3 DEF SuffixOf
  <2> QED
    BY <2>1, <2>2
<1>2. ASSUME NEW m \in S PROVE Round(o, m) \in S
  <2>1. m \in LoopStates /\ m.left <= o.qty /\ SuffixOf(m.rest, rest) /\ m.left \in Nat
    BY DEF LoopStates
  <2>2. CASE Stuck(o, m)
    BY <2>2, RoundStuck
  <2>3. CASE ~ Stuck(o, m)
    <3>1. Round(o, m) \in LoopStates /\ Round(o, m).left < m.left
      BY <2>1, <2>3, RoundTakes
    <3>2. Round(o, m).left \in Nat
      BY <3>1 DEF LoopStates
    <3>3. SuffixOf(Round(o, m).rest, rest)
      BY <2>1, RoundKeepsSuffix
    <3> QED
      BY <2>1, <3>1, <3>2, <3>3
  <2> QED
    BY <2>2, <2>3
<1>3. PICK at \in [0 .. o.qty -> S] :
         /\ at[0] = start
         /\ \A i \in 1 .. o.qty : at[i] = Round(o, at[i - 1])
         /\ Match(o, rest) = at[o.qty]
  <2>1. \A m \in S : Round(o, m) \in S
    BY <1>2
  <2> HIDE DEF S
  <2> QED
    BY <1>1, <2>1, MatchRounds
<1>4. \A i \in 0 .. o.qty : at[i] \in S
  BY <1>3
<1>5. ASSUME NEW i \in 0 .. o.qty
      PROVE  at[i].left <= o.qty - i \/ Stuck(o, at[i])
  <2> DEFINE P == {j \in 0 .. o.qty : at[j].left <= o.qty - j \/ Stuck(o, at[j])}
  <2>1. 0 \in P
    BY <1>3
  <2>2. ASSUME NEW j \in 0 .. o.qty, j < o.qty, j \in P PROVE j + 1 \in P
    <3>1. j + 1 \in 1 .. o.qty /\ (j + 1) - 1 = j
      BY <2>2
    <3>2. at[j + 1] = Round(o, at[j])
      BY <1>3, <3>1
    <3>3. CASE Stuck(o, at[j])
      BY <3>1, <3>2, <3>3, RoundStuck
    <3>4. CASE ~ Stuck(o, at[j])
      <4>1. at[j] \in LoopStates
        BY <1>4
      <4>2. Round(o, at[j]).left < at[j].left /\ Round(o, at[j]) \in LoopStates
        BY <3>4, <4>1, RoundTakes
      <4>3. at[j].left \in Nat /\ Round(o, at[j]).left \in Nat
        BY <4>1, <4>2 DEF LoopStates
      <4>4. at[j].left <= o.qty - j
        BY <2>2, <3>4
      <4>5. Round(o, at[j]).left <= o.qty - (j + 1)
        BY <4>2, <4>3, <4>4
      <4> QED
        BY <3>1, <3>2, <4>5
    <3> QED
      BY <3>3, <3>4
  <2>3. \A j \in 0 .. o.qty : j < o.qty /\ j \in P => j + 1 \in P
    BY <2>2
  <2>4. 0 .. o.qty \subseteq P
    <3> HIDE DEF P
    <3> QED
      BY <2>1, <2>3, InductionUpTo
  <2> QED
    BY <2>4
<1>6. at[o.qty] \in LoopStates /\ at[o.qty].left <= o.qty /\ SuffixOf(at[o.qty].rest, rest)
  BY <1>4
<1>7. Stuck(o, at[o.qty])
  <2>1. at[o.qty].left <= o.qty - o.qty \/ Stuck(o, at[o.qty])
    BY <1>5
  <2>2. at[o.qty].left \in Nat
    BY <1>6 DEF LoopStates
  <2>3. at[o.qty].left = 0 \/ Stuck(o, at[o.qty])
    BY <2>1, <2>2
  <2> QED
    BY <2>3 DEF Stuck
<1> QED
  BY <1>3, <1>6, <1>7

-----------------------------------------------------------------------------
(* Insertion, and the order of a side.                                     *)

\* One side of a book keeps price-time priority.
Sorted(side, s) ==
    \A i, j \in DOMAIN s : i < j => InPriority(side, s[i], s[j])

\* Behind an order that is behind o, everything is.
LEMMA BehindIsUpward ==
    ASSUME NEW side \in Sides, NEW x \in Resting, NEW y \in Resting, NEW o \in Resting,
           Behind(side, x, o), InPriority(side, x, y)
    PROVE  Behind(side, y, o)
<1>1. /\ x.price \in Nat /\ y.price \in Nat /\ o.price \in Nat
      /\ x.ts \in Nat /\ y.ts \in Nat /\ o.ts \in Nat
  BY DEF Resting
<1>2. CASE side = "buy"
  BY <1>1, <1>2 DEF Behind, InPriority
<1>3. CASE side # "buy"
  BY <1>1, <1>3 DEF Behind, InPriority
<1> QED
  BY <1>2, <1>3

\* sort.Search finds a position that splits a sorted side: all orders before
\* it come first, all from it on come after the new order.  The predicate of
\* insertBid and insertAsk is monotone there, which binary search needs.
THEOREM SearchSplits ==
    ASSUME NEW side \in Sides, NEW s \in Seq(Resting), Sorted(side, s), NEW o \in Resting
    PROVE  /\ Search(side, s, o) \in 1 .. Len(s) + 1
           /\ \A j \in 1 .. Len(s) :
                 IF j < Search(side, s, o) THEN ~ Behind(side, s[j], o) ELSE Behind(side, s[j], o)
<1>0. Len(s) \in Nat /\ DOMAIN s = 1 .. Len(s) /\ \A j \in 1 .. Len(s) : s[j] \in Resting
  BY LenProperties, ElementOfSeq
<1> DEFINE T == {i \in DOMAIN s : Behind(side, s[i], o)} \cup {Len(s) + 1}
<1>1. PICK k : k = Search(side, s, o)
  OBVIOUS
<1>2. k \in T /\ \A i \in T : k <= i
  <2>1. T \in SUBSET Nat /\ T # {}
    BY <1>0
  <2>2. k = Min(T)
    BY <1>1 DEF Search
  <2> HIDE DEF T
  <2> QED
    BY <2>1, <2>2, MinIsLeast
<1>3. k \in 1 .. Len(s) + 1
  BY <1>0, <1>2
<1>4. ASSUME NEW j \in 1 .. Len(s), j < k PROVE ~ Behind(side, s[j], o)
  BY <1>0, <1>2, <1>3, <1>4
<1>5. ASSUME NEW j \in 1 .. Len(s), j >= k PROVE Behind(side, s[j], o)
  <2>1. k \in 1 .. Len(s) /\ Behind(side, s[k], o)
    BY <1>0, <1>2, <1>3, <1>5
  <2>2. CASE j = k
    BY <2>1, <2>2
  <2>3. CASE k < j
    <3>1. InPriority(side, s[k], s[j])
      BY <1>0, <2>1, <2>3 DEF Sorted
    <3>2. s[k] \in Resting /\ s[j] \in Resting
      BY <1>0, <2>1
    <3> QED
      BY <2>1, <3>1, <3>2, BehindIsUpward
  <2> QED
    BY <1>3, <1>5, <2>2, <2>3
<1> QED
  BY <1>0, <1>1, <1>3, <1>4, <1>5

\* What sort.Search asks of a resting order, against the order of the side:
\* of two orders one is behind the other or has priority over it.
LEMMA BehindOrBefore ==
    ASSUME NEW side \in Sides, NEW x \in Resting, NEW o \in Resting
    PROVE  /\ Behind(side, x, o) => InPriority(side, o, x)
           /\ ~ Behind(side, x, o) => InPriority(side, x, o)
<1>1. x.price \in Nat /\ x.ts \in Nat /\ o.price \in Nat /\ o.ts \in Nat
  BY DEF Resting
<1>2. CASE side = "buy"
  BY <1>1, <1>2 DEF Behind, InPriority
<1>3. CASE side # "buy"
  BY <1>1, <1>3 DEF Behind, InPriority
<1> QED
  BY <1>2, <1>3

\* insertBid and insertAsk keep a sorted side sorted.
LEMMA InsertKeepsSorted ==
    ASSUME NEW side \in Sides, NEW s \in Seq(Resting), Sorted(side, s), NEW o \in Resting
    PROVE  /\ Insert(side, s, o) \in Seq(Resting)
           /\ Sorted(side, Insert(side, s, o))
           /\ \A j \in DOMAIN Insert(side, s, o) :
                 Insert(side, s, o)[j] = o \/ \E i \in DOMAIN s : Insert(side, s, o)[j] = s[i]
<1>0. Len(s) \in Nat /\ DOMAIN s = 1 .. Len(s) /\ \A j \in 1 .. Len(s) : s[j] \in Resting
  BY LenProperties, ElementOfSeq
<1>1. PICK k : k = Search(side, s, o)
  OBVIOUS
<1>2. /\ k \in 1 .. Len(s) + 1
      /\ \A j \in 1 .. Len(s) : IF j < k THEN ~ Behind(side, s[j], o) ELSE Behind(side, s[j], o)
  BY <1>1, SearchSplits
<1>3. PICK r : r = InsertAt(s, k, o)
  OBVIOUS
<1>4. /\ r \in Seq(Resting)
      /\ Len(r) = Len(s) + 1
      /\ \A j \in 1 .. Len(s) + 1 :
            r[j] = IF j < k THEN s[j] ELSE IF j = k THEN o ELSE s[j - 1]
  <2>1. InsertedAt(r, Resting, s, k, o)
    BY <1>2, <1>3, InsertAtProperties
  <2> QED
    BY <2>1 DEF InsertedAt
<1>5. Insert(side, s, o) = r
  BY <1>1, <1>3 DEF Insert
<1>6. DOMAIN r = 1 .. Len(s) + 1
  BY <1>0, <1>4, LenProperties
<1>7. ASSUME NEW i \in DOMAIN r, NEW j \in DOMAIN r, i < j
      PROVE  InPriority(side, r[i], r[j])
  <2>1. i \in 1 .. Len(s) + 1 /\ j \in 1 .. Len(s) + 1
    BY <1>6
  <2>2. CASE j < k
    <3>1. r[i] = s[i] /\ r[j] = s[j] /\ i \in DOMAIN s /\ j \in DOMAIN s
      BY <1>0, <1>2, <1>4, <1>7, <2>1, <2>2
    <3> QED
      BY <1>7, <3>1 DEF Sorted
  <2>3. CASE j = k
    <3>1. r[i] = s[i] /\ r[j] = o /\ i \in 1 .. Len(s) /\ ~ Behind(side, s[i], o)
      BY <1>0, <1>2, <1>4, <1>7, <2>1, <2>3
    <3>2. s[i] \in Resting
      BY <1>0, <3>1
    <3>3. InPriority(side, s[i], o)
      BY <3>1, <3>2, BehindOrBefore
    <3> QED
      BY <3>1, <3>3
  <2>4. CASE j > k /\ i = k
    <3>1. r[i] = o /\ r[j] = s[j - 1] /\ j - 1 \in 1 .. Len(s) /\ ~ (j - 1 < k)
      BY <1>0, <1>2, <1>4, <2>1, <2>4
    <3>3. Behind(side, s[j - 1], o)
      BY <1>2, <3>1
    <3>2. s[j - 1] \in Resting
      BY <1>0, <3>1
    <3>4. InPriority(side, o, s[j - 1])
      BY <3>2, <3>3, BehindOrBefore
    <3> QED
      BY <3>1, <3>4
  <2>5. CASE j > k /\ i < k
    <3>1. r[i] = s[i] /\ r[j] = s[j - 1] /\ i \in DOMAIN s /\ j - 1 \in DOMAIN s /\ i < j - 1
      BY <1>0, <1>2, <1>4, <1>7, <2>1, <2>5
    <3> QED
      BY <3>1 DEF Sorted
  <2>6. CASE j > k /\ i > k
    <3>1. /\ r[i] = s[i - 1] /\ r[j] = s[j - 1]
          /\ i - 1 \in DOMAIN s /\ j - 1 \in DOMAIN s /\ i - 1 < j - 1
      BY <1>0, <1>2, <1>4, <1>7, <2>1, <2>6
    <3> QED
      BY <3>1 DEF Sorted
  <2> QED
    BY <1>2, <2>1, <2>2, <2>3, <2>4, <2>5, <2>6
<1>8. ASSUME NEW j \in DOMAIN r PROVE r[j] = o \/ \E i \in DOMAIN s : r[j] = s[i]
  <2>1. CASE j < k
    BY <1>0, <1>2, <1>4, <1>6, <2>1
  <2>2. CASE j = k
    BY <1>0, <1>2, <1>4, <1>6, <2>2
  <2>3. CASE j > k
    <3>1. r[j] = s[j - 1] /\ j - 1 \in DOMAIN s
      BY <1>0, <1>2, <1>4, <1>6, <2>3
    <3> QED
      BY <3>1
  <2> QED
    BY <1>2, <1>6, <2>1, <2>2, <2>3
<1>9. Sorted(side, r)
  BY <1>7 DEF Sorted
<1> QED
  BY <1>4, <1>5, <1>8, <1>9

-----------------------------------------------------------------------------
(* The validator's book.                                                   *)

NotCrossed(bk) ==
    \A i \in DOMAIN bk["buy"], j \in DOMAIN bk["sell"] : bk["buy"][i].price < bk["sell"][j].price

WellFormed(bk) ==
    /\ bk \in Books
    /\ \A side \in Sides : Sorted(side, bk[side])
    /\ NotCrossed(bk)

\* An event's order, or the part of it that the book reads.
Incoming(o) ==
    o.side \in Sides /\ o.price \in Nat /\ o.qty \in Nat /\ o.id \in Nat /\ o.ts \in Nat

\* What is left of a sorted side is sorted and has no new price.
LEMMA SuffixKeepsSorted ==
    ASSUME NEW side \in Sides, NEW s \in Seq(Resting), NEW r \in Seq(Resting),
           Sorted(side, s), SuffixOf(r, s)
    PROVE  /\ Sorted(side, r)
           /\ \A j \in DOMAIN r : \E i \in DOMAIN s : SameOrder(r[j], s[i])
<1>0. /\ Len(s) \in Nat /\ DOMAIN s = 1 .. Len(s)
      /\ Len(r) \in Nat /\ DOMAIN r = 1 .. Len(r)
  BY LenProperties
<1>1. PICK d \in Nat : d = Len(s) - Len(r)
  <2>1. Len(r) <= Len(s)
    BY DEF SuffixOf
  <2>2. Len(s) - Len(r) \in Nat
    BY <1>0, <2>1
  <2> QED
    BY <2>2
<1>2. \A j \in DOMAIN r : j + d \in DOMAIN s /\ SameOrder(r[j], s[j + d])
  BY <1>0, <1>1 DEF SuffixOf
<1>3. ASSUME NEW i \in DOMAIN r, NEW j \in DOMAIN r, i < j
      PROVE  InPriority(side, r[i], r[j])
  <2>1. i + d < j + d
    BY <1>0, <1>3
  <2>2. InPriority(side, s[i + d], s[j + d])
    BY <1>2, <2>1 DEF Sorted
  <2> QED
    BY <1>2, <2>2 DEF InPriority, SameOrder
<1> QED
  BY <1>2, <1>3 DEF Sorted

\* Matching keeps the book well formed.
LEMMA MatchKeepsBook ==
    ASSUME NEW bk, WellFormed(bk), NEW o, Incoming(o)
    PROVE  WellFormed([bk EXCEPT ![Other(o.side)] = Match(o, bk[Other(o.side)]).rest])
<1>1. PICK opp \in Sides : opp = Other(o.side)
  BY DEF Incoming, Sides, Other
<1>2. PICK s \in Seq(Resting) : s = bk[opp]
  BY DEF WellFormed, Books
<1>3. PICK r \in Seq(Resting) : r = Match(o, s).rest /\ SuffixOf(r, s)
  BY MatchResult DEF Incoming, LoopStates
<1>4. Sorted(opp, s)
  BY <1>2 DEF WellFormed
<1>5. Sorted(opp, r) /\ \A j \in DOMAIN r : \E i \in DOMAIN s : SameOrder(r[j], s[i])
  BY <1>3, <1>4, SuffixKeepsSorted
<1>6. PICK new : new = [bk EXCEPT ![opp] = r]
  OBVIOUS
<1>7. /\ new \in Books
      /\ new[opp] = r
      /\ \A side \in Sides : side # opp => new[side] = bk[side]
  BY <1>6 DEF WellFormed, Books
<1>8. \A side \in Sides : Sorted(side, new[side])
  BY <1>5, <1>7 DEF WellFormed
<1>9. NotCrossed(new)
  <2>1. CASE opp = "buy"
    BY <1>2, <1>5, <1>7, <2>1 DEF NotCrossed, SameOrder, WellFormed, Sides
  <2>2. CASE opp = "sell"
    BY <1>2, <1>5, <1>7, <2>2 DEF NotCrossed, SameOrder, WellFormed, Sides
  <2> QED
    BY <2>1, <2>2 DEF Sides
<1> QED
  BY <1>1, <1>2, <1>3, <1>6, <1>7, <1>8, <1>9 DEF WellFormed

\* An order that is stuck with something left crosses nothing that rests.
LEMMA StuckCrossesNothing ==
    ASSUME NEW o, Incoming(o), o.kind = "limit",
           NEW m \in LoopStates, Stuck(o, m), m.left > 0, Sorted(Other(o.side), m.rest)
    PROVE  \A j \in DOMAIN m.rest : IF o.side = "buy" THEN o.price < m.rest[j].price
                                                       ELSE o.price > m.rest[j].price
<1>1. PICK s \in Seq(Resting) : s = m.rest
  BY DEF LoopStates
<1>2. Len(s) \in Nat /\ DOMAIN s = 1 .. Len(s) /\ \A j \in 1 .. Len(s) : s[j] \in Resting
  BY LenProperties, ElementOfSeq
<1> SUFFICES ASSUME NEW j \in DOMAIN s
             PROVE  IF o.side = "buy" THEN o.price < s[j].price ELSE o.price > s[j].price
  BY <1>1
<1>3. s # <<>> /\ Head(s) = s[1] /\ 1 \in DOMAIN s
  BY <1>2
<1>4. ~ Crosses(o, s[1])
  BY <1>1, <1>3 DEF Stuck
<1>5. s[1].price \in Nat /\ s[j].price \in Nat /\ o.price \in Nat
  BY <1>2, <1>3 DEF Resting, Incoming
<1>6. IF o.side = "buy" THEN o.price < s[1].price ELSE o.price > s[1].price
  BY <1>4, <1>5 DEF Crosses
<1>7. CASE j = 1
  BY <1>6, <1>7
<1>8. CASE j # 1
  <2>1. InPriority(Other(o.side), s[1], s[j])
    BY <1>1, <1>2, <1>3, <1>8 DEF Sorted
  <2>2. CASE o.side = "buy"
    BY <1>5, <1>6, <2>1, <2>2 DEF InPriority, Other
  <2>3. CASE o.side # "buy"
    <3>1. o.side # "buy" /\ Other(o.side) = "buy"
      BY <2>3 DEF Other
    <3> QED
      BY <1>5, <1>6, <2>1, <3>1 DEF InPriority
  <2> QED
    BY <2>2, <2>3
<1> QED
  BY <1>7, <1>8

\* Book.PlaceMarket keeps the book well formed.
LEMMA PlaceMarketKeepsBook ==
    ASSUME NEW bk, WellFormed(bk), NEW o, Incoming(o)
    PROVE  WellFormed(PlaceMarket(bk, o).book)
  BY MatchKeepsBook DEF PlaceMarket

\* Book.Place keeps the book well formed: the remainder it rests does not cross.
LEMMA PlaceKeepsBook ==
    ASSUME NEW bk, WellFormed(bk), NEW o, Incoming(o), o.kind = "limit"
    PROVE  WellFormed(Place(bk, o).book)
<1>1. PICK opp \in Sides, own \in Sides : opp = Other(o.side) /\ own = o.side /\ opp # own
  BY DEF Incoming, Sides, Other
<1>2. PICK m \in LoopStates : m = Match(o, bk[opp]) /\ Stuck(o, m)
  <2>1. bk[opp] \in Seq(Resting)
    BY DEF WellFormed, Books
  <2> QED
    BY <2>1, MatchResult DEF Incoming
<1>3. PICK mid : mid = [bk EXCEPT ![opp] = m.rest]
  OBVIOUS
<1>4. WellFormed(mid)
  BY <1>1, <1>2, <1>3, MatchKeepsBook
<1>5. mid[opp] = m.rest /\ mid[own] = bk[own]
  BY <1>1, <1>3 DEF WellFormed, Books
<1>6. PICK rem : rem = [id |-> o.id, price |-> o.price, qty |-> m.left, ts |-> o.ts]
  OBVIOUS
<1>7. Place(bk, o).book =
        [bk EXCEPT ![opp] = m.rest,
                   ![own] = IF m.left > 0 THEN Insert(own, @, rem) ELSE @]
  BY <1>1, <1>2, <1>6 DEF Place
<1>8. CASE m.left = 0
  <2>1. [bk EXCEPT ![opp] = m.rest, ![own] = IF m.left > 0 THEN Insert(own, @, rem) ELSE @] = mid
    <3>1. ~ (m.left > 0)
      BY <1>8
    <3> QED
      BY <1>1, <1>3, <1>4, <3>1 DEF WellFormed, Books
  <2> QED
    BY <1>4, <1>7, <2>1
<1>9. CASE m.left > 0
  <2>1. rem \in Resting /\ rem.price = o.price
    BY <1>6, <1>9 DEF Resting, Incoming, LoopStates
  <2>2. mid[own] \in Seq(Resting) /\ Sorted(own, mid[own])
    BY <1>4 DEF WellFormed, Books
  <2>3. PICK ins : ins = Insert(own, mid[own], rem)
    OBVIOUS
  <2>4. /\ ins \in Seq(Resting)
        /\ Sorted(own, ins)
        /\ \A j \in DOMAIN ins : ins[j] = rem \/ \E i \in DOMAIN mid[own] : ins[j] = mid[own][i]
    BY <2>1, <2>2, <2>3, InsertKeepsSorted
  <2>5. PICK new : new = [mid EXCEPT ![own] = ins]
    OBVIOUS
  <2>6. Place(bk, o).book = new
    BY <1>1, <1>3, <1>5, <1>7, <1>9, <2>3, <2>5 DEF WellFormed, Books
  <2>7. new \in Books /\ new[own] = ins /\ new[opp] = mid[opp]
    BY <1>1, <1>4, <2>4, <2>5 DEF WellFormed, Books
  <2>8. \A side \in Sides : side = own \/ side = opp
    BY <1>1 DEF Sides
  <2>9. \A side \in Sides : Sorted(side, new[side])
    BY <1>4, <2>4, <2>7, <2>8 DEF WellFormed
  <2>10. \A j \in DOMAIN m.rest : IF o.side = "buy" THEN o.price < m.rest[j].price
                                                    ELSE o.price > m.rest[j].price
    <3>1. Sorted(Other(o.side), m.rest)
      BY <1>1, <1>4, <1>5 DEF WellFormed
    <3> QED
      BY <1>2, <1>9, <3>1, StuckCrossesNothing
  <2>11. NotCrossed(new)
    <3>1. CASE own = "buy"
      <4>1. opp = "sell" /\ o.side = "buy"
        BY <1>1, <3>1 DEF Sides
      <4>2. \A j \in DOMAIN m.rest : o.price < m.rest[j].price
        BY <2>10, <4>1
      <4>3. \A i \in DOMAIN mid[own], j \in DOMAIN mid[opp] : mid[own][i].price < mid[opp][j].price
        BY <1>4, <3>1, <4>1 DEF WellFormed, NotCrossed
      <4>4. \A i \in DOMAIN ins, j \in DOMAIN mid[opp] : ins[i].price < mid[opp][j].price
        BY <1>5, <2>1, <2>4, <4>2, <4>3
      <4> QED
        BY <2>7, <3>1, <4>1, <4>4 DEF NotCrossed
    <3>2. CASE own = "sell"
      <4>1. opp = "buy" /\ o.side # "buy"
        BY <1>1, <3>2 DEF Sides
      <4>2. \A j \in DOMAIN m.rest : o.price > m.rest[j].price
        BY <2>10, <4>1
      <4>3. \A i \in DOMAIN mid[opp], j \in DOMAIN mid[own] : mid[opp][i].price < mid[own][j].price
        BY <1>4, <3>2, <4>1 DEF WellFormed, NotCrossed
      <4>4. \A i \in DOMAIN mid[opp] : mid[opp][i].price < rem.price
        <5>1. \A i \in DOMAIN mid[opp] : mid[opp][i].price \in Nat /\ o.price \in Nat
          <6>1. mid[opp] \in Seq(Resting)
            BY <1>4 DEF WellFormed, Books
          <6>2. \A i \in DOMAIN mid[opp] : mid[opp][i] \in Resting
            BY <6>1, LenProperties
          <6> QED
            BY <6>2 DEF Resting, Incoming
        <5> QED
          BY <1>5, <2>1, <4>2, <5>1
      <4>5. \A i \in DOMAIN mid[opp], j \in DOMAIN ins : mid[opp][i].price < ins[j].price
        BY <2>4, <4>3, <4>4
      <4> QED
        BY <2>7, <3>2, <4>1, <4>5 DEF NotCrossed
    <3> QED
      BY <3>1, <3>2 DEF Sides
  <2> QED
    BY <2>6, <2>7, <2>9, <2>11 DEF WellFormed
<1> QED
  BY <1>8, <1>9 DEF LoopStates

\* Book.Cancel removes at most one order and keeps the others in place.
LEMMA CancelKeepsBook ==
    ASSUME NEW bk, WellFormed(bk), NEW id
    PROVE  WellFormed(Cancel(bk, id))
<1> DEFINE found == [side \in Sides |-> {i \in DOMAIN bk[side] : bk[side][i].id = id}]
<1>1. PICK side \in Sides : side = IF found["buy"] # {} THEN "buy" ELSE "sell"
  BY DEF Sides
<1>2. Cancel(bk, id) = IF found[side] = {} THEN bk
                       ELSE [bk EXCEPT ![side] = RemoveAt(@, Min(found[side]))]
  BY <1>1 DEF Cancel
<1>3. CASE found[side] = {}
  BY <1>2, <1>3
<1>4. CASE found[side] # {}
  <2>1. PICK s \in Seq(Resting) : s = bk[side]
    BY DEF WellFormed, Books
  <2>2. Len(s) \in Nat /\ DOMAIN s = 1 .. Len(s)
    BY LenProperties
  <2>3. PICK k \in 1 .. Len(s) : k = Min(found[side])
    <3>1. found[side] \subseteq 1 .. Len(s)
      BY <2>1, <2>2
    <3>2. found[side] \in SUBSET Nat
      BY <2>2, <3>1
    <3> HIDE DEF found
    <3>3. Min(found[side]) \in found[side]
      BY <1>4, <3>2, MinIsLeast
    <3> QED
      BY <3>1, <3>3
  <2>4. PICK r : r = RemoveAt(s, k)
    OBVIOUS
  <2>5. RemovedAt(r, Resting, s, k)
    BY <2>4, RemoveAtProperties
  <2>6. r \in Seq(Resting) /\ DOMAIN r = 1 .. Len(s) - 1
    BY <2>5, LenProperties DEF RemovedAt
  <2>7. \A j \in DOMAIN r : r[j] = s[IF j < k THEN j ELSE j + 1] /\ (IF j < k THEN j ELSE j + 1) \in DOMAIN s
    BY <2>2, <2>5, <2>6 DEF RemovedAt
  <2>8. Sorted(side, r)
    <3>1. Sorted(side, s)
      BY <2>1 DEF WellFormed
    <3>2. \A i, j \in DOMAIN r : i < j => (IF i < k THEN i ELSE i + 1) < (IF j < k THEN j ELSE j + 1)
      BY <2>2, <2>6
    <3> QED
      BY <2>7, <3>1, <3>2 DEF Sorted
  <2>9. PICK new : new = [bk EXCEPT ![side] = r]
    OBVIOUS
  <2>10. /\ new \in Books
         /\ new[side] = r
         /\ \A x \in Sides : x # side => new[x] = bk[x]
    BY <2>6, <2>9 DEF WellFormed, Books
  <2>11. \A x \in Sides : Sorted(x, new[x])
    BY <2>8, <2>10 DEF WellFormed
  <2>12. NotCrossed(new)
    <3>1. \A j \in DOMAIN r : \E i \in DOMAIN s : r[j] = s[i]
      BY <2>7
    <3>2. CASE side = "buy"
      BY <2>1, <2>10, <3>1, <3>2 DEF NotCrossed, WellFormed, Sides
    <3>3. CASE side = "sell"
      BY <2>1, <2>10, <3>1, <3>3 DEF NotCrossed, WellFormed, Sides
    <3> QED
      BY <3>2, <3>3 DEF Sides
  <2>13. Cancel(bk, id) = new
    BY <1>2, <1>4, <2>1, <2>3, <2>4, <2>9
  <2> QED
    BY <2>10, <2>11, <2>12, <2>13 DEF WellFormed
<1> QED
  BY <1>3, <1>4

-----------------------------------------------------------------------------
(* The book keeps price-time priority.                                     *)

Kinds == {"limit", "market", "cancel"}

\* Requests and events, whatever fill (of F) the engine reports.
Requests(F) ==
    [step : {"idle", "place", "sent", "arrived", "done", "failed"}, kind : Kinds, side : Sides,
     price : Nat, qty : Nat, id : Nat, ts : Nat, at : Nat, filled : F]
Events(F) ==
    [kind : Kinds, side : Sides, price : Nat, qty : Nat, ts : Nat, id : Nat, filled : F,
     auth : BOOLEAN]

Typed(F) ==
    /\ 0 \in F
    /\ load \in Loads
    /\ clock \in Nat
    /\ bot \in [Bots -> Requests(F)]
    /\ live \in [Bots -> Seq(Nat)]
    /\ topic \in Seq(Events(F))

LEMMA IdleTyped == ASSUME NEW F, 0 \in F PROVE Idle \in Requests(F)
  BY DEF Idle, Requests, Kinds, Sides, NoId

LEMMA TypedInit == Init => \E F : Typed(F)
<1> SUFFICES ASSUME Init PROVE Typed({0})
  OBVIOUS
<1>1. Idle \in Requests({0})
  BY IdleTyped
<1> QED
  BY <1>1, EmptySeq DEF Init, Typed

\* An event is typed as its request is.
LEMMA EventTyped ==
    ASSUME NEW F, Typed(F), NEW b \in Bots
    PROVE  EventOf(b) \in Events(F)
<1>1. bot[b] \in Requests(F) /\ 0 \in F
  BY DEF Typed
<1>2. (bot[b].step = "done") \in BOOLEAN
  OBVIOUS
<1> QED
  BY <1>1, <1>2 DEF EventOf, Requests, Events, NoId

\* Every step keeps requests and events typed.
LEMMA TypedNext ==
    ASSUME NEW F, Typed(F), [Next]_vars
    PROVE  \E G : Typed(G)'
<1> USE DEF Typed
<1>0. \A b \in Bots : b \in load.bots => bot[b] \in Requests(F)
  OBVIOUS
<1>b. load.bots \subseteq Bots
  BY ReplayAssumption
<1>i. Idle \in Requests(F)
  BY IdleTyped
<1>1. ASSUME NEW b \in load.bots, NEW kind \in {"limit", "market"}, NEW side \in Sides,
             NEW price \in Nat, NEW qty \in Nat, SendOrder(b, kind, side, price, qty)
      PROVE  Typed(F)'
  <2>1. PICK q : q = [Idle EXCEPT !.step = "sent", !.kind = kind, !.side = side,
                                  !.price = price, !.qty = qty, !.ts = clock']
    OBVIOUS
  <2>2. clock' \in Nat /\ bot' = [bot EXCEPT ![b] = q]
    BY <1>1, <2>1 DEF SendOrder
  <2>3. q \in Requests(F)
    BY <1>i, <2>1, <2>2 DEF Requests, Kinds
  <2>4. bot' \in [Bots -> Requests(F)]
    BY <2>2, <2>3
  <2> QED
    BY <1>1, <2>2, <2>4 DEF SendOrder
<1>2. ASSUME NEW b \in load.bots, SendCancel(b) PROVE Typed(F)'
  <2>1. PICK q : q = [Idle EXCEPT !.step = "sent", !.kind = "cancel",
                                  !.id = Head(live[b]), !.ts = clock']
    OBVIOUS
  <2>2. clock' \in Nat /\ bot' = [bot EXCEPT ![b] = q] /\ live' = [live EXCEPT ![b] = Tail(@)]
    BY <1>2, <2>1 DEF SendCancel
  <2>3. Head(live[b]) \in Nat /\ Tail(live[b]) \in Seq(Nat)
    <3>1. live[b] \in Seq(Nat) /\ live[b] # <<>>
      BY <1>2, <1>b DEF SendCancel
    <3> QED
      BY <3>1, HeadTailProperties
  <2>4. q \in Requests(F)
    BY <1>i, <2>1, <2>2, <2>3 DEF Requests, Kinds
  <2>5. bot' \in [Bots -> Requests(F)] /\ live' \in [Bots -> Seq(Nat)]
    BY <2>2, <2>3, <2>4
  <2> QED
    BY <1>2, <2>2, <2>5 DEF SendCancel
<1>3. ASSUME NEW b \in load.bots, Fail(b) PROVE Typed(F)'
  <2>1. [bot[b] EXCEPT !.step = "failed"] \in Requests(F)
    BY <1>0, <1>b DEF Requests
  <2>2. bot' \in [Bots -> Requests(F)]
    BY <1>3, <2>1 DEF Fail
  <2> QED
    BY <1>3, <2>2 DEF Fail
<1>4. ASSUME NEW b \in load.bots, Emit(b) PROVE Typed(F)'
  <2>1. topic' \in Seq(Events(F))
    <3>1. EventOf(b) \in Events(F)
      BY <1>b, EventTyped
    <3>2. Append(topic, EventOf(b)) \in Seq(Events(F))
      BY <3>1, AppendProperties
    <3> QED
      BY <1>4, <3>2 DEF Emit
  <2>2. live' \in [Bots -> Seq(Nat)]
    <3>1. bot[b].id \in Nat /\ live[b] \in Seq(Nat)
      BY <1>0, <1>b DEF Requests
    <3>2. Append(live[b], bot[b].id) \in Seq(Nat)
      BY <3>1, AppendProperties
    <3> QED
      BY <1>4, <3>1, <3>2 DEF Emit
  <2>3. bot' \in [Bots -> Requests(F)]
    <3>1. [Idle EXCEPT !.step = IF bot[b].kind = "cancel" THEN "place" ELSE "idle"] \in Requests(F)
      BY <1>i DEF Requests
    <3> QED
      BY <1>4, <3>1 DEF Emit
  <2> QED
    BY <1>4, <2>1, <2>2, <2>3 DEF Emit
<1>5. ASSUME NEW b \in load.bots, Arrive(b) PROVE Typed(F)'
  <2>1. clock' \in Nat /\ bot[b] \in Requests(F)
    BY <1>5, <1>0, <1>b DEF Arrive
  <2>2. PICK q : q = [bot[b] EXCEPT !.step = "arrived", !.at = clock',
                                    !.id = IF bot[b].kind = "cancel" THEN @ ELSE clock']
    OBVIOUS
  <2>3. q \in Requests(F)
    BY <2>1, <2>2 DEF Requests
  <2>4. bot' = [bot EXCEPT ![b] = q]
    BY <1>5, <2>2 DEF Arrive
  <2>5. bot' \in [Bots -> Requests(F)]
    BY <2>3, <2>4
  <2> QED
    BY <1>5, <2>1, <2>5 DEF Arrive
<1>6. ASSUME NEW b \in load.bots, EnginePlace(b) PROVE \E G : Typed(G)'
  <2>1. PICK f : f = bot[b].qty - EngineMatch(bot[b]).left
    OBVIOUS
  <2>2. PICK q : q = [bot[b] EXCEPT !.step = "done", !.filled = f]
    OBVIOUS
  <2>3. bot' = [bot EXCEPT ![b] = q]
    BY <1>6, <2>1, <2>2 DEF EnginePlace
  <2>4. PICK G : G = F \cup {f}
    OBVIOUS
  <2>5. Requests(F) \subseteq Requests(G)
    BY <2>4 DEF Requests
  <2>6. q \in Requests(G)
    BY <1>0, <1>b, <2>2, <2>4 DEF Requests
  <2>7. Events(F) \subseteq Events(G)
    BY <2>4 DEF Events
  <2>8. topic \in Seq(Events(G))
    BY <2>7, SeqMonotonic
  <2>9. bot' \in [Bots -> Requests(G)]
    BY <2>3, <2>5, <2>6
  <2>10. UNCHANGED <<load, clock, live, topic>> /\ 0 \in G
    BY <1>6, <2>4 DEF EnginePlace
  <2>11. Typed(G)'
    BY <2>8, <2>9, <2>10
  <2> QED
    BY <2>11
<1>7. ASSUME NEW b \in load.bots, EngineCancel(b) PROVE Typed(F)'
  <2>1. /\ [bot[b] EXCEPT !.step = "done"] \in Requests(F)
        /\ [bot[b] EXCEPT !.step = "failed"] \in Requests(F)
    BY <1>0, <1>b DEF Requests
  <2>2. bot' \in [Bots -> Requests(F)]
    BY <1>7, <2>1 DEF EngineCancel
  <2> QED
    BY <1>7, <2>2 DEF EngineCancel
<1>8. ASSUME Process PROVE Typed(F)'
  <2>1. Tail(topic) \in Seq(Events(F))
    BY <1>8, HeadTailProperties DEF Process
  <2>2. topic' \in Seq(Events(F))
    BY <1>8, <2>1 DEF Process
  <2> QED
    BY <1>8, <2>2 DEF Process
<1>9. ASSUME UNCHANGED vars PROVE Typed(F)'
  BY <1>9 DEF vars
<1>10. ASSUME Finished PROVE Typed(F)'
  BY <1>10, <1>9 DEF Finished
<1>11. Prices \subseteq Nat /\ Qtys \subseteq Nat /\ 0 \in Nat
  BY ReplayAssumption
<1>12. ASSUME NEW b \in load.bots, NEW side \in Sides, NEW price \in Prices, NEW qty \in Qtys,
              SendOrder(b, "limit", side, price, qty)
       PROVE  Typed(F)'
  BY <1>1, <1>11, <1>12
<1>13. ASSUME NEW b \in load.bots, NEW side \in Sides, NEW qty \in Qtys,
              SendOrder(b, "market", side, 0, qty)
       PROVE  Typed(F)'
  BY <1>1, <1>11, <1>13
<1> HIDE DEF Typed
<1> QED
  BY <1>2, <1>3, <1>4, <1>5, <1>6, <1>7, <1>8, <1>9, <1>10, <1>12, <1>13 DEF Next

\* Validator.Process keeps the book well formed, whatever the event.
LEMMA BookNext ==
    ASSUME NEW F, Typed(F), WellFormed(book), [Next]_vars
    PROVE  WellFormed(book')
<1>1. CASE Process
  <2>1. PICK e \in Events(F) : e = Head(topic)
    BY <1>1, HeadTailProperties DEF Process, Typed
  <2>2. Incoming(e) /\ e.kind \in Kinds
    BY DEF Events, Incoming
  <2>3. CASE e.kind = "cancel"
    <3>1. book' = Cancel(book, e.id)
      BY <1>1, <2>1, <2>3 DEF Process
    <3> QED
      BY <3>1, CancelKeepsBook
  <2>4. CASE e.kind = "market"
    <3>1. book' = PlaceMarket(book, e).book
      BY <1>1, <2>1, <2>4 DEF Process
    <3> QED
      BY <2>2, <3>1, PlaceMarketKeepsBook
  <2>5. CASE e.kind = "limit"
    <3>1. book' = Place(book, e).book
      BY <1>1, <2>1, <2>5 DEF Process
    <3> QED
      BY <2>2, <2>5, <3>1, PlaceKeepsBook
  <2> QED
    BY <2>2, <2>3, <2>4, <2>5 DEF Kinds
<1>2. CASE ~ Process
  <2>1. UNCHANGED book
    BY <1>2 DEF Next, vars, Finished, SendOrder, SendCancel, Fail, Emit, Arrive, EnginePlace, EngineCancel
  <2> QED
    BY <2>1
<1> QED
  BY <1>1, <1>2

LEMMA EmptyBookWellFormed == WellFormed(EmptyBook)
<1>1. EmptyBook \in Books /\ \A side \in Sides : EmptyBook[side] = <<>>
  BY DEF EmptyBook, Books
<1>2. DOMAIN EmptyBook["buy"] = {} /\ \A side \in Sides : DOMAIN EmptyBook[side] = {}
  BY <1>1 DEF Sides
<1> QED
  BY <1>1, <1>2 DEF WellFormed, Sorted, NotCrossed

LEMMA WellFormedIsWhatIsChecked == WellFormed(book) => BookWellFormed
<1> SUFFICES ASSUME WellFormed(book) PROVE BookWellFormed
  OBVIOUS
<1>1. \A side \in Sides : \A i \in DOMAIN book[side] : book[side][i].qty > 0
  <2> SUFFICES ASSUME NEW side \in Sides, NEW i \in DOMAIN book[side]
               PROVE  book[side][i].qty > 0
    OBVIOUS
  <2>1. book[side] \in Seq(Resting)
    BY DEF WellFormed, Books
  <2>2. book[side][i] \in Resting
    BY <2>1, LenProperties
  <2> QED
    BY <2>2 DEF Resting
<1>2. \A side \in Sides : Sorted(side, book[side])
  BY DEF WellFormed
<1> QED
  BY <1>1, <1>2 DEF BookWellFormed, WellFormed, Sorted, NotCrossed

BookInv == WellFormed(book) /\ \E F : Typed(F)

\* However the events of concurrent bots are ordered, lost or repeated, and
\* whatever fills they report, the validator's book keeps price-time priority
\* and is never crossed, and no order in it is exhausted.
THEOREM BookStaysWellFormed == Spec => []BookWellFormed
<1>1. Init => BookInv
  <2>1. Init => book = EmptyBook
    BY DEF Init
  <2> QED
    BY <2>1, TypedInit, EmptyBookWellFormed DEF BookInv
<1>2. BookInv /\ [Next]_vars => BookInv'
  <2> SUFFICES ASSUME BookInv, [Next]_vars PROVE BookInv'
    OBVIOUS
  <2>1. PICK F : Typed(F)
    BY DEF BookInv
  <2>2. WellFormed(book')
    BY <2>1, BookNext DEF BookInv
  <2>3. \E G : Typed(G)'
    BY <2>1, TypedNext
  <2> QED
    BY <2>2, <2>3 DEF BookInv
<1>3. BookInv => BookWellFormed
  BY WellFormedIsWhatIsChecked DEF BookInv
<1> QED
  BY <1>1, <1>2, <1>3, PTL DEF Spec

-----------------------------------------------------------------------------
(* The engine's heaps and the sorted slices of the book.                   *)

\* A resting order as the engine keeps it. While one bot waits for each answer
\* the engine takes its time in the order the bot does.
Img(side, x) == [id |-> x.id, side |-> side, price |-> x.price, rem |-> x.qty, at |-> x.id]
Imgs(side, s) == {Img(side, s[i]) : i \in DOMAIN s}
Image(bk) == UNION {Imgs(side, bk[side]) : side \in Sides}

UniqueIds(s) == \A i, j \in DOMAIN s : s[i].id = s[j].id => i = j
Stamped(s) == \A i \in DOMAIN s : s[i].id = s[i].ts + 1

\* The order of one side of the book is the order of the engine's heap.
LEMMA SortedIsHeapOrder ==
    ASSUME NEW side \in Sides, NEW s \in Seq(Resting),
           Sorted(side, s), UniqueIds(s), Stamped(s),
           NEW i \in DOMAIN s, NEW j \in DOMAIN s, i < j
    PROVE  /\ Less(side, Img(side, s[i]), Img(side, s[j]))
           /\ ~ Less(side, Img(side, s[j]), Img(side, s[i]))
<1>1. s[i] \in Resting /\ s[j] \in Resting /\ i \in Int /\ j \in Int
  BY LenProperties
<1>2. /\ s[i].price \in Nat /\ s[j].price \in Nat /\ s[i].id \in Nat /\ s[j].id \in Nat
      /\ s[i].ts \in Nat /\ s[j].ts \in Nat
  BY <1>1 DEF Resting
<1>3. InPriority(side, s[i], s[j])
  BY DEF Sorted
<1>4. s[i].id # s[j].id
  BY <1>1 DEF UniqueIds
<1>5. s[i].id = s[i].ts + 1 /\ s[j].id = s[j].ts + 1
  BY DEF Stamped
<1>6. /\ Img(side, s[i]).price = s[i].price /\ Img(side, s[i]).at = s[i].id
      /\ Img(side, s[j]).price = s[j].price /\ Img(side, s[j]).at = s[j].id
  BY DEF Img
<1>7. CASE side = "buy"
  BY <1>2, <1>3, <1>4, <1>5, <1>6, <1>7 DEF InPriority, Less
<1>8. CASE side # "buy"
  BY <1>2, <1>3, <1>4, <1>5, <1>6, <1>8 DEF InPriority, Less
<1> QED
  BY <1>7, <1>8

\* The top of the heap is the first order of the side.
LEMMA TopIsFirst ==
    ASSUME NEW side \in Sides, NEW s \in Seq(Resting), s # <<>>,
           Sorted(side, s), UniqueIds(s), Stamped(s)
    PROVE  (CHOOSE x \in Imgs(side, s) : \A y \in Imgs(side, s) : ~ Less(x.side, y, x))
              = Img(side, s[1])
<1>0. Len(s) \in Nat \ {0} /\ DOMAIN s = 1 .. Len(s) /\ 1 \in DOMAIN s
  BY EmptySeq, LenProperties
<1>1. \A i \in DOMAIN s : Img(side, s[i]).side = side
  BY DEF Img
<1>2. \A i \in DOMAIN s : ~ Less(side, Img(side, s[i]), Img(side, s[1]))
  <2> SUFFICES ASSUME NEW i \in DOMAIN s
               PROVE  ~ Less(side, Img(side, s[i]), Img(side, s[1]))
    OBVIOUS
  <2>1. CASE i = 1
    <3>1. s[1] \in Resting
      BY <1>0, ElementOfSeq
    <3>2. Img(side, s[1]).at \in Nat /\ Img(side, s[1]).price \in Nat
      BY <3>1 DEF Img, Resting
    <3> QED
      BY <2>1, <3>2 DEF Less
  <2>2. CASE i # 1
    <3>1. 1 < i
      BY <1>0, <2>2
    <3> QED
      BY <1>0, <3>1, SortedIsHeapOrder
  <2> QED
    BY <2>1, <2>2
<1>3. ASSUME NEW i \in DOMAIN s, i # 1
      PROVE  Less(side, Img(side, s[1]), Img(side, s[i]))
  <2>1. 1 < i
    BY <1>0, <1>3
  <2> QED
    BY <1>0, <2>1, SortedIsHeapOrder
<1> DEFINE Top(x) == x \in Imgs(side, s) /\ \A y \in Imgs(side, s) : ~ Less(x.side, y, x)
<1>4. Top(Img(side, s[1]))
  BY <1>0, <1>1, <1>2 DEF Imgs
<1>5. ASSUME NEW x, Top(x) PROVE x = Img(side, s[1])
  <2>1. PICK i \in DOMAIN s : x = Img(side, s[i])
    BY <1>5 DEF Imgs
  <2>2. x.side = side /\ Img(side, s[1]) \in Imgs(side, s)
    BY <1>0, <1>1, <2>1 DEF Imgs
  <2>3. ~ Less(side, Img(side, s[1]), Img(side, s[i]))
    BY <1>5, <2>1, <2>2
  <2> QED
    BY <1>3, <2>1, <2>3
<1>6. (CHOOSE x : Top(x)) = Img(side, s[1])
  <2> HIDE DEF Top
  <2> QED
    BY <1>4, <1>5
<1> QED
  BY <1>6

LEMMA SuffixKeepsIds ==
    ASSUME NEW s \in Seq(Resting), NEW r \in Seq(Resting), SuffixOf(r, s),
           UniqueIds(s), Stamped(s)
    PROVE  UniqueIds(r) /\ Stamped(r)
<1>0. /\ Len(s) \in Nat /\ DOMAIN s = 1 .. Len(s)
      /\ Len(r) \in Nat /\ DOMAIN r = 1 .. Len(r)
  BY LenProperties
<1>1. PICK d \in Nat : d = Len(s) - Len(r)
  <2>1. Len(r) <= Len(s)
    BY DEF SuffixOf
  <2>2. Len(s) - Len(r) \in Nat
    BY <1>0, <2>1
  <2> QED
    BY <2>2
<1>2. \A j \in DOMAIN r : j + d \in DOMAIN s /\ SameOrder(r[j], s[j + d])
  BY <1>0, <1>1 DEF SuffixOf
<1>3. ASSUME NEW i \in DOMAIN r, NEW j \in DOMAIN r, r[i].id = r[j].id PROVE i = j
  <2>1. s[i + d].id = s[j + d].id
    BY <1>2, <1>3 DEF SameOrder
  <2>2. i + d = j + d
    BY <1>2, <2>1 DEF UniqueIds
  <2> QED
    BY <1>0, <2>2
<1>4. Stamped(r)
  BY <1>2 DEF Stamped, SameOrder
<1> QED
  BY <1>3, <1>4 DEF UniqueIds

\* The first order of a side is its image's only one with that id.
LEMMA ImgsOfTail ==
    ASSUME NEW side \in Sides, NEW s \in Seq(Resting), s # <<>>, UniqueIds(s)
    PROVE  Imgs(side, Tail(s)) = Imgs(side, s) \ {Img(side, s[1])}
<1>0. Len(s) \in Nat \ {0} /\ DOMAIN s = 1 .. Len(s) /\ 1 \in DOMAIN s
  BY EmptySeq, LenProperties
<1>1. PICK t \in Seq(Resting) : t = Tail(s)
  BY HeadTailProperties
<1>2. Len(t) = Len(s) - 1 /\ \A i \in 1 .. Len(t) : t[i] = s[i + 1]
  BY <1>1, HeadTailProperties
<1>3. DOMAIN t = 1 .. Len(s) - 1
  BY <1>2, LenProperties
<1>4. ASSUME NEW i \in DOMAIN t
      PROVE  Img(side, t[i]) \in Imgs(side, s) /\ Img(side, t[i]) # Img(side, s[1])
  <2>1. i + 1 \in DOMAIN s /\ t[i] = s[i + 1] /\ i + 1 # 1
    BY <1>0, <1>2, <1>3
  <2>2. s[i + 1].id # s[1].id
    BY <1>0, <2>1 DEF UniqueIds
  <2>3. Img(side, s[i + 1]).id = s[i + 1].id /\ Img(side, s[1]).id = s[1].id
    BY DEF Img
  <2> QED
    BY <2>1, <2>2, <2>3 DEF Imgs
<1>5. ASSUME NEW i \in DOMAIN s, i # 1 PROVE Img(side, s[i]) \in Imgs(side, t)
  <2>1. i - 1 \in DOMAIN t /\ i - 1 \in 1 .. Len(t) /\ (i - 1) + 1 = i
    BY <1>0, <1>2, <1>3, <1>5
  <2>2. t[i - 1] = s[i]
    BY <1>2, <2>1
  <2> QED
    BY <2>1, <2>2 DEF Imgs
<1>6. Imgs(side, t) \subseteq Imgs(side, s) \ {Img(side, s[1])}
  BY <1>4 DEF Imgs
<1>7. Imgs(side, s) \ {Img(side, s[1])} \subseteq Imgs(side, t)
  BY <1>5 DEF Imgs
<1> QED
  BY <1>1, <1>6, <1>7

\* Replacing the first order replaces its image.
LEMMA ImgsOfHead ==
    ASSUME NEW side \in Sides, NEW s \in Seq(Resting), s # <<>>, UniqueIds(s),
           NEW r \in Seq(Resting), Len(r) = Len(s), \A j \in 2 .. Len(s) : r[j] = s[j]
    PROVE  Imgs(side, r) = (Imgs(side, s) \ {Img(side, s[1])}) \cup {Img(side, r[1])}
<1>0. /\ Len(s) \in Nat \ {0} /\ DOMAIN s = 1 .. Len(s) /\ 1 \in DOMAIN s
      /\ DOMAIN r = 1 .. Len(s)
  BY EmptySeq, LenProperties
<1>1. \A j \in DOMAIN s : j # 1 => r[j] = s[j] /\ Img(side, s[j]) # Img(side, s[1])
  <2> SUFFICES ASSUME NEW j \in DOMAIN s, j # 1
               PROVE  r[j] = s[j] /\ Img(side, s[j]) # Img(side, s[1])
    OBVIOUS
  <2>1. j \in 2 .. Len(s)
    BY <1>0
  <2>2. s[j].id # s[1].id
    BY <1>0 DEF UniqueIds
  <2>3. Img(side, s[j]).id = s[j].id /\ Img(side, s[1]).id = s[1].id
    BY DEF Img
  <2> QED
    BY <2>1, <2>2, <2>3
<1>2. Imgs(side, r) \subseteq (Imgs(side, s) \ {Img(side, s[1])}) \cup {Img(side, r[1])}
  BY <1>0, <1>1 DEF Imgs
<1>3. (Imgs(side, s) \ {Img(side, s[1])}) \cup {Img(side, r[1])} \subseteq Imgs(side, r)
  BY <1>0, <1>1 DEF Imgs
<1> QED
  BY <1>2, <1>3

\* The state of the engine's loop that goes with a state of the book's: K are
\* the orders of the other side.
Eng(K, side, m) == [left |-> m.left, heap |-> K \cup Imgs(side, m.rest)]

SameRequest(q, o) ==
    /\ q.side \in Sides
    /\ o.kind = q.kind /\ o.side = q.side /\ o.price = q.price /\ o.qty = q.qty

\* One round of the engine's loop does what one round of the book's loop does.
LEMMA RoundsAgree ==
    ASSUME NEW q, NEW o, SameRequest(q, o), NEW K, \A x \in K : x.side = q.side,
           NEW m \in LoopStates,
           Sorted(Other(q.side), m.rest), UniqueIds(m.rest), Stamped(m.rest)
    PROVE  EngineRound(q, Eng(K, Other(q.side), m)) = Eng(K, Other(q.side), Round(o, m))
<1>1. PICK opp \in Sides : opp = Other(q.side) /\ opp # q.side
  BY DEF SameRequest, Sides, Other
<1>2. PICK s \in Seq(Resting), left \in Nat : s = m.rest /\ left = m.left
  BY DEF LoopStates
<1>3. PICK e : e = Eng(K, opp, m)
  OBVIOUS
<1>4. e.left = left /\ e.heap = K \cup Imgs(opp, s)
  BY <1>2, <1>3 DEF Eng
<1>5. {x \in e.heap : x.side # q.side} = Imgs(opp, s)
  <2>1. \A x \in Imgs(opp, s) : x.side = opp
    BY DEF Imgs, Img
  <2> QED
    BY <1>1, <1>4, <2>1
<1>6. CASE s = <<>>
  <2>1. Imgs(opp, s) = {}
    BY <1>6 DEF Imgs
  <2>2. EngineRound(q, e) = e
    BY <1>5, <2>1 DEF EngineRound
  <2>3. Round(o, m) = m
    BY <1>2, <1>6 DEF Round
  <2> QED
    BY <1>1, <1>3, <2>2, <2>3
<1>7. CASE s # <<>>
  <2>0. Len(s) \in Nat \ {0} /\ 1 \in DOMAIN s /\ Head(s) = s[1] /\ s[1] \in Resting
    BY <1>7, EmptySeq, LenProperties, ElementOfSeq
  <2>1. PICK top : top = Img(opp, s[1])
    OBVIOUS
  <2>2. (CHOOSE x \in Imgs(opp, s) : \A y \in Imgs(opp, s) : ~ Less(x.side, y, x)) = top
    BY <1>1, <1>2, <1>7, <2>1, TopIsFirst
  <2>3. top \in Imgs(opp, s)
    BY <2>0, <2>1 DEF Imgs
  <2>4. top.price = s[1].price /\ top.rem = s[1].qty
    BY <2>1 DEF Img
  <2>5. Meets(q, top) <=> Crosses(o, s[1])
    BY <2>4 DEF Meets, Crosses, SameRequest
  <2>6. CASE left = 0 \/ ~ Crosses(o, s[1])
    <3>1. EngineRound(q, e) = e
      BY <1>4, <1>5, <2>2, <2>5, <2>6 DEF EngineRound
    <3>2. Round(o, m) = m
      BY <1>2, <2>0, <2>6 DEF Round
    <3> QED
      BY <1>1, <1>3, <3>1, <3>2
  <2>7. CASE left # 0 /\ Crosses(o, s[1])
    <3>1. PICK take : take = min64(left, s[1].qty)
      OBVIOUS
    <3>2. EngineRound(q, e) =
            [left |-> left - take,
             heap |-> (e.heap \ {top}) \cup
                      (IF take = top.rem THEN {} ELSE {[top EXCEPT !.rem = @ - take]})]
      <4> DEFINE opposite == {x \in e.heap : x.side # q.side}
                 best == CHOOSE x \in opposite : \A y \in opposite : ~ Less(x.side, y, x)
                 qty == min64(e.left, best.rem)
      <4>1. EngineRound(q, e) =
              IF e.left = 0 \/ opposite = {} \/ ~ Meets(q, best)
              THEN e
              ELSE [left |-> e.left - qty,
                    heap |-> (e.heap \ {best}) \cup
                             (IF qty = best.rem THEN {} ELSE {[best EXCEPT !.rem = @ - qty]})]
        BY DEF EngineRound
      <4>2. opposite = Imgs(opp, s)
        BY <1>5
      <4>3. best = top
        BY <2>2, <4>2
      <4> HIDE DEF opposite, best
      <4>4. qty = take
        BY <1>4, <2>4, <3>1, <4>3
      <4> HIDE DEF qty
      <4>5. ~ (e.left = 0 \/ opposite = {} \/ ~ Meets(q, best))
        BY <1>4, <2>3, <2>5, <2>7, <4>2, <4>3
      <4> QED
        BY <1>4, <4>1, <4>3, <4>4, <4>5, Zenon
    <3>3. Round(o, m) =
            [left |-> left - take,
             rest |-> IF take = s[1].qty THEN Tail(s) ELSE [s EXCEPT ![1].qty = @ - take]]
      BY <1>2, <1>7, <2>0, <2>7, <3>1 DEF Round
    <3>4. top \notin K
      <4>1. top.side = opp
        BY <2>1 DEF Img
      <4> QED
        BY <1>1, <4>1
    <3>5. e.heap \ {top} = K \cup (Imgs(opp, s) \ {top})
      BY <1>4, <3>4
    <3>6. CASE take = s[1].qty
      <4>1. Imgs(opp, Tail(s)) = Imgs(opp, s) \ {top}
        BY <1>2, <1>7, <2>1, ImgsOfTail
      <4>2. EngineRound(q, e) = [left |-> left - take, heap |-> K \cup Imgs(opp, Tail(s))]
        BY <2>4, <3>2, <3>5, <3>6, <4>1
      <4>3. Round(o, m) = [left |-> left - take, rest |-> Tail(s)]
        BY <3>3, <3>6
      <4> QED
        BY <1>1, <1>3, <4>2, <4>3 DEF Eng
    <3>7. CASE take # s[1].qty
      <4>0. s[1].qty \in Nat \ {0}
        BY <2>0 DEF Resting
      <4>1. take = left /\ s[1].qty - take \in Nat \ {0}
        BY <3>1, <3>7, <4>0 DEF min64
      <4>2. PICK part : part = [s[1] EXCEPT !.qty = @ - take]
        OBVIOUS
      <4>3. part \in Resting
        BY <2>0, <4>1, <4>2 DEF Resting
      <4>4. PICK r : r = [s EXCEPT ![1] = part]
        OBVIOUS
      <4>5. /\ r \in Seq(Resting)
            /\ Len(r) = Len(s)
            /\ \A j \in 1 .. Len(s) : r[j] = IF j = 1 THEN part ELSE s[j]
        <5>1. 1 \in 1 .. Len(s)
          BY <2>0
        <5> QED
          BY <4>3, <4>4, <5>1, ExceptSeq
      <4>6. r[1] = part /\ \A j \in 2 .. Len(s) : r[j] = s[j]
        BY <2>0, <4>5
      <4>7. [s EXCEPT ![1].qty = @ - take] = r
        BY <4>2, <4>4
      <4>8. Img(opp, part) = [top EXCEPT !.rem = @ - take]
        <5>1. /\ part.id = s[1].id /\ part.price = s[1].price
              /\ part.qty = s[1].qty - take
          BY <2>0, <4>2 DEF Resting
        <5> QED
          BY <2>1, <5>1 DEF Img
      <4>9. Imgs(opp, r) = (Imgs(opp, s) \ {top}) \cup {Img(opp, part)}
        BY <1>2, <1>7, <2>1, <4>5, <4>6, ImgsOfHead
      <4>10. EngineRound(q, e) = [left |-> left - take, heap |-> K \cup Imgs(opp, r)]
        <5>1. (e.heap \ {top}) \cup (IF take = top.rem THEN {} ELSE {[top EXCEPT !.rem = @ - take]})
                = K \cup Imgs(opp, r)
          BY <2>4, <3>5, <3>7, <4>8, <4>9
        <5> QED
          BY <3>2, <5>1
      <4>11. Round(o, m) = [left |-> left - take, rest |-> r]
        BY <3>3, <3>7, <4>7
      <4> QED
        BY <1>1, <1>3, <4>10, <4>11 DEF Eng
    <3> QED
      BY <3>6, <3>7
  <2> QED
    BY <2>6, <2>7
<1> QED
  BY <1>6, <1>7

\* The engine's matching loop ends where the book's does.
LEMMA MatchesAgree ==
    ASSUME NEW q, NEW o, SameRequest(q, o), o.qty \in Nat, NEW K, \A x \in K : x.side = q.side,
           NEW rest \in Seq(Resting),
           Sorted(Other(q.side), rest), UniqueIds(rest), Stamped(rest),
           heap = K \cup Imgs(Other(q.side), rest)
    PROVE  EngineMatch(q) = Eng(K, Other(q.side), Match(o, rest))
<1>1. PICK opp \in Sides : opp = Other(q.side)
  BY DEF SameRequest, Sides, Other
<1>2. PICK n \in Nat : n = o.qty /\ n = q.qty
  BY DEF SameRequest
<1> DEFINE S == {m \in LoopStates : SuffixOf(m.rest, rest)}
<1>3. [left |-> o.qty, rest |-> rest] \in S
  <2>1. [left |-> o.qty, rest |-> rest] \in LoopStates
    BY DEF LoopStates
  <2>2. SuffixOf(rest, rest)
    <3>1. Len(rest) \in Nat
      BY LenProperties
    <3>2. \A j \in 1 .. Len(rest) : j + (Len(rest) - Len(rest)) = j
      BY <3>1
    <3>3. \A j \in 1 .. Len(rest) : SameOrder(rest[j], rest[j + (Len(rest) - Len(rest))])
      BY <3>2 DEF SameOrder
    <3> QED
      BY <3>1, <3>3 DEF SuffixOf
  <2> QED
    BY <2>1, <2>2
<1>4. \A m \in S : Round(o, m) \in S
  <2> SUFFICES ASSUME NEW m \in S PROVE Round(o, m) \in S
    OBVIOUS
  <2>1. Round(o, m) \in LoopStates
    BY RoundStuck, RoundTakes
  <2>2. SuffixOf(Round(o, m).rest, rest)
    BY RoundKeepsSuffix
  <2> QED
    BY <2>1, <2>2
<1>5. PICK at \in [0 .. o.qty -> S] :
         /\ at[0] = [left |-> o.qty, rest |-> rest]
         /\ \A i \in 1 .. o.qty : at[i] = Round(o, at[i - 1])
         /\ Match(o, rest) = at[o.qty]
  <2> HIDE DEF S
  <2> QED
    BY <1>3, <1>4, MatchRounds
<1>6. \A m \in S : EngineRound(q, Eng(K, opp, m)) = Eng(K, opp, Round(o, m))
  <2> SUFFICES ASSUME NEW m \in S PROVE EngineRound(q, Eng(K, opp, m)) = Eng(K, opp, Round(o, m))
    OBVIOUS
  <2>1. m \in LoopStates /\ m.rest \in Seq(Resting) /\ SuffixOf(m.rest, rest)
    BY DEF LoopStates
  <2>2. Sorted(opp, m.rest)
    BY <1>1, <2>1, SuffixKeepsSorted
  <2>3. UniqueIds(m.rest) /\ Stamped(m.rest)
    BY <2>1, SuffixKeepsIds
  <2> QED
    BY <1>1, <2>1, <2>2, <2>3, RoundsAgree
<1> DEFINE start == [left |-> q.qty, heap |-> heap]
           body(h) == [i \in 0 .. q.qty |-> IF i = 0 THEN start ELSE EngineRound(q, h[i - 1])]
           eat == CHOOSE h : h = body(h)
<1>7. start = Eng(K, opp, at[0])
  <2>1. at[0].left = q.qty /\ at[0].rest = rest
    <3>1. at[0] = [left |-> o.qty, rest |-> rest]
      BY <1>5
    <3>2. o.qty = q.qty
      BY <1>2
    <3> QED
      BY <3>1, <3>2
  <2>2. heap = K \cup Imgs(opp, rest)
    BY <1>1
  <2> QED
    BY <2>1, <2>2 DEF Eng
<1>8. ASSUME NEW i \in 1 .. n PROVE i - 1 \in 0 .. n /\ at[i - 1] \in S
  <2>1. i - 1 \in 0 .. n
    OBVIOUS
  <2>2. at \in [0 .. n -> S]
    BY <1>2, <1>5
  <2>3. at[i - 1] \in S
    BY <2>1, <2>2, Zenon
  <2> QED
    BY <2>1, <2>3
<1>9. \A i \in 1 .. n : Eng(K, opp, at[i]) = EngineRound(q, Eng(K, opp, at[i - 1]))
  BY <1>2, <1>5, <1>6, <1>8
<1>10. \E h : h = body(h)
  <2>1. PICK g : g = [i \in 0 .. n |-> Eng(K, opp, at[i])]
    OBVIOUS
  <2>2. g[0] = start
    BY <1>7, <2>1
  <2>3. \A i \in 1 .. n : g[i] = EngineRound(q, g[i - 1])
    BY <1>8, <1>9, <2>1
  <2>4. \A i \in 0 .. n : i = 0 \/ i \in 1 .. n
    OBVIOUS
  <2> HIDE DEF start
  <2>5. \A i \in 0 .. n : g[i] = IF i = 0 THEN start ELSE EngineRound(q, g[i - 1])
    BY <2>2, <2>3, <2>4
  <2>6. g = [i \in 0 .. n |-> g[i]]
    BY <2>1
  <2>7. g = body(g)
    BY <1>2, <2>5, <2>6
  <2> QED
    BY <2>7
<1>11. eat = body(eat)
  <2> HIDE DEF body
  <2> QED
    BY <1>10
<1>12. EngineMatch(q) = eat[n]
  BY <1>2 DEF EngineMatch
<1> HIDE DEF eat
<1>13. eat[0] = start /\ \A i \in 1 .. n : eat[i] = EngineRound(q, eat[i - 1])
  <2> HIDE DEF start
  <2> QED
    BY <1>2, <1>11
<1> DEFINE P == {i \in 0 .. n : eat[i] = Eng(K, opp, at[i])}
<1>14. 0 \in P
  BY <1>7, <1>13
<1>15. ASSUME NEW i \in 0 .. n, i < n, i \in P PROVE i + 1 \in P
  <2>1. i + 1 \in 1 .. n /\ i + 1 \in 0 .. n /\ (i + 1) - 1 = i
    BY <1>15
  <2>2. eat[i + 1] = EngineRound(q, eat[i])
    BY <1>13, <2>1
  <2>3. Eng(K, opp, at[i + 1]) = EngineRound(q, Eng(K, opp, at[i]))
    BY <1>9, <2>1
  <2> QED
    BY <1>15, <2>1, <2>2, <2>3
<1>16. 0 .. n \subseteq P
  <2>1. \A i \in 0 .. n : i < n /\ i \in P => i + 1 \in P
    BY <1>15
  <2> HIDE DEF P
  <2> QED
    BY <1>14, <2>1, InductionUpTo
<1>17. eat[n] = Eng(K, opp, at[n])
  BY <1>16
<1> QED
  BY <1>1, <1>2, <1>5, <1>12, <1>17

-----------------------------------------------------------------------------
(* A book that mirrors the engine.                                         *)

\* No id rests on both sides.
Apart(bk) ==
    \A s, t \in Sides : s # t =>
        \A i \in DOMAIN bk[s], j \in DOMAIN bk[t] : bk[s][i].id # bk[t][j].id

Mirror(bk, h) ==
    /\ WellFormed(bk)
    /\ \A side \in Sides : UniqueIds(bk[side]) /\ Stamped(bk[side])
    /\ Apart(bk)
    /\ h = Image(bk)

LEMMA ImageOfTwoSides ==
    ASSUME NEW bk, NEW own \in Sides, NEW opp \in Sides, own # opp
    PROVE  Image(bk) = Imgs(own, bk[own]) \cup Imgs(opp, bk[opp])
<1>1. \A side \in Sides : side = own \/ side = opp
  BY DEF Sides
<1> QED
  BY <1>1 DEF Image

\* Inserting an order with a new id adds its image.
LEMMA InsertAddsImage ==
    ASSUME NEW side \in Sides, NEW s \in Seq(Resting),
           Sorted(side, s), UniqueIds(s), Stamped(s),
           NEW o \in Resting, o.id = o.ts + 1, \A i \in DOMAIN s : s[i].id # o.id
    PROVE  /\ UniqueIds(Insert(side, s, o))
           /\ Stamped(Insert(side, s, o))
           /\ Imgs(side, Insert(side, s, o)) = Imgs(side, s) \cup {Img(side, o)}
<1>0. Len(s) \in Nat /\ DOMAIN s = 1 .. Len(s)
  BY LenProperties
<1>1. PICK k \in 1 .. Len(s) + 1 : k = Search(side, s, o)
  BY SearchSplits
<1>2. PICK r : r = InsertAt(s, k, o)
  OBVIOUS
<1>3. InsertedAt(r, Resting, s, k, o)
  BY <1>2, InsertAtProperties
<1>4. Insert(side, s, o) = r
  BY <1>1, <1>2 DEF Insert
<1>5. DOMAIN r = 1 .. Len(s) + 1
  BY <1>0, <1>3, LenProperties DEF InsertedAt
<1>6. \A j \in DOMAIN r : r[j] = IF j < k THEN s[j] ELSE IF j = k THEN o ELSE s[j - 1]
  BY <1>3, <1>5 DEF InsertedAt
<1>7. \A j \in DOMAIN r : j = k \/ (j < k /\ j \in DOMAIN s) \/ (j > k /\ j - 1 \in DOMAIN s)
  BY <1>0, <1>5
<1>8. ASSUME NEW i \in DOMAIN r, NEW j \in DOMAIN r, r[i].id = r[j].id PROVE i = j
  <2>0. i \in Int /\ j \in Int /\ k \in Int
    BY <1>0, <1>5
  <2>1. CASE i = k
    <3>1. r[i] = o
      BY <1>6, <2>0, <2>1
    <3>2. CASE j < k
      <4>1. r[j] = s[j] /\ j \in DOMAIN s
        BY <1>0, <1>5, <1>6, <3>2
      <4> QED
        BY <1>8, <3>1, <4>1
    <3>3. CASE j > k
      <4>1. r[j] = s[j - 1] /\ j - 1 \in DOMAIN s
        BY <1>0, <1>5, <1>6, <3>3
      <4> QED
        BY <1>8, <3>1, <4>1
    <3> QED
      BY <2>0, <2>1, <3>2, <3>3
  <2>2. CASE j = k
    <3>1. r[j] = o
      BY <1>6, <2>0, <2>2
    <3>2. CASE i < k
      <4>1. r[i] = s[i] /\ i \in DOMAIN s
        BY <1>0, <1>5, <1>6, <3>2
      <4> QED
        BY <1>8, <3>1, <4>1
    <3>3. CASE i > k
      <4>1. r[i] = s[i - 1] /\ i - 1 \in DOMAIN s
        BY <1>0, <1>5, <1>6, <3>3
      <4> QED
        BY <1>8, <3>1, <4>1
    <3> QED
      BY <2>0, <2>2, <3>2, <3>3
  <2>3. CASE i # k /\ j # k
    <3>1. PICK c \in DOMAIN s : r[i] = s[c] /\ c = IF i < k THEN i ELSE i - 1
      BY <1>0, <1>5, <1>6, <1>7, <2>0, <2>3
    <3>2. PICK d \in DOMAIN s : r[j] = s[d] /\ d = IF j < k THEN j ELSE j - 1
      BY <1>0, <1>5, <1>6, <1>7, <2>0, <2>3
    <3>3. c = d
      BY <1>8, <3>1, <3>2 DEF UniqueIds
    <3> QED
      BY <2>0, <2>3, <3>1, <3>2, <3>3
  <2> QED
    BY <2>1, <2>2, <2>3
<1>9. UniqueIds(r)
  BY <1>8 DEF UniqueIds
<1>10. Stamped(r)
  <2>1. \A j \in DOMAIN r : r[j] = o \/ \E i \in DOMAIN s : r[j] = s[i]
    BY <1>4, InsertKeepsSorted
  <2> QED
    BY <2>1 DEF Stamped
<1>11. Imgs(side, r) \subseteq Imgs(side, s) \cup {Img(side, o)}
  BY <1>6, <1>7 DEF Imgs
<1>12. Imgs(side, s) \cup {Img(side, o)} \subseteq Imgs(side, r)
  <2>1. Img(side, o) \in Imgs(side, r)
    <3>1. k \in DOMAIN r /\ r[k] = o
      BY <1>5, <1>6
    <3> QED
      BY <3>1 DEF Imgs
  <2>2. ASSUME NEW i \in DOMAIN s PROVE Img(side, s[i]) \in Imgs(side, r)
    <3>1. PICK j \in DOMAIN r : j = IF i < k THEN i ELSE i + 1
      BY <1>0, <1>5
    <3>2. r[j] = s[i]
      <4>1. CASE i < k
        BY <1>0, <1>6, <3>1, <4>1
      <4>2. CASE i >= k
        <5>1. j = i + 1 /\ j > k /\ j - 1 = i
          BY <1>0, <3>1, <4>2
        <5> QED
          BY <1>6, <5>1
      <4> QED
        BY <1>0, <4>1, <4>2
    <3> QED
      BY <3>2 DEF Imgs
  <2> QED
    BY <2>1, <2>2 DEF Imgs
<1> QED
  BY <1>4, <1>9, <1>10, <1>11, <1>12

\* Matching: the book's side and the engine's heap stay images of each other.
LEMMA MatchMirrors ==
    ASSUME NEW bk, Mirror(bk, heap), NEW q, NEW o, SameRequest(q, o), Incoming(o)
    PROVE  /\ EngineMatch(q).left = Match(o, bk[Other(o.side)]).left
           /\ Mirror([bk EXCEPT ![Other(o.side)] = Match(o, bk[Other(o.side)]).rest],
                     EngineMatch(q).heap)
           /\ \A x \in EngineMatch(q).heap : \E y \in heap : x.id = y.id
<1>1. PICK opp \in Sides, own \in Sides : opp = Other(o.side) /\ own = o.side /\ own # opp
  BY DEF Incoming, Sides, Other
<1>2. own = q.side /\ opp = Other(q.side)
  BY <1>1 DEF SameRequest
<1>3. PICK rest \in Seq(Resting) : rest = bk[opp]
  BY DEF Mirror, WellFormed, Books
<1>4. Sorted(opp, rest) /\ UniqueIds(rest) /\ Stamped(rest)
  BY <1>3 DEF Mirror, WellFormed
<1>5. PICK K : K = Imgs(own, bk[own])
  OBVIOUS
<1>6. \A x \in K : x.side = q.side
  BY <1>2, <1>5 DEF Imgs, Img
<1>7. heap = K \cup Imgs(opp, rest)
  BY <1>1, <1>3, <1>5, ImageOfTwoSides DEF Mirror
<1>8. PICK m \in LoopStates : m = Match(o, rest) /\ SuffixOf(m.rest, rest)
  BY MatchResult DEF Incoming
<1>9. EngineMatch(q) = Eng(K, opp, m)
  BY <1>2, <1>4, <1>6, <1>7, <1>8, MatchesAgree DEF Incoming
<1>10. EngineMatch(q).left = m.left /\ EngineMatch(q).heap = K \cup Imgs(opp, m.rest)
  BY <1>9 DEF Eng
<1>11. PICK mid : mid = [bk EXCEPT ![opp] = m.rest]
  OBVIOUS
<1>12. mid[opp] = m.rest /\ mid[own] = bk[own] /\ m.rest \in Seq(Resting)
  BY <1>1, <1>11 DEF Mirror, WellFormed, Books, LoopStates
<1>13. WellFormed(mid)
  BY <1>1, <1>3, <1>8, <1>11, MatchKeepsBook DEF Mirror
<1>14. UniqueIds(m.rest) /\ Stamped(m.rest)
  BY <1>4, <1>8, <1>12, SuffixKeepsIds
<1>15. \A j \in DOMAIN m.rest : \E i \in DOMAIN rest : m.rest[j].id = rest[i].id
  <2>1. \A j \in DOMAIN m.rest : \E i \in DOMAIN rest : SameOrder(m.rest[j], rest[i])
    BY <1>4, <1>8, <1>12, SuffixKeepsSorted
  <2> QED
    BY <2>1 DEF SameOrder
<1>16. \A side \in Sides : side = own \/ side = opp
  BY <1>1 DEF Sides
<1>17. Apart(mid)
  <2>1. \A i \in DOMAIN bk[own], j \in DOMAIN bk[opp] : bk[own][i].id # bk[opp][j].id
    BY <1>1 DEF Mirror, Apart
  <2>2. \A i \in DOMAIN mid[own], j \in DOMAIN mid[opp] : mid[own][i].id # mid[opp][j].id
    BY <1>3, <1>12, <1>15, <2>1
  <2> QED
    BY <1>16, <2>2 DEF Apart
<1>18. \A side \in Sides : UniqueIds(mid[side]) /\ Stamped(mid[side])
  BY <1>12, <1>14, <1>16 DEF Mirror
<1>19. EngineMatch(q).heap = Image(mid)
  BY <1>1, <1>5, <1>10, <1>12, ImageOfTwoSides
<1>20. \A x \in EngineMatch(q).heap : \E y \in heap : x.id = y.id
  <2>1. ASSUME NEW x \in Imgs(opp, m.rest) PROVE \E y \in heap : x.id = y.id
    <3>1. PICK j \in DOMAIN m.rest : x = Img(opp, m.rest[j])
      BY DEF Imgs
    <3>2. PICK i \in DOMAIN rest : m.rest[j].id = rest[i].id
      BY <1>15
    <3>3. Img(opp, rest[i]) \in heap /\ Img(opp, rest[i]).id = rest[i].id /\ x.id = m.rest[j].id
      BY <1>7, <3>1 DEF Imgs, Img
    <3> QED
      BY <3>2, <3>3
  <2> QED
    BY <1>7, <1>10, <2>1
<1> QED
  BY <1>1, <1>3, <1>8, <1>10, <1>11, <1>13, <1>17, <1>18, <1>19, <1>20 DEF Mirror

\* Resting the remainder: the insertion on one side, the push on the other.
LEMMA RestMirrors ==
    ASSUME NEW bk, NEW h, Mirror(bk, h), NEW side \in Sides, NEW o \in Resting,
           o.id = o.ts + 1, \A x \in h : x.id # o.id,
           NEW new, new = [bk EXCEPT ![side] = Insert(side, @, o)], WellFormed(new)
    PROVE  Mirror(new, h \cup {Img(side, o)})
<1>1. PICK opp \in Sides : opp = Other(side) /\ opp # side
  BY DEF Sides, Other
<1>2. PICK s \in Seq(Resting) : s = bk[side]
  BY DEF Mirror, WellFormed, Books
<1>3. Sorted(side, s) /\ UniqueIds(s) /\ Stamped(s)
  BY <1>2 DEF Mirror, WellFormed
<1>4. h = Imgs(side, s) \cup Imgs(opp, bk[opp])
  BY <1>1, <1>2, ImageOfTwoSides DEF Mirror
<1>5. \A x \in Sides : \A i \in DOMAIN bk[x] : bk[x][i].id # o.id
  <2> SUFFICES ASSUME NEW x \in Sides, NEW i \in DOMAIN bk[x] PROVE bk[x][i].id # o.id
    OBVIOUS
  <2>1. Img(x, bk[x][i]) \in h
    BY DEF Mirror, Image, Imgs
  <2>2. Img(x, bk[x][i]).id = bk[x][i].id
    BY DEF Img
  <2> QED
    BY <2>1, <2>2
<1>6. PICK r : r = Insert(side, s, o)
  OBVIOUS
<1>7. /\ UniqueIds(r) /\ Stamped(r)
      /\ Imgs(side, r) = Imgs(side, s) \cup {Img(side, o)}
  BY <1>2, <1>3, <1>5, <1>6, InsertAddsImage
<1>8. \A j \in DOMAIN r : r[j] = o \/ \E i \in DOMAIN s : r[j] = s[i]
  BY <1>3, <1>6, InsertKeepsSorted
<1>9. new[side] = r /\ new[opp] = bk[opp]
  BY <1>1, <1>2, <1>6 DEF Mirror, WellFormed, Books
<1>10. \A x \in Sides : x = side \/ x = opp
  BY <1>1 DEF Sides
<1>11. Apart(new)
  <2>1. \A i \in DOMAIN bk[side], j \in DOMAIN bk[opp] : bk[side][i].id # bk[opp][j].id
    BY <1>1 DEF Mirror, Apart
  <2>2. \A i \in DOMAIN new[side], j \in DOMAIN new[opp] : new[side][i].id # new[opp][j].id
    BY <1>2, <1>5, <1>8, <1>9, <2>1
  <2> QED
    BY <1>10, <2>2 DEF Apart
<1>12. \A x \in Sides : UniqueIds(new[x]) /\ Stamped(new[x])
  BY <1>7, <1>9, <1>10 DEF Mirror
<1>13. Image(new) = h \cup {Img(side, o)}
  <2>1. Image(new) = Imgs(side, new[side]) \cup Imgs(opp, new[opp])
    BY <1>1, ImageOfTwoSides
  <2> QED
    BY <1>4, <1>7, <1>9, <2>1
<1> QED
  BY <1>11, <1>12, <1>13 DEF Mirror

\* A cancel takes the order with the id out of both, if it rests.
LEMMA CancelMirrors ==
    ASSUME NEW bk, NEW h, Mirror(bk, h), NEW id
    PROVE  Mirror(Cancel(bk, id), {x \in h : x.id # id})
<1> DEFINE found == [side \in Sides |-> {i \in DOMAIN bk[side] : bk[side][i].id = id}]
           kept == {x \in h : x.id # id}
<1>1. PICK side \in Sides : side = IF found["buy"] # {} THEN "buy" ELSE "sell"
  BY DEF Sides
<1>2. Cancel(bk, id) = IF found[side] = {} THEN bk
                       ELSE [bk EXCEPT ![side] = RemoveAt(@, Min(found[side]))]
  BY <1>1 DEF Cancel
<1>3. PICK opp \in Sides : opp = Other(side) /\ opp # side
  BY DEF Sides, Other
<1>4. \A x \in Sides : x = side \/ x = opp
  BY <1>3 DEF Sides
<1>5. PICK s \in Seq(Resting), t \in Seq(Resting) : s = bk[side] /\ t = bk[opp]
  BY DEF Mirror, WellFormed, Books
<1>6. h = Imgs(side, s) \cup Imgs(opp, t)
  BY <1>3, <1>5, ImageOfTwoSides DEF Mirror
<1>7. \A x \in Imgs(opp, t) : x.id # id
  <2>1. ASSUME NEW j \in DOMAIN t PROVE t[j].id # id
    <3>1. CASE found[side] # {}
      <4>1. PICK i \in DOMAIN s : s[i].id = id
        BY <1>5, <3>1
      <4>2. bk[side][i].id # bk[opp][j].id
        BY <1>3, <1>5 DEF Mirror, Apart
      <4> QED
        BY <1>5, <4>1, <4>2
    <3>2. CASE found[side] = {}
      <4>1. side = "sell" /\ found["buy"] = {}
        BY <1>1, <3>2
      <4>2. opp = "buy"
        BY <1>3, <4>1 DEF Sides
      <4> QED
        BY <1>5, <4>1, <4>2
    <3> QED
      BY <3>1, <3>2
  <2> QED
    BY <2>1 DEF Imgs, Img
<1>8. CASE found[side] = {}
  <2>1. \A i \in DOMAIN s : s[i].id # id
    BY <1>5, <1>8
  <2>2. \A x \in Imgs(side, s) : x.id # id
    BY <2>1 DEF Imgs, Img
  <2>3. kept = h
    BY <1>6, <1>7, <2>2
  <2> QED
    BY <1>2, <1>8, <2>3
<1>9. CASE found[side] # {}
  <2>1. Len(s) \in Nat /\ DOMAIN s = 1 .. Len(s)
    BY LenProperties
  <2>2. PICK k \in DOMAIN s : k = Min(found[side]) /\ s[k].id = id
    <3>1. found[side] \in SUBSET Nat
      BY <1>5, <2>1
    <3>2. Min(found[side]) \in found[side]
      <4> HIDE DEF found
      <4> QED
        BY <1>9, <3>1, MinIsLeast
    <3> QED
      BY <1>5, <3>2
  <2>3. PICK r : r = RemoveAt(s, k)
    OBVIOUS
  <2>4. RemovedAt(r, Resting, s, k)
    BY <2>1, <2>3, RemoveAtProperties
  <2>5. r \in Seq(Resting) /\ DOMAIN r = 1 .. Len(s) - 1
    BY <2>4, LenProperties DEF RemovedAt
  <2>6. PICK new : new = Cancel(bk, id)
    OBVIOUS
  <2>7. new = [bk EXCEPT ![side] = r]
    BY <1>2, <1>5, <1>9, <2>2, <2>3, <2>6
  <2>8. new[side] = r /\ new[opp] = t
    BY <1>3, <1>5, <2>7 DEF Mirror, WellFormed, Books
  <2>9. WellFormed(new)
    BY <2>6, CancelKeepsBook DEF Mirror
  <2>10. ASSUME NEW j \in DOMAIN r
         PROVE  \E i \in DOMAIN s : i # k /\ i = (IF j < k THEN j ELSE j + 1) /\ r[j] = s[i]
    <3>1. r[j] = IF j < k THEN s[j] ELSE s[j + 1]
      BY <2>4, <2>5 DEF RemovedAt
    <3>2. CASE j < k
      <4>1. j \in DOMAIN s /\ j # k /\ r[j] = s[j]
        BY <2>1, <2>5, <3>1, <3>2
      <4> QED
        BY <3>2, <4>1
    <3>3. CASE j >= k
      <4>1. j + 1 \in DOMAIN s /\ j + 1 # k /\ r[j] = s[j + 1] /\ ~ (j < k)
        BY <2>1, <2>5, <3>1, <3>3
      <4> QED
        BY <4>1
    <3> QED
      BY <2>1, <2>5, <3>2, <3>3
  <2>11. ASSUME NEW i \in DOMAIN s, i # k PROVE \E j \in DOMAIN r : r[j] = s[i]
    <3>1. CASE i < k
      <4>1. i \in DOMAIN r /\ r[i] = s[i]
        BY <2>1, <2>4, <2>5, <3>1 DEF RemovedAt
      <4> QED
        BY <4>1
    <3>2. CASE i > k
      <4>1. i - 1 \in DOMAIN r /\ ~ (i - 1 < k) /\ (i - 1) + 1 = i
        BY <2>1, <2>5, <3>2
      <4>2. r[i - 1] = s[i]
        BY <2>4, <2>5, <4>1 DEF RemovedAt
      <4> QED
        BY <4>1, <4>2
    <3> QED
      BY <2>1, <2>11, <3>1, <3>2
  <2>12. UniqueIds(s) /\ Stamped(s)
    BY <1>5 DEF Mirror
  <2>13. UniqueIds(r)
    <3> SUFFICES ASSUME NEW i \in DOMAIN r, NEW j \in DOMAIN r, r[i].id = r[j].id PROVE i = j
      BY DEF UniqueIds
    <3>1. PICK c \in DOMAIN s : c = (IF i < k THEN i ELSE i + 1) /\ r[i] = s[c]
      BY <2>10
    <3>2. PICK d \in DOMAIN s : d = (IF j < k THEN j ELSE j + 1) /\ r[j] = s[d]
      BY <2>10
    <3>3. c = d
      BY <2>12, <3>1, <3>2 DEF UniqueIds
    <3> QED
      BY <2>1, <2>5, <3>1, <3>2, <3>3
  <2>14. Stamped(r)
    BY <2>10, <2>12 DEF Stamped
  <2>15. Apart(new)
    <3>1. \A i \in DOMAIN s, j \in DOMAIN t : s[i].id # t[j].id
      BY <1>3, <1>5 DEF Mirror, Apart
    <3>2. \A i \in DOMAIN new[side], j \in DOMAIN new[opp] : new[side][i].id # new[opp][j].id
      BY <2>8, <2>10, <3>1
    <3> QED
      BY <1>4, <3>2 DEF Apart
  <2>16. \A x \in Sides : UniqueIds(new[x]) /\ Stamped(new[x])
    BY <1>4, <1>5, <2>8, <2>13, <2>14 DEF Mirror
  <2>17. Imgs(side, r) = {x \in Imgs(side, s) : x.id # id}
    <3>1. ASSUME NEW j \in DOMAIN r
          PROVE  Img(side, r[j]) \in Imgs(side, s) /\ Img(side, r[j]).id # id
      <4>1. PICK i \in DOMAIN s : i # k /\ r[j] = s[i]
        BY <2>10
      <4>2. s[i].id # id
        BY <2>2, <2>12, <4>1 DEF UniqueIds
      <4> QED
        BY <4>1, <4>2 DEF Imgs, Img
    <3>2. ASSUME NEW i \in DOMAIN s, Img(side, s[i]).id # id
          PROVE  Img(side, s[i]) \in Imgs(side, r)
      <4>1. i # k
        BY <2>2, <3>2 DEF Img
      <4>2. PICK j \in DOMAIN r : r[j] = s[i]
        BY <2>11, <4>1
      <4> QED
        BY <4>2 DEF Imgs
    <3> QED
      BY <3>1, <3>2 DEF Imgs
  <2>18. Image(new) = Imgs(side, r) \cup Imgs(opp, t)
    BY <1>3, <2>8, ImageOfTwoSides
  <2>19. kept = Image(new)
    BY <1>6, <1>7, <2>17, <2>18
  <2> QED
    BY <2>6, <2>9, <2>15, <2>16, <2>19 DEF Mirror
<1> QED
  BY <1>8, <1>9

\* The engine's heap after OrderBook.Place or OrderBook.PlaceMarket.
EngineHeap(q) ==
    LET m == EngineMatch(q)
        own == [id |-> q.id, side |-> q.side, price |-> q.price, rem |-> m.left, at |-> q.at]
    IN  IF q.kind = "limit" /\ m.left > 0 THEN m.heap \cup {own} ELSE m.heap

\* The book's Place fills what the engine's does and rests what it rests.
LEMMA PlaceMirrors ==
    ASSUME NEW bk, Mirror(bk, heap), NEW q, NEW o, SameRequest(q, o), Incoming(o),
           o.kind = "limit", o.id = q.id, q.at = q.id, o.id = o.ts + 1,
           \A x \in heap : x.id # o.id
    PROVE  /\ Place(bk, o).filled = q.qty - EngineMatch(q).left
           /\ Mirror(Place(bk, o).book, EngineHeap(q))
<1>1. PICK opp \in Sides, own \in Sides : opp = Other(o.side) /\ own = o.side /\ own # opp
  BY DEF Incoming, Sides, Other
<1>2. PICK m \in LoopStates : m = Match(o, bk[opp])
  <2>1. bk[opp] \in Seq(Resting)
    BY DEF Mirror, WellFormed, Books
  <2> QED
    BY <2>1, MatchResult DEF Incoming
<1>3. PICK mid : mid = [bk EXCEPT ![opp] = m.rest]
  OBVIOUS
<1>4. PICK eh : eh = EngineMatch(q).heap
  OBVIOUS
<1>5. EngineMatch(q).left = m.left /\ Mirror(mid, eh) /\ \A x \in eh : \E y \in heap : x.id = y.id
  BY <1>1, <1>2, <1>3, <1>4, MatchMirrors
<1>6. Place(bk, o).filled = q.qty - EngineMatch(q).left
  BY <1>1, <1>2, <1>5 DEF Place, SameRequest
<1>7. PICK rem : rem = [id |-> o.id, price |-> o.price, qty |-> m.left, ts |-> o.ts]
  OBVIOUS
<1>8. PICK new : new = Place(bk, o).book
  OBVIOUS
<1>9. new = [bk EXCEPT ![opp] = m.rest,
                       ![own] = IF m.left > 0 THEN Insert(own, @, rem) ELSE @]
  BY <1>1, <1>2, <1>7, <1>8 DEF Place
<1>10. bk \in Books /\ WellFormed(new)
  BY <1>8, PlaceKeepsBook DEF Mirror, WellFormed
<1>11. CASE m.left = 0
  <2>1. ~ (m.left > 0)
    BY <1>11
  <2>2. new = mid
    BY <1>1, <1>3, <1>9, <1>10, <2>1 DEF Books
  <2>3. EngineHeap(q) = eh
    BY <1>4, <1>5, <2>1 DEF EngineHeap
  <2> QED
    BY <1>5, <1>6, <1>8, <2>2, <2>3
<1>12. CASE m.left > 0
  <2>1. rem \in Resting /\ rem.id = o.id /\ rem.ts = o.ts
    BY <1>7, <1>12 DEF Resting, Incoming, LoopStates
  <2>2. mid[own] = bk[own] /\ mid \in Books
    BY <1>1, <1>3, <1>5, <1>10 DEF Books, Mirror, WellFormed
  <2>3. new = [mid EXCEPT ![own] = Insert(own, @, rem)]
    BY <1>1, <1>3, <1>9, <1>10, <1>12, <2>2 DEF Books
  <2>4. \A x \in eh : x.id # rem.id
    BY <1>5, <2>1
  <2>5. Mirror(new, eh \cup {Img(own, rem)})
    BY <1>5, <1>10, <2>1, <2>3, <2>4, RestMirrors
  <2>6. Img(own, rem) = [id |-> q.id, side |-> q.side, price |-> q.price, rem |-> m.left, at |-> q.at]
    BY <1>1, <1>7 DEF Img, SameRequest
  <2>7. q.kind = "limit"
    BY DEF SameRequest
  <2>8. EngineHeap(q) = eh \cup {Img(own, rem)}
    BY <1>4, <1>5, <1>12, <2>6, <2>7 DEF EngineHeap
  <2> QED
    BY <1>6, <1>8, <2>5, <2>8
<1> QED
  BY <1>11, <1>12 DEF LoopStates

\* The same for market orders.
LEMMA PlaceMarketMirrors ==
    ASSUME NEW bk, Mirror(bk, heap), NEW q, NEW o, SameRequest(q, o), Incoming(o),
           o.kind = "market"
    PROVE  /\ PlaceMarket(bk, o).filled = q.qty - EngineMatch(q).left
           /\ Mirror(PlaceMarket(bk, o).book, EngineHeap(q))
<1>1. EngineHeap(q) = EngineMatch(q).heap
  BY DEF EngineHeap, SameRequest
<1>2. PICK m : m = Match(o, bk[Other(o.side)])
  OBVIOUS
<1>3. /\ EngineMatch(q).left = m.left
      /\ Mirror([bk EXCEPT ![Other(o.side)] = m.rest], EngineMatch(q).heap)
  BY <1>2, MatchMirrors
<1>4. PlaceMarket(bk, o) = [filled |-> o.qty - m.left, book |-> [bk EXCEPT ![Other(o.side)] = m.rest]]
  BY <1>2 DEF PlaceMarket
<1>5. o.qty = q.qty
  BY DEF SameRequest
<1> QED
  BY <1>1, <1>3, <1>4, <1>5

-----------------------------------------------------------------------------
(* Replaying the events that are on their way leads to the engine's book.  *)

\* What Validator.Process does with an event.
Effect(bk, e) ==
    IF e.kind = "cancel" THEN [filled |-> e.filled, book |-> Cancel(bk, e.id)]
    ELSE IF e.kind = "market" THEN PlaceMarket(bk, e) ELSE Place(bk, e)

\* B are the books after each of the events; the last one mirrors the engine.
Chain(B, bk, ev, h) ==
    /\ B[0] = bk
    /\ \A i \in 1 .. Len(ev) : /\ B[i] = Effect(B[i - 1], ev[i]).book
                               /\ Effect(B[i - 1], ev[i]).filled = ev[i].filled
    /\ Mirror(B[Len(ev)], h)
Follows(bk, ev, h) == \E B : Chain(B, bk, ev, h)

\* The engine acts and its event joins the others.
LEMMA FollowsAppend ==
    ASSUME NEW F, NEW ev \in Seq(Events(F)), NEW e \in Events(F), NEW bk, NEW h, NEW h2,
           Follows(bk, ev, h),
           \A c : Mirror(c, h) => Mirror(Effect(c, e).book, h2) /\ Effect(c, e).filled = e.filled
    PROVE  Follows(bk, Append(ev, e), h2)
<1>1. PICK B : Chain(B, bk, ev, h)
  BY DEF Follows
<1>2. PICK n \in Nat : n = Len(ev)
  BY LenProperties
<1>3. PICK all : all = Append(ev, e)
  OBVIOUS
<1>4. Len(all) = n + 1 /\ (\A i \in 1 .. n : all[i] = ev[i]) /\ all[n + 1] = e
  BY <1>2, <1>3, AppendProperties
<1>5. PICK C : C = [i \in 0 .. n + 1 |-> IF i = n + 1 THEN Effect(B[n], e).book ELSE B[i]]
  OBVIOUS
<1>6. C[n + 1] = Effect(B[n], e).book /\ \A i \in 0 .. n : C[i] = B[i]
  BY <1>5
<1>7. Mirror(B[n], h)
  BY <1>1, <1>2 DEF Chain
<1>8. ASSUME NEW i \in 1 .. n + 1
      PROVE  C[i] = Effect(C[i - 1], all[i]).book /\ Effect(C[i - 1], all[i]).filled = all[i].filled
  <2>1. CASE i = n + 1
    <3>1. C[i - 1] = B[n] /\ all[i] = e
      BY <1>4, <1>6, <2>1
    <3> QED
      BY <1>6, <1>7, <2>1, <3>1
  <2>2. CASE i # n + 1
    <3>1. i \in 1 .. n /\ i - 1 \in 0 .. n /\ i \in 0 .. n
      BY <2>2
    <3>2. C[i] = B[i] /\ C[i - 1] = B[i - 1] /\ all[i] = ev[i]
      BY <1>4, <1>6, <3>1
    <3>3. B[i] = Effect(B[i - 1], ev[i]).book /\ Effect(B[i - 1], ev[i]).filled = ev[i].filled
      BY <1>1, <1>2, <3>1 DEF Chain
    <3> QED
      BY <3>2, <3>3
  <2> QED
    BY <2>1, <2>2
<1>9. C[0] = bk
  BY <1>1, <1>6 DEF Chain
<1>10. Mirror(C[n + 1], h2)
  BY <1>6, <1>7
<1>11. Chain(C, bk, all, h2)
  BY <1>4, <1>8, <1>9, <1>10 DEF Chain
<1> QED
  BY <1>3, <1>11 DEF Follows

\* The validator replays the first event.
LEMMA FollowsTail ==
    ASSUME NEW F, NEW ev \in Seq(Events(F)), ev # <<>>, NEW bk, NEW h, Follows(bk, ev, h)
    PROVE  /\ Effect(bk, Head(ev)).filled = Head(ev).filled
           /\ Follows(Effect(bk, Head(ev)).book, Tail(ev), h)
<1>1. PICK B : Chain(B, bk, ev, h)
  BY DEF Follows
<1>2. PICK n \in Nat : n + 1 = Len(ev)
  <2>1. Len(ev) \in Nat \ {0}
    BY EmptySeq
  <2>2. Len(ev) - 1 \in Nat /\ (Len(ev) - 1) + 1 = Len(ev)
    BY <2>1
  <2> QED
    BY <2>2
<1>3. PICK t : t = Tail(ev)
  OBVIOUS
<1>4. Head(ev) = ev[1] /\ Len(t) = n /\ \A i \in 1 .. n : t[i] = ev[i + 1]
  BY <1>2, <1>3, HeadTailProperties
<1>5. PICK C : C = [i \in 0 .. n |-> B[i + 1]]
  OBVIOUS
<1>6. \A i \in 0 .. n : C[i] = B[i + 1]
  BY <1>5
<1>7. B[1] = Effect(bk, ev[1]).book /\ Effect(bk, ev[1]).filled = ev[1].filled
  <2>1. 1 \in 1 .. Len(ev) /\ 1 - 1 = 0
    BY <1>2
  <2>2. B[1] = Effect(B[1 - 1], ev[1]).book /\ Effect(B[1 - 1], ev[1]).filled = ev[1].filled
    BY <1>1, <2>1 DEF Chain
  <2> QED
    BY <1>1, <2>1, <2>2 DEF Chain
<1>8. C[0] = Effect(bk, ev[1]).book
  BY <1>6, <1>7
<1>9. ASSUME NEW i \in 1 .. n
      PROVE  C[i] = Effect(C[i - 1], t[i]).book /\ Effect(C[i - 1], t[i]).filled = t[i].filled
  <2>1. i + 1 \in 1 .. Len(ev) /\ (i + 1) - 1 = i /\ (i - 1) + 1 = i
    BY <1>2
  <2>2. C[i] = B[i + 1] /\ C[i - 1] = B[i] /\ t[i] = ev[i + 1]
    <3>1. i \in 0 .. n /\ i - 1 \in 0 .. n
      OBVIOUS
    <3> QED
      BY <1>4, <1>6, <2>1, <3>1
  <2>3. /\ B[i + 1] = Effect(B[i], ev[i + 1]).book
        /\ Effect(B[i], ev[i + 1]).filled = ev[i + 1].filled
    BY <1>1, <2>1 DEF Chain
  <2> QED
    BY <2>2, <2>3
<1>10. Mirror(C[n], h)
  <2>1. C[n] = B[Len(ev)]
    BY <1>2, <1>6
  <2> QED
    BY <1>1, <2>1 DEF Chain
<1>11. Chain(C, Effect(bk, ev[1]).book, t, h)
  BY <1>4, <1>8, <1>9, <1>10 DEF Chain
<1> QED
  BY <1>3, <1>4, <1>7, <1>11 DEF Follows

\* The events of bot b's answered requests that the validator has not replayed.
Pending(b) ==
    IF bot[b].step \in {"done", "failed"} THEN Append(topic, EventOf(b)) ELSE topic

\* Bot b waits for each answer and nothing has failed or been lost. A request
\* that is at the engine has the newest id, taken right after its timestamp.
SerialInv(b) ==
    /\ mismatches = 0
    /\ Follows(book, Pending(b), heap)
    /\ \A x \in heap : x.id \in orders /\ x.id \in Nat /\ x.id <= clock
    /\ bot[b].step = "sent" => bot[b].ts = clock
    /\ bot[b].step = "arrived" /\ bot[b].kind # "cancel" =>
          /\ bot[b].id = bot[b].ts + 1 /\ bot[b].at = bot[b].id /\ bot[b].id = clock
          /\ \A x \in heap : x.id # bot[b].id

ReplayInv ==
    /\ \E F : Typed(F)
    /\ faults \in Nat
    /\ \A b \in Bots : load.bots = {b} /\ faults = 0 => SerialInv(b)

LEMMA EmptyMirrors == Mirror(EmptyBook, {})
<1>1. \A side \in Sides : EmptyBook[side] = <<>> /\ DOMAIN EmptyBook[side] = {}
  BY DEF EmptyBook
<1>2. Image(EmptyBook) = {}
  BY <1>1 DEF Image, Imgs
<1> QED
  BY <1>1, <1>2, EmptyBookWellFormed DEF Mirror, UniqueIds, Stamped, Apart

LEMMA ReplayInit == Init => ReplayInv
<1> SUFFICES ASSUME Init PROVE ReplayInv
  OBVIOUS
<1>1. ASSUME NEW b \in Bots PROVE SerialInv(b)
  <2>1. bot[b] = Idle /\ topic = <<>> /\ book = EmptyBook /\ heap = {} /\ mismatches = 0
    BY DEF Init
  <2>2. bot[b].step = "idle"
    BY <2>1 DEF Idle
  <2>3. Pending(b) = <<>>
    BY <2>1, <2>2 DEF Pending
  <2>4. PICK B : B = [i \in {0} |-> EmptyBook]
    OBVIOUS
  <2>5. B[0] = EmptyBook /\ Len(<<>>) = 0
    BY <2>4
  <2>6. Chain(B, EmptyBook, <<>>, {})
    BY <2>5, EmptyMirrors DEF Chain
  <2>7. Follows(book, Pending(b), heap)
    BY <2>1, <2>3, <2>6 DEF Follows
  <2> QED
    BY <2>1, <2>2, <2>7 DEF SerialInv
<1>2. faults \in Nat
  BY DEF Init
<1> QED
  BY <1>1, <1>2, TypedInit DEF ReplayInv

\* The engine's handlers, event included.
LEMMA SerialEnginePlace ==
    ASSUME NEW F, Typed(F), NEW b \in Bots, SerialInv(b), EnginePlace(b)
    PROVE  SerialInv(b)'
<1>1. PICK q \in Requests(F) : q = bot[b]
  BY DEF Typed
<1>2. q.step = "arrived" /\ q.kind \in {"limit", "market"}
  BY <1>1 DEF EnginePlace
<1>3. /\ q.id = q.ts + 1 /\ q.at = q.id /\ q.id = clock /\ \A x \in heap : x.id # q.id
  BY <1>1, <1>2 DEF SerialInv
<1>4. PICK f : f = q.qty - EngineMatch(q).left
  OBVIOUS
<1>5. PICK p : p = [q EXCEPT !.step = "done", !.filled = f]
  OBVIOUS
<1>6. heap' = EngineHeap(q) /\ bot' = [bot EXCEPT ![b] = p]
  BY <1>1, <1>4, <1>5 DEF EnginePlace, EngineHeap
<1>7. bot'[b] = p
  BY <1>6 DEF Typed
<1>8. PICK e : e = [kind |-> q.kind, side |-> q.side, price |-> q.price, qty |-> q.qty, ts |-> q.ts,
                    id |-> q.id, filled |-> f, auth |-> TRUE]
  OBVIOUS
<1>9. /\ p.kind = q.kind /\ p.side = q.side /\ p.price = q.price /\ p.qty = q.qty /\ p.ts = q.ts
      /\ p.id = q.id /\ p.filled = f /\ p.step = "done"
  BY <1>5 DEF Requests
<1>10. EventOf(b)' = e
  BY <1>7, <1>8, <1>9 DEF EventOf
<1>11. PICK G : G = F \cup {f}
  OBVIOUS
<1>12. e \in Events(G)
  BY <1>8, <1>11 DEF Requests, Events, Kinds
<1>13. topic \in Seq(Events(G))
  <2>1. Events(F) \subseteq Events(G)
    BY <1>11 DEF Events
  <2> QED
    BY <2>1, SeqMonotonic DEF Typed
<1>14. UNCHANGED <<topic, book, clock, mismatches>>
  BY DEF EnginePlace
<1>15. Pending(b) = topic
  BY <1>1, <1>2 DEF Pending
<1>16. Pending(b)' = Append(topic, e)
  BY <1>7, <1>9, <1>10, <1>14 DEF Pending
<1>17. /\ SameRequest(q, e) /\ Incoming(e)
       /\ e.id = q.id /\ e.id = e.ts + 1 /\ e.kind = q.kind /\ e.filled = f
  BY <1>3, <1>8 DEF SameRequest, Incoming, Requests
<1>18. ASSUME NEW c, Mirror(c, heap)
       PROVE  Mirror(Effect(c, e).book, heap') /\ Effect(c, e).filled = e.filled
  <2>1. CASE q.kind = "limit"
    <3>1. Effect(c, e) = Place(c, e)
      BY <1>17, <2>1 DEF Effect
    <3>2. Place(c, e).filled = f /\ Mirror(Place(c, e).book, EngineHeap(q))
      BY <1>3, <1>4, <1>17, <1>18, <2>1, PlaceMirrors
    <3> QED
      BY <1>6, <1>17, <3>1, <3>2
  <2>2. CASE q.kind = "market"
    <3>1. Effect(c, e) = PlaceMarket(c, e)
      BY <1>17, <2>2 DEF Effect
    <3>2. PlaceMarket(c, e).filled = f /\ Mirror(PlaceMarket(c, e).book, EngineHeap(q))
      BY <1>4, <1>17, <1>18, <2>2, PlaceMarketMirrors
    <3> QED
      BY <1>6, <1>17, <3>1, <3>2
  <2> QED
    BY <1>2, <2>1, <2>2
<1>19. Follows(book, Append(topic, e), heap')
  <2>1. Follows(book, topic, heap)
    BY <1>15 DEF SerialInv
  <2>2. PICK h2 : h2 = heap'
    OBVIOUS
  <2>3. \A c : Mirror(c, heap) => Mirror(Effect(c, e).book, h2) /\ Effect(c, e).filled = e.filled
    BY <1>18, <2>2
  <2> QED
    BY <1>12, <1>13, <2>1, <2>2, <2>3, FollowsAppend
<1>20. Follows(book, Pending(b), heap)'
  BY <1>14, <1>16, <1>19
<1>21. ASSUME NEW x \in heap' PROVE x.id \in orders' /\ x.id \in Nat /\ x.id <= clock'
  <2>1. \A y \in EngineMatch(q).heap : \E z \in heap : y.id = z.id
    <3>1. PICK B : Chain(B, book, topic, heap)
      BY <1>15 DEF SerialInv, Follows
    <3>2. Mirror(B[Len(topic)], heap)
      BY <3>1 DEF Chain
    <3> QED
      BY <1>17, <3>2, MatchMirrors
  <2>2. orders \subseteq orders' /\ (q.kind = "limit" => q.id \in orders')
    BY <1>1 DEF EnginePlace
  <2>3. CASE x \in EngineMatch(q).heap
    BY <1>14, <2>1, <2>2, <2>3 DEF SerialInv
  <2>4. CASE x \notin EngineMatch(q).heap
    <3>1. q.kind = "limit" /\ x.id = q.id
      BY <1>6, <2>4 DEF EngineHeap
    <3>2. q.id \in Nat /\ q.id <= clock'
      BY <1>3, <1>14 DEF Typed
    <3> QED
      BY <2>2, <3>1, <3>2
  <2> QED
    BY <2>3, <2>4
<1>22. bot[b].step' = "done"
  BY <1>7, <1>9
<1> QED
  BY <1>14, <1>20, <1>21, <1>22 DEF SerialInv

LEMMA SerialEngineCancel ==
    ASSUME NEW F, Typed(F), NEW b \in Bots, SerialInv(b), EngineCancel(b)
    PROVE  SerialInv(b)'
<1>1. PICK q \in Requests(F) : q = bot[b]
  BY DEF Typed
<1>2. q.step = "arrived" /\ q.kind = "cancel"
  BY <1>1 DEF EngineCancel
<1>3. PICK p \in Requests(F) : bot' = [bot EXCEPT ![b] = p] /\ p.step \in {"done", "failed"}
                               /\ p.kind = "cancel" /\ p.id = q.id
  <2>1. PICK s \in {"done", "failed"} : bot' = [bot EXCEPT ![b] = [q EXCEPT !.step = s]]
    BY <1>1 DEF EngineCancel
  <2>2. PICK p : p = [q EXCEPT !.step = s]
    OBVIOUS
  <2>3. p \in Requests(F) /\ p.step = s /\ p.kind = q.kind /\ p.id = q.id
    BY <2>2 DEF Requests
  <2> QED
    BY <1>2, <2>1, <2>2, <2>3
<1>4. bot'[b] = p
  BY <1>3 DEF Typed
<1>5. UNCHANGED <<topic, book, clock, mismatches>>
  BY DEF EngineCancel
<1>6. heap' = {x \in heap : x.id # q.id} /\ \A x \in heap' : x.id \in orders'
  <2>1. CASE q.id \in orders
    BY <1>1, <2>1 DEF EngineCancel, SerialInv
  <2>2. CASE q.id \notin orders
    <3>1. heap' = heap /\ orders' = orders
      BY <1>1, <2>2 DEF EngineCancel
    <3>2. \A x \in heap : x.id # q.id /\ x.id \in orders
      BY <2>2 DEF SerialInv
    <3> QED
      BY <3>1, <3>2
  <2> QED
    BY <2>1, <2>2
<1>7. PICK e \in Events(F) : e = EventOf(b)' /\ e.kind = "cancel" /\ e.id = q.id
  <2>1. PICK e : e = [kind |-> p.kind, side |-> p.side, price |-> p.price, qty |-> p.qty, ts |-> p.ts,
                      id |-> p.id, filled |-> IF p.step = "done" THEN p.filled ELSE 0,
                      auth |-> p.step = "done"]
    OBVIOUS
  <2>2. EventOf(b)' = e
    BY <1>3, <1>4, <2>1 DEF EventOf
  <2>3. 0 \in F /\ (p.step = "done") \in BOOLEAN
    BY DEF Typed
  <2>4. e \in Events(F)
    BY <2>1, <2>3 DEF Requests, Events
  <2>5. e.kind = "cancel" /\ e.id = q.id
    BY <1>3, <2>1
  <2> QED
    BY <2>2, <2>4, <2>5
<1>8. Pending(b) = topic
  BY <1>1, <1>2 DEF Pending
<1>9. Pending(b)' = Append(topic, e)
  BY <1>3, <1>4, <1>5, <1>7 DEF Pending
<1>10. ASSUME NEW c, Mirror(c, heap)
       PROVE  Mirror(Effect(c, e).book, heap') /\ Effect(c, e).filled = e.filled
  <2>1. Effect(c, e) = [filled |-> e.filled, book |-> Cancel(c, e.id)]
    BY <1>7 DEF Effect
  <2>2. Mirror(Cancel(c, e.id), {x \in heap : x.id # e.id})
    BY <1>10, CancelMirrors
  <2> QED
    BY <1>6, <1>7, <2>1, <2>2
<1>11. Follows(book, Append(topic, e), heap')
  <2>1. Follows(book, topic, heap)
    BY <1>8 DEF SerialInv
  <2>2. PICK h2 : h2 = heap'
    OBVIOUS
  <2>3. \A c : Mirror(c, heap) => Mirror(Effect(c, e).book, h2) /\ Effect(c, e).filled = e.filled
    BY <1>10, <2>2
  <2>4. topic \in Seq(Events(F))
    BY DEF Typed
  <2> QED
    BY <2>1, <2>2, <2>3, <2>4, FollowsAppend
<1>12. Follows(book, Pending(b), heap)'
  BY <1>5, <1>9, <1>11
<1>13. \A x \in heap' : x.id \in orders' /\ x.id \in Nat /\ x.id <= clock'
  BY <1>5, <1>6 DEF SerialInv
<1>14. bot[b].step' \in {"done", "failed"}
  BY <1>3, <1>4
<1> QED
  BY <1>5, <1>12, <1>13, <1>14 DEF SerialInv

\* The validator replays the event of the bot's oldest answer.
LEMMA SerialProcess ==
    ASSUME NEW F, Typed(F), faults = 0, faults' = 0, NEW b \in Bots, SerialInv(b), Process
    PROVE  SerialInv(b)'
<1>1. topic # <<>> /\ topic' = Tail(topic) /\ topic \in Seq(Events(F))
  BY DEF Process, Fault, Typed
<1>2. PICK e \in Events(F) : e = Head(topic)
  BY <1>1, HeadTailProperties
<1>3. e.kind \in Kinds
  BY DEF Events
<1>4. EventOf(b) \in Events(F)
  BY EventTyped
<1>5. /\ Pending(b) \in Seq(Events(F)) /\ Pending(b) # <<>>
      /\ Head(Pending(b)) = e
  <2>1. CASE bot[b].step \in {"done", "failed"}
    <3>1. Pending(b) = Append(topic, EventOf(b))
      BY <2>1 DEF Pending
    <3>2. Append(topic, EventOf(b)) \in Seq(Events(F)) /\ Append(topic, EventOf(b)) # <<>>
      BY <1>1, <1>4, AppendProperties
    <3>3. Head(Append(topic, EventOf(b))) = IF topic = <<>> THEN EventOf(b) ELSE Head(topic)
      BY <1>1, HeadTailAppend
    <3> QED
      BY <1>1, <1>2, <3>1, <3>2, <3>3
  <2>2. CASE bot[b].step \notin {"done", "failed"}
    BY <1>1, <1>2, <2>2 DEF Pending
  <2> QED
    BY <2>1, <2>2
<1>6. bot' = bot /\ heap' = heap /\ orders' = orders /\ clock' = clock
  BY DEF Process
<1>7. Pending(b)' = Tail(Pending(b))
  <2>1. EventOf(b)' = EventOf(b)
    BY <1>6 DEF EventOf
  <2>2. CASE bot[b].step \in {"done", "failed"}
    <3>1. Pending(b) = Append(topic, EventOf(b)) /\ Pending(b)' = Append(Tail(topic), EventOf(b))
      BY <1>1, <1>6, <2>1, <2>2 DEF Pending
    <3>2. Tail(Append(topic, EventOf(b))) =
            IF topic = <<>> THEN <<>> ELSE Append(Tail(topic), EventOf(b))
      BY <1>1, HeadTailAppend
    <3> QED
      BY <1>1, <3>1, <3>2
  <2>3. CASE bot[b].step \notin {"done", "failed"}
    BY <1>1, <1>6, <2>3 DEF Pending
  <2> QED
    BY <2>2, <2>3
<1>8. Effect(book, e).filled = e.filled /\ Follows(Effect(book, e).book, Tail(Pending(b)), heap)
  <2>1. Follows(book, Pending(b), heap)
    BY DEF SerialInv
  <2>2. PICK ev \in Seq(Events(F)) : ev = Pending(b)
    BY <1>5
  <2> QED
    BY <1>5, <2>1, <2>2, FollowsTail
<1>9. book' = Effect(book, e).book /\ mismatches' = mismatches
  <2>1. CASE e.kind = "cancel"
    <3>1. book' = Cancel(book, e.id) /\ mismatches' = mismatches
      BY <1>2, <2>1 DEF Process
    <3> QED
      BY <2>1, <3>1 DEF Effect
  <2>2. CASE e.kind \in {"limit", "market"}
    <3>1. PICK r : r = IF e.kind = "market" THEN PlaceMarket(book, e) ELSE Place(book, e)
      OBVIOUS
    <3>2. book' = r.book /\ mismatches' = mismatches + (IF r.filled # e.filled THEN 1 ELSE 0)
      BY <1>2, <2>2, <3>1 DEF Process
    <3>3. Effect(book, e) = r
      BY <2>2, <3>1 DEF Effect
    <3>4. mismatches = 0
      BY DEF SerialInv
    <3> QED
      BY <1>8, <3>2, <3>3, <3>4
  <2> QED
    BY <1>3, <2>1, <2>2 DEF Kinds
<1>10. Follows(book, Pending(b), heap)'
  BY <1>6, <1>7, <1>8, <1>9
<1> QED
  BY <1>6, <1>9, <1>10 DEF SerialInv

\* A step that changes neither the heap nor what is pending keeps the two books
\* together.
LEMMA SerialBotStep ==
    ASSUME NEW b \in Bots, SerialInv(b), Pending(b)' = Pending(b),
           UNCHANGED <<book, heap, orders, mismatches>>, clock \in Nat, clock' \in Nat, clock <= clock',
           bot[b].step' = "sent" => bot[b].ts' = clock',
           bot[b].step' = "arrived" /\ bot[b].kind' # "cancel" =>
              /\ bot[b].id' = bot[b].ts' + 1 /\ bot[b].at' = bot[b].id' /\ bot[b].id' = clock'
              /\ \A x \in heap : x.id # bot[b].id'
    PROVE  SerialInv(b)'
<1>1. Follows(book, Pending(b), heap)'
  BY DEF SerialInv
<1>2. \A x \in heap' : x.id \in orders' /\ x.id \in Nat /\ x.id <= clock'
  BY DEF SerialInv
<1> QED
  BY <1>1, <1>2 DEF SerialInv

LEMMA SerialNext ==
    ASSUME NEW F, Typed(F), faults \in Nat, faults = 0, faults' = 0,
           NEW b \in Bots, load.bots = {b}, SerialInv(b), [Next]_vars
    PROVE  SerialInv(b)'
<1>0. clock \in Nat /\ bot \in [Bots -> Requests(F)] /\ bot[b] \in Requests(F)
  BY DEF Typed
<1>1. ASSUME NEW kind, NEW side, NEW price, NEW qty, SendOrder(b, kind, side, price, qty)
      PROVE  SerialInv(b)'
  <2>1. bot'[b] = [Idle EXCEPT !.step = "sent", !.kind = kind, !.side = side,
                               !.price = price, !.qty = qty, !.ts = clock']
    BY <1>0, <1>1 DEF SendOrder
  <2>2. bot'[b].step = "sent" /\ bot'[b].ts = clock'
    BY <2>1 DEF Idle
  <2>3. clock' \in Nat /\ clock <= clock' /\ UNCHANGED <<topic, book, heap, orders, mismatches>>
    BY <1>0, <1>1 DEF SendOrder
  <2>4. Pending(b)' = Pending(b)
    BY <1>1, <2>2, <2>3 DEF SendOrder, Pending
  <2> QED
    BY <1>0, <2>2, <2>3, <2>4, SerialBotStep
<1>2. ASSUME SendCancel(b) PROVE SerialInv(b)'
  <2>1. bot'[b] = [Idle EXCEPT !.step = "sent", !.kind = "cancel",
                               !.id = Head(live[b]), !.ts = clock']
    BY <1>0, <1>2 DEF SendCancel
  <2>2. bot'[b].step = "sent" /\ bot'[b].ts = clock'
    BY <2>1 DEF Idle
  <2>3. clock' \in Nat /\ clock <= clock' /\ UNCHANGED <<topic, book, heap, orders, mismatches>>
    BY <1>0, <1>2 DEF SendCancel
  <2>4. Pending(b)' = Pending(b)
    BY <1>2, <2>2, <2>3 DEF SendCancel, Pending
  <2> QED
    BY <1>0, <2>2, <2>3, <2>4, SerialBotStep
<1>3. ASSUME Fail(b) PROVE FALSE
  BY <1>3 DEF Fail, Fault
<1>4. ASSUME Emit(b) PROVE SerialInv(b)'
  <2>1. topic' = Append(topic, EventOf(b)) /\ bot[b].step \in {"done", "failed"}
    BY <1>4 DEF Emit, Fault
  <2>2. bot'[b] = [Idle EXCEPT !.step = IF bot[b].kind = "cancel" THEN "place" ELSE "idle"]
    BY <1>0, <1>4 DEF Emit
  <2>3. bot'[b].step \in {"place", "idle"}
    BY <2>2 DEF Idle
  <2>4. Pending(b)' = Pending(b)
    BY <2>1, <2>3 DEF Pending
  <2>5. clock' = clock /\ UNCHANGED <<book, heap, orders, mismatches>>
    BY <1>4 DEF Emit
  <2> QED
    BY <1>0, <2>3, <2>4, <2>5, SerialBotStep
<1>5. ASSUME Arrive(b) PROVE SerialInv(b)'
  <2>1. bot[b].step = "sent" /\ bot[b].ts = clock /\ clock' = clock + 1
    BY <1>5 DEF Arrive, SerialInv
  <2>2. bot'[b] = [bot[b] EXCEPT !.step = "arrived", !.at = clock',
                                 !.id = IF bot[b].kind = "cancel" THEN @ ELSE clock']
    BY <1>0, <1>5 DEF Arrive
  <2>3. /\ bot'[b].step = "arrived" /\ bot'[b].at = clock' /\ bot'[b].ts = bot[b].ts
        /\ bot'[b].kind = bot[b].kind
        /\ bot[b].kind # "cancel" => bot'[b].id = clock'
    BY <1>0, <2>2 DEF Requests
  <2>4. clock' \in Nat /\ clock <= clock' /\ UNCHANGED <<topic, book, heap, orders, mismatches>>
    BY <1>0, <1>5, <2>1 DEF Arrive
  <2>5. Pending(b)' = Pending(b)
    BY <2>1, <2>3, <2>4 DEF Pending
  <2>6. \A x \in heap : x.id # clock'
    BY <1>0, <2>1 DEF SerialInv
  <2> QED
    BY <1>0, <2>1, <2>3, <2>4, <2>5, <2>6, SerialBotStep
<1>6. ASSUME EnginePlace(b) PROVE SerialInv(b)'
  BY <1>6, SerialEnginePlace
<1>7. ASSUME EngineCancel(b) PROVE SerialInv(b)'
  BY <1>7, SerialEngineCancel
<1>8. ASSUME Process PROVE SerialInv(b)'
  BY <1>8, SerialProcess
<1>9. ASSUME UNCHANGED vars PROVE SerialInv(b)'
  <2>1. UNCHANGED <<bot, topic, book, heap, orders, mismatches, clock>>
    BY <1>9 DEF vars
  <2>2. Pending(b)' = Pending(b)
    BY <2>1 DEF Pending, EventOf
  <2> QED
    BY <2>1, <2>2 DEF SerialInv
<1>10. ASSUME Finished PROVE SerialInv(b)'
  BY <1>9, <1>10 DEF Finished
<1> QED
  BY <1>1, <1>2, <1>3, <1>4, <1>5, <1>6, <1>7, <1>8, <1>9, <1>10 DEF Next

LEMMA ReplayNext == ReplayInv /\ [Next]_vars => ReplayInv'
<1> SUFFICES ASSUME ReplayInv, [Next]_vars PROVE ReplayInv'
  OBVIOUS
<1>1. PICK F : Typed(F)
  BY DEF ReplayInv
<1>2. \E G : Typed(G)'
  BY <1>1, TypedNext
<1>3. load' = load
  BY DEF Next, vars, Finished, SendOrder, SendCancel, Fail, Emit, Arrive, EnginePlace,
         EngineCancel, Process
<1>4. faults' = faults \/ faults' = faults + 1
  BY DEF Next, vars, Finished, SendOrder, SendCancel, Fail, Emit, Arrive, EnginePlace,
         EngineCancel, Process, Fault
<1>5. faults \in Nat /\ faults' \in Nat /\ (faults' = 0 => faults = 0)
  BY <1>4 DEF ReplayInv
<1>6. ASSUME NEW b \in Bots, load'.bots = {b}, faults' = 0 PROVE SerialInv(b)'
  <2>1. load.bots = {b} /\ faults = 0
    BY <1>3, <1>5, <1>6
  <2>2. SerialInv(b)
    BY <2>1 DEF ReplayInv
  <2> QED
    BY <1>1, <1>5, <1>6, <2>1, <2>2, SerialNext
<1> QED
  BY <1>2, <1>5, <1>6 DEF ReplayInv

LEMMA ReplayInvIsInvariant == Spec => []ReplayInv
  BY ReplayInit, ReplayNext, PTL DEF Spec

\* A submission that runs the reference engine has no mismatch while one bot
\* waits for each answer and nothing fails or is lost: however many orders,
\* prices and quantities, and however far the validator is behind.
THEOREM ReferenceEngineNeverMismatches == Spec => []PerfectEngineScoresPerfect
<1>1. ReplayInv => PerfectEngineScoresPerfect
  BY DEF ReplayInv, PerfectEngineScoresPerfect, Serial, SerialInv
<1> QED
  BY <1>1, ReplayInvIsInvariant, PTL

\* And whenever the validator has replayed every answer its book holds exactly
\* the orders that rest in the engine, with the quantities that remain.
THEOREM ValidatorFollowsEngine == Spec => []BooksAgree
<1>1. ReplayInv => BooksAgree
  <2> DEFINE engine(side) == {[id |-> x.id, price |-> x.price, rem |-> x.rem]
                                 : x \in {y \in heap : y.side = side}}
             rests(side) == {[id |-> book[side][i].id, price |-> book[side][i].price,
                              rem |-> book[side][i].qty] : i \in DOMAIN book[side]}
  <2> SUFFICES ASSUME ReplayInv, Serial, topic = <<>>,
                      \A b \in Bots : bot[b].step \in {"idle", "place", "sent", "arrived"},
                      NEW side \in Sides
               PROVE  engine(side) = rests(side)
    BY DEF BooksAgree
  <2>1. PICK b \in Bots : SerialInv(b)
    BY DEF ReplayInv, Serial
  <2>2. Pending(b) = <<>>
    BY DEF Pending
  <2>3. PICK B : Chain(B, book, <<>>, heap)
    BY <2>1, <2>2 DEF SerialInv, Follows
  <2>4. Mirror(book, heap)
    <3>1. Len(<<>>) = 0
      OBVIOUS
    <3> QED
      BY <2>3, <3>1 DEF Chain
  <2>5. {y \in heap : y.side = side} = Imgs(side, book[side])
    <3>1. \A t \in Sides : \A x \in Imgs(t, book[t]) : x.side = t
      BY DEF Imgs, Img
    <3>2. heap = UNION {Imgs(t, book[t]) : t \in Sides}
      BY <2>4 DEF Mirror, Image
    <3> QED
      BY <3>1, <3>2
  <2>6. engine(side) = {[id |-> x.id, price |-> x.price, rem |-> x.rem] : x \in Imgs(side, book[side])}
    BY <2>5
  <2>7. ASSUME NEW i \in DOMAIN book[side]
        PROVE  [id |-> Img(side, book[side][i]).id, price |-> Img(side, book[side][i]).price,
                rem |-> Img(side, book[side][i]).rem]
               = [id |-> book[side][i].id, price |-> book[side][i].price, rem |-> book[side][i].qty]
    BY DEF Img
  <2>8. ASSUME NEW x \in Imgs(side, book[side])
        PROVE  [id |-> x.id, price |-> x.price, rem |-> x.rem] \in rests(side)
    <3>1. PICK i \in DOMAIN book[side] : x = Img(side, book[side][i])
      BY DEF Imgs
    <3> QED
      BY <2>7, <3>1
  <2>9. ASSUME NEW i \in DOMAIN book[side]
        PROVE  [id |-> book[side][i].id, price |-> book[side][i].price,
                rem |-> book[side][i].qty] \in engine(side)
    <3>1. Img(side, book[side][i]) \in Imgs(side, book[side])
      BY DEF Imgs
    <3> QED
      BY <2>6, <2>7, <3>1
  <2>10. engine(side) \subseteq rests(side)
    <3>1. \A z \in engine(side) : \E x \in Imgs(side, book[side]) :
             z = [id |-> x.id, price |-> x.price, rem |-> x.rem]
      BY <2>6
    <3> HIDE DEF rests
    <3> QED
      BY <2>8, <3>1
  <2>11. rests(side) \subseteq engine(side)
    <3> HIDE DEF engine
    <3> QED
      BY <2>9
  <2> QED
    BY <2>10, <2>11
<1> QED
  BY <1>1, ReplayInvIsInvariant, PTL
=============================================================================
