------------------------------ MODULE DataLemmas -------------------------------
(***************************************************************************)
(* Facts about sequences that the proofs share.                            *)
(*                                                                         *)
(* Ordinals: what moving items between a consumer, a path and a producer   *)
(* does to their concatenation.                                            *)
(*                                                                         *)
(* Induction: over a set of numbers rather than over a predicate, which    *)
(* the provers cannot be given.  A set that holds 0 and the successor of   *)
(* each of its numbers holds them all, by the least number that is left    *)
(* out.  From it follows that a function may be defined step by step, so   *)
(* that what FoldLeft and FlattenSeq choose exists, and what they compute. *)
(***************************************************************************)
EXTENDS Integers, SequencesExt, SequenceTheorems, WellFoundedInduction, TLAPS

\* The ordinals a producer that has put s items has put, and the next n.
FirstOrdinals(s) == [i \in 1..s |-> i]
NextOrdinals(s, n) == [i \in 1..n |-> s + i]

\* Both are sequences of natural numbers, of the expected length.
LEMMA OrdinalsAreSeq ==
  ASSUME NEW s \in Nat, NEW n \in Nat
  PROVE  /\ FirstOrdinals(s) \in Seq(Nat)
         /\ NextOrdinals(s, n) \in Seq(Nat)
         /\ Len(NextOrdinals(s, n)) = n
BY DEF FirstOrdinals, NextOrdinals

\* Queueing the next n ordinals extends the sequence 1..s to 1..s+n.
LEMMA ExtendOrdinals ==
  ASSUME NEW s \in Nat, NEW n \in Nat
  PROVE  FirstOrdinals(s) \o NextOrdinals(s, n) = FirstOrdinals(s + n)
BY DEF FirstOrdinals, NextOrdinals

\* Concatenation is associative.
LEMMA Regroup ==
  \A a, b, c \in Seq(Nat) : a \o (b \o c) = (a \o b) \o c
OBVIOUS

\* Queueing the next n ordinals extends what consumer and path hold together.
LEMMA ExtendPath ==
  ASSUME NEW s \in Nat, NEW n \in Nat, NEW d \in Seq(Nat), NEW b \in Seq(Nat)
  PROVE  /\ b \o NextOrdinals(s, n) \in Seq(Nat)
         /\ Len(b \o NextOrdinals(s, n)) = Len(b) + n
         /\ d \o b = FirstOrdinals(s)
              => d \o (b \o NextOrdinals(s, n)) = FirstOrdinals(s + n)
<1>1. /\ FirstOrdinals(s) \in Seq(Nat)
      /\ NextOrdinals(s, n) \in Seq(Nat)
      /\ Len(NextOrdinals(s, n)) = n
  BY OrdinalsAreSeq
<1>2. d \o (b \o NextOrdinals(s, n)) = (d \o b) \o NextOrdinals(s, n)
  BY <1>1, Regroup
<1>3. b \o NextOrdinals(s, n) \in Seq(Nat) /\ Len(b \o NextOrdinals(s, n)) = Len(b) + n
  BY <1>1, ConcatProperties
<1>. QED
  BY <1>2, <1>3, ExtendOrdinals

\* Handing the head of a path on does not change what consumer and path hold.
LEMMA HandHeadOn ==
  ASSUME NEW S, NEW d \in Seq(S), NEW b \in Seq(S), b # << >>
  PROVE  Append(d, Head(b)) \o Tail(b) = d \o b
OBVIOUS

\* The head and the tail as sub-sequences.
LEMMA HeadAsSubSeq ==
  ASSUME NEW S, NEW d \in Seq(S), NEW b \in Seq(S), b # << >>
  PROVE  /\ Append(d, Head(b)) = d \o SubSeq(b, 1, 1)
         /\ Tail(b) = SubSeq(b, 2, Len(b))
OBVIOUS

\* Splitting a sequence at any place and concatenating the parts gives it back.
LEMMA SplitConcat ==
  ASSUME NEW S, NEW q \in Seq(S), NEW k \in 0..Len(q)
  PROVE  /\ SubSeq(q, 1, k) \in Seq(S)
         /\ SubSeq(q, k + 1, Len(q)) \in Seq(S)
         /\ SubSeq(q, 1, k) \o SubSeq(q, k + 1, Len(q)) = q
<1>1. SubSeq(q, 1, k) \in Seq(S) /\ SubSeq(q, k + 1, Len(q)) \in Seq(S)
  BY SubSeqProperties
<1>2. SubSeq(q, 1, k) \o SubSeq(q, k + 1, Len(q)) = SubSeq(q, 1, Len(q))
  <2>1. /\ 1 \in 1..Len(q) + 1
        /\ k \in 1 - 1..Len(q)
        /\ Len(q) \in k..Len(q)
    OBVIOUS
  <2>. QED
    BY <2>1, ConcatAdjacentSubSeq
<1>. QED
  BY <1>1, <1>2, SubSeqFull

\* What lies at the front of a concatenation, and what follows its first part.
LEMMA FrontOfConcat ==
  ASSUME NEW S, NEW a \in Seq(S), NEW b \in Seq(S), NEW k \in 0..Len(a)
  PROVE  /\ a \o b \in Seq(S)
         /\ Len(a \o b) = Len(a) + Len(b)
         /\ SubSeq(a \o b, 1, k) = SubSeq(a, 1, k)
         /\ SubSeq(a \o b, Len(a) + 1, Len(a \o b)) = b
OBVIOUS

(***************************************************************************)
(* What a sequence holds, whatever the order.                              *)
(***************************************************************************)

Items(s) == {s[i] : i \in DOMAIN s}

\* A queue holds its head and what its tail holds.
LEMMA ItemsOfTail ==
  ASSUME NEW S, NEW q \in Seq(S), q # << >>
  PROVE  /\ Head(q) \in S
         /\ Tail(q) \in Seq(S)
         /\ Items(q) = {Head(q)} \cup Items(Tail(q))
<1>1. Head(q) \in S /\ Tail(q) \in Seq(S) /\ Len(Tail(q)) = Len(q) - 1
  BY HeadTailProperties
<1>2. ASSUME NEW i \in DOMAIN q PROVE q[i] \in {Head(q)} \cup Items(Tail(q))
  <2>1. CASE i = 1
    BY <2>1
  <2>2. CASE i # 1
    <3>1. i - 1 \in 1..Len(Tail(q)) /\ i - 1 \in DOMAIN Tail(q)
      BY <1>1, <2>2
    <3>2. Tail(q)[i - 1] = q[i]
      BY <3>1
    <3>. QED
      BY <3>1, <3>2 DEF Items
  <2>. QED
    BY <2>1, <2>2
<1>3. Head(q) \in Items(q)
  BY DEF Items
<1>4. ASSUME NEW r \in Items(Tail(q)) PROVE r \in Items(q)
  <2>1. PICK i \in DOMAIN Tail(q) : r = Tail(q)[i]
    BY <1>4 DEF Items
  <2>2. i + 1 \in DOMAIN q /\ Tail(q)[i] = q[i + 1]
    BY <1>1, <2>1
  <2>. QED
    BY <2>1, <2>2 DEF Items
<1>5. ASSUME NEW r \in Items(q) PROVE r \in {Head(q)} \cup Items(Tail(q))
  <2>1. PICK i \in DOMAIN q : r = q[i]
    BY <1>5 DEF Items
  <2>. QED
    BY <1>2, <2>1
<1>. QED
  BY <1>1, <1>3, <1>4, <1>5

\* A concatenation is as long, and holds the same items, as its parts.
LEMMA ItemsOfConcat ==
  ASSUME NEW S, NEW p \in Seq(S), NEW q \in Seq(S)
  PROVE  /\ p \o q \in Seq(S)
         /\ Len(p \o q) = Len(p) + Len(q)
         /\ Items(p \o q) = Items(p) \cup Items(q)
<1>1. /\ p \o q \in Seq(S)
      /\ Len(p \o q) = Len(p) + Len(q)
      /\ \A i \in 1..Len(p) + Len(q) :
           (p \o q)[i] = IF i <= Len(p) THEN p[i] ELSE q[i - Len(p)]
  BY ConcatProperties
<1>2. /\ DOMAIN (p \o q) = 1..Len(p) + Len(q)
      /\ DOMAIN p = 1..Len(p) /\ DOMAIN q = 1..Len(q)
      /\ Len(p) \in Nat /\ Len(q) \in Nat
  BY <1>1
<1>3. Items(p \o q) \subseteq Items(p) \cup Items(q)
  <2>. SUFFICES ASSUME NEW i \in 1..Len(p) + Len(q)
                PROVE  (p \o q)[i] \in Items(p) \cup Items(q)
    BY <1>2 DEF Items
  <2>1. CASE i <= Len(p)
    BY <1>1, <1>2, <2>1 DEF Items
  <2>2. CASE ~(i <= Len(p))
    <3>1. i - Len(p) \in 1..Len(q)
      BY <1>2, <2>2
    <3>. QED
      BY <1>1, <1>2, <2>2, <3>1 DEF Items
  <2>. QED
    BY <2>1, <2>2
<1>4. ASSUME NEW i \in 1..Len(p) PROVE p[i] \in Items(p \o q)
  <2>1. i \in 1..Len(p) + Len(q) /\ i <= Len(p)
    BY <1>2
  <2>. QED
    BY <1>1, <1>2, <2>1 DEF Items
<1>5. ASSUME NEW i \in 1..Len(q) PROVE q[i] \in Items(p \o q)
  <2>1. /\ i + Len(p) \in 1..Len(p) + Len(q)
        /\ ~(i + Len(p) <= Len(p))
        /\ (i + Len(p)) - Len(p) = i
    BY <1>2
  <2>. QED
    BY <1>1, <1>2, <2>1 DEF Items
<1>6. Items(p) \subseteq Items(p \o q)
  <2>. SUFFICES ASSUME NEW x \in Items(p) PROVE x \in Items(p \o q)
    OBVIOUS
  <2>1. PICK i \in DOMAIN p : x = p[i]
    BY DEF Items
  <2>. QED
    BY <1>2, <1>4, <2>1
<1>7. Items(q) \subseteq Items(p \o q)
  <2>. SUFFICES ASSUME NEW x \in Items(q) PROVE x \in Items(p \o q)
    OBVIOUS
  <2>1. PICK i \in DOMAIN q : x = q[i]
    BY DEF Items
  <2>. QED
    BY <1>2, <1>5, <2>1
<1>. QED
  BY <1>1, <1>3, <1>6, <1>7

\* Appending an item adds it and nothing else.
LEMMA ItemsOfAppend ==
  ASSUME NEW S, NEW q \in Seq(S), NEW e \in S
  PROVE  /\ Append(q, e) \in Seq(S)
         /\ Len(Append(q, e)) = Len(q) + 1
         /\ Items(Append(q, e)) = Items(q) \cup {e}
<1>. DEFINE one == <<e>>
<1>1. Append(q, e) = q \o one /\ one \in Seq(S)
  BY AppendIsConcat
<1>2. Items(one) = {e} /\ Len(one) = 1
  BY DEF Items
<1>. HIDE DEF one
<1>. QED
  BY <1>1, <1>2, ItemsOfConcat

\* Nothing, and one item.
LEMMA ItemsOfFew ==
  /\ Len(<< >>) = 0 /\ Items(<< >>) = {}
  /\ \A b : Len(<<b>>) = 1 /\ Items(<<b>>) = {b}
BY DEF Items

\* Four sequences hold, together, n bytes: the first n.
HoldFirst(p, f, e, h, n) ==
  /\ Len(p) + Len(f) + Len(e) + Len(h) = n
  /\ Items(p) \cup Items(f) \cup Items(e) \cup Items(h) = 1..n

\* The next byte may be queued, or taken in hand.
LEMMA HoldNext ==
  ASSUME NEW p \in Seq(Nat), NEW f \in Seq(Nat), NEW e \in Seq(Nat), NEW h \in Seq(Nat),
         NEW n \in Nat, HoldFirst(p, f, e, h, n)
  PROVE  /\ HoldFirst(Append(p, n + 1), f, e, h, n + 1)
         /\ h = << >> => HoldFirst(p, f, e, <<n + 1>>, n + 1)
<1>1. 1..n + 1 = 1..n \cup {n + 1}
  OBVIOUS
<1>2. n + 1 \in Nat
  OBVIOUS
<1>. DEFINE longer == Append(p, n + 1)
<1>3. Len(longer) = Len(p) + 1 /\ Items(longer) = Items(p) \cup {n + 1}
  BY <1>2, ItemsOfAppend
<1>. HIDE DEF longer
<1>4. HoldFirst(longer, f, e, h, n + 1)
  BY <1>1, <1>3 DEF HoldFirst
<1>. DEFINE one == <<n + 1>>
<1>5. Len(one) = 1 /\ Items(one) = {n + 1}
  BY ItemsOfFew
<1>. HIDE DEF one
<1>6. ASSUME h = << >> PROVE HoldFirst(p, f, e, one, n + 1)
  <2>1. Len(h) = 0 /\ Items(h) = {}
    BY <1>6, ItemsOfFew
  <2>2. Len(p) + Len(f) + Len(e) + Len(one) = n + 1
    BY <1>5, <2>1 DEF HoldFirst
  <2>3. Items(p) \cup Items(f) \cup Items(e) \cup Items(one) = 1..n + 1
    BY <1>1, <1>5, <2>1 DEF HoldFirst
  <2>. QED
    BY <2>2, <2>3 DEF HoldFirst
<1>. QED
  BY <1>4, <1>6 DEF longer, one

\* Bytes move from place to place.
LEMMA HoldMoved ==
  ASSUME NEW p \in Seq(Nat), NEW f \in Seq(Nat), NEW e \in Seq(Nat), NEW h \in Seq(Nat),
         NEW n \in Nat, HoldFirst(p, f, e, h, n)
  PROVE  /\ \A b \in Nat : h = <<b>> => HoldFirst(p, f, Append(e, b), << >>, n)
         /\ f = << >> => HoldFirst(<< >>, p, e, h, n)
         /\ HoldFirst(p, << >>, e \o f, h, n)
<1>1. ASSUME NEW b \in Nat, h = <<b>> PROVE HoldFirst(p, f, Append(e, b), << >>, n)
  <2>. DEFINE longer == Append(e, b)
  <2>1. Len(longer) = Len(e) + 1 /\ Items(longer) = Items(e) \cup {b}
    BY ItemsOfAppend
  <2>2. Len(h) = 1 /\ Items(h) = {b}
    BY <1>1, ItemsOfFew
  <2>. HIDE DEF longer
  <2>3. HoldFirst(p, f, longer, << >>, n)
    BY <2>1, <2>2, ItemsOfFew DEF HoldFirst
  <2>. QED
    BY <2>3 DEF longer
<1>2. ASSUME f = << >> PROVE HoldFirst(<< >>, p, e, h, n)
  BY <1>2, ItemsOfFew DEF HoldFirst
<1>3. HoldFirst(p, << >>, e \o f, h, n)
  <2>. DEFINE both == e \o f
  <2>1. Len(both) = Len(e) + Len(f) /\ Items(both) = Items(e) \cup Items(f)
    BY ItemsOfConcat
  <2>. HIDE DEF both
  <2>2. HoldFirst(p, << >>, both, h, n)
    BY <2>1, ItemsOfFew DEF HoldFirst
  <2>. QED
    BY <2>2 DEF both
<1>. QED
  BY <1>1, <1>2, <1>3

\* In one sequence they are that many items, and those.
LEMMA HoldTogether ==
  ASSUME NEW p \in Seq(Nat), NEW f \in Seq(Nat), NEW e \in Seq(Nat), NEW h \in Seq(Nat),
         NEW n \in Nat, HoldFirst(p, f, e, h, n)
  PROVE  Len(p \o f \o e \o h) = n /\ Items(p \o f \o e \o h) = 1..n
<1>1. \A q, r \in Seq(Nat) :
        /\ q \o r \in Seq(Nat)
        /\ Len(q \o r) = Len(q) + Len(r)
        /\ Items(q \o r) = Items(q) \cup Items(r)
  BY ItemsOfConcat
<1>. DEFINE pf == p \o f
            pfe == pf \o e
            all == pfe \o h
<1>2. pf \in Seq(Nat) /\ Len(pf) = Len(p) + Len(f) /\ Items(pf) = Items(p) \cup Items(f)
  BY <1>1
<1>. HIDE DEF pf
<1>3. pfe \in Seq(Nat) /\ Len(pfe) = Len(pf) + Len(e) /\ Items(pfe) = Items(pf) \cup Items(e)
  BY <1>1, <1>2
<1>. HIDE DEF pfe
<1>4. Len(all) = Len(pfe) + Len(h) /\ Items(all) = Items(pfe) \cup Items(h)
  BY <1>1, <1>3
<1>. HIDE DEF all
<1>5. Len(all) = n /\ Items(all) = 1..n
  BY <1>2, <1>3, <1>4 DEF HoldFirst
<1>. QED
  BY <1>5 DEF all, pfe, pf

-----------------------------------------------------------------------------
(* Induction and recursion over the natural numbers.                       *)

\* A set of natural numbers has a least one.
LEMMA LeastElement ==
  ASSUME NEW T \in SUBSET Nat, T # {}
  PROVE  \E x \in T : \A y \in T : x <= y
<1> DEFINE R == OpToRel(<, Nat)
<1>1. IsWellFoundedOn(R, Nat)
  BY NatLessThanWellFounded
<1>2. R = {ss \in Nat \X Nat : ss[1] < ss[2]}
  BY DEF OpToRel
<1> HIDE DEF R
<1>3. PICK x \in T : \A y \in T : ~ (<<y, x>> \in R)
  BY <1>1, WFMin, Zenon
<1>4. ASSUME NEW y \in T PROVE x <= y
  <2>1. x \in Nat /\ y \in Nat
    OBVIOUS
  <2>2. ~ (<<y, x>> \in {ss \in Nat \X Nat : ss[1] < ss[2]})
    BY <1>2, <1>3
  <2>3. ~ (y < x)
    BY <2>1, <2>2
  <2> QED
    BY <2>1, <2>3
<1> QED
  BY <1>4

\* A set that holds 0, and with n also n + 1, holds every natural number.
LEMMA Induction ==
  ASSUME NEW S, 0 \in S, \A n \in Nat : n \in S => n + 1 \in S
  PROVE  Nat \subseteq S
<1> SUFFICES ASSUME Nat \ S # {} PROVE FALSE
  OBVIOUS
<1>1. PICK x \in Nat \ S : \A y \in Nat \ S : x <= y
  BY LeastElement
<1>2. x # 0 /\ x - 1 \in Nat /\ x - 1 \in S
  BY <1>1
<1> QED
  BY <1>1, <1>2

\* The greatest number of a non-empty part of 1..n.
LEMMA MaxOfPart ==
  ASSUME NEW n \in Nat, NEW s \in SUBSET (1..n), s # {}
  PROVE  Max(s) \in s /\ \A y \in s : Max(s) >= y
<1> DEFINE T == {n - y : y \in s}
<1>1. T \in SUBSET Nat /\ T # {}
  <2>1. ASSUME NEW y \in s PROVE n - y \in Nat
    <3>1. y \in 1..n
      OBVIOUS
    <3> QED
      BY <3>1
  <2> QED
    BY <2>1
<1>2. PICK x \in T : \A y \in T : x <= y
  BY <1>1, LeastElement
<1>3. PICK z \in s : x = n - z
  BY <1>2
<1>4. ASSUME NEW y \in s PROVE z >= y
  <2>1. x <= n - y
    BY <1>2
  <2>2. y \in 1..n /\ z \in 1..n
    OBVIOUS
  <2> HIDE DEF T
  <2> QED
    BY <1>3, <2>1, <2>2
<1>5. \E m \in s : \A y \in s : m >= y
  BY <1>4
<1> QED
  BY <1>5 DEF Max

\* The greatest number of 1..k, and what is left without it.
LEMMA MaxOfInterval ==
  ASSUME NEW n \in Nat, NEW k \in 1..n
  PROVE  1..k \in SUBSET (1..n) /\ 1..k # {} /\ Max(1..k) = k /\ (1..k) \ {k} = 1..(k - 1)
<1>0. k \in Nat /\ k >= 1 /\ k <= n /\ k \in 1..k
  OBVIOUS
<1>1. 1..k \in SUBSET (1..n)
  BY <1>0
<1>6. (1..k) \ {k} = 1..(k - 1)
  <2>1. ASSUME NEW x \in 1..(k - 1) PROVE x \in 1..k /\ x # k
    BY <1>0
  <2>2. ASSUME NEW x \in 1..k, x # k PROVE x \in 1..(k - 1)
    BY <1>0, <2>2
  <2> QED
    BY <2>1, <2>2
<1>2. Max(1..k) \in 1..k /\ \A y \in 1..k : Max(1..k) >= y
  BY <1>0, <1>1, MaxOfPart
<1>3. Max(1..k) >= k
  BY <1>0, <1>2
<1>4. ASSUME NEW x \in 1..k, x >= k PROVE x = k
  BY <1>0, <1>4
<1>5. Max(1..k) = k
  BY <1>2, <1>3, <1>4
<1> QED
  BY <1>0, <1>1, <1>5, <1>6

\* What FoldLeft over n elements chooses, its step on the k-th being step[k].
IsFold(S, base, n, step, g) ==
  /\ g \in [SUBSET (1..n) -> S]
  /\ g = [s \in SUBSET (1..n) |->
            IF s = {} THEN base ELSE step[Max(s)][g[s \ {Max(s)}]]]

\* It exists when every step is a function on the accumulator's values.
LEMMA FoldExists ==
  ASSUME NEW S, NEW base \in S, NEW n \in Nat, NEW step \in [1..n -> [S -> S]]
  PROVE  \E g : IsFold(S, base, n, step, g)
<1> DEFINE Good(m, g) ==
             /\ g \in [SUBSET (1..m) -> S]
             /\ \A s \in SUBSET (1..m) :
                  g[s] = IF s = {} THEN base ELSE step[Max(s)][g[s \ {Max(s)}]]
           Z == {m \in Nat : m <= n => \E g : Good(m, g)}
<1>1. 0 \in Z
  <2> DEFINE g == [s \in SUBSET (1..0) |-> base]
  <2>1. \A s \in SUBSET (1..0) : s = {}
    OBVIOUS
  <2>2. Good(0, g)
    BY <2>1
  <2> QED
    BY <2>2
<1>2. ASSUME NEW m \in Nat, m \in Z PROVE m + 1 \in Z
  <2> SUFFICES ASSUME m + 1 <= n PROVE \E g : Good(m + 1, g)
    <3> HIDE DEF Good
    <3> QED
      OBVIOUS
  <2>0. m <= n
    OBVIOUS
  <2>1. PICK g : Good(m, g)
    BY <1>2, <2>0
  <2> DEFINE f == [s \in SUBSET (1..(m + 1)) |->
                     IF m + 1 \in s THEN step[m + 1][g[s \ {m + 1}]] ELSE g[s]]
  <2>2. ASSUME NEW s \in SUBSET (1..(m + 1))
        PROVE  /\ s \ {m + 1} \in SUBSET (1..m)
               /\ m + 1 \notin s => s \in SUBSET (1..m)
    <3>1. ASSUME NEW x \in s, x # m + 1 PROVE x \in 1..m
      <4>1. x \in 1..(m + 1)
        OBVIOUS
      <4> QED
        BY <3>1, <4>1
    <3> QED
      BY <3>1
  <2>3. m + 1 \in 1..n /\ step[m + 1] \in [S -> S]
    OBVIOUS
  <2>10. \A s \in SUBSET (1..m) : g[s] \in S
    BY <2>1
  <2>11. \A a \in S : step[m + 1][a] \in S
    BY <2>3
  <2>4. ASSUME NEW s \in SUBSET (1..(m + 1)) PROVE f[s] \in S
    BY <2>10, <2>11, <2>2
  <2>12. SUBSET (1..m) \subseteq SUBSET (1..(m + 1))
    <3>1. 1..m \subseteq 1..(m + 1)
      OBVIOUS
    <3> QED
      BY <3>1
  <2>13. \A s \in SUBSET (1..m) : s \in SUBSET (1..(m + 1)) /\ m + 1 \notin s
    <3>1. m + 1 \notin 1..m
      OBVIOUS
    <3> QED
      BY <2>12, <3>1
  <2>14. \A s \in SUBSET (1..m) : f[s] = g[s]
    BY <2>13
  <2>15. \A s \in SUBSET (1..m) :
           g[s] = IF s = {} THEN base ELSE step[Max(s)][g[s \ {Max(s)}]]
    BY <2>1
  <2>16. \A s \in SUBSET (1..(m + 1)) :
           f[s] = IF m + 1 \in s THEN step[m + 1][g[s \ {m + 1}]] ELSE g[s]
    OBVIOUS
  <2>17. f \in [SUBSET (1..(m + 1)) -> S]
    BY <2>4
  <2> HIDE DEF Good, f
  <2>5. ASSUME NEW s \in SUBSET (1..(m + 1)), s # {}
        PROVE  f[s] = step[Max(s)][f[s \ {Max(s)}]]
    <3>0. m + 1 \in Nat
      OBVIOUS
    <3>1. Max(s) \in s /\ \A y \in s : Max(s) >= y
      BY <2>5, <3>0, MaxOfPart, Zenon
    <3>2. CASE m + 1 \in s
      <4>1. Max(s) \in 1..(m + 1) /\ Max(s) >= m + 1
        BY <3>1, <3>2
      <4>3. Max(s) = m + 1
        BY <4>1
      <4>2. f[s \ {m + 1}] = g[s \ {m + 1}]
        BY <2>2, <2>14
      <4> QED
        BY <3>2, <4>3, <4>2, <2>16
    <3>3. CASE m + 1 \notin s
      <4>1. s \in SUBSET (1..m) /\ s \ {Max(s)} \in SUBSET (1..m)
        BY <2>2, <3>3
      <4>2. f[s] = g[s] /\ f[s \ {Max(s)}] = g[s \ {Max(s)}]
        BY <4>1, <2>14
      <4>3. g[s] = step[Max(s)][g[s \ {Max(s)}]]
        BY <2>15, <2>5, <4>1
      <4> QED
        BY <4>2, <4>3
    <3> QED
      BY <3>2, <3>3
  <2>6. f[{}] = base
    <3>1. {} \in SUBSET (1..m)
      OBVIOUS
    <3> QED
      BY <2>14, <2>15, <3>1
  <2>7. Good(m + 1, f)
    BY <2>17, <2>5, <2>6 DEF Good
  <2> QED
    BY <2>7
<1> HIDE DEF Good, Z
<1>3. n \in Z
  BY <1>1, <1>2, Induction
<1>4. PICK g : Good(n, g)
  BY <1>3 DEF Z
<1> DEFINE G == [s \in SUBSET (1..n) |->
                   IF s = {} THEN base ELSE step[Max(s)][g[s \ {Max(s)}]]]
<1>5. g \in [SUBSET (1..n) -> S] /\ \A s \in SUBSET (1..n) : g[s] = G[s]
  BY <1>4 DEF Good
<1>6. g = G
  <2>1. DOMAIN g = SUBSET (1..n) /\ g = [s \in SUBSET (1..n) |-> g[s]]
    BY <1>5
  <2>2. DOMAIN G = SUBSET (1..n) /\ G = [s \in SUBSET (1..n) |-> G[s]]
    OBVIOUS
  <2> HIDE DEF G
  <2> QED
    BY <1>5, <2>1, <2>2
<1> QED
  BY <1>5, <1>6 DEF IsFold

\* A function on 0..n that starts with base and goes on by step.
IsSteps(S, base, n, step, f) ==
  /\ f \in [0..n -> S]
  /\ f[0] = base
  /\ \A k \in 1..n : f[k] = step[k][f[k - 1]]

\* Every step gives such a function.
LEMMA StepsExist ==
  ASSUME NEW S, NEW base \in S, NEW n \in Nat, NEW step \in [1..n -> [S -> S]]
  PROVE  \E f : IsSteps(S, base, n, step, f)
<1>1. PICK g : IsFold(S, base, n, step, g)
  BY FoldExists
<1>6. /\ g \in [SUBSET (1..n) -> S]
      /\ \A s \in SUBSET (1..n) :
           g[s] = IF s = {} THEN base ELSE step[Max(s)][g[s \ {Max(s)}]]
  BY <1>1 DEF IsFold
<1> DEFINE f == [k \in 0..n |-> g[1..k]]
<1>2. ASSUME NEW k \in 0..n PROVE 1..k \in SUBSET (1..n) /\ f[k] = g[1..k]
  OBVIOUS
<1>3. f \in [0..n -> S]
  BY <1>2, <1>6
<1>4. f[0] = base
  <2>1. 1..0 = {} /\ {} \in SUBSET (1..n)
    OBVIOUS
  <2>2. g[{}] = base
    BY <1>6, <2>1
  <2> QED
    BY <1>2, <2>1, <2>2
<1>5. ASSUME NEW k \in 1..n PROVE f[k] = step[k][f[k - 1]]
  <2>1. /\ 1..k \in SUBSET (1..n) /\ 1..k # {} /\ Max(1..k) = k
        /\ (1..k) \ {k} = 1..(k - 1)
    BY MaxOfInterval
  <2>2. g[1..k] = step[Max(1..k)][g[(1..k) \ {Max(1..k)}]]
    BY <1>6, <2>1
  <2>3. f[k] = g[1..k] /\ f[k - 1] = g[1..(k - 1)]
    OBVIOUS
  <2> QED
    BY <2>1, <2>2, <2>3
<1> HIDE DEF f
<1> QED
  BY <1>3, <1>4, <1>5 DEF IsSteps

\* Two functions agree on m..n; they go on to agree wherever they have agreed.
Alike(f, g, m, n) == \A k \in m..n : f[k] = g[k]
StayAlike(f, g, m, n) == \A k \in (m + 1)..n : f[k - 1] = g[k - 1] => f[k] = g[k]

\* Functions that start alike and go on alike are alike.
LEMMA StepsAlike ==
  ASSUME NEW n \in Nat, NEW f, NEW g, NEW m \in 0..n,
         f[m] = g[m], StayAlike(f, g, m, n)
  PROVE  Alike(f, g, m, n)
<1> USE DEF StayAlike
<1> DEFINE Z == {k \in Nat : m + k <= n => f[m + k] = g[m + k]}
<1>1. 0 \in Z
  OBVIOUS
<1>2. ASSUME NEW k \in Nat, k \in Z PROVE k + 1 \in Z
  <2> SUFFICES ASSUME m + (k + 1) <= n PROVE f[m + (k + 1)] = g[m + (k + 1)]
    OBVIOUS
  <2>1. m + k <= n /\ m + (k + 1) \in (m + 1)..n /\ m + (k + 1) - 1 = m + k
    OBVIOUS
  <2>2. f[m + k] = g[m + k]
    BY <1>2, <2>1
  <2> QED
    BY <2>1, <2>2
<1> HIDE DEF Z
<1>3. Nat \subseteq Z
  BY <1>1, <1>2, Induction
<1>4. ASSUME NEW k \in m..n PROVE f[k] = g[k]
  <2>1. k - m \in Nat /\ m + (k - m) = k /\ k <= n
    OBVIOUS
  <2>2. k - m \in Z
    BY <1>3, <2>1
  <2>3. m + (k - m) <= n => f[m + (k - m)] = g[m + (k - m)]
    BY <2>2 DEF Z
  <2> QED
    BY <2>1, <2>3
<1> QED
  BY <1>4 DEF Alike

-----------------------------------------------------------------------------
(* FlattenSeq.                                                             *)

\* What a concatenation consists of.
Concatenates(E, x, y, z) ==
  /\ z \in Seq(E) /\ Len(z) = Len(x) + Len(y)
  /\ \A i \in 1..Len(x) : z[i] = x[i]
  /\ \A i \in 1..Len(y) : z[Len(x) + i] = y[i]

LEMMA PartsOfConcat ==
  ASSUME NEW E, NEW x \in Seq(E), NEW y \in Seq(E)
  PROVE  Concatenates(E, x, y, x \o y)
<1>1. Len(x) \in Nat /\ Len(y) \in Nat
  OBVIOUS
<1>2. ASSUME NEW i \in 1..Len(x) PROVE (x \o y)[i] = x[i]
  OBVIOUS
<1>3. ASSUME NEW i \in 1..Len(y) PROVE (x \o y)[Len(x) + i] = y[i]
  OBVIOUS
<1> QED
  BY <1>1, <1>2, <1>3, ConcatProperties DEF Concatenates

\* Concatenation is associative.
LEMMA RegroupParts ==
  ASSUME NEW E, NEW a \in Seq(E), NEW b \in Seq(E), NEW c \in Seq(E)
  PROVE  (a \o b) \o c = a \o (b \o c)
OBVIOUS

\* The same for a goal among many sequences: Regroups is cited by name.
Regroups(a, b, c) == (a \o b) \o c = a \o (b \o c)
LEMMA Regrouping ==
  ASSUME NEW E, NEW a \in Seq(E), NEW b \in Seq(E), NEW c \in Seq(E)
  PROVE  Regroups(a, b, c)
BY RegroupParts DEF Regroups

\* What FlattenSeq computes, as a function from how many parts it has joined.
Joined(ss, E, f) ==
  /\ f \in [0..Len(ss) -> Seq(E)]
  /\ f[0] = << >>
  /\ \A k \in 1..Len(ss) : f[k] = f[k - 1] \o ss[k]

\* FlattenSeq joins the parts one after the other.
LEMMA FlattenJoins ==
  ASSUME NEW E, NEW ss \in Seq(Seq(E))
  PROVE  \E f : Joined(ss, E, f) /\ FlattenSeq(ss) = f[Len(ss)]
<1> DEFINE n == Len(ss)
           step == [k \in 1..n |-> [a \in Seq(E) |-> a \o ss[k]]]
<1>1. n \in Nat /\ << >> \in Seq(E)
  OBVIOUS
<1>2. step \in [1..n -> [Seq(E) -> Seq(E)]]
  <2>1. \A k \in 1..n : ss[k] \in Seq(E)
    OBVIOUS
  <2>2. ASSUME NEW k \in 1..n, NEW a \in Seq(E) PROVE a \o ss[k] \in Seq(E)
    BY <2>1
  <2> QED
    BY <2>2
<1> HIDE DEF n
<1>3. PICK f \in [0..n -> Seq(E)] :
        f[0] = << >> /\ \A k \in 1..n : f[k] = step[k][f[k - 1]]
  <2> HIDE DEF step
  <2>1. PICK f : IsSteps(Seq(E), << >>, n, step, f)
    BY <1>1, <1>2, StepsExist
  <2> QED
    BY <2>1 DEF IsSteps
<1>4. ASSUME NEW k \in 1..n PROVE f[k] = f[k - 1] \o ss[k] /\ k - 1 \in 0..n
  <2>1. k - 1 \in 0..n
    BY <1>1
  <2>2. f[k - 1] \in Seq(E)
    BY <1>3, <2>1
  <2>3. step[k][f[k - 1]] = f[k - 1] \o ss[k]
    BY <2>2
  <2> HIDE DEF step
  <2> QED
    BY <1>3, <2>1, <2>3
<1> HIDE DEF step
<1>11. 1 \in 1..n => f[1] = ss[1]
  <2>1. SUFFICES ASSUME 1 \in 1..n PROVE f[1] = ss[1]
    OBVIOUS
  <2>2. f[1] = f[1 - 1] \o ss[1]
    BY <1>4, <2>1
  <2>3. ss[1] \in Seq(E)
    BY <2>1 DEF n
  <2>4. << >> \o ss[1] = ss[1]
    BY <2>3
  <2> QED
    BY <1>3, <2>2, <2>4, 1 - 1 = 0
<1>5. Joined(ss, E, f)
  BY <1>3, <1>4 DEF Joined, n
<1> DEFINE Body(g) == [i \in 1..n |-> IF i = 1 THEN ss[i] ELSE g[i - 1] \o ss[i]]
           F == [i \in 1..n |-> f[i]]
           fl == CHOOSE g : g = Body(g)
<1>6. F = Body(F)
  <2>1. ASSUME NEW i \in 1..n
        PROVE  f[i] = IF i = 1 THEN ss[i] ELSE F[i - 1] \o ss[i]
    <3>1. CASE i = 1
      <4> QED
        BY <1>11, <3>1
    <3>2. CASE i # 1
      <4>1. i - 1 \in 1..n
        BY <1>1, <3>2
      <4> QED
        BY <1>4, <3>2, <4>1
    <3> QED
      BY <3>1, <3>2
  <2> QED
    BY <2>1
<1>7. fl = Body(fl)
  <2> HIDE DEF F, Body
  <2> QED
    BY <1>6
<1>8. n > 0 => fl[n] = f[n]
  <2> HIDE DEF fl
  <2>1. SUFFICES ASSUME n > 0 PROVE fl[n] = f[n]
    OBVIOUS
  <2>2. ASSUME NEW i \in 1..n
        PROVE  fl[i] = IF i = 1 THEN ss[i] ELSE fl[i - 1] \o ss[i]
    BY <1>7
  <2>3. ASSUME NEW i \in 1..n
        PROVE  f[i] = IF i = 1 THEN ss[i] ELSE f[i - 1] \o ss[i]
    <3> QED
      BY <1>4, <1>11
  <2>4. 1 \in 0..n /\ 1 \in 1..n
    BY <1>1, <2>1
  <2>5. fl[1] = f[1]
    BY <2>2, <2>3, <2>4
  <2>6. ASSUME NEW k \in (1 + 1)..n, fl[k - 1] = f[k - 1] PROVE fl[k] = f[k]
    <3>1. k \in 1..n /\ k # 1
      OBVIOUS
    <3> QED
      BY <2>2, <2>3, <2>6, <3>1
  <2>8. StayAlike(fl, f, 1, n)
    BY <2>6 DEF StayAlike
  <2>9. Alike(fl, f, 1, n)
    BY <1>1, <2>4, <2>5, <2>8, StepsAlike
  <2>10. n \in 1..n
    BY <1>1, <2>1
  <2> QED
    BY <2>9, <2>10 DEF Alike
<1>9. FlattenSeq(ss) = IF n = 0 THEN ss ELSE fl[n]
  BY DEF FlattenSeq, n
<1>10. FlattenSeq(ss) = f[n]
  <2>1. n = 0 => ss = << >>
    BY DEF n
  <2> HIDE DEF fl
  <2> QED
    BY <1>1, <1>3, <1>8, <1>9, <2>1
<1> QED
  BY <1>5, <1>10 DEF n

\* What is joined has the elements of the parts.
LEMMA FlattenIsSeq ==
  ASSUME NEW E, NEW ss \in Seq(Seq(E))
  PROVE  FlattenSeq(ss) \in Seq(E)
<1>1. PICK f : Joined(ss, E, f) /\ FlattenSeq(ss) = f[Len(ss)]
  BY FlattenJoins
<1>2. Len(ss) \in 0..Len(ss)
  OBVIOUS
<1> QED
  BY <1>1, <1>2 DEF Joined

\* No parts give nothing.
LEMMA FlattenNone == FlattenSeq(<< >>) = << >>
BY DEF FlattenSeq

\* One part is itself.
LEMMA FlattenOne ==
  ASSUME NEW E, NEW s \in Seq(E)
  PROVE  FlattenSeq(<<s>>) = s
<1>1. <<s>> \in Seq(Seq(E)) /\ Len(<<s>>) = 1 /\ <<s>>[1] = s
  OBVIOUS
<1>2. PICK f : Joined(<<s>>, E, f) /\ FlattenSeq(<<s>>) = f[Len(<<s>>)]
  BY <1>1, FlattenJoins
<1>4. f[0] = << >> /\ \A k \in 1..1 : f[k] = f[k - 1] \o <<s>>[k]
  BY <1>1, <1>2 DEF Joined
<1>3. f[1] = f[0] \o s /\ f[0] = << >>
  BY <1>1, <1>4, 1 \in 1..1, 1 - 1 = 0
<1> QED
  BY <1>1, <1>2, <1>3

\* Flattening distributes over concatenation.
LEMMA FlattenConcat ==
  ASSUME NEW E, NEW ss \in Seq(Seq(E)), NEW tt \in Seq(Seq(E))
  PROVE  FlattenSeq(ss \o tt) = FlattenSeq(ss) \o FlattenSeq(tt)
<1> DEFINE m == Len(ss)
           n == Len(tt)
           st == ss \o tt
<1>1. /\ m \in Nat /\ n \in Nat
      /\ st \in Seq(Seq(E)) /\ Len(st) = m + n
      /\ \A k \in 1..m : st[k] = ss[k]
      /\ \A k \in 1..n : st[m + k] = tt[k]
  <2> USE ConcatProperties
  <2>1. st \in Seq(Seq(E)) /\ Len(st) = m + n
    OBVIOUS
  <2>2. ASSUME NEW k \in 1..m PROVE st[k] = ss[k]
    OBVIOUS
  <2>3. ASSUME NEW k \in 1..n PROVE st[m + k] = tt[k]
    OBVIOUS
  <2> QED
    BY <2>1, <2>2, <2>3
<1>2. PICK f : Joined(ss, E, f) /\ FlattenSeq(ss) = f[m]
  BY FlattenJoins
<1>3. PICK g : Joined(tt, E, g) /\ FlattenSeq(tt) = g[n]
  BY FlattenJoins
<1>4. PICK h : Joined(st, E, h) /\ FlattenSeq(st) = h[m + n]
  BY <1>1, FlattenJoins
<1> HIDE DEF m, n, st
<1>5. /\ f \in [0..m -> Seq(E)] /\ f[0] = << >> /\ \A k \in 1..m : f[k] = f[k - 1] \o ss[k]
      /\ g \in [0..n -> Seq(E)] /\ g[0] = << >> /\ \A k \in 1..n : g[k] = g[k - 1] \o tt[k]
      /\ h \in [0..(m + n) -> Seq(E)] /\ h[0] = << >>
      /\ \A k \in 1..(m + n) : h[k] = h[k - 1] \o st[k]
  BY <1>1, <1>2, <1>3, <1>4 DEF Joined, m, n
<1>6. h[m] = f[m]
  <2>1. ASSUME NEW k \in (0 + 1)..m, h[k - 1] = f[k - 1] PROVE h[k] = f[k]
    <3>1. k \in 1..(m + n) /\ k \in 1..m
      BY <1>1
    <3> QED
      BY <1>1, <1>5, <2>1, <3>1
  <2>2. StayAlike(h, f, 0, m) /\ 0 \in 0..m /\ m \in 0..m
    BY <1>1, <2>1 DEF StayAlike
  <2>3. Alike(h, f, 0, m)
    BY <1>1, <1>5, <2>2, StepsAlike
  <2> QED
    BY <2>2, <2>3 DEF Alike
<1>7. f[m] \in Seq(E)
  BY <1>1, <1>5
<1> DEFINE hh == [k \in 0..n |-> h[m + k]]
           gg == [k \in 0..n |-> f[m] \o g[k]]
<1>8. hh[n] = gg[n]
  <2>1. ASSUME NEW k \in (0 + 1)..n, hh[k - 1] = gg[k - 1] PROVE hh[k] = gg[k]
    <3>1. /\ k \in 1..n /\ k - 1 \in 0..n /\ k \in 0..n /\ m + k \in 1..(m + n)
          /\ m + k - 1 = m + (k - 1)
      BY <1>1
    <3>2. hh[k] = h[m + k] /\ hh[k - 1] = h[m + (k - 1)]
          /\ gg[k] = f[m] \o g[k] /\ gg[k - 1] = f[m] \o g[k - 1]
      BY <3>1
    <3> HIDE DEF hh, gg
    <3>3. h[m + k] = h[m + (k - 1)] \o tt[k]
      <4>1. h[m + k] = h[m + (k - 1)] \o st[m + k]
        <5> DEFINE j == m + k
        <5>1. j \in 1..(m + n) /\ j - 1 = m + (k - 1)
          BY <1>1, <3>1
        <5> HIDE DEF j
        <5>2. h[j] = h[j - 1] \o st[j]
          BY <1>5, <5>1
        <5> QED
          BY <5>1, <5>2 DEF j
      <4> QED
        BY <1>1, <3>1, <4>1
    <3>4. g[k] = g[k - 1] \o tt[k]
      BY <1>5, <3>1
    <3>5. g[k - 1] \in Seq(E) /\ tt[k] \in Seq(E)
      <4>1. tt[k] \in Seq(E)
        BY <3>1 DEF n
      <4> QED
        BY <1>5, <3>1, <4>1
    <3>6. (f[m] \o g[k - 1]) \o tt[k] = f[m] \o (g[k - 1] \o tt[k])
      <4> DEFINE x == f[m]
                 y == g[k - 1]
                 z == tt[k]
      <4>1. x \in Seq(E) /\ y \in Seq(E) /\ z \in Seq(E)
        BY <1>7, <3>5
      <4> HIDE DEF x, y, z
      <4>2. (x \o y) \o z = x \o (y \o z)
        BY <4>1, RegroupParts
      <4> QED
        BY <4>2 DEF x, y, z
    <3> QED
      BY <2>1, <3>2, <3>3, <3>4, <3>6
  <2>2. hh[0] = gg[0]
    <3>1. 0 \in 0..n /\ m + 0 = m
      BY <1>1
    <3>2. f[m] \o << >> = f[m]
      BY <1>7
    <3> QED
      BY <1>5, <1>6, <3>1, <3>2
  <2> HIDE DEF hh, gg
  <2>3. StayAlike(hh, gg, 0, n) /\ 0 \in 0..n /\ n \in 0..n
    BY <1>1, <2>1 DEF StayAlike
  <2>4. Alike(hh, gg, 0, n)
    BY <1>1, <2>2, <2>3, StepsAlike
  <2> QED
    BY <2>3, <2>4 DEF Alike
<1>9. n \in 0..n
  BY <1>1
<1> QED
  BY <1>2, <1>3, <1>4, <1>8, <1>9 DEF st

\* One part more at the end.
LEMMA FlattenAppend ==
  ASSUME NEW E, NEW ss \in Seq(Seq(E)), NEW s \in Seq(E)
  PROVE  FlattenSeq(Append(ss, s)) = FlattenSeq(ss) \o s
<1>1. Append(ss, s) = ss \o <<s>> /\ <<s>> \in Seq(Seq(E))
  OBVIOUS
<1>2. FlattenSeq(ss \o <<s>>) = FlattenSeq(ss) \o FlattenSeq(<<s>>)
  BY <1>1, FlattenConcat
<1> QED
  BY <1>1, <1>2, FlattenOne

\* The first part and the rest.
LEMMA FlattenHead ==
  ASSUME NEW E, NEW ss \in Seq(Seq(E)), ss # << >>
  PROVE  FlattenSeq(ss) = Head(ss) \o FlattenSeq(Tail(ss))
<1>1. /\ ss = <<Head(ss)>> \o Tail(ss)
      /\ Head(ss) \in Seq(E) /\ <<Head(ss)>> \in Seq(Seq(E)) /\ Tail(ss) \in Seq(Seq(E))
  OBVIOUS
<1>2. FlattenSeq(<<Head(ss)>> \o Tail(ss)) = FlattenSeq(<<Head(ss)>>) \o FlattenSeq(Tail(ss))
  BY <1>1, FlattenConcat
<1> QED
  BY <1>1, <1>2, FlattenOne

\* Every element becomes a sequence, and these are joined.
FlatMap(g, s) == FlattenSeq([i \in DOMAIN s |-> g[s[i]]])

LEMMA FlatMapJoins ==
  ASSUME NEW E, NEW F, NEW g \in [E -> Seq(F)]
  PROVE  /\ FlatMap(g, << >>) = << >>
         /\ \A x \in E : FlatMap(g, <<x>>) = g[x]
         /\ \A s \in Seq(E) : FlatMap(g, s) \in Seq(F)
         /\ \A s, t \in Seq(E) : FlatMap(g, s \o t) = FlatMap(g, s) \o FlatMap(g, t)
<1> DEFINE M(s) == [i \in DOMAIN s |-> g[s[i]]]
<1>1. ASSUME NEW s \in Seq(E)
      PROVE  /\ M(s) \in Seq(Seq(F)) /\ Len(M(s)) = Len(s) /\ Len(s) \in Nat
             /\ \A i \in 1..Len(s) : M(s)[i] = g[s[i]]
  <2>1. DOMAIN s = 1..Len(s) /\ Len(s) \in Nat /\ \A i \in 1..Len(s) : s[i] \in E
    OBVIOUS
  <2>2. \A i \in 1..Len(s) : g[s[i]] \in Seq(F)
    BY <2>1
  <2> QED
    BY <2>1, <2>2
<1>2. \A s \in Seq(E) : FlatMap(g, s) = FlattenSeq(M(s))
  BY DEF FlatMap
<1>3. FlatMap(g, << >>) = << >>
  <2>1. [i \in DOMAIN << >> |-> g[<< >>[i]]] = << >>
    OBVIOUS
  <2> QED
    BY <2>1, FlattenNone DEF FlatMap
<1> HIDE DEF M
<1>4. ASSUME NEW s \in Seq(E) PROVE FlatMap(g, s) \in Seq(F)
  BY <1>1, <1>2, FlattenIsSeq
<1>5. ASSUME NEW x \in E PROVE FlatMap(g, <<x>>) = g[x]
  <2>1. <<x>> \in Seq(E) /\ Len(<<x>>) = 1 /\ <<x>>[1] = x /\ g[x] \in Seq(F)
    OBVIOUS
  <2>2. M(<<x>>) = <<g[x]>>
    BY <2>1 DEF M
  <2> QED
    BY <1>2, <2>1, <2>2, FlattenOne
<1>6. ASSUME NEW s \in Seq(E), NEW t \in Seq(E)
      PROVE  FlatMap(g, s \o t) = FlatMap(g, s) \o FlatMap(g, t)
  <2> DEFINE st == s \o t
             x == M(s)
             y == M(t)
             z == M(st)
             xy == x \o y
             m == Len(s)
             n == Len(t)
  <2>1. Concatenates(E, s, t, st)
    BY PartsOfConcat
  <2>2. /\ m \in Nat /\ n \in Nat
        /\ x \in Seq(Seq(F)) /\ Len(x) = m /\ \A i \in 1..m : x[i] = g[s[i]]
        /\ y \in Seq(Seq(F)) /\ Len(y) = n /\ \A i \in 1..n : y[i] = g[t[i]]
    BY <1>1
  <2>3. Concatenates(Seq(F), x, y, xy)
    <3> HIDE DEF x, y
    <3> QED
      BY <2>2, PartsOfConcat
  <2> HIDE DEF st, x, y, xy
  <2>4. /\ st \in Seq(E) /\ Len(st) = m + n
        /\ \A i \in 1..m : st[i] = s[i]
        /\ \A i \in 1..n : st[m + i] = t[i]
    BY <2>1 DEF Concatenates
  <2>5. z \in Seq(Seq(F)) /\ Len(z) = m + n /\ \A i \in 1..(m + n) : z[i] = g[st[i]]
    BY <1>1, <2>4
  <2> HIDE DEF z, m, n
  <2>6. /\ xy \in Seq(Seq(F)) /\ Len(xy) = m + n
        /\ \A i \in 1..m : xy[i] = x[i]
        /\ \A i \in 1..n : xy[m + i] = y[i]
    BY <2>2, <2>3 DEF Concatenates
  <2>7. ASSUME NEW i \in 1..(m + n) PROVE z[i] = xy[i]
    <3>1. CASE i \in 1..m
      <4>1. z[i] = g[st[i]] /\ st[i] = s[i]
        BY <2>4, <2>5, <3>1
      <4>2. xy[i] = x[i] /\ x[i] = g[s[i]]
        BY <2>2, <2>6, <3>1
      <4> QED
        BY <4>1, <4>2
    <3>2. CASE i \notin 1..m
      <4> DEFINE j == i - m
      <4>1. j \in 1..n /\ i = m + j
        BY <2>2, <3>2
      <4> HIDE DEF j
      <4>2. z[i] = g[st[m + j]] /\ st[m + j] = t[j]
        BY <2>4, <2>5, <4>1
      <4>3. xy[m + j] = y[j] /\ y[j] = g[t[j]]
        BY <2>2, <2>6, <4>1
      <4> QED
        BY <4>1, <4>2, <4>3
    <3> QED
      BY <3>1, <3>2
  <2>8. z = xy
    BY <2>5, <2>6, <2>7, SeqEqual
  <2>9. FlattenSeq(x \o y) = FlattenSeq(x) \o FlattenSeq(y)
    BY <2>2, FlattenConcat
  <2> QED
    BY <1>2, <2>4, <2>8, <2>9 DEF x, y, z, st, xy
<1> QED
  BY <1>3, <1>4, <1>5, <1>6

\* The same for a goal among many sequences.
MapsTo(g, E, F) == g \in [E -> Seq(F)]
MapsJoined(g, s, t) == FlatMap(g, s \o t) = FlatMap(g, s) \o FlatMap(g, t)

LEMMA FlatMapOfConcat ==
  ASSUME NEW E, NEW F, NEW g, MapsTo(g, E, F), NEW s \in Seq(E), NEW t \in Seq(E)
  PROVE  MapsJoined(g, s, t)
<1>1. g \in [E -> Seq(F)]
  BY DEF MapsTo
<1>2. FlatMap(g, s \o t) = FlatMap(g, s) \o FlatMap(g, t)
  BY <1>1, FlatMapJoins
<1> QED
  BY <1>2 DEF MapsJoined
=============================================================================
