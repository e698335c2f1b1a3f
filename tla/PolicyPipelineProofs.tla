------------------------- MODULE PolicyPipelineProofs -------------------------
(***************************************************************************)
(* What the operators of PolicyModules.tla and PolicyPipeline.tla return,  *)
(* for every intent that gets past the early checks: Prune and KeepLast    *)
(* keep a list a list, each module proposes a value of the right type, a   *)
(* module that allows an EXECUTE proposes one within its limit, and the    *)
(* merge keeps a state a state.                                            *)
(***************************************************************************)
EXTENDS PolicyPipeline, SequenceTheorems, FiniteSetTheorems, WellFoundedInduction,
        NaturalsInduction, TLAPS

(* A set of natural numbers that is not empty has a least element: stands  *)
(* for induction below.                                                    *)
LEMMA LeastElement ==
  ASSUME NEW X \in SUBSET Nat, X # {}
  PROVE  \E x \in X : \A y \in X : ~(y < x)
<1>1. \E x \in X : \A y \in X : ~(<<y, x>> \in OpToRel(<, Nat))
  BY NatLessThanWellFounded, WFMin, Zenon
<1>2. QED BY <1>1, Zenon DEF OpToRel

-----------------------------------------------------------------------------
(* The body of Prune's function, for a function g of shorter prefixes.     *)
Step(list, cutoff, g, k) ==
  IF k = 0 THEN << >>
  ELSE IF list[k].ts >= cutoff THEN Append(g[k - 1], list[k])
  ELSE g[k - 1]

(* g is Prune's function up to m.                                          *)
Prunes(list, cutoff, m, g) == g = [k \in 0 .. m |-> Step(list, cutoff, g, k)]

(* Prune's function exists up to every m.                                  *)
LEMMA PruneExists ==
  ASSUME NEW list, NEW cutoff, NEW m \in Nat
  PROVE  \E g : Prunes(list, cutoff, m, g)
<1> DEFINE X == {n \in Nat : ~ \E g : Prunes(list, cutoff, n, g)}
<1>1. SUFFICES ASSUME X # {} PROVE FALSE
  OBVIOUS
<1>2. PICK n \in X : \A y \in X : ~(y < n)
  <2>1. X \in SUBSET Nat
    OBVIOUS
  <2>2. QED BY <1>1, <2>1, LeastElement, Zenon
<1>3. CASE n = 0
  <2> DEFINE g == [k \in 0 .. 0 |-> << >>]
  <2>1. g = [k \in 0 .. 0 |-> Step(list, cutoff, g, k)]
    BY DEF Step
  <2>2. QED BY <1>2, <1>3, <2>1, Zenon DEF Prunes
<1>4. CASE n # 0
  <2>1. /\ n \in Nat
        /\ n - 1 \in Nat
        /\ n - 1 < n
    BY <1>2, <1>4
  <2>2. n - 1 \notin X
    BY <1>2, <2>1
  <2>3. PICK g : Prunes(list, cutoff, n - 1, g)
    BY <2>1, <2>2
  <2> DEFINE h == [k \in 0 .. n |-> IF k = n THEN Step(list, cutoff, g, n) ELSE g[k]]
  <2>4. ASSUME NEW k \in 0 .. n
        PROVE  h[k] = Step(list, cutoff, h, k)
    <3>1. CASE k = n
      <4>1. h[k] = Step(list, cutoff, g, n)
        BY <3>1
      <4>2. h[n - 1] = g[n - 1]
        BY <2>1
      <4>3. QED BY <3>1, <4>1, <4>2, <1>4 DEF Step
    <3>2. CASE k # n
      <4>1. /\ k \in 0 .. n - 1
            /\ h[k] = g[k]
        BY <2>1, <3>2
      <4>2. g[k] = Step(list, cutoff, g, k)
        BY <2>3, <4>1 DEF Prunes
      <4>3. k # 0 => h[k - 1] = g[k - 1]
        BY <2>1, <4>1
      <4>4. QED BY <4>1, <4>2, <4>3 DEF Step
    <3>3. QED BY <3>1, <3>2
  <2>5. Prunes(list, cutoff, n, h)
    BY <2>4 DEF Prunes
  <2>6. QED BY <1>2, <2>5
<1>5. QED BY <1>3, <1>4

(* So Prune is the last value of a function that unfolds as it is written. *)
LEMMA PruneUnfolds ==
  ASSUME NEW list, NEW cutoff, Len(list) \in Nat
  PROVE  \E g : /\ Prunes(list, cutoff, Len(list), g)
                /\ Prune(list, cutoff) = g[Len(list)]
<1> DEFINE g == CHOOSE f : Prunes(list, cutoff, Len(list), f)
<1>1. Prunes(list, cutoff, Len(list), g)
  BY PruneExists
<1>2. Prune(list, cutoff) = g[Len(list)]
  BY DEF Prune, Prunes, Step
<1>3. QED BY <1>1, <1>2

(* Prune returns a list of elements of the same set.                       *)
LEMMA PruneType ==
  ASSUME NEW S, NEW list \in Seq(S), NEW cutoff
  PROVE  Prune(list, cutoff) \in Seq(S)
<1>1. PICK g : /\ Prunes(list, cutoff, Len(list), g)
               /\ Prune(list, cutoff) = g[Len(list)]
  BY PruneUnfolds
<1> DEFINE X == {n \in 0 .. Len(list) : g[n] \notin Seq(S)}
<1>2. CASE X = {}
  <2>1. Len(list) \in 0 .. Len(list)
    OBVIOUS
  <2>2. QED BY <1>1, <1>2, <2>1
<1>3. CASE X # {}
  <2>1. PICK n \in X : \A y \in X : ~(y < n)
    <3>1. X \in SUBSET Nat
      OBVIOUS
    <3>2. QED BY <1>3, <3>1, LeastElement, Zenon
  <2>2. /\ n \in 0 .. Len(list)
        /\ g[n] = Step(list, cutoff, g, n)
    BY <1>1, <2>1 DEF Prunes
  <2>3. n # 0
    <3>1. << >> \in Seq(S)
      OBVIOUS
    <3>2. g[n] # << >>
      BY <2>1, <3>1
    <3>3. QED BY <2>2, <3>2 DEF Step
  <2>4. /\ n - 1 \in 0 .. Len(list)
        /\ n \in 1 .. Len(list)
        /\ ~(n <= n - 1)
    BY <2>2, <2>3
  <2>5. g[n - 1] \in Seq(S)
    BY <2>1, <2>4
  <2>6. list[n] \in S
    BY <2>4
  <2>7. g[n] \in Seq(S)
    BY <2>2, <2>3, <2>5, <2>6 DEF Step
  <2>8. QED BY <2>1, <2>7
<1>4. QED BY <1>2, <1>3

(* x is on the list.                                                       *)
Lists(list, x) == \E k \in DOMAIN list : list[k] = x

-----------------------------------------------------------------------------
(* How many of the elements of list are among Q.                           *)
Marked(list, n, Q) == {k \in 1 .. n : list[k] \in Q}
Tally(list, Q) == Cardinality(Marked(list, Len(list), Q))

(* One more element adds one if it is among Q.                             *)
LEMMA MarkedNext ==
  ASSUME NEW list, NEW Q, NEW n \in Nat
  PROVE  /\ IsFiniteSet(Marked(list, n, Q))
         /\ Cardinality(Marked(list, n, Q)) \in 0 .. n
         /\ Cardinality(Marked(list, n + 1, Q)) =
              Cardinality(Marked(list, n, Q)) + IF list[n + 1] \in Q THEN 1 ELSE 0
<1>1. IsFiniteSet(1 .. n) /\ Cardinality(1 .. n) = n
  <2>1. /\ IsFiniteSet(1 .. n)
        /\ Cardinality(1 .. n) = IF 1 > n THEN 0 ELSE n - 1 + 1
    BY FS_Interval
  <2>2. QED BY <2>1
<1>2. Marked(list, n, Q) \subseteq 1 .. n
  BY DEF Marked
<1>3. /\ IsFiniteSet(Marked(list, n, Q))
      /\ Cardinality(Marked(list, n, Q)) \in Nat
      /\ Cardinality(Marked(list, n, Q)) <= n
  BY <1>1, <1>2, FS_Subset, FS_CardinalityType
<1>4. n + 1 \notin Marked(list, n, Q)
  BY DEF Marked
<1>5. CASE list[n + 1] \in Q
  <2>1. Marked(list, n + 1, Q) = Marked(list, n, Q) \cup {n + 1}
    BY <1>5 DEF Marked
  <2>2. Cardinality(Marked(list, n, Q) \cup {n + 1}) = Cardinality(Marked(list, n, Q)) + 1
    BY <1>3, <1>4, FS_AddElement
  <2>3. QED BY <1>3, <1>5, <2>1, <2>2
<1>6. CASE list[n + 1] \notin Q
  <2>1. \A k \in 1 .. n + 1 : list[k] \in Q => k \in 1 .. n
    BY <1>6
  <2>2. Marked(list, n + 1, Q) = Marked(list, n, Q)
    BY <2>1 DEF Marked
  <2>3. QED BY <1>3, <1>6, <2>2
<1>7. QED BY <1>5, <1>6

(* The same of a list one longer.                                          *)
LEMMA TallyAppend ==
  ASSUME NEW S, NEW list \in Seq(S), NEW last \in S, NEW Q
  PROVE  /\ Tally(list, Q) \in 0 .. Len(list)
         /\ last \in Q => Tally(Append(list, last), Q) = Tally(list, Q) + 1
         /\ last \notin Q => Tally(Append(list, last), Q) = Tally(list, Q)
<1> DEFINE more == Append(list, last)
<1>1. /\ Len(more) = Len(list) + 1
      /\ Len(list) \in Nat
      /\ more[Len(list) + 1] = last
      /\ \A k \in 1 .. Len(list) : more[k] = list[k]
  OBVIOUS
<1> HIDE DEF more
<1>2. Marked(more, Len(list), Q) = Marked(list, Len(list), Q)
  BY <1>1 DEF Marked
<1>3. Cardinality(Marked(more, Len(list) + 1, Q)) =
        Cardinality(Marked(more, Len(list), Q)) + IF more[Len(list) + 1] \in Q THEN 1 ELSE 0
  BY <1>1, MarkedNext, Zenon
<1>4. Cardinality(Marked(list, Len(list), Q)) \in 0 .. Len(list)
  BY <1>1, MarkedNext
<1>5. QED BY <1>1, <1>2, <1>3, <1>4 DEF Tally, more

(* Prune keeps the recent elements, however often one is listed, and no    *)
(* others.                                                                 *)
LEMMA PruneTally ==
  ASSUME NEW S, NEW list \in Seq(S), NEW cutoff, NEW Q
  PROVE  Tally(Prune(list, cutoff), Q) = Tally(list, {x \in Q : x.ts >= cutoff})
<1>1. /\ Len(list) \in Nat
      /\ DOMAIN list = 1 .. Len(list)
  OBVIOUS
<1>2. PICK g : /\ Prunes(list, cutoff, Len(list), g)
               /\ Prune(list, cutoff) = g[Len(list)]
  BY <1>1, PruneUnfolds
<1> DEFINE recent == {x \in Q : x.ts >= cutoff}
           Upto(n) == Cardinality(Marked(list, n, recent))
           Good(n) == g[n] \in Seq(S) /\ Tally(g[n], Q) = Upto(n)
           X == {n \in 0 .. Len(list) : ~Good(n)}
<1>3. CASE X = {}
  <2>1. Len(list) \in 0 .. Len(list)
    BY <1>1
  <2>2. Good(Len(list))
    BY <1>3, <2>1
  <2>3. QED BY <1>2, <2>2 DEF Tally
<1>4. CASE X # {}
  <2>1. PICK n \in X : \A y \in X : ~(y < n)
    <3>1. X \in SUBSET Nat
      OBVIOUS
    <3>2. QED BY <1>4, <3>1, LeastElement, Zenon
  <2>2. /\ n \in 0 .. Len(list)
        /\ ~Good(n)
        /\ g[n] = Step(list, cutoff, g, n)
    BY <1>2, <2>1 DEF Prunes
  <2>3. CASE n = 0
    <3>1. g[n] = << >>
      BY <2>2, <2>3 DEF Step
    <3>2. g[n] \in Seq(S) /\ Len(g[n]) = 0
      BY <3>1
    <3>3. Marked(list, n, recent) = {} /\ Marked(g[n], Len(g[n]), Q) = {}
      BY <2>3, <3>2 DEF Marked
    <3>5. Tally(g[n], Q) = Upto(n)
      BY <3>3 DEF Tally
    <3>6. QED BY <2>2, <3>2, <3>5
  <2>4. CASE n # 0
    <3>1. /\ n \in Nat
          /\ n - 1 \in Nat
          /\ n - 1 \in 0 .. Len(list)
          /\ n \in 1 .. Len(list)
          /\ n - 1 < n
          /\ (n - 1) + 1 = n
      BY <1>1, <2>2, <2>4
    <3>2. Good(n - 1)
      BY <2>1, <3>1
    <3>3. list[n] \in S
      BY <1>1, <3>1
    <3>4. Upto(n) = Upto(n - 1) + IF list[n] \in recent THEN 1 ELSE 0
      <4>1. Upto((n - 1) + 1) = Upto(n - 1) + IF list[(n - 1) + 1] \in recent THEN 1 ELSE 0
        BY <3>1, MarkedNext, Zenon
      <4>2. QED BY <3>1, <4>1
    <3>5. Upto(n - 1) \in 0 .. n - 1
      BY <3>1, MarkedNext
    <3>6. Tally(g[n - 1], Q) \in 0 .. Len(g[n - 1]) /\ Len(g[n - 1]) \in Nat
      BY <3>2, <3>3, TallyAppend
    <3>7. CASE list[n].ts >= cutoff
      <4>1. g[n] = Append(g[n - 1], list[n])
        BY <2>2, <2>4, <3>7 DEF Step
      <4>2. g[n] \in Seq(S)
        BY <3>2, <3>3, <4>1
      <4>3. Tally(g[n], Q) = Tally(g[n - 1], Q) + IF list[n] \in Q THEN 1 ELSE 0
        <5>1. g[n - 1] \in Seq(S)
          BY <3>2
        <5>2. /\ list[n] \in Q =>
                   Tally(Append(g[n - 1], list[n]), Q) = Tally(g[n - 1], Q) + 1
              /\ list[n] \notin Q =>
                   Tally(Append(g[n - 1], list[n]), Q) = Tally(g[n - 1], Q)
          BY <3>3, <5>1, TallyAppend
        <5>3. Tally(g[n - 1], Q) + 0 = Tally(g[n - 1], Q)
          BY <3>6
        <5>4. QED BY <4>1, <5>2, <5>3
      <4>4. list[n] \in Q <=> list[n] \in recent
        BY <3>7
      <4> HIDE DEF Upto, recent
      <4>5. QED BY <2>2, <3>2, <3>4, <4>2, <4>3, <4>4
    <3>8. CASE ~(list[n].ts >= cutoff)
      <4>1. g[n] = g[n - 1]
        BY <2>2, <2>4, <3>8 DEF Step
      <4>2. list[n] \notin recent
        BY <3>8
      <4> HIDE DEF Upto, recent
      <4>3. Upto(n) = Upto(n - 1)
        BY <3>4, <3>5, <4>2
      <4>4. QED BY <2>2, <3>2, <4>1, <4>3
    <3>9. QED BY <3>7, <3>8
  <2>5. QED BY <2>3, <2>4
<1>5. QED BY <1>3, <1>4

-----------------------------------------------------------------------------
(* What Append and a shorter list show of a longer one.                    *)
LEMMA AppendLists ==
  ASSUME NEW S, NEW list \in Seq(S), NEW last \in S
  PROVE  /\ Append(list, last) \in Seq(S)
         /\ Lists(Append(list, last), last)
         /\ \A x : Lists(list, x) => Lists(Append(list, last), x)
<1> DEFINE more == Append(list, last)
<1>1. /\ more \in Seq(S)
      /\ DOMAIN more = 1 .. Len(list) + 1
      /\ DOMAIN list = 1 .. Len(list)
      /\ Len(list) \in Nat
      /\ more[Len(list) + 1] = last
      /\ \A k \in 1 .. Len(list) : more[k] = list[k]
  OBVIOUS
<1> HIDE DEF more
<1>2. Lists(more, last)
  BY <1>1 DEF Lists
<1>3. ASSUME NEW x, Lists(list, x) PROVE Lists(more, x)
  <2>1. PICK k \in 1 .. Len(list) : list[k] = x
    BY <1>1, <1>3 DEF Lists
  <2>2. k \in DOMAIN more /\ more[k] = x
    BY <1>1, <2>1
  <2>3. QED BY <2>2 DEF Lists
<1>4. QED BY <1>1, <1>2, <1>3 DEF more

(* Prune drops nothing recent, wherever in the list it stands.             *)
LEMMA PruneKeeps ==
  ASSUME NEW S, NEW list \in Seq(S), NEW cutoff
  PROVE  \A j \in 1 .. Len(list) : list[j].ts >= cutoff => Lists(Prune(list, cutoff), list[j])
<1>1. PICK g : /\ Prunes(list, cutoff, Len(list), g)
               /\ Prune(list, cutoff) = g[Len(list)]
  BY PruneUnfolds
<1> DEFINE Kept(n) == \A j \in 1 .. n : list[j].ts >= cutoff => Lists(g[n], list[j])
           Good(n) == g[n] \in Seq(S) /\ Kept(n)
           X == {n \in 0 .. Len(list) : ~Good(n)}
<1>2. CASE X = {}
  <2>1. Len(list) \in 0 .. Len(list)
    OBVIOUS
  <2>2. Good(Len(list))
    BY <1>2, <2>1
  <2>3. QED BY <1>1, <2>2
<1>3. CASE X # {}
  <2>1. PICK n \in X : \A y \in X : ~(y < n)
    <3>1. X \in SUBSET Nat
      OBVIOUS
    <3>2. QED BY <1>3, <3>1, LeastElement, Zenon
  <2>2. /\ n \in 0 .. Len(list)
        /\ ~Good(n)
        /\ g[n] = Step(list, cutoff, g, n)
    BY <1>1, <2>1 DEF Prunes
  <2>3. CASE n = 0
    <3>1. g[n] = << >>
      BY <2>2, <2>3 DEF Step
    <3>2. g[n] \in Seq(S)
      BY <3>1
    <3>3. Kept(n)
      BY <2>3
    <3>4. QED BY <2>2, <3>2, <3>3
  <2>4. CASE n # 0
    <3>1. /\ n - 1 \in 0 .. Len(list)
          /\ n \in 1 .. Len(list)
          /\ n - 1 < n
          /\ 1 .. n = 1 .. n - 1 \cup {n}
      BY <2>2, <2>4
    <3>2. Good(n - 1)
      BY <2>1, <3>1
    <3>3. list[n] \in S
      BY <3>1
    <3>4. CASE list[n].ts >= cutoff
      <4>1. g[n] = Append(g[n - 1], list[n])
        BY <2>2, <2>4, <3>4 DEF Step
      <4>2. /\ g[n] \in Seq(S)
            /\ Lists(g[n], list[n])
            /\ \A x : Lists(g[n - 1], x) => Lists(g[n], x)
        BY <3>2, <3>3, <4>1, AppendLists
      <4>3. QED BY <2>2, <3>1, <3>2, <4>2
    <3>5. CASE ~(list[n].ts >= cutoff)
      <4>1. g[n] = g[n - 1]
        BY <2>2, <2>4, <3>5 DEF Step
      <4>2. QED BY <2>2, <3>1, <3>2, <3>5, <4>1
    <3>6. QED BY <3>4, <3>5
  <2>5. QED BY <2>3, <2>4
<1>4. QED BY <1>2, <1>3

(* Prune makes no list longer.                                             *)
LEMMA PruneShortens ==
  ASSUME NEW S, NEW list \in Seq(S), NEW cutoff
  PROVE  Len(Prune(list, cutoff)) <= Len(list)
<1>0. Len(list) \in Nat
  OBVIOUS
<1>1. PICK g : /\ Prunes(list, cutoff, Len(list), g)
               /\ Prune(list, cutoff) = g[Len(list)]
  BY <1>0, PruneUnfolds
<1> DEFINE Good(n) == g[n] \in Seq(S) /\ Len(g[n]) <= n
           X == {n \in 0 .. Len(list) : ~Good(n)}
<1>2. CASE X = {}
  <2>1. Len(list) \in 0 .. Len(list)
    OBVIOUS
  <2>2. Good(Len(list))
    BY <1>2, <2>1
  <2>3. QED BY <1>1, <2>2
<1>3. CASE X # {}
  <2>1. PICK n \in X : \A y \in X : ~(y < n)
    <3>1. X \in SUBSET Nat
      OBVIOUS
    <3>2. QED BY <1>3, <3>1, LeastElement, Zenon
  <2>2. /\ n \in 0 .. Len(list)
        /\ ~Good(n)
        /\ g[n] = Step(list, cutoff, g, n)
    BY <1>1, <2>1 DEF Prunes
  <2>3. CASE n = 0
    <3>1. g[n] = << >>
      BY <2>2, <2>3 DEF Step
    <3>2. g[n] \in Seq(S) /\ Len(g[n]) = 0
      BY <3>1
    <3>3. QED BY <2>2, <2>3, <3>2
  <2>4. CASE n # 0
    <3>1. n \in Nat /\ n - 1 \in 0 .. Len(list) /\ n \in 1 .. Len(list) /\ n - 1 < n
      BY <1>0, <2>2, <2>4
    <3>2. Good(n - 1)
      BY <2>1, <3>1
    <3>3. list[n] \in S
      BY <3>1
    <3>4. g[n] \in {g[n - 1], Append(g[n - 1], list[n])}
      BY <2>2, <2>4 DEF Step
    <3>5. Append(g[n - 1], list[n]) \in Seq(S) /\ Len(Append(g[n - 1], list[n])) = Len(g[n - 1]) + 1
      BY <3>2, <3>3
    <3>6. Len(g[n - 1]) \in Nat
      BY <3>2
    <3>7. g[n] \in Seq(S) /\ Len(g[n]) <= n
      <4>1. CASE g[n] = g[n - 1]
        BY <3>1, <3>2, <3>6, <4>1
      <4>2. CASE g[n] = Append(g[n - 1], list[n])
        <5>1. Len(g[n]) = Len(g[n - 1]) + 1 /\ Len(g[n - 1]) <= n - 1
          BY <3>2, <3>5, <4>2
        <5>2. QED BY <3>1, <3>5, <3>6, <4>2, <5>1
      <4>3. QED BY <3>4, <4>1, <4>2
    <3>8. QED BY <2>2, <3>7
  <2>5. QED BY <2>3, <2>4
<1>4. QED BY <1>2, <1>3

(* KeepLast returns a list of elements of the same set.                    *)
LEMMA KeepLastType ==
  ASSUME NEW S, NEW list \in Seq(S), NEW n \in Nat
  PROVE  KeepLast(list, n) \in Seq(S)
<1>1. CASE Len(list) <= n
  BY <1>1 DEF KeepLast
<1>2. CASE ~(Len(list) <= n)
  <2>1. /\ Len(list) - n + 1 \in Int
        /\ Len(list) \in Int
        /\ \A k \in Len(list) - n + 1 .. Len(list) : list[k] \in S
    BY <1>2
  <2>2. SubSeq(list, Len(list) - n + 1, Len(list)) \in Seq(S)
    BY <2>1, SubSeqProperties
  <2>3. QED BY <1>2, <2>2 DEF KeepLast
<1>3. QED BY <1>1, <1>2

-----------------------------------------------------------------------------
(* What the modules need to know of an intent: an agent the state          *)
(* configures and the fields they read.                                    *)
Readable(i) ==
  /\ i.type \in {"EXECUTE", "RELEASE"}
  /\ i.agent_id \in Agents
  /\ i.nonce \in Nonces
  /\ i.timestamp \in Nat
  /\ i.type = "EXECUTE" => i.request \in Requests

(* The replay list stays a list of nonce entries.                          *)
LEMMA ReplayTypes ==
  ASSUME NEW i, Readable(i), NEW s \in State
  PROVE  /\ NoncesWith(i, s) \in Seq(NonceEntry)
         /\ ReplayDelta(i, s) \in Seq(NonceEntry)
<1>1. s.nonces[i.agent_id] \in Seq(NonceEntry)
  BY DEF State, Readable
<1>2. RecentNonces(i, s) \in Seq(NonceEntry)
  BY <1>1, PruneType DEF RecentNonces
<1>3. [nonce |-> i.nonce, ts |-> i.timestamp] \in NonceEntry
  BY DEF Readable, NonceEntry
<1>4. NoncesWith(i, s) \in Seq(NonceEntry)
  BY <1>2, <1>3 DEF NoncesWith
<1>5. ReplayDelta(i, s) \in Seq(NonceEntry)
  BY <1>4, KeepLastType, LimitsAssumption DEF ReplayDelta
<1>6. QED BY <1>4, <1>5

(* The list of tool calls stays a list of call entries.                    *)
LEMMA CallsType ==
  ASSUME NEW i, Readable(i), i.type = "EXECUTE", NEW s \in State
  PROVE  CallsDelta(i, s) \in Seq(CallEntry)
<1>1. s.calls[i.agent_id] \in Seq(CallEntry)
  BY DEF State, Readable
<1>2. RecentCalls(i, s) \in Seq(CallEntry)
  BY <1>1, PruneType DEF RecentCalls
<1>3. [ts |-> i.timestamp, tool |-> i.request.tool] \in CallEntry
  BY LimitsAssumption DEF Readable, CallEntry, Request
<1>4. QED BY <1>1, <1>2, <1>3 DEF CallsDelta

(* The concurrency counter stays a natural number: RELEASE stops at zero.  *)
LEMMA ConcurrencyTypes ==
  ASSUME NEW i, Readable(i), NEW s \in State
  PROVE  /\ ActiveDelta(i, s) \in Nat
         /\ ActiveAuthsDelta(i, s) \in SUBSET AuthId
<1>1. /\ s.active[i.agent_id] \in Nat
      /\ s.active_auths[i.agent_id] \in SUBSET AuthId
  BY DEF State, Readable
<1>2. QED BY <1>1 DEF ActiveDelta, ActiveAuthsDelta

(* The velocity counter stays a counter.                                   *)
LEMMA CounterType ==
  ASSUME NEW i, Readable(i), NEW s \in State
  PROVE  CounterDelta(i, s) \in Counter
<1>1. s.counters[i.agent_id] \in Counter \cup {Undefined}
  BY DEF State, Readable
<1>2. QED BY <1>1 DEF CounterDelta, Counter, Readable

(* What an EXECUTE adds to the budget; within the limit when the module    *)
(* allows it.                                                              *)
LEMMA SpentDeltaBound ==
  ASSUME NEW i, Readable(i), i.type = "EXECUTE", NEW s \in State
  PROVE  /\ i.request.amount \in Int
         /\ SpentDelta(i, s) = s.spent_in_period[i.agent_id] + i.request.amount
         /\ SpentDelta(i, s) \in Int
         /\ BudgetReasons(i, s) = {} => SpentDelta(i, s) <= BudgetLimit[i.agent_id]
<1>1. /\ s.spent_in_period[i.agent_id] \in Int
      /\ i.request.amount \in Int
      /\ BudgetLimit[i.agent_id] \in Nat
  BY LimitsAssumption DEF State, Readable, Request
<1>2. QED BY <1>1 DEF SpentDelta, BudgetReasons

-----------------------------------------------------------------------------
(* The modules whose delta is merged allow the intent; a RELEASE runs none *)
(* of the modules that read the request; and an intent nobody denies is    *)
(* merged by all.                                                          *)
LEMMA MergedModulesAllow ==
  ASSUME NEW i, NEW s, NEW mode, NEW m \in Merged(i, Denying(i, s), mode)
  PROVE  Reasons(m, i, s) = {}
BY DEF Merged, Denying

(* A RELEASE never merges a delta of the modules it does not run.          *)
LEMMA ReleaseMerges ==
  ASSUME NEW i, i.type = "RELEASE", NEW denying, NEW mode
  PROVE  Merged(i, denying, mode) \cap {"ToolAmplification", "Budget", "Velocity"} = {}
BY DEF Merged, Modules, ReleaseModules

(* An EXECUTE nobody denies merges budget and velocity.                    *)
LEMMA ExecuteMergesAll ==
  ASSUME NEW i, i.type = "EXECUTE", NEW mode
  PROVE  {"Budget", "Velocity"} \subseteq Merged(i, {}, mode)
<1>1. /\ 7 \in DOMAIN Modules(i)
      /\ 8 \in DOMAIN Modules(i)
      /\ Modules(i)[7] = "Budget"
      /\ Modules(i)[8] = "Velocity"
  BY DEF Modules, ExecuteModules
<1>2. QED BY <1>1 DEF Merged

(* A merged budget delta was within the budget.                            *)
LEMMA BudgetAllows ==
  ASSUME NEW i, NEW s, NEW mode, "Budget" \in Merged(i, Denying(i, s), mode)
  PROVE  BudgetReasons(i, s) = {}
<1>1. Reasons("Budget", i, s) = {}
  BY MergedModulesAllow
<1>2. QED BY <1>1, Zenon DEF Reasons

(* An allowed RELEASE names an authorization the state lists.              *)
LEMMA ReleaseIsListed ==
  ASSUME NEW i, i.type = "RELEASE", NEW s, Denying(i, s) = {}
  PROVE  i.authorization_id \in s.active_auths[i.agent_id]
<1>1. /\ 3 \in DOMAIN Modules(i)
      /\ Modules(i)[3] = "Concurrency"
  BY DEF Modules, ReleaseModules
<1>2. Reasons("Concurrency", i, s) = {}
  BY <1>1 DEF Denying
<1>3. ConcurrencyReasons(i, s) = {}
  BY <1>2, Zenon DEF Reasons
<1>4. QED BY <1>3 DEF ConcurrencyReasons

-----------------------------------------------------------------------------
(* The merge keeps a state a state, whichever modules it is made of.       *)
LEMMA MergeType ==
  ASSUME NEW i, Readable(i), NEW s \in State, NEW ms,
         i.type = "RELEASE" => ms \cap {"ToolAmplification", "Budget", "Velocity"} = {}
  PROVE  MergeDeltas(i, s, ms) \in State
<1> DEFINE a == i.agent_id
           r == MergeDeltas(i, s, ms)
<1>1. /\ a \in Agents
      /\ i.type \in {"EXECUTE", "RELEASE"}
  BY DEF Readable
<1>2. r = [ policy_version |-> s.policy_version,
            kill_switch |-> s.kill_switch,
            nonces |-> r.nonces,
            max_concurrent |-> s.max_concurrent,
            active |-> r.active,
            active_auths |-> r.active_auths,
            calls |-> r.calls,
            spent_in_period |-> r.spent_in_period,
            counters |-> r.counters ]
  BY DEF MergeDeltas
<1>3. r.nonces \in [Agents -> Seq(NonceEntry)]
  BY <1>1, ReplayTypes DEF MergeDeltas, State
<1>4. r.active \in [Agents -> Nat]
  BY <1>1, ConcurrencyTypes DEF MergeDeltas, State
<1>5. r.active_auths \in [Agents -> SUBSET AuthId]
  BY <1>1, ConcurrencyTypes DEF MergeDeltas, State, MergeInto
<1>6. r.calls \in [Agents -> Seq(CallEntry)]
  BY <1>1, CallsType DEF MergeDeltas, State
<1>7. r.spent_in_period \in [Agents -> Int]
  BY <1>1, SpentDeltaBound DEF MergeDeltas, State
<1>8. r.counters \in [Agents -> Counter \cup {Undefined}]
  BY <1>1, CounterType DEF MergeDeltas, State
<1>9. /\ s.policy_version \in PolicyVersions
      /\ s.kill_switch \in [global : BOOLEAN, agents : SUBSET Agents]
      /\ s.max_concurrent \in [Agents -> Nat]
  BY DEF State
<1> HIDE DEF r
<1>10. r \in State
  BY <1>2, <1>3, <1>4, <1>5, <1>6, <1>7, <1>8, <1>9 DEF State
<1>11. QED
  BY <1>10 DEF r

(* The merge charges the amount to the agent of the intent, when it merges *)
(* the Budget module, and takes no agent over its limit.                   *)
LEMMA MergeSpends ==
  ASSUME NEW i, Readable(i), NEW s \in State, NEW ms,
         i.type = "RELEASE" => ms \cap {"ToolAmplification", "Budget", "Velocity"} = {},
         "Budget" \in ms => BudgetReasons(i, s) = {},
         \A a \in Agents : s.spent_in_period[a] <= BudgetLimit[a]
  PROVE  \A a \in Agents :
           LET spent == MergeDeltas(i, s, ms).spent_in_period[a]
           IN  /\ s.spent_in_period[a] \in Int
               /\ spent \in Int
               /\ spent <= BudgetLimit[a]
               /\ IF a = i.agent_id /\ "Budget" \in ms
                  THEN /\ i.type = "EXECUTE"
                       /\ i.request.amount \in Int
                       /\ spent = s.spent_in_period[a] + i.request.amount
                  ELSE spent = s.spent_in_period[a]
<1> TAKE a \in Agents
<1> DEFINE spent == MergeDeltas(i, s, ms).spent_in_period[a]
<1>1. s.spent_in_period[a] \in Int
  BY DEF State
<1>2. CASE a = i.agent_id /\ "Budget" \in ms
  <2>1. i.type = "EXECUTE"
    BY <1>2 DEF Readable
  <2>2. spent = SpentDelta(i, s)
    BY <1>2 DEF MergeDeltas, State
  <2>3. QED BY <1>1, <1>2, <2>1, <2>2, SpentDeltaBound
<1>3. CASE ~(a = i.agent_id /\ "Budget" \in ms)
  <2>1. spent = s.spent_in_period[a]
    BY <1>3 DEF MergeDeltas, State
  <2>2. QED BY <1>1, <1>3, <2>1
<1>4. QED BY <1>2, <1>3

(* An allowed EXECUTE charges its amount and counts itself.                *)
LEMMA ExecuteCharges ==
  ASSUME NEW i, Readable(i), i.type = "EXECUTE", NEW s \in State, NEW mode
  PROVE  LET working == MergeDeltas(i, s, Merged(i, {}, mode))
         IN  /\ working.spent_in_period[i.agent_id] =
                  s.spent_in_period[i.agent_id] + i.request.amount
             /\ working.counters[i.agent_id] \in Counter
             /\ i.request.amount \in Int
<1> DEFINE a  == i.agent_id
           ms == Merged(i, {}, mode)
<1>1. {"Budget", "Velocity"} \subseteq ms
  BY ExecuteMergesAll
<1>2. /\ SpentDelta(i, s) = s.spent_in_period[a] + i.request.amount
      /\ CounterDelta(i, s) \in Counter
      /\ i.request.amount \in Int
  BY SpentDeltaBound, CounterType
<1>3. a \in Agents
  BY DEF Readable
<1> HIDE DEF ms
<1>4. /\ MergeDeltas(i, s, ms).spent_in_period[a] = s.spent_in_period[a] + i.request.amount
      /\ MergeDeltas(i, s, ms).counters[a] \in Counter
  BY <1>1, <1>2, <1>3 DEF MergeDeltas, State
<1>5. QED BY <1>2, <1>4 DEF ms

(* Adding the authorization changes nothing else.                          *)
LEMMA WithAuthType ==
  ASSUME NEW i, Readable(i), NEW working \in State,
         i.type = "EXECUTE" => working.counters[i.agent_id] \in Counter
  PROVE  /\ WithAuth(i, working) \in State
         /\ WithAuth(i, working).spent_in_period = working.spent_in_period
<1>1. CASE i.type = "EXECUTE"
  <2>1. NewAuth(i, working) \in AuthId
    BY <1>1 DEF NewAuth, AuthId, Counter, Readable
  <2>2. QED BY <1>1, <2>1 DEF WithAuth, State, MergeInto
<1>2. CASE i.type # "EXECUTE"
  BY <1>2 DEF WithAuth
<1>3. QED BY <1>1, <1>2

(* The state of an evaluation is a state.                                  *)
LEMMA EvaluationState ==
  ASSUME NEW i, NEW s \in State, NEW mode, i.agent_id \in Agents => Readable(i)
  PROVE  Evaluation(i, s, mode).next \in State
<1> DEFINE denying == Denying(i, s)
           ms      == Merged(i, denying, mode)
           working == MergeDeltas(i, s, ms)
           out     == Evaluation(i, s, mode)
<1>1. CASE EarlyReasons(i, s) # {}
  BY <1>1 DEF Evaluation
<1>2. CASE EarlyReasons(i, s) = {}
  <2>1. i.agent_id \in Agents
    BY <1>2 DEF EarlyReasons
  <2>2. Readable(i)
    BY <2>1
  <2>3. i.type = "RELEASE" => ms \cap {"ToolAmplification", "Budget", "Velocity"} = {}
    BY ReleaseMerges
  <2> HIDE DEF ms
  <2>4. working \in State
    BY <2>2, <2>3, MergeType
  <2>5. denying = {} => WithAuth(i, working) \in State
    <3> SUFFICES ASSUME denying = {}
                 PROVE  WithAuth(i, working) \in State
      OBVIOUS
    <3>1. i.type = "EXECUTE" => working.counters[i.agent_id] \in Counter
      BY <2>2, ExecuteCharges DEF ms
    <3> HIDE DEF working
    <3>2. QED BY <2>2, <2>4, <3>1, WithAuthType
  <2>6. out.next \in {working, WithAuth(i, working)} /\ (denying # {} => out.next = working)
    <3> HIDE DEF working
    <3>1. out = LET Denied(next, events) == [decision |-> "DENY", next |-> next, events |-> events]
                IN  IF denying # {} THEN Denied(working, <<"INTENT_RECEIVED", "DECISION">>)
                    ELSE IF ~(Hashable(working) /\ CanSign) THEN Denied(working, <<"INTENT_RECEIVED">>)
                    ELSE [ decision |-> "ALLOW",
                           next     |-> WithAuth(i, working),
                           events   |-> <<"INTENT_RECEIVED", "DECISION", "AUTH_EMITTED">> ]
      BY <1>2, Zenon DEF Evaluation, working, ms
    <3> HIDE DEF out, denying
    <3>2. QED BY <3>1
  <2>7. QED BY <2>4, <2>5, <2>6
<1>3. QED BY <1>1, <1>2

(* An intent that nobody denies is entered in the replay list.             *)
LEMMA AllowedMergesReplay ==
  ASSUME NEW i, Readable(i), NEW mode
  PROVE  "Replay" \in Merged(i, {}, mode)
<1>1. CASE i.type = "EXECUTE"
  <2>1. 3 \in DOMAIN Modules(i) /\ Modules(i)[3] = "Replay"
    BY <1>1 DEF Modules, ExecuteModules
  <2>2. QED BY <2>1 DEF Merged
<1>2. CASE i.type = "RELEASE"
  <2>1. 2 \in DOMAIN Modules(i) /\ Modules(i)[2] = "Replay"
    BY <1>2 DEF Modules, ReleaseModules
  <2>2. QED BY <2>1 DEF Merged
<1>3. QED BY <1>1, <1>2 DEF Readable

(* A list that the cap leaves alone remembers every nonce of the window,   *)
(* and that of the intent, which is not among them.                        *)
LEMMA ReplayRemembers ==
  ASSUME NEW i, Readable(i), NEW s \in State, ReplayReasons(i, s) = {},
         Len(s.nonces[i.agent_id]) < MaxNonces
  PROVE  /\ Len(ReplayDelta(i, s)) <= Len(s.nonces[i.agent_id]) + 1
         /\ Lists(ReplayDelta(i, s), [nonce |-> i.nonce, ts |-> i.timestamp])
         /\ \A x : Lists(s.nonces[i.agent_id], x) /\ x.ts >= i.timestamp - ReplayWindow
                    => Lists(ReplayDelta(i, s), x) /\ x.nonce # i.nonce
<1> DEFINE list   == s.nonces[i.agent_id]
           recent == RecentNonces(i, s)
           entry  == [nonce |-> i.nonce, ts |-> i.timestamp]
<1>1. /\ list \in Seq(NonceEntry)
      /\ MaxNonces \in Nat
      /\ entry \in NonceEntry
  BY LimitsAssumption DEF State, Readable, NonceEntry
<1>2. /\ recent \in Seq(NonceEntry)
      /\ Len(recent) <= Len(list)
      /\ \A j \in 1 .. Len(list) : list[j].ts >= i.timestamp - ReplayWindow => Lists(recent, list[j])
  <2> HIDE DEF entry
  <2>1. QED BY <1>1, PruneType, PruneShortens, PruneKeeps DEF RecentNonces
<1>3. ReplayDelta(i, s) = Append(recent, entry)
  <2>1. Len(Append(recent, entry)) = Len(recent) + 1
    BY <1>1, <1>2
  <2>2. Len(recent) \in Nat /\ Len(list) \in Nat
    BY <1>1, <1>2
  <2>3. Len(Append(recent, entry)) <= MaxNonces
    BY <1>1, <1>2, <2>1, <2>2
  <2>4. QED BY <2>3 DEF ReplayDelta, NoncesWith, KeepLast
<1>4. /\ Lists(Append(recent, entry), entry)
      /\ \A x : Lists(recent, x) => Lists(Append(recent, entry), x)
      /\ Len(Append(recent, entry)) = Len(recent) + 1
  <2> HIDE DEF recent, entry
  <2>1. QED BY <1>1, <1>2, AppendLists
<1>5. ASSUME NEW x, Lists(list, x), x.ts >= i.timestamp - ReplayWindow
      PROVE  Lists(recent, x) /\ x.nonce # i.nonce
  <2>1. PICK j \in 1 .. Len(list) : list[j] = x
    BY <1>1, <1>5 DEF Lists
  <2>2. Lists(recent, x)
    BY <1>2, <1>5, <2>1
  <2>3. \A k \in DOMAIN recent : recent[k].nonce # i.nonce
    BY DEF ReplayReasons
  <2>4. QED BY <2>2, <2>3 DEF Lists
<1>6. Len(recent) + 1 <= Len(list) + 1
  BY <1>1, <1>2
<1>7. QED BY <1>3, <1>4, <1>5, <1>6

-----------------------------------------------------------------------------
(* The two modes of PolicyEngine.evaluatePure decide alike, and what is    *)
(* allowed comes to the same state and events; collect-all gives all the   *)
(* reasons that fail-fast gives.  What a denial merges is another matter.  *)
THEOREM ModesAgree ==
  ASSUME NEW i, NEW s
  PROVE  LET first == Evaluation(i, s, "fail-fast")
             all   == Evaluation(i, s, "collect-all")
         IN  /\ first.decision = "ALLOW" \/ all.decision = "ALLOW" => first = all
             /\ DenyReasons(i, s, Denying(i, s), "fail-fast")
                  \subseteq DenyReasons(i, s, Denying(i, s), "collect-all")
<1> DEFINE first == Evaluation(i, s, "fail-fast")
           all   == Evaluation(i, s, "collect-all")
<1>1. ASSUME EarlyReasons(i, s) # {}
      PROVE  first = all
  BY <1>1, Zenon DEF Evaluation
<1>2. ASSUME EarlyReasons(i, s) = {}, Denying(i, s) # {}
      PROVE  first.decision # "ALLOW" /\ all.decision # "ALLOW"
  BY <1>2 DEF Evaluation
<1>3. ASSUME Denying(i, s) = {}
      PROVE  first = all
  <2>1. Merged(i, {}, "fail-fast") = Merged(i, {}, "collect-all")
    <3>1. \A mode : Merged(i, {}, mode) = {Modules(i)[k] : k \in DOMAIN Modules(i)}
      BY DEF Merged
    <3>2. QED BY <3>1
  <2>2. QED BY <1>3, <2>1, Zenon DEF Evaluation
<1>4. DenyReasons(i, s, Denying(i, s), "fail-fast")
        \subseteq DenyReasons(i, s, Denying(i, s), "collect-all")
  <2>1. Reached(Denying(i, s), "fail-fast") \subseteq Reached(Denying(i, s), "collect-all")
    BY DEF Reached
  <2>2. QED BY <2>1 DEF DenyReasons
<1>5. first.decision = "ALLOW" \/ all.decision = "ALLOW" => first = all
  <2> HIDE DEF first, all
  <2>1. QED BY <1>1, <1>2, <1>3
<1>6. QED BY <1>4, <1>5
=============================================================================
