----------------------------- MODULE StandbyProofs -----------------------------
(***************************************************************************)
(* What Standby.tla promises of an engine that takes over from a snapshot, *)
(* for any agents, limits, intents and damage.  The codecs sort lists, so  *)
(* that what is equal after an import is what a list holds and not in      *)
(* which order; the modules look at no more than that, until the list of   *)
(* nonces is cut.                                                          *)
(***************************************************************************)
EXTENDS Standby, PolicyPipelineProofs

-----------------------------------------------------------------------------
(***************************************************************************)
(* Lists that hold the same                                                *)
(***************************************************************************)

(* Each element is on s as often as on t.                                  *)
SameElements(s, t) == \A Q : Tally(s, Q) = Tally(t, Q)

(* A limit that is set is not one that is missing.                         *)
LEMMA UndefinedIsNoNumber == Undefined \notin Nat
BY StandbyAssumption

(* The cardinality that StateCodecs speaks of is the usual one.            *)
LEMMA OneCardinality == ASSUME NEW S PROVE Codecs!Cardinality(S) = Cardinality(S)
BY DEF Codecs!Cardinality, Cardinality

(* There are n numbers from 1 to n.                                        *)
LEMMA IntervalCounts ==
  ASSUME NEW n \in Nat
  PROVE  IsFiniteSet(1 .. n) /\ Cardinality(1 .. n) = n
<1>1. IsFiniteSet(1 .. n) /\ Cardinality(1 .. n) = IF 1 > n THEN 0 ELSE n - 1 + 1
  BY FS_Interval
<1>2. QED BY <1>1

(* What stands in the sort before the place of k is not after k; every     *)
(* place is taken once.                                                    *)
LEMMA PlacesAreTaken ==
  ASSUME NEW n \in Nat, NEW R,
         \A j, k \in 1 .. n : <<j, k>> \in R \/ <<k, j>> \in R,
         \A j, k \in 1 .. n : <<j, k>> \in R /\ <<k, j>> \in R => j = k,
         \A j, k, l \in 1 .. n : <<j, k>> \in R /\ <<k, l>> \in R => <<j, l>> \in R
  PROVE  LET place == [k \in 1 .. n |-> Cardinality({j \in 1 .. n : <<j, k>> \in R})]
         IN  /\ place \in Bijection(1 .. n, 1 .. n)
             /\ \A j, k \in 1 .. n : place[j] < place[k] => <<j, k>> \in R
<1> DEFINE Down(k) == {j \in 1 .. n : <<j, k>> \in R}
           place == [k \in 1 .. n |-> Cardinality(Down(k))]
<1>1. IsFiniteSet(1 .. n) /\ Cardinality(1 .. n) = n
  BY IntervalCounts
<1>2. ASSUME NEW k \in 1 .. n
      PROVE  /\ IsFiniteSet(Down(k))
             /\ Cardinality(Down(k)) \in 1 .. n
  <2>1. Down(k) \subseteq 1 .. n
    OBVIOUS
  <2>2. k \in Down(k)
    OBVIOUS
  <2> HIDE DEF Down
  <2>3. IsFiniteSet(Down(k)) /\ Cardinality(Down(k)) \in Nat /\ Cardinality(Down(k)) <= n
    BY <1>1, <2>1, FS_Subset, FS_CardinalityType
  <2>4. Cardinality(Down(k)) # 0
    BY <2>3, <2>2, FS_EmptySet
  <2>5. QED BY <2>3, <2>4
<1>3. \A j, k \in 1 .. n :
        <<j, k>> \in R /\ j # k => Cardinality(Down(j)) < Cardinality(Down(k))
  <2> TAKE j, k \in 1 .. n
  <2> HAVE <<j, k>> \in R /\ j # k
  <2>1. Down(j) \subseteq Down(k)
    OBVIOUS
  <2>2. k \in Down(k) /\ k \notin Down(j)
    OBVIOUS
  <2> HIDE DEF Down
  <2>3. /\ IsFiniteSet(Down(k))
        /\ Cardinality(Down(j)) \in 1 .. n
        /\ Cardinality(Down(k)) \in 1 .. n
    BY <1>2
  <2>4. Cardinality(Down(j)) <= Cardinality(Down(k)) /\ Cardinality(Down(j)) # Cardinality(Down(k))
    BY <2>1, <2>2, <2>3, FS_Subset
  <2>5. QED BY <2>3, <2>4
<1> HIDE DEF Down
<1>4. place \in [1 .. n -> 1 .. n]
  BY <1>2
<1>5. \A j, k \in 1 .. n : <<j, k>> \in R /\ j # k => place[j] < place[k]
  BY <1>3
<1> HIDE DEF place
<1>7. \A j, k \in 1 .. n : place[j] = place[k] => j = k
  <2> SUFFICES ASSUME NEW j \in 1 .. n, NEW k \in 1 .. n, place[j] = place[k], j # k
               PROVE  FALSE
    OBVIOUS
  <2>1. place[j] \in 1 .. n /\ place[k] \in 1 .. n
    BY <1>4
  <2>2. place[j] < place[k] \/ place[k] < place[j]
    BY <1>5
  <2>3. QED BY <2>1, <2>2
<1>8. place \in Injection(1 .. n, 1 .. n)
  BY <1>4, <1>7 DEF Injection, IsInjective
<1>9. place \in Surjection(1 .. n, 1 .. n)
  BY <1>1, <1>8, FS_Injection
<1>10. \A j, k \in 1 .. n : place[j] < place[k] => <<j, k>> \in R
  <2> SUFFICES ASSUME NEW j \in 1 .. n, NEW k \in 1 .. n, place[j] < place[k], <<j, k>> \notin R
               PROVE  FALSE
    OBVIOUS
  <2>1. place[j] \in 1 .. n /\ place[k] \in 1 .. n
    BY <1>4
  <2>2. <<k, j>> \in R /\ j # k
    BY <2>1
  <2>3. place[k] < place[j]
    BY <1>5, <2>2
  <2>4. QED BY <2>1, <2>3
<1>11. place \in Bijection(1 .. n, 1 .. n)
  BY <1>8, <1>9 DEF Bijection
<1>12. QED BY <1>10, <1>11 DEF place, Down

(* ByTime moves the elements of a list about, and what it puts first is    *)
(* not after what it puts second.                                          *)
LEMMA ByTimeMoves ==
  ASSUME NEW S, NEW list \in Seq(S), NEW rank,
         \A k \in 1 .. Len(list) : list[k].ts \in Int /\ rank[k] \in Int
  PROVE  \E p \in Bijection(1 .. Len(list), 1 .. Len(list)) :
           /\ Codecs!ByTime(list, rank) = [k \in 1 .. Len(list) |-> list[p[k]]]
           /\ \A j, k \in 1 .. Len(list) : j < k =>
                \/ list[p[j]].ts < list[p[k]].ts
                \/ list[p[j]].ts = list[p[k]].ts /\ rank[p[j]] <= rank[p[k]]
<1> DEFINE n == Len(list)
           NotAfter(j, k) ==
             \/ list[j].ts < list[k].ts
             \/ /\ list[j].ts = list[k].ts
                /\ rank[j] < rank[k] \/ (rank[j] = rank[k] /\ j <= k)
           R == {q \in (1 .. n) \X (1 .. n) : NotAfter(q[1], q[2])}
           place == [k \in 1 .. n |-> Cardinality({j \in 1 .. n : <<j, k>> \in R})]
           p == [m \in 1 .. n |-> CHOOSE k \in 1 .. n : place[k] = m]
<1>1. /\ n \in Nat
      /\ DOMAIN list = 1 .. n
      /\ \A j, k \in 1 .. n : <<j, k>> \in R <=> NotAfter(j, k)
  OBVIOUS
<1>2. /\ \A j, k \in 1 .. n : <<j, k>> \in R \/ <<k, j>> \in R
      /\ \A j, k \in 1 .. n : <<j, k>> \in R /\ <<k, j>> \in R => j = k
      /\ \A j, k, l \in 1 .. n : <<j, k>> \in R /\ <<k, l>> \in R => <<j, l>> \in R
  <2> HIDE DEF R
  <2>1. \A j, k \in 1 .. n : NotAfter(j, k) \/ NotAfter(k, j)
    OBVIOUS
  <2>2. \A j, k \in 1 .. n : NotAfter(j, k) /\ NotAfter(k, j) => j = k
    OBVIOUS
  <2>3. \A j, k, l \in 1 .. n : NotAfter(j, k) /\ NotAfter(k, l) => NotAfter(j, l)
    OBVIOUS
  <2> HIDE DEF NotAfter
  <2>4. QED BY <1>1, <2>1, <2>2, <2>3
<1>3. Codecs!ByTime(list, rank) = [m \in 1 .. n |-> list[p[m]]]
  <2> DEFINE Place(k)  == Codecs!Cardinality({j \in DOMAIN list : NotAfter(j, k)})
             Placed(m) == CHOOSE k \in DOMAIN list : Place(k) = m
  <2>1. Codecs!ByTime(list, rank) = [m \in DOMAIN list |-> list[Placed(m)]]
    BY DEF Codecs!ByTime
  <2>2. ASSUME NEW k \in DOMAIN list
        PROVE  Place(k) = place[k]
    <3>1. {j \in DOMAIN list : NotAfter(j, k)} = {j \in 1 .. n : <<j, k>> \in R}
      BY <1>1
    <3>2. Place(k) = Cardinality({j \in DOMAIN list : NotAfter(j, k)})
      BY OneCardinality
    <3> HIDE DEF R, NotAfter, Place
    <3>3. QED BY <1>1, <3>1, <3>2
  <2> HIDE DEF Place, place
  <2>3. \A m \in 1 .. n : p[m] = Placed(m)
    BY <1>1, <2>2
  <2> HIDE DEF Placed, p
  <2>4. QED BY <1>1, <2>1, <2>3
<1> HIDE DEF R
<1>4. /\ place \in Bijection(1 .. n, 1 .. n)
      /\ \A j, k \in 1 .. n : place[j] < place[k] => <<j, k>> \in R
  <2> HIDE DEF NotAfter, n
  <2>1. QED BY <1>1, <1>2, PlacesAreTaken
<1>5. /\ \A j, k \in 1 .. n : place[j] = place[k] => j = k
      /\ \A m \in 1 .. n : \E k \in 1 .. n : place[k] = m
      /\ \A k \in 1 .. n : place[k] \in 1 .. n
  <2> HIDE DEF place, n
  <2>1. QED BY <1>4 DEF Bijection, Injection, Surjection, IsInjective
<1> HIDE DEF place
<1>6. \A m \in 1 .. n : p[m] \in 1 .. n /\ place[p[m]] = m
  BY <1>5
<1>7. p \in [1 .. n -> 1 .. n]
  BY <1>5
<1> HIDE DEF p
<1>8. p \in Bijection(1 .. n, 1 .. n)
  <2>1. p \in Injection(1 .. n, 1 .. n)
    BY <1>6, <1>7 DEF Injection, IsInjective
  <2>2. p \in Surjection(1 .. n, 1 .. n)
    <3>1. \A m \in 1 .. n : place[m] \in 1 .. n /\ p[place[m]] = m
      BY <1>5, <1>6
    <3>2. QED BY <1>7, <3>1 DEF Surjection
  <2>3. QED BY <2>1, <2>2 DEF Bijection
<1>9. ASSUME NEW j \in 1 .. n, NEW k \in 1 .. n, j < k
      PROVE  \/ list[p[j]].ts < list[p[k]].ts
             \/ list[p[j]].ts = list[p[k]].ts /\ rank[p[j]] <= rank[p[k]]
  <2>1. /\ p[j] \in 1 .. n /\ place[p[j]] = j
        /\ p[k] \in 1 .. n /\ place[p[k]] = k
    BY <1>6
  <2>2. NotAfter(p[j], p[k])
    <3> HIDE DEF NotAfter
    <3>1. QED BY <1>1, <1>4, <1>9, <2>1
  <2>3. rank[p[j]] \in Int /\ rank[p[k]] \in Int
    BY <2>1
  <2>4. QED BY <2>2, <2>3
<1>10. QED BY <1>3, <1>8, <1>9

(* The elements of a list that is moved about are those it had.            *)
LEMMA MovedHoldsTheSame ==
  ASSUME NEW S, NEW list \in Seq(S), NEW p \in Bijection(1 .. Len(list), 1 .. Len(list))
  PROVE  LET moved == [k \in 1 .. Len(list) |-> list[p[k]]]
         IN  /\ moved \in Seq(S)
             /\ Len(moved) = Len(list)
             /\ SameElements(list, moved)
<1> DEFINE n == Len(list)
           moved == [k \in 1 .. n |-> list[p[k]]]
<1>1. /\ p \in [1 .. n -> 1 .. n]
      /\ \A j, k \in 1 .. n : p[j] = p[k] => j = k
      /\ \A m \in 1 .. n : \E k \in 1 .. n : p[k] = m
  BY DEF Bijection, Injection, Surjection, IsInjective
<1>2. n \in Nat
  OBVIOUS
<1>3. \A k \in 1 .. n : list[p[k]] \in S
  BY <1>1
<1>4. moved \in Seq(S) /\ Len(moved) = n
  BY <1>2, <1>3
<1>5. ASSUME NEW Q
      PROVE  Tally(list, Q) = Tally(moved, Q)
  <2> DEFINE f == [k \in Marked(moved, n, Q) |-> p[k]]
  <2>1. \A k \in 1 .. n : k \in Marked(moved, n, Q) <=> p[k] \in Marked(list, n, Q)
    BY <1>1 DEF Marked
  <2>2. Marked(moved, n, Q) \subseteq 1 .. n /\ Marked(list, n, Q) \subseteq 1 .. n
    BY DEF Marked
  <2>3. IsFiniteSet(Marked(moved, n, Q))
    BY <1>2, MarkedNext
  <2> HIDE DEF moved
  <2>4. f \in Bijection(Marked(moved, n, Q), Marked(list, n, Q))
    <3>1. f \in [Marked(moved, n, Q) -> Marked(list, n, Q)]
      BY <2>1, <2>2
    <3>2. f \in Injection(Marked(moved, n, Q), Marked(list, n, Q))
      BY <1>1, <2>2, <3>1 DEF Injection, IsInjective
    <3>3. f \in Surjection(Marked(moved, n, Q), Marked(list, n, Q))
      BY <1>1, <2>1, <2>2, <3>1 DEF Surjection
    <3>4. QED BY <3>2, <3>3 DEF Bijection
  <2>5. ExistsBijection(Marked(moved, n, Q), Marked(list, n, Q))
    BY <2>4 DEF ExistsBijection
  <2>6. QED BY <1>4, <2>3, <2>5, FS_Bijection DEF Tally
<1> HIDE DEF moved
<1>6. QED BY <1>4, <1>5 DEF SameElements, moved

(* Tallies of what a list may hold.                                        *)
LEMMA Tallies ==
  ASSUME NEW S, NEW list \in Seq(S)
  PROVE  /\ Tally(list, S) = Len(list)
         /\ \A Q : Tally(list, Q) \in Nat
         /\ \A Q : Tally(list, Q) = 0 <=> \A k \in DOMAIN list : list[k] \notin Q
         /\ \A Q, P : (\A x \in S : x \in Q <=> x \in P) => Tally(list, Q) = Tally(list, P)
<1>1. /\ Len(list) \in Nat
      /\ DOMAIN list = 1 .. Len(list)
      /\ \A k \in 1 .. Len(list) : list[k] \in S
  OBVIOUS
<1>2. Tally(list, S) = Len(list)
  <2>1. Marked(list, Len(list), S) = 1 .. Len(list)
    BY <1>1 DEF Marked
  <2>2. QED BY <1>1, <2>1, IntervalCounts DEF Tally
<1>3. \A Q : Tally(list, Q) \in Nat
  BY <1>1, MarkedNext DEF Tally
<1>4. ASSUME NEW Q
      PROVE  Tally(list, Q) = 0 <=> \A k \in DOMAIN list : list[k] \notin Q
  <2>1. Tally(list, Q) = 0 <=> Marked(list, Len(list), Q) = {}
    BY <1>1, MarkedNext, FS_EmptySet DEF Tally
  <2>2. QED BY <1>1, <2>1 DEF Marked
<1>5. ASSUME NEW Q, NEW P, \A x \in S : x \in Q <=> x \in P
      PROVE  Tally(list, Q) = Tally(list, P)
  <2>1. Marked(list, Len(list), Q) = Marked(list, Len(list), P)
    BY <1>1, <1>5 DEF Marked
  <2>2. QED BY <2>1 DEF Tally
<1>6. QED BY <1>2, <1>3, <1>4, <1>5

(* Lists that hold the same are as long, and show the same.                *)
LEMMA SameElementsShow ==
  ASSUME NEW S, NEW s \in Seq(S), NEW t \in Seq(S), SameElements(s, t)
  PROVE  /\ Len(s) = Len(t)
         /\ \A x : Lists(s, x) <=> Lists(t, x)
         /\ {s[k] : k \in DOMAIN s} = {t[k] : k \in DOMAIN t}
<1>1. Len(s) = Len(t)
  BY Tallies DEF SameElements
<1>2. ASSUME NEW x
      PROVE  Lists(s, x) <=> Lists(t, x)
  <2>1. Tally(s, {x}) = Tally(t, {x})
    BY DEF SameElements
  <2>2. Tally(s, {x}) = 0 <=> ~Lists(s, x)
    BY Tallies DEF Lists
  <2>3. Tally(t, {x}) = 0 <=> ~Lists(t, x)
    BY Tallies DEF Lists
  <2>4. QED BY <2>1, <2>2, <2>3
<1>3. {s[k] : k \in DOMAIN s} = {t[k] : k \in DOMAIN t}
  BY <1>2 DEF Lists
<1>4. QED BY <1>1, <1>2, <1>3

(* What comes first on a list is before what comes later.                  *)
InOrder(list, before) ==
  \A j, k \in 1 .. Len(list) : j < k => <<list[j], list[k]>> \in before

(* A relation that puts any two elements of S in order.                    *)
Orders(before, S) ==
  /\ \A x, y \in S : <<x, y>> \in before \/ <<y, x>> \in before
  /\ \A x, y \in S : <<x, y>> \in before /\ <<y, x>> \in before => x = y
  /\ \A x, y, z \in S : <<x, y>> \in before /\ <<y, z>> \in before => <<x, z>> \in before

(* Of two lists in order that hold the same, none has an element where the *)
(* other has a later one.                                                  *)
LEMMA NoneLags ==
  ASSUME NEW S, NEW before, Orders(before, S),
         NEW s \in Seq(S), NEW t \in Seq(S), InOrder(s, before), InOrder(t, before),
         SameElements(s, t), NEW k \in 1 .. Len(s), k \in 1 .. Len(t)
  PROVE  <<t[k], s[k]>> \in before
<1> SUFFICES ASSUME <<t[k], s[k]>> \notin before
             PROVE  FALSE
  OBVIOUS
<1> DEFINE Q == {x \in S : <<x, s[k]>> \in before}
<1>1. /\ Len(s) \in Nat /\ Len(t) \in Nat
      /\ \A j \in 1 .. Len(s) : s[j] \in S
      /\ \A j \in 1 .. Len(t) : t[j] \in S
  OBVIOUS
<1>2. 1 .. k \subseteq Marked(s, Len(s), Q)
  <2> SUFFICES ASSUME NEW j \in 1 .. k
               PROVE  j \in 1 .. Len(s) /\ s[j] \in Q
    BY DEF Marked
  <2>1. j \in 1 .. Len(s) /\ (j = k \/ j < k)
    BY <1>1
  <2>2. QED BY <1>1, <2>1 DEF InOrder, Orders
<1>3. Marked(t, Len(t), Q) \subseteq 1 .. k - 1
  <2> SUFFICES ASSUME NEW j \in 1 .. Len(t), t[j] \in Q, ~(j < k)
               PROVE  FALSE
    BY <1>1 DEF Marked
  <2>1. j = k \/ k < j
    OBVIOUS
  <2>2. CASE j = k
    BY <2>2
  <2>3. CASE k < j
    BY <1>1, <2>3 DEF InOrder, Orders
  <2>4. QED BY <2>1, <2>2, <2>3
<1>4. k \in Nat /\ k - 1 \in Nat
  BY <1>1
<1>5. k <= Tally(s, Q)
  <2>1. IsFiniteSet(Marked(s, Len(s), Q))
    BY <1>1, MarkedNext
  <2>2. Cardinality(1 .. k) <= Cardinality(Marked(s, Len(s), Q))
    BY <1>2, <2>1, FS_Subset
  <2>3. QED BY <1>4, <2>2, IntervalCounts DEF Tally
<1>6. Tally(t, Q) <= k - 1
  <2>1. IsFiniteSet(1 .. k - 1) /\ Cardinality(1 .. k - 1) = k - 1
    BY <1>4, IntervalCounts
  <2>2. QED BY <1>3, <2>1, FS_Subset DEF Tally
<1>7. Tally(s, Q) = Tally(t, Q)
  BY DEF SameElements
<1>8. Tally(s, Q) \in Nat
  BY Tallies
<1>9. QED BY <1>4, <1>5, <1>6, <1>7, <1>8

(* So there is one way to put in order what a list holds.                  *)
LEMMA OneOrder ==
  ASSUME NEW S, NEW before, Orders(before, S),
         NEW s \in Seq(S), NEW t \in Seq(S), InOrder(s, before), InOrder(t, before),
         SameElements(s, t)
  PROVE  s = t
<1>1. Len(s) = Len(t)
  BY SameElementsShow
<1>2. SameElements(t, s)
  BY DEF SameElements
<1>3. ASSUME NEW k \in 1 .. Len(s)
      PROVE  s[k] = t[k]
  <2>1. <<t[k], s[k]>> \in before
    BY <1>1, NoneLags
  <2>2. <<s[k], t[k]>> \in before
    BY <1>1, <1>2, NoneLags
  <2>3. s[k] \in S /\ t[k] \in S
    BY <1>1
  <2>4. QED BY <2>1, <2>2, <2>3 DEF Orders
<1>4. QED BY <1>1, <1>3

-----------------------------------------------------------------------------
(***************************************************************************)
(* The lists of the codecs                                                 *)
(***************************************************************************)

(* By time, then by the text of the nonce.                                 *)
NonceOrder ==
  { q \in NonceEntry \X NonceEntry :
      \/ q[1].ts < q[2].ts
      \/ q[1].ts = q[2].ts /\ q[1].nonce <= q[2].nonce }

(* Time and then the text put any two entries in order: no two nonces have *)
(* the same text.                                                          *)
LEMMA NonceOrders ==
  /\ Orders(NonceOrder, NonceEntry)
  /\ \A x, y \in NonceEntry :
       <<x, y>> \in NonceOrder <=> \/ x.ts < y.ts
                                   \/ x.ts = y.ts /\ x.nonce <= y.nonce
<1>1. \A x, y \in NonceEntry :
        <<x, y>> \in NonceOrder <=> \/ x.ts < y.ts
                                    \/ x.ts = y.ts /\ x.nonce <= y.nonce
  BY DEF NonceOrder
<1>2. \A x \in NonceEntry : x.ts \in Nat /\ x.nonce \in Int
  BY StandbyAssumption DEF NonceEntry
<1>3. \A x, y \in NonceEntry : x.ts = y.ts /\ x.nonce = y.nonce => x = y
  <2>1. \A x \in NonceEntry : x = [nonce |-> x.nonce, ts |-> x.ts]
    BY DEF NonceEntry
  <2>2. QED BY <2>1
<1>4. \A x, y \in NonceEntry : <<x, y>> \in NonceOrder \/ <<y, x>> \in NonceOrder
  <2> TAKE x, y \in NonceEntry
  <2>1. x.ts \in Nat /\ y.ts \in Nat /\ x.nonce \in Int /\ y.nonce \in Int
    BY <1>2
  <2>2. QED BY <1>1, <2>1
<1>5. \A x, y \in NonceEntry : <<x, y>> \in NonceOrder /\ <<y, x>> \in NonceOrder => x = y
  BY <1>1, <1>2, <1>3
<1>6. \A x, y, z \in NonceEntry :
        <<x, y>> \in NonceOrder /\ <<y, z>> \in NonceOrder => <<x, z>> \in NonceOrder
  BY <1>1, <1>2
<1>7. QED BY <1>1, <1>4, <1>5, <1>6 DEF Orders

(* What normalizeReplay makes of a list of nonces.                         *)
LEMMA NoncesAreSorted ==
  ASSUME NEW list \in Seq(NonceEntry)
  PROVE  /\ Codecs!NoncesSorted(list) \in Seq(NonceEntry)
         /\ SameElements(list, Codecs!NoncesSorted(list))
         /\ InOrder(Codecs!NoncesSorted(list), NonceOrder)
<1> DEFINE n      == Len(list)
           rank   == [k \in DOMAIN list |-> list[k].nonce]
           sorted == Codecs!ByTime(list, rank)
<1>1. Codecs!NoncesSorted(list) = sorted
  BY DEF Codecs!NoncesSorted
<1>2. /\ n \in Nat
      /\ DOMAIN list = 1 .. n
      /\ \A k \in 1 .. n : list[k] \in NonceEntry
  OBVIOUS
<1>3. \A k \in 1 .. n : list[k].ts \in Int /\ list[k].nonce \in Int /\ rank[k] = list[k].nonce
  BY <1>2, StandbyAssumption DEF NonceEntry
<1> HIDE DEF rank
<1>4. PICK p \in Bijection(1 .. n, 1 .. n) :
        /\ sorted = [k \in 1 .. n |-> list[p[k]]]
        /\ \A j, k \in 1 .. n : j < k =>
             \/ list[p[j]].ts < list[p[k]].ts
             \/ list[p[j]].ts = list[p[k]].ts /\ rank[p[j]] <= rank[p[k]]
  BY <1>3, ByTimeMoves
<1>5. \A k \in 1 .. n : p[k] \in 1 .. n
  BY DEF Bijection, Injection
<1>6. sorted \in Seq(NonceEntry) /\ Len(sorted) = n /\ SameElements(list, sorted)
  BY <1>4, MovedHoldsTheSame
<1> HIDE DEF sorted
<1>7. InOrder(sorted, NonceOrder)
  <2> SUFFICES ASSUME NEW j \in 1 .. n, NEW k \in 1 .. n, j < k
               PROVE  <<sorted[j], sorted[k]>> \in NonceOrder
    BY <1>6 DEF InOrder
  <2>1. sorted[j] = list[p[j]] /\ sorted[k] = list[p[k]]
    BY <1>4
  <2>2. /\ rank[p[j]] = list[p[j]].nonce /\ rank[p[k]] = list[p[k]].nonce
        /\ list[p[j]] \in NonceEntry /\ list[p[k]] \in NonceEntry
    BY <1>2, <1>3, <1>5
  <2>3. \/ list[p[j]].ts < list[p[k]].ts
        \/ list[p[j]].ts = list[p[k]].ts /\ list[p[j]].nonce <= list[p[k]].nonce
    BY <1>4, <2>2
  <2>4. QED BY <2>1, <2>2, <2>3, NonceOrders
<1>8. QED BY <1>1, <1>6, <1>7

(* Two lists have the same normal form if and only if they hold the same.  *)
LEMMA SameNonces ==
  ASSUME NEW s \in Seq(NonceEntry), NEW t \in Seq(NonceEntry)
  PROVE  /\ Codecs!NoncesSorted(s) = Codecs!NoncesSorted(t) <=> SameElements(s, t)
         /\ Codecs!NoncesSorted(Codecs!NoncesSorted(s)) = Codecs!NoncesSorted(s)
<1>1. \A u, v \in Seq(NonceEntry) :
        SameElements(u, v) => Codecs!NoncesSorted(u) = Codecs!NoncesSorted(v)
  <2> TAKE u, v \in Seq(NonceEntry)
  <2> HAVE SameElements(u, v)
  <2>1. /\ Codecs!NoncesSorted(u) \in Seq(NonceEntry)
        /\ SameElements(u, Codecs!NoncesSorted(u))
        /\ InOrder(Codecs!NoncesSorted(u), NonceOrder)
    BY NoncesAreSorted
  <2>2. /\ Codecs!NoncesSorted(v) \in Seq(NonceEntry)
        /\ SameElements(v, Codecs!NoncesSorted(v))
        /\ InOrder(Codecs!NoncesSorted(v), NonceOrder)
    BY NoncesAreSorted
  <2>3. SameElements(Codecs!NoncesSorted(u), Codecs!NoncesSorted(v))
    BY <2>1, <2>2 DEF SameElements
  <2>4. Orders(NonceOrder, NonceEntry)
    BY NonceOrders
  <2>5. QED BY <2>1, <2>2, <2>3, <2>4, OneOrder
<1>2. /\ Codecs!NoncesSorted(s) \in Seq(NonceEntry)
      /\ SameElements(s, Codecs!NoncesSorted(s))
      /\ SameElements(t, Codecs!NoncesSorted(t))
  BY NoncesAreSorted
<1>3. Codecs!NoncesSorted(s) = Codecs!NoncesSorted(t) => SameElements(s, t)
  BY <1>2 DEF SameElements
<1>4. SameElements(Codecs!NoncesSorted(s), s)
  BY <1>2 DEF SameElements
<1>5. QED BY <1>1, <1>2, <1>3, <1>4

-----------------------------------------------------------------------------
(* Numbers that tell the tools of T apart, none being the first of them.   *)
Ranks(T) ==
  {r \in [T -> 0 .. Codecs!Cardinality(T)] :
     \A t, u \in T : t # u => r[t] # r[u] /\ (t = Undefined => r[t] < r[u])}

RankOf(T) ==
  CHOOSE r \in [T -> 0 .. Codecs!Cardinality(T)] :
    \A t, u \in T : t # u => r[t] # r[u] /\ (t = Undefined => r[t] < r[u])

(* Tools can be ranked without ties, none first, so that the choice of a   *)
(* rank in CallsSorted is of one there is.                                 *)
LEMMA RanksExist ==
  ASSUME NEW T, IsFiniteSet(T)
  PROVE  RankOf(T) \in Ranks(T)
<1> DEFINE named == T \ {Undefined}
           m     == Cardinality(named)
<1>1. IsFiniteSet(named) /\ m <= Cardinality(T)
  BY FS_Subset
<1>2. m \in Nat /\ Cardinality(T) \in Nat /\ ExistsBijection(1 .. m, named)
  BY <1>1, FS_CardinalityType
<1>3. PICK b : b \in Bijection(1 .. m, named)
  BY <1>2 DEF ExistsBijection
<1>4. /\ \A t \in named : \E k \in 1 .. m : b[k] = t
      /\ \A k \in 1 .. m : b[k] \in named
  BY <1>3 DEF Bijection, Injection, Surjection
<1> HIDE DEF m
<1> DEFINE r == [t \in T |-> IF t = Undefined THEN 0 ELSE CHOOSE k \in 1 .. m : b[k] = t]
<1>5. \A t \in named : r[t] \in 1 .. m /\ b[r[t]] = t
  BY <1>4
<1>6. \A t \in T : t = Undefined => r[t] = 0
  OBVIOUS
<1>7. r \in [T -> 0 .. Cardinality(T)]
  <2>1. \A t \in T : r[t] \in 0 .. Cardinality(T)
    <3> TAKE t \in T
    <3>1. CASE t = Undefined
      BY <1>2, <1>6, <3>1
    <3>2. CASE t # Undefined
      <4>1. r[t] \in 1 .. m
        BY <1>5, <3>2
      <4> HIDE DEF r
      <4>2. QED BY <1>1, <1>2, <4>1 DEF m
    <3>3. QED BY <3>1, <3>2
  <2>2. QED BY <2>1
<1> HIDE DEF r
<1>8. \A t, u \in T : t # u => r[t] # r[u] /\ (t = Undefined => r[t] < r[u])
  <2> TAKE t, u \in T
  <2> HAVE t # u
  <2>1. CASE t = Undefined
    <3>1. r[t] = 0 /\ r[u] \in 1 .. m
      BY <1>5, <1>6, <2>1
    <3>2. QED BY <1>2, <3>1
  <2>2. CASE u = Undefined
    <3>1. r[u] = 0 /\ r[t] \in 1 .. m
      BY <1>5, <1>6, <2>2
    <3>2. QED BY <1>2, <3>1, <2>2
  <2>3. CASE t # Undefined /\ u # Undefined
    BY <1>5, <2>3
  <2>4. QED BY <2>1, <2>2, <2>3
<1>9. r \in Ranks(T)
  <2>1. Codecs!Cardinality(T) = Cardinality(T)
    BY OneCardinality
  <2>2. QED BY <1>7, <1>8, <2>1 DEF Ranks
<1>10. QED BY <1>9 DEF Ranks, RankOf

(* Calls of some tools, and their order by a rank of these.                *)
ToolsOf(list) == {list[k].tool : k \in DOMAIN list}

Calling(T) == {x \in CallEntry : x.tool \in T}

CallOrder(T) ==
  { q \in Calling(T) \X Calling(T) :
      \/ q[1].ts < q[2].ts
      \/ q[1].ts = q[2].ts /\ RankOf(T)[q[1].tool] <= RankOf(T)[q[2].tool] }

(* Time and then the rank of the tool put any two calls in order.          *)
LEMMA CallOrders ==
  ASSUME NEW T, IsFiniteSet(T)
  PROVE  /\ Orders(CallOrder(T), Calling(T))
         /\ \A x, y \in Calling(T) :
              <<x, y>> \in CallOrder(T) <=>
                \/ x.ts < y.ts
                \/ x.ts = y.ts /\ RankOf(T)[x.tool] <= RankOf(T)[y.tool]
         /\ \A t \in T : RankOf(T)[t] \in Int
<1> DEFINE S == Calling(T)
           r == RankOf(T)
<1>1. /\ \A t \in T : r[t] \in Int
      /\ \A t, u \in T : t # u => r[t] # r[u]
  <2>1. /\ r \in [T -> 0 .. Codecs!Cardinality(T)]
        /\ \A t, u \in T : t # u => r[t] # r[u]
    BY RanksExist DEF Ranks
  <2> HIDE DEF r
  <2>2. QED BY <2>1
<1>2. \A x, y \in S :
        <<x, y>> \in CallOrder(T) <=> \/ x.ts < y.ts
                                      \/ x.ts = y.ts /\ r[x.tool] <= r[y.tool]
  <2> HIDE DEF r, S
  <2>1. CallOrder(T) = {q \in S \X S : \/ q[1].ts < q[2].ts
                                       \/ q[1].ts = q[2].ts /\ r[q[1].tool] <= r[q[2].tool]}
    BY DEF CallOrder, r, S
  <2>2. QED BY <2>1
<1>3. \A x \in S : x.ts \in Nat /\ x.tool \in T /\ x = [ts |-> x.ts, tool |-> x.tool]
  BY DEF Calling, CallEntry
<1> HIDE DEF r, S
<1>4. \A x \in S : r[x.tool] \in Int
  BY <1>1, <1>3
<1>5. \A x, y \in S : x.ts = y.ts /\ r[x.tool] = r[y.tool] => x = y
  BY <1>1, <1>3
<1>6. \A x, y \in S : <<x, y>> \in CallOrder(T) \/ <<y, x>> \in CallOrder(T)
  <2> TAKE x, y \in S
  <2>1. x.ts \in Nat /\ y.ts \in Nat /\ r[x.tool] \in Int /\ r[y.tool] \in Int
    BY <1>3, <1>4
  <2>2. QED BY <1>2, <2>1
<1>7. \A x, y \in S : <<x, y>> \in CallOrder(T) /\ <<y, x>> \in CallOrder(T) => x = y
  BY <1>2, <1>3, <1>4, <1>5
<1>8. \A x, y, z \in S :
        <<x, y>> \in CallOrder(T) /\ <<y, z>> \in CallOrder(T) => <<x, z>> \in CallOrder(T)
  BY <1>2, <1>3, <1>4
<1>9. Orders(CallOrder(T), S)
  BY <1>6, <1>7, <1>8 DEF Orders
<1>10. QED BY <1>1, <1>2, <1>9 DEF r, S

(* What normalizeToolLimits makes of a list of calls.                      *)
LEMMA CallsAreSorted ==
  ASSUME NEW list \in Seq(CallEntry)
  PROVE  /\ IsFiniteSet(ToolsOf(list))
         /\ list \in Seq(Calling(ToolsOf(list)))
         /\ Codecs!CallsSorted(list) \in Seq(Calling(ToolsOf(list)))
         /\ SameElements(list, Codecs!CallsSorted(list))
         /\ InOrder(Codecs!CallsSorted(list), CallOrder(ToolsOf(list)))
<1> DEFINE n      == Len(list)
           T      == ToolsOf(list)
           S      == Calling(T)
           r      == RankOf(T)
           rank   == [k \in DOMAIN list |-> r[list[k].tool]]
           sorted == Codecs!ByTime(list, rank)
<1>1. /\ n \in Nat
      /\ DOMAIN list = 1 .. n
      /\ \A k \in 1 .. n : list[k] \in CallEntry /\ list[k].tool \in T
  BY DEF ToolsOf
<1>2. IsFiniteSet(T)
  <2> DEFINE f == [k \in 1 .. n |-> list[k].tool]
  <2>1. \A t \in T : \E k \in 1 .. n : f[k] = t
    BY <1>1 DEF ToolsOf
  <2>2. f \in Surjection(1 .. n, T)
    BY <1>1, <2>1 DEF Surjection
  <2> HIDE DEF f, T
  <2>3. QED BY <1>1, <2>2, IntervalCounts, FS_Surjection
<1>3. Codecs!CallsSorted(list) = sorted
  BY Zenon DEF Codecs!CallsSorted, RankOf, ToolsOf
<1> HIDE DEF r, T
<1>4. list \in Seq(S)
  <2>1. \A k \in 1 .. n : list[k] \in S
    BY <1>1 DEF Calling
  <2> HIDE DEF S
  <2>2. QED BY <1>1, <2>1
<1>5. \A t \in T : r[t] \in Int
  BY <1>2, CallOrders DEF r
<1>6. \A k \in 1 .. n : list[k].ts \in Int /\ rank[k] \in Int /\ rank[k] = r[list[k].tool]
  BY <1>1, <1>5 DEF CallEntry
<1> HIDE DEF rank, S
<1>7. PICK p \in Bijection(1 .. n, 1 .. n) :
        /\ sorted = [k \in 1 .. n |-> list[p[k]]]
        /\ \A j, k \in 1 .. n : j < k =>
             \/ list[p[j]].ts < list[p[k]].ts
             \/ list[p[j]].ts = list[p[k]].ts /\ rank[p[j]] <= rank[p[k]]
  BY <1>6, ByTimeMoves
<1>8. \A k \in 1 .. n : p[k] \in 1 .. n
  BY DEF Bijection, Injection
<1>9. sorted \in Seq(S) /\ Len(sorted) = n /\ SameElements(list, sorted)
  BY <1>4, <1>7, MovedHoldsTheSame
<1> HIDE DEF sorted
<1>10. InOrder(sorted, CallOrder(T))
  <2> SUFFICES ASSUME NEW j \in 1 .. n, NEW k \in 1 .. n, j < k
               PROVE  <<sorted[j], sorted[k]>> \in CallOrder(T)
    BY <1>9 DEF InOrder
  <2>1. sorted[j] = list[p[j]] /\ sorted[k] = list[p[k]]
    BY <1>7
  <2>2. /\ rank[p[j]] = r[list[p[j]].tool] /\ rank[p[k]] = r[list[p[k]].tool]
        /\ list[p[j]] \in S /\ list[p[k]] \in S
    BY <1>1, <1>4, <1>6, <1>8
  <2>3. \/ list[p[j]].ts < list[p[k]].ts
        \/ list[p[j]].ts = list[p[k]].ts /\ r[list[p[j]].tool] <= r[list[p[k]].tool]
    BY <1>7, <2>2
  <2>4. QED BY <1>2, <2>1, <2>2, <2>3, CallOrders DEF S, r
<1>11. QED BY <1>2, <1>3, <1>4, <1>9, <1>10 DEF S, T

(* Two lists have the same normal form if and only if they hold the same.  *)
LEMMA SameCalls ==
  ASSUME NEW s \in Seq(CallEntry), NEW t \in Seq(CallEntry)
  PROVE  /\ Codecs!CallsSorted(s) = Codecs!CallsSorted(t) <=> SameElements(s, t)
         /\ Codecs!CallsSorted(Codecs!CallsSorted(s)) = Codecs!CallsSorted(s)
         /\ Codecs!CallsSorted(s) \in Seq(CallEntry)
<1>1. \A u \in Seq(CallEntry) : Codecs!CallsSorted(u) \in Seq(CallEntry)
  <2> TAKE u \in Seq(CallEntry)
  <2>1. Codecs!CallsSorted(u) \in Seq(Calling(ToolsOf(u)))
    BY CallsAreSorted
  <2>2. Calling(ToolsOf(u)) \subseteq CallEntry
    BY DEF Calling
  <2> HIDE DEF Calling
  <2>3. QED BY <2>1, <2>2
<1>2. \A u, v \in Seq(CallEntry) :
        SameElements(u, v) => Codecs!CallsSorted(u) = Codecs!CallsSorted(v)
  <2> TAKE u, v \in Seq(CallEntry)
  <2> HAVE SameElements(u, v)
  <2>1. ToolsOf(u) = ToolsOf(v)
    <3>1. \A w : ToolsOf(w) = {e.tool : e \in {w[k] : k \in DOMAIN w}}
      BY DEF ToolsOf
    <3>2. {u[k] : k \in DOMAIN u} = {v[k] : k \in DOMAIN v}
      BY SameElementsShow
    <3>3. QED BY <3>1, <3>2
  <2>2. /\ IsFiniteSet(ToolsOf(u))
        /\ Codecs!CallsSorted(u) \in Seq(Calling(ToolsOf(u)))
        /\ SameElements(u, Codecs!CallsSorted(u))
        /\ InOrder(Codecs!CallsSorted(u), CallOrder(ToolsOf(u)))
    BY CallsAreSorted
  <2>3. /\ Codecs!CallsSorted(v) \in Seq(Calling(ToolsOf(u)))
        /\ SameElements(v, Codecs!CallsSorted(v))
        /\ InOrder(Codecs!CallsSorted(v), CallOrder(ToolsOf(u)))
    BY <2>1, CallsAreSorted
  <2>4. SameElements(Codecs!CallsSorted(u), Codecs!CallsSorted(v))
    BY <2>2, <2>3 DEF SameElements
  <2>5. Orders(CallOrder(ToolsOf(u)), Calling(ToolsOf(u)))
    BY <2>2, CallOrders
  <2>6. QED BY <2>2, <2>3, <2>4, <2>5, OneOrder
<1>3. SameElements(s, Codecs!CallsSorted(s)) /\ SameElements(t, Codecs!CallsSorted(t))
  BY CallsAreSorted
<1>4. Codecs!CallsSorted(s) = Codecs!CallsSorted(t) => SameElements(s, t)
  BY <1>3 DEF SameElements
<1>5. SameElements(Codecs!CallsSorted(s), s)
  BY <1>3 DEF SameElements
<1>6. QED BY <1>1, <1>2, <1>4, <1>5

-----------------------------------------------------------------------------
(***************************************************************************)
(* States that hold the same                                               *)
(***************************************************************************)

(* The lists may be in any order.                                          *)
Alike(s, t) ==
  /\ t.policy_version = s.policy_version
  /\ t.kill_switch = s.kill_switch
  /\ t.max_concurrent = s.max_concurrent
  /\ t.active = s.active
  /\ t.active_auths = s.active_auths
  /\ t.spent_in_period = s.spent_in_period
  /\ t.counters = s.counters
  /\ \A a \in Agents :
       /\ SameElements(s.nonces[a], t.nonces[a])
       /\ SameElements(s.calls[a], t.calls[a])

(* Pruning lists that hold the same leaves the same.                       *)
LEMMA SamePruned ==
  ASSUME NEW S, NEW s \in Seq(S), NEW t \in Seq(S), SameElements(s, t), NEW cutoff
  PROVE  SameElements(Prune(s, cutoff), Prune(t, cutoff))
<1> SUFFICES ASSUME NEW Q
             PROVE  Tally(Prune(s, cutoff), Q) = Tally(Prune(t, cutoff), Q)
  BY DEF SameElements
<1>1. /\ Tally(Prune(s, cutoff), Q) = Tally(s, {x \in Q : x.ts >= cutoff})
      /\ Tally(Prune(t, cutoff), Q) = Tally(t, {x \in Q : x.ts >= cutoff})
  BY PruneTally
<1>2. QED BY <1>1 DEF SameElements

(* So does appending an element to both.                                   *)
LEMMA SameAppended ==
  ASSUME NEW S, NEW s \in Seq(S), NEW t \in Seq(S), SameElements(s, t), NEW e \in S
  PROVE  SameElements(Append(s, e), Append(t, e))
<1> SUFFICES ASSUME NEW Q
             PROVE  Tally(Append(s, e), Q) = Tally(Append(t, e), Q)
  BY DEF SameElements
<1>1. Tally(s, Q) = Tally(t, Q)
  BY DEF SameElements
<1>2. QED BY <1>1, TallyAppend

(* A list repeats nothing if and only if no element is on it twice.        *)
LEMMA RepeatsNothing ==
  ASSUME NEW S, NEW s \in Seq(S)
  PROVE  (\A j, k \in DOMAIN s : j # k => s[j] # s[k]) <=> \A x : Tally(s, {x}) <= 1
<1> DEFINE n == Len(s)
<1>1. n \in Nat /\ DOMAIN s = 1 .. n
  OBVIOUS
<1>2. ASSUME \A j, k \in DOMAIN s : j # k => s[j] # s[k], NEW x
      PROVE  Tally(s, {x}) <= 1
  <2>1. CASE Marked(s, n, {x}) = {}
    <3>1. Tally(s, {x}) = 0
      BY <2>1, FS_EmptySet DEF Tally
    <3>2. QED BY <3>1
  <2>2. CASE Marked(s, n, {x}) # {}
    <3>1. PICK k : k \in Marked(s, n, {x})
      BY <2>2
    <3>2. Marked(s, n, {x}) = {k}
      BY <1>1, <1>2, <3>1 DEF Marked
    <3>3. Tally(s, {x}) = 1
      BY <3>2, FS_Singleton DEF Tally
    <3>4. QED BY <3>3
  <2>3. QED BY <2>1, <2>2
<1>3. ASSUME \A x : Tally(s, {x}) <= 1, NEW j \in DOMAIN s, NEW k \in DOMAIN s, j # k, s[j] = s[k]
      PROVE  FALSE
  <2> DEFINE marked == Marked(s, n, {s[j]})
  <2>1. IsFiniteSet(marked) /\ Cardinality(marked) \in Nat
    BY <1>1, MarkedNext
  <2>2. {j, k} \subseteq marked
    BY <1>1, <1>3 DEF Marked
  <2>3. Cardinality({j, k}) = 2
    <3>1. IsFiniteSet({j}) /\ Cardinality({j}) = 1
      BY FS_Singleton
    <3>2. Cardinality({j} \cup {k}) = 1 + 1
      BY <1>3, <3>1, FS_AddElement
    <3>3. {j} \cup {k} = {j, k} /\ 1 + 1 = 2
      OBVIOUS
    <3>4. QED BY <3>2, <3>3, Zenon
  <2> HIDE DEF marked
  <2>4. Cardinality({j, k}) <= Cardinality(marked)
    BY <2>1, <2>2, FS_Subset
  <2>5. Cardinality(marked) <= 1
    BY <1>3 DEF Tally, marked
  <2>6. QED BY <2>1, <2>3, <2>4, <2>5
<1>4. QED BY <1>2, <1>3

(* If one repeats nothing, neither does the other.                         *)
LEMMA SameRepeats ==
  ASSUME NEW S, NEW s \in Seq(S), NEW t \in Seq(S), SameElements(s, t)
  PROVE  (\A j, k \in DOMAIN s : j # k => s[j] # s[k]) <=>
         (\A j, k \in DOMAIN t : j # k => t[j] # t[k])
<1>1. \A x : Tally(s, {x}) = Tally(t, {x})
  BY DEF SameElements
<1>2. (\A j, k \in DOMAIN s : j # k => s[j] # s[k]) <=> \A x : Tally(s, {x}) <= 1
  BY RepeatsNothing
<1>3. (\A j, k \in DOMAIN t : j # k => t[j] # t[k]) <=> \A x : Tally(t, {x}) <= 1
  BY RepeatsNothing
<1>4. (\A x : Tally(s, {x}) <= 1) <=> (\A x : Tally(t, {x}) <= 1)
  BY <1>1
<1>5. QED BY <1>2, <1>3, <1>4, Zenon

(* A module denies for the same reasons.                                   *)
LEMMA SameReasons ==
  ASSUME NEW i, Readable(i), NEW s \in State, NEW t \in State, Alike(s, t)
  PROVE  \A m : Reasons(m, i, t) = Reasons(m, i, s)
<1> DEFINE a == i.agent_id
<1>1. /\ a \in Agents
      /\ s.nonces[a] \in Seq(NonceEntry) /\ t.nonces[a] \in Seq(NonceEntry)
      /\ s.calls[a] \in Seq(CallEntry) /\ t.calls[a] \in Seq(CallEntry)
  BY DEF Readable, State
<1>2. KillSwitchReasons(i, t) = KillSwitchReasons(i, s)
  BY DEF Alike, KillSwitchReasons
<1>3. ReplayReasons(i, t) = ReplayReasons(i, s)
  <2>1. /\ RecentNonces(i, s) \in Seq(NonceEntry) /\ RecentNonces(i, t) \in Seq(NonceEntry)
        /\ SameElements(RecentNonces(i, s), RecentNonces(i, t))
    BY <1>1, PruneType, SamePruned DEF RecentNonces, Alike
  <2>2. \A x : Lists(RecentNonces(i, s), x) <=> Lists(RecentNonces(i, t), x)
    BY <2>1, SameElementsShow
  <2>3. \A list : (\E k \in DOMAIN list : list[k].nonce = i.nonce) <=>
                  \E x : Lists(list, x) /\ x.nonce = i.nonce
    BY DEF Lists
  <2>4. (\E k \in DOMAIN RecentNonces(i, s) : RecentNonces(i, s)[k].nonce = i.nonce) <=>
        (\E k \in DOMAIN RecentNonces(i, t) : RecentNonces(i, t)[k].nonce = i.nonce)
    BY <2>2, <2>3
  <2>5. QED BY <2>4, Zenon DEF ReplayReasons
<1>4. ConcurrencyReasons(i, t) = ConcurrencyReasons(i, s)
  BY DEF Alike, ConcurrencyReasons
<1>5. ToolAmplificationReasons(i, t) = ToolAmplificationReasons(i, s)
  <2> DEFINE tool == i.request.tool
             Q    == {x \in CallEntry : x.tool = tool}
             Count(list) == Cardinality({k \in DOMAIN list : list[k].tool = tool})
  <2>1. /\ RecentCalls(i, s) \in Seq(CallEntry) /\ RecentCalls(i, t) \in Seq(CallEntry)
        /\ SameElements(RecentCalls(i, s), RecentCalls(i, t))
    BY <1>1, PruneType, SamePruned DEF RecentCalls, Alike
  <2>2. \A list \in Seq(CallEntry) : Count(list) = Tally(list, Q)
    <3> TAKE list \in Seq(CallEntry)
    <3>1. {k \in DOMAIN list : list[k].tool = tool} = Marked(list, Len(list), Q)
      BY DEF Marked
    <3>2. QED BY <3>1 DEF Tally
  <2>3. Count(RecentCalls(i, s)) = Count(RecentCalls(i, t))
    <3> HIDE DEF Q, Count
    <3>1. QED BY <2>1, <2>2 DEF SameElements
  <2>4. Len(RecentCalls(i, s)) = Len(RecentCalls(i, t))
    BY <2>1, SameElementsShow
  <2>5. QED BY <2>3, <2>4, Zenon DEF ToolAmplificationReasons
<1>6. BudgetReasons(i, t) = BudgetReasons(i, s)
  BY DEF Alike, BudgetReasons
<1>7. VelocityReasons(i, t) = VelocityReasons(i, s)
  BY DEF Alike, VelocityReasons, CounterDelta
<1>8. QED BY <1>2, <1>3, <1>4, <1>5, <1>6, <1>7, Zenon DEF Reasons

(* So the same modules deny, and the others' deltas come to states that    *)
(* hold the same, if the list of nonces is not cut.                        *)
LEMMA AlikeMerged ==
  ASSUME NEW i, Readable(i), NEW s \in State, NEW t \in State, Alike(s, t), NEW ms,
         i.type = "RELEASE" => ms \cap {"ToolAmplification", "Budget", "Velocity"} = {},
         "Replay" \in ms => Len(NoncesWith(i, s)) <= MaxNonces
  PROVE  Alike(MergeDeltas(i, s, ms), MergeDeltas(i, t, ms))
<1> DEFINE a == i.agent_id
           u == MergeDeltas(i, s, ms)
           v == MergeDeltas(i, t, ms)
<1>1. /\ a \in Agents
      /\ s.nonces[a] \in Seq(NonceEntry) /\ t.nonces[a] \in Seq(NonceEntry)
      /\ s.calls[a] \in Seq(CallEntry) /\ t.calls[a] \in Seq(CallEntry)
      /\ DOMAIN s.nonces = Agents /\ DOMAIN t.nonces = Agents
      /\ DOMAIN s.calls = Agents /\ DOMAIN t.calls = Agents
  BY DEF Readable, State
<1>2. "Replay" \in ms => SameElements(ReplayDelta(i, s), ReplayDelta(i, t))
  <2> SUFFICES ASSUME "Replay" \in ms
               PROVE  SameElements(ReplayDelta(i, s), ReplayDelta(i, t))
    OBVIOUS
  <2>1. [nonce |-> i.nonce, ts |-> i.timestamp] \in NonceEntry
    BY DEF Readable, NonceEntry
  <2>2. /\ RecentNonces(i, s) \in Seq(NonceEntry) /\ RecentNonces(i, t) \in Seq(NonceEntry)
        /\ SameElements(RecentNonces(i, s), RecentNonces(i, t))
    BY <1>1, PruneType, SamePruned DEF RecentNonces, Alike
  <2>3. SameElements(NoncesWith(i, s), NoncesWith(i, t))
    BY <2>1, <2>2, SameAppended DEF NoncesWith
  <2>4. NoncesWith(i, s) \in Seq(NonceEntry) /\ NoncesWith(i, t) \in Seq(NonceEntry)
    BY ReplayTypes
  <2>5. Len(NoncesWith(i, s)) = Len(NoncesWith(i, t))
    BY <2>3, <2>4, SameElementsShow
  <2>6. ReplayDelta(i, s) = NoncesWith(i, s) /\ ReplayDelta(i, t) = NoncesWith(i, t)
    BY <2>5 DEF ReplayDelta, KeepLast
  <2>7. QED BY <2>3, <2>6
<1>3. "ToolAmplification" \in ms => SameElements(CallsDelta(i, s), CallsDelta(i, t))
  <2> SUFFICES ASSUME "ToolAmplification" \in ms
               PROVE  SameElements(CallsDelta(i, s), CallsDelta(i, t))
    OBVIOUS
  <2>1. i.type = "EXECUTE"
    BY DEF Readable
  <2>2. [ts |-> i.timestamp, tool |-> i.request.tool] \in CallEntry
    BY <2>1, LimitsAssumption DEF Readable, CallEntry, Request
  <2>3. /\ RecentCalls(i, s) \in Seq(CallEntry) /\ RecentCalls(i, t) \in Seq(CallEntry)
        /\ SameElements(RecentCalls(i, s), RecentCalls(i, t))
    BY <1>1, PruneType, SamePruned DEF RecentCalls, Alike
  <2>4. SameElements(Append(RecentCalls(i, s), [ts |-> i.timestamp, tool |-> i.request.tool]),
                     Append(RecentCalls(i, t), [ts |-> i.timestamp, tool |-> i.request.tool]))
    BY <2>2, <2>3, SameAppended
  <2>5. SameElements(s.calls[a], t.calls[a])
    BY <1>1 DEF Alike
  <2>6. QED BY <2>4, <2>5 DEF CallsDelta
<1>4. /\ ActiveDelta(i, t) = ActiveDelta(i, s)
      /\ ActiveAuthsDelta(i, t) = ActiveAuthsDelta(i, s)
      /\ SpentDelta(i, t) = SpentDelta(i, s)
      /\ CounterDelta(i, t) = CounterDelta(i, s)
  BY DEF Alike, ActiveDelta, ActiveAuthsDelta, SpentDelta, CounterDelta
<1>5. /\ v.policy_version = u.policy_version
      /\ v.kill_switch = u.kill_switch
      /\ v.max_concurrent = u.max_concurrent
      /\ v.active = u.active
      /\ v.active_auths = u.active_auths
      /\ v.spent_in_period = u.spent_in_period
      /\ v.counters = u.counters
  BY <1>4 DEF Alike, MergeDeltas
<1>6. ASSUME NEW b \in Agents
      PROVE  SameElements(u.nonces[b], v.nonces[b]) /\ SameElements(u.calls[b], v.calls[b])
  <2>1. SameElements(s.nonces[b], t.nonces[b]) /\ SameElements(s.calls[b], t.calls[b])
    BY DEF Alike
  <2>2. /\ u.nonces[b] = IF "Replay" \in ms /\ b = a THEN ReplayDelta(i, s) ELSE s.nonces[b]
        /\ v.nonces[b] = IF "Replay" \in ms /\ b = a THEN ReplayDelta(i, t) ELSE t.nonces[b]
    BY <1>1 DEF MergeDeltas
  <2>3. /\ u.calls[b] = IF "ToolAmplification" \in ms /\ b = a THEN CallsDelta(i, s) ELSE s.calls[b]
        /\ v.calls[b] = IF "ToolAmplification" \in ms /\ b = a THEN CallsDelta(i, t) ELSE t.calls[b]
    BY <1>1 DEF MergeDeltas
  <2> HIDE DEF u, v
  <2>4. QED BY <1>2, <1>3, <2>1, <2>2, <2>3
<1> HIDE DEF u, v
<1>7. Alike(u, v)
  BY <1>5, <1>6 DEF Alike
<1>8. QED BY <1>7 DEF u, v

(* Of two states alike both can be hashed or none.                         *)
LEMMA AlikeHashable ==
  ASSUME NEW s \in State, NEW t \in State, Alike(s, t)
  PROVE  Hashable(t) <=> Hashable(s)
<1>1. ASSUME NEW a \in Agents
      PROVE  (\A j, k \in DOMAIN s.nonces[a] : j # k => s.nonces[a][j] # s.nonces[a][k]) <=>
             (\A j, k \in DOMAIN t.nonces[a] : j # k => t.nonces[a][j] # t.nonces[a][k])
  <2>1. /\ s.nonces[a] \in Seq(NonceEntry) /\ t.nonces[a] \in Seq(NonceEntry)
        /\ SameElements(s.nonces[a], t.nonces[a])
    BY DEF State, Alike
  <2>2. QED BY <2>1, SameRepeats
<1>2. QED BY <1>1, Zenon DEF Hashable, Alike

(* The authorization is the same in both, and so is what it adds.          *)
LEMMA AlikeWithAuth ==
  ASSUME NEW i, NEW s \in State, NEW t \in State, Alike(s, t)
  PROVE  Alike(WithAuth(i, s), WithAuth(i, t))
<1>1. NewAuth(i, t) = NewAuth(i, s)
  BY DEF NewAuth, Alike
<1>2. CASE i.type = "EXECUTE"
  <2> DEFINE u == WithAuth(i, s)
             v == WithAuth(i, t)
  <2>1. /\ u = [s EXCEPT !.active_auths[i.agent_id] = MergeInto(@, {NewAuth(i, s)})]
        /\ v = [t EXCEPT !.active_auths[i.agent_id] = MergeInto(@, {NewAuth(i, s)})]
    BY <1>1, <1>2 DEF WithAuth
  <2> HIDE DEF u, v
  <2>2. /\ u.active_auths = v.active_auths
        /\ u.nonces = s.nonces /\ v.nonces = t.nonces
        /\ u.calls = s.calls /\ v.calls = t.calls
    BY <2>1 DEF State, Alike
  <2>3. /\ v.policy_version = u.policy_version
        /\ v.kill_switch = u.kill_switch
        /\ v.max_concurrent = u.max_concurrent
        /\ v.active = u.active
        /\ v.spent_in_period = u.spent_in_period
        /\ v.counters = u.counters
    BY <2>1 DEF State, Alike
  <2>4. Alike(u, v)
    BY <2>2, <2>3 DEF Alike
  <2>5. QED BY <2>4 DEF u, v
<1>3. CASE i.type # "EXECUTE"
  BY <1>3 DEF WithAuth
<1>4. QED BY <1>2, <1>3

(* The intent's nonce has room in the list that it is put into.            *)
Fits(i, s, mode) ==
  EarlyReasons(i, s) = {} /\ "Replay" \in Merged(i, Denying(i, s), mode)
    => Len(NoncesWith(i, s)) <= MaxNonces

(* So an intent comes to the same decision, for the same reasons, and to   *)
(* states that hold the same, unless a nonce gives way to the intent's.    *)
LEMMA AlikeEvaluations ==
  ASSUME NEW i, i.agent_id \in Agents => Readable(i), NEW mode,
         NEW s \in State, NEW t \in State, Alike(s, t), Fits(i, s, mode)
  PROVE  LET first  == Evaluation(i, s, mode)
             second == Evaluation(i, t, mode)
         IN  /\ second.decision = first.decision /\ second.events = first.events
             /\ EarlyReasons(i, t) = EarlyReasons(i, s)
             /\ EarlyReasons(i, s) = {} => DenyReasons(i, t, Denying(i, t), mode)
                                             = DenyReasons(i, s, Denying(i, s), mode)
             /\ Alike(first.next, second.next)
<1> DEFINE first  == Evaluation(i, s, mode)
           second == Evaluation(i, t, mode)
           Outcome(r, w) ==
             IF EarlyReasons(i, s) # {}
             THEN [decision |-> "DENY", next |-> r, events |-> << >>]
             ELSE IF Denying(i, s) # {}
             THEN [decision |-> "DENY", next |-> w, events |-> <<"INTENT_RECEIVED", "DECISION">>]
             ELSE IF ~(Hashable(w) /\ CanSign)
             THEN [decision |-> "DENY", next |-> w, events |-> <<"INTENT_RECEIVED">>]
             ELSE [ decision |-> "ALLOW", next |-> WithAuth(i, w),
                    events   |-> <<"INTENT_RECEIVED", "DECISION", "AUTH_EMITTED">> ]
<1>1. EarlyReasons(i, t) = EarlyReasons(i, s)
  BY DEF EarlyReasons, Alike
<1>2. CASE EarlyReasons(i, s) # {}
  <2>1. first = [decision |-> "DENY", next |-> s, events |-> << >>]
    BY <1>2 DEF Evaluation
  <2>2. second = [decision |-> "DENY", next |-> t, events |-> << >>]
    BY <1>1, <1>2 DEF Evaluation
  <2> HIDE DEF first, second
  <2>3. /\ Alike(first.next, second.next)
        /\ second.decision = first.decision /\ second.events = first.events
    BY <2>1, <2>2
  <2>4. QED BY <1>1, <1>2, <2>3 DEF first, second
<1>3. CASE EarlyReasons(i, s) = {}
  <2> DEFINE ms == Merged(i, Denying(i, s), mode)
             u  == MergeDeltas(i, s, ms)
             v  == MergeDeltas(i, t, ms)
  <2>1. i.agent_id \in Agents
    BY <1>3 DEF EarlyReasons
  <2>2. Readable(i)
    BY <2>1
  <2>3. \A m : Reasons(m, i, t) = Reasons(m, i, s)
    BY <2>2, SameReasons
  <2>4. Denying(i, t) = Denying(i, s)
    BY <2>3 DEF Denying
  <2>5. DenyReasons(i, t, Denying(i, t), mode) = DenyReasons(i, s, Denying(i, s), mode)
    BY <2>3, <2>4 DEF DenyReasons
  <2>6. "Replay" \in ms => Len(NoncesWith(i, s)) <= MaxNonces
    BY <1>3 DEF Fits
  <2>7. i.type = "RELEASE" => ms \cap {"ToolAmplification", "Budget", "Velocity"} = {}
    BY ReleaseMerges
  <2> HIDE DEF ms
  <2>8. u \in State /\ v \in State
    BY <2>2, <2>7, MergeType
  <2>9. Alike(u, v)
    BY <2>2, <2>6, <2>7, AlikeMerged
  <2>10. first = Outcome(s, u)
    BY Zenon DEF Evaluation, ms
  <2>11. second = Outcome(t, v)
    BY <1>1, <2>4, Zenon DEF Evaluation, ms
  <2> HIDE DEF first, second, u, v
  <2>12. (Hashable(v) <=> Hashable(u)) /\ Alike(WithAuth(i, u), WithAuth(i, v))
    BY <2>8, <2>9, AlikeHashable, AlikeWithAuth
  <2>13. /\ second.decision = first.decision /\ second.events = first.events
         /\ Alike(first.next, second.next)
    BY <1>3, <2>9, <2>10, <2>11, <2>12
  <2>14. QED BY <1>1, <2>5, <2>13 DEF first, second
<1>4. QED BY <1>2, <1>3

-----------------------------------------------------------------------------
(***************************************************************************)
(* Normal forms                                                            *)
(***************************************************************************)

(* The modules.                                                            *)
Ids == { "AllowlistModule", "BudgetModule", "ConcurrencyModule", "KillSwitchModule",
         "RecursionDepthModule", "ReplayModule", "ToolAmplificationModule", "VelocityModule" }

(* The slices, by what varies of them.                                     *)
AllowlistSlice ==
  [action_types |-> AllowedActions, assets |-> AllowedAssets, targets |-> AllowedTargets]

BudgetSlice(spent) ==
  [budget_limit |-> BudgetLimit, spent_in_period |-> spent, max_amount_per_action |-> MaxAmount]

ConcurrencySlice(limits, active, auths) ==
  [max_concurrent |-> limits, active |-> active, active_auths |-> auths]

KillSwitchSlice(switch) ==
  [global |-> switch.global, agents |-> [a \in switch.agents |-> TRUE]]

DepthSlice == [max_depth |-> MaxDepth]

ReplaySlice(nonces) ==
  [window_seconds |-> ReplayWindow, max_nonces_per_agent |-> MaxNonces, nonces |-> nonces]

ToolSlice(calls) ==
  [ window_seconds |-> ToolWindow, max_calls |-> MaxCalls,
    max_calls_by_tool |-> MaxCallsByTool, calls |-> calls ]

VelocitySlice(counters) ==
  [window_seconds |-> VelocityWindow, max_actions |-> MaxActions, counters |-> counters]

(* The slices of a state, one by one.                                      *)
LEMMA SliceEach ==
  ASSUME NEW s
  PROVE  /\ DOMAIN SlicesOf(s) = Ids
         /\ SlicesOf(s)["AllowlistModule"] = AllowlistSlice
         /\ SlicesOf(s)["BudgetModule"] = BudgetSlice(s.spent_in_period)
         /\ SlicesOf(s)["ConcurrencyModule"] =
              ConcurrencySlice(s.max_concurrent, s.active, s.active_auths)
         /\ SlicesOf(s)["KillSwitchModule"] = KillSwitchSlice(s.kill_switch)
         /\ SlicesOf(s)["RecursionDepthModule"] = DepthSlice
         /\ SlicesOf(s)["ReplayModule"] = ReplaySlice(s.nonces)
         /\ SlicesOf(s)["ToolAmplificationModule"] = ToolSlice(s.calls)
         /\ SlicesOf(s)["VelocityModule"] = VelocitySlice(s.counters)
BY DEF SlicesOf, Ids, AllowlistSlice, BudgetSlice, ConcurrencySlice, KillSwitchSlice, DepthSlice,
       ReplaySlice, ToolSlice, VelocitySlice

(* The normal forms, one by one.                                           *)
LEMMA NormalizeEach ==
  ASSUME NEW x
  PROVE  /\ Codecs!Normalize("AllowlistModule", x) = Codecs!NormalizeAllowlists(x)
         /\ Codecs!Normalize("BudgetModule", x) = Codecs!NormalizeBudget(x)
         /\ Codecs!Normalize("ConcurrencyModule", x) = Codecs!NormalizeConcurrency(x)
         /\ Codecs!Normalize("KillSwitchModule", x) = Codecs!NormalizeKillSwitch(x)
         /\ Codecs!Normalize("RecursionDepthModule", x) = x
         /\ Codecs!Normalize("ReplayModule", x) = Codecs!NormalizeReplay(x)
         /\ Codecs!Normalize("ToolAmplificationModule", x) = Codecs!NormalizeToolLimits(x)
         /\ Codecs!Normalize("VelocityModule", x) = Codecs!NormalizeVelocity(x)
BY Zenon DEF Codecs!Normalize

(* A function on some of the keys is a partial map,                        *)
LEMMA PartialMap ==
  ASSUME NEW keys, NEW S, NEW K \in SUBSET keys, NEW f \in [K -> S]
  PROVE  f \in PartialMaps(keys, S)
BY DEF PartialMaps

(* and the other way round.                                                *)
LEMMA MapParts ==
  ASSUME NEW keys, NEW S, NEW f \in PartialMaps(keys, S)
  PROVE  /\ DOMAIN f \subseteq keys
         /\ f = [k \in DOMAIN f |-> f[k]]
         /\ \A k \in DOMAIN f : f[k] \in S
BY DEF PartialMaps

(* What the tool limits of a state are, and that they are there.           *)
LEMMA LimitsAreThere ==
  /\ MaxCalls \in PartialMaps(Agents, Nat)
  /\ MaxCallsByTool \in PartialMaps(Agents, PartialMaps(Tools, Nat))
  /\ \A f \in [Agents -> Seq(CallEntry)] : f \in PartialMaps(Agents, Seq(CallEntry))
  /\ \A w \in Nat, c \in PartialMaps(Agents, Nat),
       b \in PartialMaps(Agents, PartialMaps(Tools, Nat)),
       l \in PartialMaps(Agents, Seq(CallEntry)) :
       [window_seconds |-> w, max_calls |-> c, max_calls_by_tool |-> b, calls |-> l] # Undefined
<1>1. MaxCalls \in PartialMaps(Agents, Nat)
  BY LimitsAssumption, PartialMap
<1>2. MaxCallsByTool \in PartialMaps(Agents, PartialMaps(Tools, Nat))
  <2>1. ASSUME NEW a \in Agents
        PROVE  MaxCallsByTool[a] \in PartialMaps(Tools, Nat)
    <3>1. MaxCallsByTool[a] = [t \in DOMAIN MaxCallsByTool[a] |-> MaxCallsByTool[a][t]]
      BY StandbyAssumption
    <3>2. /\ DOMAIN MaxCallsByTool[a] \subseteq Tools
          /\ \A t \in DOMAIN MaxCallsByTool[a] : MaxCallsByTool[a][t] \in Nat
      BY LimitsAssumption
    <3>3. MaxCallsByTool[a] \in [DOMAIN MaxCallsByTool[a] -> Nat]
      BY <3>1, <3>2
    <3>4. QED BY <3>2, <3>3, PartialMap
  <2>2. MaxCallsByTool = [a \in Agents |-> MaxCallsByTool[a]]
    BY StandbyAssumption
  <2>3. MaxCallsByTool \in [Agents -> PartialMaps(Tools, Nat)]
    BY <2>1, <2>2
  <2>4. QED BY <2>3, PartialMap
<1>3. \A f \in [Agents -> Seq(CallEntry)] : f \in PartialMaps(Agents, Seq(CallEntry))
  BY PartialMap
<1>4. \A w \in Nat, c \in PartialMaps(Agents, Nat),
       b \in PartialMaps(Agents, PartialMaps(Tools, Nat)),
       l \in PartialMaps(Agents, Seq(CallEntry)) :
       [window_seconds |-> w, max_calls |-> c, max_calls_by_tool |-> b, calls |-> l] # Undefined
  BY StandbyAssumption DEF ToolLimits
<1>5. QED BY <1>1, <1>2, <1>3, <1>4

(* What normalizeToolLimits makes of tool limits.                          *)
LEMMA LimitsNormalized ==
  ASSUME NEW w \in Nat, NEW c \in PartialMaps(Agents, Nat),
         NEW b \in PartialMaps(Agents, PartialMaps(Tools, Nat)),
         NEW l \in PartialMaps(Agents, Seq(CallEntry))
  PROVE  Codecs!NormalizeToolLimits(
           [window_seconds |-> w, max_calls |-> c, max_calls_by_tool |-> b, calls |-> l]) =
         [ window_seconds |-> w, max_calls |-> c, max_calls_by_tool |-> b,
           calls |-> [a \in DOMAIN l |-> Codecs!CallsSorted(l[a])] ]
<1> DEFINE x == [window_seconds |-> w, max_calls |-> c, max_calls_by_tool |-> b, calls |-> l]
<1>1. x # Undefined
  BY LimitsAreThere
<1>2. \A f \in PartialMaps(Agents, Nat) : Codecs!Defined(f) = f
  <2> TAKE f \in PartialMaps(Agents, Nat)
  <2>1. f = [k \in DOMAIN f |-> f[k]] /\ \A k \in DOMAIN f : f[k] \in Nat
    BY MapParts
  <2>2. {j \in DOMAIN f : f[j] # Undefined} = DOMAIN f
    BY <2>1, UndefinedIsNoNumber
  <2>3. QED BY <2>1, <2>2 DEF Codecs!Defined
<1>3. \A f \in PartialMaps(Tools, Nat) : Codecs!Defined(f) = f
  <2> TAKE f \in PartialMaps(Tools, Nat)
  <2>1. f = [k \in DOMAIN f |-> f[k]] /\ \A k \in DOMAIN f : f[k] \in Nat
    BY MapParts
  <2>2. {j \in DOMAIN f : f[j] # Undefined} = DOMAIN f
    BY <2>1, UndefinedIsNoNumber
  <2>3. QED BY <2>1, <2>2 DEF Codecs!Defined
<1>4. [a \in DOMAIN b |-> Codecs!Defined(b[a])] = b
  <2>1. b = [a \in DOMAIN b |-> b[a]] /\ \A a \in DOMAIN b : b[a] \in PartialMaps(Tools, Nat)
    BY MapParts
  <2>2. \A a \in DOMAIN b : Codecs!Defined(b[a]) = b[a]
    BY <1>3, <2>1
  <2>3. QED BY <2>1, <2>2
<1>5. Codecs!Defined(c) = c
  BY <1>2
<1>6. Codecs!NormalizeToolLimits(x) =
        [ window_seconds    |-> x.window_seconds,
          max_calls         |-> Codecs!Defined(x.max_calls),
          max_calls_by_tool |-> [a \in DOMAIN x.max_calls_by_tool |->
                                   Codecs!Defined(x.max_calls_by_tool[a])],
          calls             |-> [a \in DOMAIN x.calls |-> Codecs!CallsSorted(x.calls[a])] ]
  <2> HIDE DEF x
  <2>1. QED BY <1>1 DEF Codecs!NormalizeToolLimits
<1>7. QED BY <1>4, <1>5, <1>6

(* States that hold the same have the same normal forms.                   *)
LEMMA AlikeNormal ==
  ASSUME NEW s \in State, NEW t \in State, Alike(s, t), NEW id \in Ids
  PROVE  Codecs!Normalize(id, SlicesOf(t)[id]) = Codecs!Normalize(id, SlicesOf(s)[id])
<1>1. CASE id = "ReplayModule"
  <2> DEFINE x == SlicesOf(s)[id]
             y == SlicesOf(t)[id]
             z == [a \in Agents |-> Codecs!NoncesSorted(s.nonces[a])]
  <2>1. /\ x = [window_seconds |-> ReplayWindow, max_nonces_per_agent |-> MaxNonces,
                nonces |-> s.nonces]
        /\ y = [window_seconds |-> ReplayWindow, max_nonces_per_agent |-> MaxNonces,
                nonces |-> t.nonces]
    BY <1>1, SliceEach DEF ReplaySlice
  <2>2. /\ DOMAIN s.nonces = Agents /\ DOMAIN t.nonces = Agents
        /\ \A a \in Agents : s.nonces[a] \in Seq(NonceEntry) /\ t.nonces[a] \in Seq(NonceEntry)
    BY DEF State
  <2>3. \A a \in Agents : Codecs!NoncesSorted(t.nonces[a]) = Codecs!NoncesSorted(s.nonces[a])
    BY <2>2, SameNonces DEF Alike
  <2>4. [a \in DOMAIN t.nonces |-> Codecs!NoncesSorted(t.nonces[a])] = z
    BY <2>2, <2>3
  <2>5. [a \in DOMAIN s.nonces |-> Codecs!NoncesSorted(s.nonces[a])] = z
    BY <2>2
  <2> HIDE DEF x, y, z
  <2>6. Codecs!NormalizeReplay(x) = [x EXCEPT !.nonces = z]
    BY <2>1, <2>5 DEF Codecs!NormalizeReplay
  <2>7. Codecs!NormalizeReplay(y) = [y EXCEPT !.nonces = z]
    BY <2>1, <2>4 DEF Codecs!NormalizeReplay
  <2>8. [x EXCEPT !.nonces = z] = [y EXCEPT !.nonces = z]
    BY <2>1
  <2>9. QED BY <1>1, <2>6, <2>7, <2>8, NormalizeEach DEF x, y
<1>2. CASE id = "ToolAmplificationModule"
  <2> DEFINE x == SlicesOf(s)[id]
             y == SlicesOf(t)[id]
             z == [a \in Agents |-> Codecs!CallsSorted(s.calls[a])]
  <2>1. /\ x = [ window_seconds |-> ToolWindow, max_calls |-> MaxCalls,
                 max_calls_by_tool |-> MaxCallsByTool, calls |-> s.calls ]
        /\ y = [ window_seconds |-> ToolWindow, max_calls |-> MaxCalls,
                 max_calls_by_tool |-> MaxCallsByTool, calls |-> t.calls ]
    BY <1>2, SliceEach DEF ToolSlice
  <2>2. /\ DOMAIN s.calls = Agents /\ DOMAIN t.calls = Agents
        /\ \A a \in Agents : s.calls[a] \in Seq(CallEntry) /\ t.calls[a] \in Seq(CallEntry)
    BY DEF State
  <2>3. \A a \in Agents : Codecs!CallsSorted(t.calls[a]) = Codecs!CallsSorted(s.calls[a])
    BY <2>2, SameCalls DEF Alike
  <2>4. [a \in DOMAIN t.calls |-> Codecs!CallsSorted(t.calls[a])] = z
    BY <2>2, <2>3
  <2>5. [a \in DOMAIN s.calls |-> Codecs!CallsSorted(s.calls[a])] = z
    BY <2>2
  <2>6. /\ s.calls \in PartialMaps(Agents, Seq(CallEntry))
        /\ t.calls \in PartialMaps(Agents, Seq(CallEntry))
    BY LimitsAreThere DEF State
  <2>7. ToolWindow \in Nat
    BY LimitsAssumption
  <2> HIDE DEF x, y, z
  <2>8. /\ Codecs!NormalizeToolLimits(x) =
             [ window_seconds |-> ToolWindow, max_calls |-> MaxCalls,
               max_calls_by_tool |-> MaxCallsByTool, calls |-> z ]
        /\ Codecs!NormalizeToolLimits(y) =
             [ window_seconds |-> ToolWindow, max_calls |-> MaxCalls,
               max_calls_by_tool |-> MaxCallsByTool, calls |-> z ]
    BY <2>1, <2>4, <2>5, <2>6, <2>7, LimitsAreThere, LimitsNormalized
  <2>9. QED BY <1>2, <2>8, NormalizeEach DEF x, y
<1>3. CASE id \notin {"ReplayModule", "ToolAmplificationModule"}
  <2>1. /\ SlicesOf(t)["AllowlistModule"] = SlicesOf(s)["AllowlistModule"]
        /\ SlicesOf(t)["BudgetModule"] = SlicesOf(s)["BudgetModule"]
        /\ SlicesOf(t)["ConcurrencyModule"] = SlicesOf(s)["ConcurrencyModule"]
        /\ SlicesOf(t)["KillSwitchModule"] = SlicesOf(s)["KillSwitchModule"]
        /\ SlicesOf(t)["RecursionDepthModule"] = SlicesOf(s)["RecursionDepthModule"]
        /\ SlicesOf(t)["VelocityModule"] = SlicesOf(s)["VelocityModule"]
    BY SliceEach DEF Alike
  <2>2. QED BY <1>3, <2>1 DEF Ids
<1>4. QED BY <1>1, <1>2, <1>3

-----------------------------------------------------------------------------
(***************************************************************************)
(* Hashes                                                                  *)
(***************************************************************************)

(* The fields of a snapshot.                                               *)
SnapshotFields == {"formatVersion", "engineVersion", "policyId", "modules"}

(* A state hash shows what the modules of a snapshot are.                  *)
LEMMA HashShowsModules ==
  ASSUME NEW s, NEW t, DOMAIN s = SnapshotFields, DOMAIN t = SnapshotFields
  PROVE  /\ Codecs!StateHashOf(s) = Codecs!StateHashOf(t) => s.modules = t.modules
         /\ (s.engineVersion = t.engineVersion /\ s.policyId = t.policyId /\ s.modules = t.modules)
              => Codecs!StateHashOf(s) = Codecs!StateHashOf(t)
<1> DEFINE hashed   == {"engineVersion", "policyId", "modules"}
           there(x) == {g \in DOMAIN x \cap hashed : x[g] # Undefined}
<1>1. \A x : Codecs!StateHashOf(x) = [f \in there(x) |-> x[f]]
  BY DEF Codecs!StateHashOf, Codecs!Restricted
<1>2. DOMAIN s \cap hashed = hashed /\ DOMAIN t \cap hashed = hashed
  BY DEF SnapshotFields
<1>3. ASSUME Codecs!StateHashOf(s) = Codecs!StateHashOf(t)
      PROVE  s.modules = t.modules
  <2>1. [f \in there(s) |-> s[f]] = [f \in there(t) |-> t[f]]
    BY <1>1, <1>3
  <2>2. /\ "modules" \in there(s) <=> s.modules # Undefined
        /\ "modules" \in there(t) <=> t.modules # Undefined
    BY <1>2
  <2> HIDE DEF there
  <2>3. there(s) = there(t)
    BY <2>1
  <2>4. CASE "modules" \in there(s)
    BY <2>1, <2>3, <2>4
  <2>5. CASE "modules" \notin there(s)
    BY <2>2, <2>3, <2>5
  <2>6. QED BY <2>4, <2>5
<1>4. ASSUME s.engineVersion = t.engineVersion, s.policyId = t.policyId, s.modules = t.modules
      PROVE  Codecs!StateHashOf(s) = Codecs!StateHashOf(t)
  <2>1. \A f \in hashed : s[f] = t[f]
    BY <1>4
  <2>2. there(s) = there(t)
    BY <1>2, <2>1
  <2>3. \A f \in there(s) : s[f] = t[f]
    BY <2>1
  <2> HIDE DEF there
  <2>4. [f \in there(s) |-> s[f]] = [f \in there(t) |-> t[f]]
    BY <2>2, <2>3
  <2>5. QED BY <1>1, <2>4, Zenon
<1>5. QED BY <1>3, <1>4

(* Two states have the same hash if and only if they have the same normal  *)
(* forms.                                                                  *)
LEMMA HashShowsNormal ==
  ASSUME NEW x, NEW y, DOMAIN x = Ids, DOMAIN y = Ids
  PROVE  Hash(x) = Hash(y) <=>
         \A id \in Ids : Codecs!Normalize(id, x[id]) = Codecs!Normalize(id, y[id])
<1> DEFINE s == Codecs!ExportState(x, PolicyId)
           t == Codecs!ExportState(y, PolicyId)
<1>1. Hash(x) = Codecs!StateHashOf(s) /\ Hash(y) = Codecs!StateHashOf(t)
  BY DEF Hash, Codecs!ComputeStateHash
<1>2. /\ DOMAIN s = SnapshotFields /\ DOMAIN t = SnapshotFields
      /\ s.engineVersion = t.engineVersion /\ s.policyId = t.policyId
      /\ s.modules = [id \in Ids |-> Codecs!Normalize(id, x[id])]
      /\ t.modules = [id \in Ids |-> Codecs!Normalize(id, y[id])]
  BY DEF Codecs!ExportState, SnapshotFields
<1> HIDE DEF s, t
<1>3. Hash(x) = Hash(y) <=> s.modules = t.modules
  BY <1>1, <1>2, HashShowsModules
<1>4. QED BY <1>2, <1>3

(* So states alike have one hash.                                          *)
LEMMA AlikeHash ==
  ASSUME NEW s \in State, NEW t \in State, Alike(s, t)
  PROVE  Hash(SlicesOf(s)) = Hash(SlicesOf(t))
<1>1. DOMAIN SlicesOf(s) = Ids /\ DOMAIN SlicesOf(t) = Ids
  BY SliceEach
<1>2. \A id \in Ids :
        Codecs!Normalize(id, SlicesOf(s)[id]) = Codecs!Normalize(id, SlicesOf(t)[id])
  BY AlikeNormal
<1>3. QED BY <1>1, <1>2, HashShowsNormal

-----------------------------------------------------------------------------
(***************************************************************************)
(* A normal form is its own                                                *)
(***************************************************************************)

Fields(id) == DOMAIN Codecs!DefaultSlice[id]

(* The fields of the slices, one by one.                                   *)
LEMMA FieldsEach ==
  /\ Fields("AllowlistModule") = {"action_types", "assets", "targets"}
  /\ Fields("BudgetModule") = {"budget_limit", "spent_in_period", "max_amount_per_action"}
  /\ Fields("ConcurrencyModule") = {"max_concurrent", "active", "active_auths"}
  /\ Fields("KillSwitchModule") = {"global", "agents"}
  /\ Fields("RecursionDepthModule") = {"max_depth"}
  /\ Fields("ReplayModule") = {"window_seconds", "max_nonces_per_agent", "nonces"}
  /\ Fields("ToolAmplificationModule") =
       {"window_seconds", "max_calls", "max_calls_by_tool", "calls"}
  /\ Fields("VelocityModule") = {"window_seconds", "max_actions", "counters"}
BY DEF Fields, Codecs!DefaultSlice

(* Slices whose fields can be normalized.                                  *)
Well(id, x) ==
  /\ DOMAIN x = Fields(id)
  /\ x = [f \in DOMAIN x |-> x[f]]
  /\ id = "ReplayModule" => \A a \in DOMAIN x.nonces : x.nonces[a] \in Seq(NonceEntry)
  /\ id = "ToolAmplificationModule" => x \in ToolLimits

(* What has no undefined entries stays as it is.                           *)
LEMMA DefinedTwice ==
  ASSUME NEW map
  PROVE  Codecs!Defined(Codecs!Defined(map)) = Codecs!Defined(map)
<1> DEFINE d == Codecs!Defined(map)
           S == {j \in DOMAIN map : map[j] # Undefined}
<1>1. d = [k \in S |-> map[k]]
  BY DEF Codecs!Defined
<1>2. \A k \in S : map[k] # Undefined
  OBVIOUS
<1> HIDE DEF d, S
<1>3. {j \in DOMAIN d : d[j] # Undefined} = S
  BY <1>1, <1>2
<1>4. Codecs!Defined(d) = [k \in S |-> d[k]]
  BY <1>3 DEF Codecs!Defined
<1>5. QED BY <1>1, <1>4 DEF d

(* A normal form is its own normal form, has all the fields of its module  *)
(* and can be normalized.                                                  *)
LEMMA NormalTwice ==
  ASSUME NEW id \in Ids, NEW x, Well(id, x)
  PROVE  /\ Codecs!Normalize(id, Codecs!Normalize(id, x)) = Codecs!Normalize(id, x)
         /\ DOMAIN Codecs!Normalize(id, x) = Fields(id)
         /\ Well(id, Codecs!Normalize(id, x))
<1>1. CASE id = "AllowlistModule"
  <2> DEFINE y == Codecs!NormalizeAllowlists(x)
  <2>1. y = [f \in DOMAIN x |-> IF x[f] = Undefined THEN {} ELSE x[f]]
    BY DEF Codecs!NormalizeAllowlists
  <2> HIDE DEF y
  <2>2. Codecs!NormalizeAllowlists(y) = [f \in DOMAIN y |-> IF y[f] = Undefined THEN {} ELSE y[f]]
    BY DEF Codecs!NormalizeAllowlists
  <2>3. DOMAIN y = DOMAIN x
    BY <2>1
  <2>4. \A f \in DOMAIN x : (IF y[f] = Undefined THEN {} ELSE y[f]) = y[f]
    BY <2>1
  <2>5. Codecs!NormalizeAllowlists(y) = y
    BY <2>1, <2>2, <2>3, <2>4
  <2>6. y = [f \in DOMAIN y |-> y[f]]
    BY <2>1
  <2>7. QED BY <1>1, <2>3, <2>5, <2>6, NormalizeEach DEF y, Well
<1>2. CASE id = "BudgetModule"
  <2> DEFINE y == Codecs!NormalizeBudget(x)
  <2>1. y = [f \in DOMAIN x |-> Codecs!Defined(x[f])]
    BY DEF Codecs!NormalizeBudget
  <2> HIDE DEF y
  <2>2. Codecs!NormalizeBudget(y) = [f \in DOMAIN y |-> Codecs!Defined(y[f])]
    BY DEF Codecs!NormalizeBudget
  <2>3. DOMAIN y = DOMAIN x
    BY <2>1
  <2>4. \A f \in DOMAIN x : Codecs!Defined(y[f]) = y[f]
    BY <2>1, DefinedTwice
  <2>5. Codecs!NormalizeBudget(y) = y
    BY <2>1, <2>2, <2>3, <2>4
  <2>6. y = [f \in DOMAIN y |-> y[f]]
    BY <2>1
  <2>7. QED BY <1>2, <2>3, <2>5, <2>6, NormalizeEach DEF y, Well
<1>3. CASE id = "ConcurrencyModule"
  <2> DEFINE agents(u) == UNION {DOMAIN u[f] : f \in DOMAIN u}
             A == agents(x)
             y == Codecs!NormalizeConcurrency(x)
  <2>1. \A u : Codecs!NormalizeConcurrency(u) =
                [ max_concurrent |-> Codecs!Filled(u.max_concurrent, agents(u), 0),
                  active         |-> Codecs!Filled(u.active, agents(u), 0),
                  active_auths   |-> Codecs!Filled(u.active_auths, agents(u), {}) ]
    BY DEF Codecs!NormalizeConcurrency
  <2>2. \A map, K, d : /\ DOMAIN Codecs!Filled(map, K, d) = K
                       /\ Codecs!Filled(Codecs!Filled(map, K, d), K, d) = Codecs!Filled(map, K, d)
    BY DEF Codecs!Filled
  <2>3. y = [ max_concurrent |-> Codecs!Filled(x.max_concurrent, A, 0),
              active         |-> Codecs!Filled(x.active, A, 0),
              active_auths   |-> Codecs!Filled(x.active_auths, A, {}) ]
    BY <2>1
  <2> HIDE DEF A, y
  <2>4. agents(y) = A
    <3>1. /\ DOMAIN y = {"max_concurrent", "active", "active_auths"}
          /\ DOMAIN y.max_concurrent = A /\ DOMAIN y.active = A /\ DOMAIN y.active_auths = A
      BY <2>2, <2>3
    <3>2. QED BY <3>1
  <2> HIDE DEF agents
  <2>5. Codecs!NormalizeConcurrency(y) =
          [ max_concurrent |-> Codecs!Filled(y.max_concurrent, A, 0),
            active         |-> Codecs!Filled(y.active, A, 0),
            active_auths   |-> Codecs!Filled(y.active_auths, A, {}) ]
    BY <2>1, <2>4
  <2>6. /\ Codecs!Filled(y.max_concurrent, A, 0) = Codecs!Filled(x.max_concurrent, A, 0)
        /\ Codecs!Filled(y.active, A, 0) = Codecs!Filled(x.active, A, 0)
        /\ Codecs!Filled(y.active_auths, A, {}) = Codecs!Filled(x.active_auths, A, {})
    BY <2>2, <2>3
  <2>7. Codecs!NormalizeConcurrency(y) = y
    BY <2>3, <2>5, <2>6
  <2>8. DOMAIN y = Fields(id)
    BY <1>3, <2>3, FieldsEach
  <2>9. y = [f \in DOMAIN y |-> y[f]]
    BY <2>3
  <2>10. QED BY <1>3, <2>7, <2>8, <2>9, NormalizeEach DEF y, Well
<1>4. CASE id = "KillSwitchModule"
  <2> DEFINE y == Codecs!NormalizeKillSwitch(x)
  <2>1. y = [x EXCEPT !.agents = Codecs!Defined(x.agents)]
    BY DEF Codecs!NormalizeKillSwitch
  <2>2. DOMAIN x = {"global", "agents"}
    BY <1>4, FieldsEach DEF Well
  <2> HIDE DEF y
  <2>3. Codecs!NormalizeKillSwitch(y) = [y EXCEPT !.agents = Codecs!Defined(y.agents)]
    BY DEF Codecs!NormalizeKillSwitch
  <2>4. DOMAIN y = DOMAIN x /\ y.agents = Codecs!Defined(x.agents)
    BY <2>1, <2>2
  <2>5. Codecs!Defined(y.agents) = y.agents
    BY <2>4, DefinedTwice
  <2>6. Codecs!NormalizeKillSwitch(y) = y
    BY <2>1, <2>3, <2>5
  <2>7. y = [f \in DOMAIN y |-> y[f]]
    BY <2>1
  <2>8. QED BY <1>4, <2>4, <2>6, <2>7, NormalizeEach DEF y, Well
<1>5. CASE id = "RecursionDepthModule"
  BY <1>5, NormalizeEach DEF Well
<1>6. CASE id = "ReplayModule"
  <2> DEFINE y == Codecs!NormalizeReplay(x)
             sorted(map) == [a \in DOMAIN map |-> Codecs!NoncesSorted(map[a])]
  <2>1. y = [x EXCEPT !.nonces = sorted(x.nonces)]
    BY DEF Codecs!NormalizeReplay
  <2>2. /\ DOMAIN x = {"window_seconds", "max_nonces_per_agent", "nonces"}
        /\ \A a \in DOMAIN x.nonces : x.nonces[a] \in Seq(NonceEntry)
    BY <1>6, FieldsEach DEF Well
  <2>3. \A map : DOMAIN sorted(map) = DOMAIN map
    OBVIOUS
  <2>4. \A a \in DOMAIN x.nonces : sorted(x.nonces)[a] \in Seq(NonceEntry)
    BY <2>2, NoncesAreSorted
  <2>5. sorted(sorted(x.nonces)) = sorted(x.nonces)
    <3>1. \A a \in DOMAIN x.nonces :
            Codecs!NoncesSorted(sorted(x.nonces)[a]) = sorted(x.nonces)[a]
      BY <2>2, SameNonces
    <3>2. QED BY <3>1
  <2> HIDE DEF y
  <2>6. Codecs!NormalizeReplay(y) = [y EXCEPT !.nonces = sorted(y.nonces)]
    BY DEF Codecs!NormalizeReplay
  <2> HIDE DEF sorted
  <2>7. DOMAIN y = DOMAIN x /\ y.nonces = sorted(x.nonces)
    BY <2>1, <2>2
  <2>8. Codecs!NormalizeReplay(y) = y
    BY <2>1, <2>5, <2>6, <2>7
  <2>9. \A a \in DOMAIN y.nonces : y.nonces[a] \in Seq(NonceEntry)
    BY <2>3, <2>4, <2>7
  <2>10. y = [f \in DOMAIN y |-> y[f]]
    BY <2>1
  <2>11. QED BY <1>6, <2>7, <2>8, <2>9, <2>10, NormalizeEach DEF y, Well
<1>7. CASE id = "ToolAmplificationModule"
  <2> DEFINE w == x.window_seconds
             c == x.max_calls
             b == x.max_calls_by_tool
             l == x.calls
             z == [a \in DOMAIN l |-> Codecs!CallsSorted(l[a])]
             y == [window_seconds |-> w, max_calls |-> c, max_calls_by_tool |-> b, calls |-> z]
  <2>1. /\ x = [window_seconds |-> w, max_calls |-> c, max_calls_by_tool |-> b, calls |-> l]
        /\ w \in Nat
        /\ c \in PartialMaps(Agents, Nat)
        /\ b \in PartialMaps(Agents, PartialMaps(Tools, Nat))
        /\ l \in PartialMaps(Agents, Seq(CallEntry))
    BY <1>7 DEF Well, ToolLimits
  <2>2. DOMAIN l \subseteq Agents /\ \A a \in DOMAIN l : l[a] \in Seq(CallEntry)
    BY <2>1, MapParts
  <2> HIDE DEF w, c, b, l
  <2>3. z \in [DOMAIN l -> Seq(CallEntry)]
    BY <2>2, SameCalls
  <2>4. z \in PartialMaps(Agents, Seq(CallEntry))
    <3> HIDE DEF z
    <3>1. QED BY <2>2, <2>3, PartialMap
  <2>5. Codecs!NormalizeToolLimits(x) = y
    BY <2>1, LimitsNormalized
  <2>6. [a \in DOMAIN z |-> Codecs!CallsSorted(z[a])] = z
    BY <2>2, SameCalls
  <2> HIDE DEF z
  <2>7. Codecs!NormalizeToolLimits(y) = y
    BY <2>1, <2>4, <2>6, LimitsNormalized
  <2>8. y \in ToolLimits /\ DOMAIN y = Fields(id)
    BY <1>7, <2>1, <2>4, FieldsEach DEF ToolLimits
  <2> HIDE DEF y
  <2>9. y = [f \in DOMAIN y |-> y[f]]
    BY DEF y
  <2>10. QED BY <1>7, <2>5, <2>7, <2>8, <2>9, NormalizeEach DEF Well
<1>8. CASE id = "VelocityModule"
  <2> DEFINE y == Codecs!NormalizeVelocity(x)
  <2>1. y = [x EXCEPT !.counters = Codecs!Defined(x.counters)]
    BY DEF Codecs!NormalizeVelocity
  <2>2. DOMAIN x = {"window_seconds", "max_actions", "counters"}
    BY <1>8, FieldsEach DEF Well
  <2> HIDE DEF y
  <2>3. Codecs!NormalizeVelocity(y) = [y EXCEPT !.counters = Codecs!Defined(y.counters)]
    BY DEF Codecs!NormalizeVelocity
  <2>4. DOMAIN y = DOMAIN x /\ y.counters = Codecs!Defined(x.counters)
    BY <2>1, <2>2
  <2>5. Codecs!Defined(y.counters) = y.counters
    BY <2>4, DefinedTwice
  <2>6. Codecs!NormalizeVelocity(y) = y
    BY <2>1, <2>3, <2>5
  <2>7. y = [f \in DOMAIN y |-> y[f]]
    BY <2>1
  <2>8. QED BY <1>8, <2>4, <2>6, <2>7, NormalizeEach DEF y, Well
<1>9. QED BY <1>1, <1>2, <1>3, <1>4, <1>5, <1>6, <1>7, <1>8 DEF Ids

(* The slices of a state can be normalized.                                *)
LEMMA SlicesAreWell ==
  ASSUME NEW s \in State, NEW id \in Ids
  PROVE  Well(id, SlicesOf(s)[id])
<1>1. CASE id = "ReplayModule"
  <2>1. DOMAIN s.nonces = Agents /\ \A a \in Agents : s.nonces[a] \in Seq(NonceEntry)
    BY DEF State
  <2>2. SlicesOf(s)[id] = ReplaySlice(s.nonces)
    BY <1>1, SliceEach
  <2>3. Well("ReplayModule", ReplaySlice(s.nonces))
    BY <2>1, FieldsEach DEF Well, ReplaySlice
  <2>4. QED BY <1>1, <2>2, <2>3
<1>2. CASE id = "ToolAmplificationModule"
  <2>1. s.calls \in PartialMaps(Agents, Seq(CallEntry)) /\ ToolWindow \in Nat
    BY LimitsAreThere, LimitsAssumption DEF State
  <2>2. SlicesOf(s)[id] = ToolSlice(s.calls)
    BY <1>2, SliceEach
  <2>3. Well("ToolAmplificationModule", ToolSlice(s.calls))
    BY <2>1, LimitsAreThere, FieldsEach DEF Well, ToolSlice, ToolLimits
  <2>4. QED BY <1>2, <2>2, <2>3
<1>3. CASE id \in {"AllowlistModule", "BudgetModule", "ConcurrencyModule"}
  <2>1. /\ Well("AllowlistModule", AllowlistSlice)
        /\ Well("BudgetModule", BudgetSlice(s.spent_in_period))
        /\ Well("ConcurrencyModule", ConcurrencySlice(s.max_concurrent, s.active, s.active_auths))
    BY FieldsEach DEF Well, AllowlistSlice, BudgetSlice, ConcurrencySlice
  <2>2. QED BY <1>3, <2>1, SliceEach
<1>4. CASE id \in {"KillSwitchModule", "RecursionDepthModule", "VelocityModule"}
  <2>1. /\ Well("KillSwitchModule", KillSwitchSlice(s.kill_switch))
        /\ Well("RecursionDepthModule", DepthSlice)
        /\ Well("VelocityModule", VelocitySlice(s.counters))
    BY FieldsEach DEF Well, KillSwitchSlice, DepthSlice, VelocitySlice
  <2>2. QED BY <1>4, <2>1, SliceEach
<1>5. QED BY <1>1, <1>2, <1>3, <1>4 DEF Ids

(* What the modules are reset to, one by one.                              *)
LEMMA DefaultEach ==
  /\ Codecs!DefaultSlice["BudgetModule"] =
       [budget_limit |-> << >>, spent_in_period |-> << >>, max_amount_per_action |-> << >>]
  /\ Codecs!DefaultSlice["ConcurrencyModule"] =
       [max_concurrent |-> << >>, active |-> << >>, active_auths |-> << >>]
  /\ Codecs!DefaultSlice["KillSwitchModule"] = [global |-> FALSE, agents |-> << >>]
  /\ Codecs!DefaultSlice["RecursionDepthModule"] = [max_depth |-> << >>]
  /\ Codecs!DefaultSlice["ReplayModule"] =
       [window_seconds |-> 1, max_nonces_per_agent |-> 0, nonces |-> << >>]
  /\ Codecs!DefaultSlice["ToolAmplificationModule"] =
       [window_seconds |-> 1, max_calls |-> << >>, max_calls_by_tool |-> << >>, calls |-> << >>]
  /\ Codecs!DefaultSlice["VelocityModule"] =
       [window_seconds |-> 1, max_actions |-> 0, counters |-> << >>]
BY DEF Codecs!DefaultSlice, Codecs!EmptyMap

(* There is one map without entries, and it is normal in every sense.      *)
LEMMA EmptyMaps ==
  /\ DOMAIN << >> = {}
  /\ \A f : DOMAIN f = {} /\ f = [k \in DOMAIN f |-> f[k]] => f = << >>
  /\ Codecs!Defined(<< >>) = << >>
  /\ \A d : Codecs!Filled(<< >>, {}, d) = << >>
  /\ \A keys, S : << >> \in PartialMaps(keys, S)
<1>1. DOMAIN << >> = {}
  OBVIOUS
<1>2. \A f : DOMAIN f = {} /\ f = [k \in DOMAIN f |-> f[k]] => f = << >>
  <2>1. << >> = [k \in {} |-> << >>[k]]
    OBVIOUS
  <2>2. QED BY <2>1
<1>3. Codecs!Defined(<< >>) = << >>
  BY <1>1, <1>2 DEF Codecs!Defined
<1>4. \A d : Codecs!Filled(<< >>, {}, d) = << >>
  BY <1>2 DEF Codecs!Filled
<1>5. ASSUME NEW keys, NEW S
      PROVE  << >> \in PartialMaps(keys, S)
  <2>1. << >> \in [{} -> S]
    OBVIOUS
  <2>2. {} \in SUBSET keys
    OBVIOUS
  <2>3. QED BY <2>1, <2>2 DEF PartialMaps
<1>6. QED BY <1>1, <1>2, <1>3, <1>4, <1>5

(* What a module is reset to is a normal form, but for the allowlists.     *)
LEMMA DefaultIsNormal ==
  ASSUME NEW id \in Ids \ {"AllowlistModule"}
  PROVE  Codecs!Normalize(id, Codecs!DefaultSlice[id]) = Codecs!DefaultSlice[id]
<1> DEFINE x == Codecs!DefaultSlice[id]
<1>1. CASE id = "BudgetModule"
  <2>1. x = [budget_limit |-> << >>, spent_in_period |-> << >>, max_amount_per_action |-> << >>]
    BY <1>1, DefaultEach
  <2> HIDE DEF x
  <2>2. \A f \in DOMAIN x : Codecs!Defined(x[f]) = x[f]
    BY <2>1, EmptyMaps
  <2>3. Codecs!NormalizeBudget(x) = x
    BY <2>1, <2>2 DEF Codecs!NormalizeBudget
  <2>4. QED BY <1>1, <2>3, NormalizeEach DEF x
<1>2. CASE id = "ConcurrencyModule"
  <2>1. x = [max_concurrent |-> << >>, active |-> << >>, active_auths |-> << >>]
    BY <1>2, DefaultEach
  <2> HIDE DEF x
  <2>2. UNION {DOMAIN x[f] : f \in DOMAIN x} = {}
    BY <2>1, EmptyMaps
  <2>3. Codecs!NormalizeConcurrency(x) =
          [ max_concurrent |-> Codecs!Filled(x.max_concurrent, {}, 0),
            active         |-> Codecs!Filled(x.active, {}, 0),
            active_auths   |-> Codecs!Filled(x.active_auths, {}, {}) ]
    BY <2>2 DEF Codecs!NormalizeConcurrency
  <2>4. Codecs!NormalizeConcurrency(x) = x
    BY <2>1, <2>3, EmptyMaps
  <2>5. QED BY <1>2, <2>4, NormalizeEach DEF x
<1>3. CASE id = "KillSwitchModule"
  <2>1. x = [global |-> FALSE, agents |-> << >>]
    BY <1>3, DefaultEach
  <2> HIDE DEF x
  <2>2. Codecs!Defined(x.agents) = x.agents
    BY <2>1, EmptyMaps
  <2>3. Codecs!NormalizeKillSwitch(x) = x
    BY <2>1, <2>2 DEF Codecs!NormalizeKillSwitch
  <2>4. QED BY <1>3, <2>3, NormalizeEach DEF x
<1>4. CASE id = "RecursionDepthModule"
  BY <1>4, NormalizeEach
<1>5. CASE id = "ReplayModule"
  <2>1. x = [window_seconds |-> 1, max_nonces_per_agent |-> 0, nonces |-> << >>]
    BY <1>5, DefaultEach
  <2> HIDE DEF x
  <2>2. [a \in DOMAIN x.nonces |-> Codecs!NoncesSorted(x.nonces[a])] = x.nonces
    BY <2>1, EmptyMaps
  <2>3. Codecs!NormalizeReplay(x) = x
    BY <2>1, <2>2 DEF Codecs!NormalizeReplay
  <2>4. QED BY <1>5, <2>3, NormalizeEach DEF x
<1>6. CASE id = "ToolAmplificationModule"
  <2>1. x = [ window_seconds |-> 1, max_calls |-> << >>, max_calls_by_tool |-> << >>,
              calls |-> << >> ]
    BY <1>6, DefaultEach
  <2> HIDE DEF x
  <2>2. [a \in DOMAIN << >> |-> Codecs!CallsSorted(<< >>[a])] = << >>
    BY EmptyMaps
  <2>3. Codecs!NormalizeToolLimits(x) = x
    <3>1. /\ << >> \in PartialMaps(Agents, Nat)
          /\ << >> \in PartialMaps(Agents, PartialMaps(Tools, Nat))
          /\ << >> \in PartialMaps(Agents, Seq(CallEntry))
      BY EmptyMaps
    <3>2. Codecs!NormalizeToolLimits(x) =
            [ window_seconds |-> 1, max_calls |-> << >>, max_calls_by_tool |-> << >>,
              calls |-> [a \in DOMAIN << >> |-> Codecs!CallsSorted(<< >>[a])] ]
      BY <2>1, <3>1, LimitsNormalized
    <3>3. QED BY <2>1, <2>2, <3>2
  <2>4. QED BY <1>6, <2>3, NormalizeEach DEF x
<1>7. CASE id = "VelocityModule"
  <2>1. x = [window_seconds |-> 1, max_actions |-> 0, counters |-> << >>]
    BY <1>7, DefaultEach
  <2> HIDE DEF x
  <2>2. Codecs!Defined(x.counters) = x.counters
    BY <2>1, EmptyMaps
  <2>3. Codecs!NormalizeVelocity(x) = x
    BY <2>1, <2>2 DEF Codecs!NormalizeVelocity
  <2>4. QED BY <1>7, <2>3, NormalizeEach DEF x
<1>8. QED BY <1>1, <1>2, <1>3, <1>4, <1>5, <1>6, <1>7 DEF Ids

-----------------------------------------------------------------------------
(***************************************************************************)
(* An import                                                               *)
(***************************************************************************)

(* What an import that does not throw has read: every payload is accepted, *)
(* and the engine holds what the target does.                              *)
LEMMA ImportReads ==
  ASSUME NEW held, DOMAIN held = Ids, NEW snapshot,
         Codecs!ImportState(held, held, snapshot, PolicyId).ok
  PROVE  LET import == Codecs!ImportState(held, held, snapshot, PolicyId)
         IN  /\ snapshot.formatVersion = 1 /\ snapshot.policyId = PolicyId
             /\ import.current = import.target
             /\ import.target = [id \in Ids |-> Codecs!DeserializeState(id, snapshot.modules)]
             /\ \A id \in Ids \cap DOMAIN snapshot.modules :
                  Codecs!Accepts(id, snapshot.modules[id])
<1> DEFINE import   == Codecs!ImportState(held, held, snapshot, PolicyId)
           imported == Codecs!Imported(held, snapshot)
           ids      == Codecs!ModuleIds
           throws   == {k \in DOMAIN ids :
                          /\ ids[k] \in DOMAIN snapshot.modules
                          /\ ~Codecs!Accepts(ids[k], snapshot.modules[ids[k]])}
           read     == {ids[k] : k \in {j \in DOMAIN ids : \A t \in throws : j < t}}
           bad      == snapshot.formatVersion # 1 \/ snapshot.policyId # PolicyId
<1>1. import = IF bad THEN [ok |-> FALSE, current |-> held, target |-> held]
               ELSE [ ok |-> imported.ok, target |-> imported.target,
                      current |-> IF imported.ok THEN imported.target ELSE held ]
  BY Zenon DEF Codecs!ImportState
<1>2. imported = [ ok |-> throws = {},
                   target |-> [id \in DOMAIN held |->
                                 IF id \in read THEN Codecs!DeserializeState(id, snapshot.modules)
                                 ELSE held[id]] ]
  BY Zenon DEF Codecs!Imported
<1>3. \A id \in Ids : \E k \in DOMAIN ids : ids[k] = id
  BY DEF Ids, Codecs!ModuleIds
<1> HIDE DEF imported, ids, bad, import
<1>4. import.ok
  BY DEF import
<1>5. /\ ~bad
      /\ import.ok = imported.ok
      /\ import.target = imported.target
      /\ import.current = IF imported.ok THEN imported.target ELSE held
  <2> HIDE DEF throws, read
  <2>1. CASE bad
    <3>1. import.ok = FALSE
      BY <1>1, <2>1
    <3>2. QED BY <1>4, <3>1
  <2>2. CASE ~bad
    BY <1>1, <2>2
  <2>3. QED BY <2>1, <2>2
<1>6. imported.ok
  BY <1>4, <1>5
<1>7. throws = {}
  <2> HIDE DEF throws, read
  <2>1. imported.ok = (throws = {})
    BY <1>2
  <2>2. QED BY <1>6, <2>1
<1>8. read = {ids[k] : k \in DOMAIN ids}
  <2> HIDE DEF throws
  <2>1. QED BY <1>7
<1>9. imported.target = [id \in Ids |-> Codecs!DeserializeState(id, snapshot.modules)]
  <2>1. imported.target = [id \in Ids |->
                             IF id \in read THEN Codecs!DeserializeState(id, snapshot.modules)
                             ELSE held[id]]
    <3> HIDE DEF throws, read
    <3>1. QED BY <1>2
  <2>2. \A id \in Ids : id \in read
    BY <1>3, <1>8
  <2> HIDE DEF read
  <2>3. QED BY <2>1, <2>2
<1>10. \A id \in Ids \cap DOMAIN snapshot.modules : Codecs!Accepts(id, snapshot.modules[id])
  <2> TAKE id \in Ids \cap DOMAIN snapshot.modules
  <2>1. PICK k \in DOMAIN ids : ids[k] = id
    BY <1>3
  <2>2. k \notin throws
    BY <1>7, Zenon
  <2>3. QED BY <2>1, <2>2, Zenon
<1>11. import.current = import.target
  BY <1>5, <1>6
<1>12. snapshot.formatVersion = 1 /\ snapshot.policyId = PolicyId
  BY <1>5 DEF bad
<1>13. QED BY <1>5, <1>9, <1>10, <1>11, <1>12 DEF import

(* What lacks a field of a slice is completed to one that can be           *)
(* normalized.                                                             *)
LEMMA CompletedIsWell ==
  ASSUME NEW id \in Ids, NEW whole, Well(id, whole), NEW payload,
         DOMAIN payload \subseteq Fields(id),
         \A f \in DOMAIN payload : payload[f] = whole[f]
  PROVE  /\ Well(id, Codecs!Completed(id, payload))
         /\ payload = whole => Codecs!Completed(id, payload) = whole
<1> DEFINE c == Codecs!Completed(id, payload)
           default == Codecs!DefaultSlice[id]
<1>1. c = [f \in Fields(id) |-> IF f \in DOMAIN payload THEN payload[f] ELSE default[f]]
  BY DEF Codecs!Completed, Fields
<1> HIDE DEF c
<1>2. DOMAIN c = Fields(id) /\ c = [f \in DOMAIN c |-> c[f]]
  BY <1>1
<1>3. \A f \in Fields(id) : c[f] = whole[f] \/ c[f] = default[f]
  BY <1>1
<1>4. ASSUME id = "ReplayModule"
      PROVE  \A a \in DOMAIN c.nonces : c.nonces[a] \in Seq(NonceEntry)
  <2>1. "nonces" \in Fields(id) /\ default.nonces = << >>
    BY <1>4, FieldsEach, DefaultEach
  <2> HIDE DEF default
  <2>2. CASE c.nonces = whole.nonces
    BY <1>4, <2>2 DEF Well
  <2>3. CASE c.nonces = << >>
    BY <2>3
  <2>4. QED BY <1>3, <2>1, <2>2, <2>3
<1>5. ASSUME id = "ToolAmplificationModule"
      PROVE  c \in ToolLimits
  <2>1. /\ Fields(id) = {"window_seconds", "max_calls", "max_calls_by_tool", "calls"}
        /\ default = [ window_seconds |-> 1, max_calls |-> << >>, max_calls_by_tool |-> << >>,
                       calls |-> << >> ]
    BY <1>5, FieldsEach, DefaultEach
  <2>2. /\ whole.window_seconds \in Nat
        /\ whole.max_calls \in PartialMaps(Agents, Nat)
        /\ whole.max_calls_by_tool \in PartialMaps(Agents, PartialMaps(Tools, Nat))
        /\ whole.calls \in PartialMaps(Agents, Seq(CallEntry))
    BY <1>5 DEF Well, ToolLimits
  <2>3. /\ default.window_seconds \in Nat
        /\ default.max_calls \in PartialMaps(Agents, Nat)
        /\ default.max_calls_by_tool \in PartialMaps(Agents, PartialMaps(Tools, Nat))
        /\ default.calls \in PartialMaps(Agents, Seq(CallEntry))
    BY <2>1, EmptyMaps
  <2> HIDE DEF default
  <2>4. /\ c.window_seconds \in Nat
        /\ c.max_calls \in PartialMaps(Agents, Nat)
        /\ c.max_calls_by_tool \in PartialMaps(Agents, PartialMaps(Tools, Nat))
        /\ c.calls \in PartialMaps(Agents, Seq(CallEntry))
    BY <1>3, <2>1, <2>2, <2>3
  <2>5. c = [ window_seconds |-> c.window_seconds, max_calls |-> c.max_calls,
              max_calls_by_tool |-> c.max_calls_by_tool, calls |-> c.calls ]
    BY <1>2, <2>1
  <2>6. QED BY <2>4, <2>5 DEF ToolLimits
<1>6. Well(id, c)
  BY <1>2, <1>4, <1>5 DEF Well
<1>7. ASSUME payload = whole
      PROVE  c = whole
  <2>1. \A f \in Fields(id) : c[f] = whole[f]
    BY <1>1, <1>7 DEF Well
  <2>2. QED BY <1>2, <2>1 DEF Well
<1>8. QED BY <1>6, <1>7 DEF c

(* A map without one of its keys.                                          *)
Without(map, key) == [k \in DOMAIN map \ {key} |-> map[k]]

(* What may have become of a snapshot.                                     *)
LEMMA DamagedEach ==
  ASSUME NEW e, DOMAIN e = SnapshotFields, NEW snapshot \in Damaged(e)
  PROVE  /\ DOMAIN snapshot = SnapshotFields
         /\ snapshot.engineVersion = e.engineVersion
         /\ \/ snapshot = e
            \/ snapshot.formatVersion = 2
            \/ snapshot.policyId = "other"
            \/ \E id \in DOMAIN e.modules :
                 \/ snapshot.modules = Without(e.modules, id)
                 \/ snapshot.modules = [e.modules EXCEPT ![id] = Garbage]
                 \/ \E f \in DOMAIN e.modules[id] :
                      snapshot.modules = [e.modules EXCEPT ![id] = Without(e.modules[id], f)]
<1> DEFINE With(m) == [e EXCEPT !.modules = m]
           Lost(id) == With(Without(e.modules, id))
           Changed(id, x) == With([e.modules EXCEPT ![id] = x])
           Lacks(id) == {Changed(id, Without(e.modules[id], f)) : f \in DOMAIN e.modules[id]}
<1>1. \A m : /\ DOMAIN With(m) = SnapshotFields
             /\ With(m).engineVersion = e.engineVersion
             /\ With(m).modules = m
  BY DEF SnapshotFields
<1>2. Damaged(e) =
        {e, [e EXCEPT !.formatVersion = 2], [e EXCEPT !.policyId = "other"]}
        \cup {Lost(id) : id \in DOMAIN e.modules}
        \cup {Changed(id, Garbage) : id \in DOMAIN e.modules}
        \cup UNION {Lacks(id) : id \in DOMAIN e.modules}
  BY Zenon DEF Damaged, Without
<1>3. CASE snapshot \in {e, [e EXCEPT !.formatVersion = 2], [e EXCEPT !.policyId = "other"]}
  BY <1>3 DEF SnapshotFields
<1>4. ASSUME NEW id \in DOMAIN e.modules, snapshot = Lost(id)
      PROVE  /\ DOMAIN snapshot = SnapshotFields
             /\ snapshot.engineVersion = e.engineVersion
             /\ snapshot.modules = Without(e.modules, id)
  <2> HIDE DEF With
  <2>1. QED BY <1>1, <1>4
<1>5. ASSUME NEW id \in DOMAIN e.modules, NEW x, snapshot = Changed(id, x)
      PROVE  /\ DOMAIN snapshot = SnapshotFields
             /\ snapshot.engineVersion = e.engineVersion
             /\ snapshot.modules = [e.modules EXCEPT ![id] = x]
  <2> HIDE DEF With
  <2>1. QED BY <1>1, <1>5
<1> HIDE DEF Lost, Changed
<1>6. CASE \E id \in DOMAIN e.modules : \E f \in DOMAIN e.modules[id] :
             snapshot = Changed(id, Without(e.modules[id], f))
  <2>1. PICK id \in DOMAIN e.modules :
               \E f \in DOMAIN e.modules[id] : snapshot = Changed(id, Without(e.modules[id], f))
    BY <1>6
  <2>2. PICK f \in DOMAIN e.modules[id] : snapshot = Changed(id, Without(e.modules[id], f))
    BY <2>1
  <2>3. /\ DOMAIN snapshot = SnapshotFields
        /\ snapshot.engineVersion = e.engineVersion
        /\ snapshot.modules = [e.modules EXCEPT ![id] = Without(e.modules[id], f)]
    BY <1>5, <2>2
  <2>4. QED BY <2>3, Zenon
<1>7. \/ snapshot \in {e, [e EXCEPT !.formatVersion = 2], [e EXCEPT !.policyId = "other"]}
      \/ \E id \in DOMAIN e.modules : snapshot = Lost(id)
      \/ \E id \in DOMAIN e.modules : snapshot = Changed(id, Garbage)
      \/ \E id \in DOMAIN e.modules : \E f \in DOMAIN e.modules[id] :
            snapshot = Changed(id, Without(e.modules[id], f))
  BY <1>2, Zenon
<1>8. QED BY <1>3, <1>4, <1>5, <1>6, <1>7

(* What a state comes to in a snapshot.                                    *)
Whole(s, id) == Codecs!Normalize(id, SlicesOf(s)[id])

(* What a module's payload is exported as has the fields of the module and *)
(* is a normal form.                                                       *)
LEMMA WholeIsNormal ==
  ASSUME NEW s \in State, NEW id \in Ids
  PROVE  /\ Well(id, Whole(s, id)) /\ DOMAIN Whole(s, id) = Fields(id)
         /\ Codecs!Normalize(id, Whole(s, id)) = Whole(s, id)
BY SlicesAreWell, NormalTwice DEF Whole

(* What is exported of a state.                                            *)
LEMMA Exports ==
  ASSUME NEW x, DOMAIN x = Ids
  PROVE  LET e == Codecs!ExportState(x, PolicyId)
         IN  /\ DOMAIN e = SnapshotFields
             /\ e.engineVersion = "1.0.0" /\ e.policyId = PolicyId
             /\ e.modules = [id \in Ids |-> Codecs!Normalize(id, x[id])]
BY DEF Codecs!ExportState, SnapshotFields

(* What of a damaged snapshot can be imported: each payload is a part of   *)
(* what was exported, and if it is not all of that then a module or one of *)
(* its fields is missing.                                                  *)
LEMMA PayloadsArrive ==
  ASSUME NEW s \in State,
         NEW snapshot \in Damaged(Codecs!ExportState(SlicesOf(s), PolicyId)),
         snapshot.formatVersion = 1, snapshot.policyId = PolicyId,
         \A id \in Ids \cap DOMAIN snapshot.modules : snapshot.modules[id] # Garbage
  PROVE  /\ DOMAIN snapshot = SnapshotFields
         /\ snapshot.engineVersion = "1.0.0"
         /\ DOMAIN snapshot.modules \subseteq Ids
         /\ \A id \in DOMAIN snapshot.modules :
              /\ DOMAIN snapshot.modules[id] \subseteq Fields(id)
              /\ \A f \in DOMAIN snapshot.modules[id] :
                   snapshot.modules[id][f] = Whole(s, id)[f]
         /\ \/ /\ snapshot = Codecs!ExportState(SlicesOf(s), PolicyId)
               /\ snapshot.modules = [id \in Ids |-> Whole(s, id)]
            \/ DOMAIN snapshot.modules # Ids
            \/ \E id \in DOMAIN snapshot.modules : DOMAIN snapshot.modules[id] # Fields(id)
<1> DEFINE e == Codecs!ExportState(SlicesOf(s), PolicyId)
           m == snapshot.modules
<1>1. /\ DOMAIN e = SnapshotFields /\ e.engineVersion = "1.0.0"
      /\ e.modules = [id \in Ids |-> Whole(s, id)]
  BY Exports, SliceEach DEF Whole
<1>2. \A id \in Ids : DOMAIN Whole(s, id) = Fields(id)
  BY WholeIsNormal
<1> HIDE DEF e
<1>3. DOMAIN e.modules = Ids /\ \A id \in Ids : e.modules[id] = Whole(s, id)
  BY <1>1
<1>4. /\ DOMAIN snapshot = SnapshotFields
      /\ snapshot.engineVersion = "1.0.0"
      /\ \/ snapshot = e
         \/ \E id \in Ids :
              \/ m = Without(e.modules, id)
              \/ m = [e.modules EXCEPT ![id] = Garbage]
              \/ \E f \in Fields(id) : m = [e.modules EXCEPT ![id] = Without(Whole(s, id), f)]
  <2>1. snapshot \in Damaged(e)
    BY DEF e
  <2>2. snapshot.formatVersion # 2 /\ snapshot.policyId # "other"
    BY DEF PolicyId
  <2>3. /\ DOMAIN snapshot = SnapshotFields
        /\ snapshot.engineVersion = e.engineVersion
        /\ \/ snapshot = e
           \/ \E id \in DOMAIN e.modules :
                \/ m = Without(e.modules, id)
                \/ m = [e.modules EXCEPT ![id] = Garbage]
                \/ \E f \in DOMAIN e.modules[id] :
                     m = [e.modules EXCEPT ![id] = Without(e.modules[id], f)]
    BY <1>1, <2>1, <2>2, DamagedEach
  <2> HIDE DEF m
  <2>4. QED BY <1>1, <1>2, <1>3, <2>3
<1>5. CASE snapshot = e
  <2>1. m = [id \in Ids |-> Whole(s, id)]
    BY <1>1, <1>5
  <2>2. DOMAIN m = Ids /\ \A id \in Ids : m[id] = Whole(s, id)
    BY <1>3, <1>5
  <2> HIDE DEF m
  <2>3. QED BY <1>2, <1>4, <1>5, <2>1, <2>2 DEF e, m
<1>6. ASSUME NEW id \in Ids, m = Without(e.modules, id)
      PROVE  /\ DOMAIN m \subseteq Ids /\ DOMAIN m # Ids
             /\ \A k \in DOMAIN m : m[k] = Whole(s, k)
  <2> HIDE DEF m
  <2>1. QED BY <1>3, <1>6 DEF Without
<1>7. ASSUME NEW id \in Ids, m = [e.modules EXCEPT ![id] = Garbage]
      PROVE  FALSE
  BY <1>3, <1>7
<1>8. ASSUME NEW id \in Ids, NEW f \in Fields(id),
             m = [e.modules EXCEPT ![id] = Without(Whole(s, id), f)]
      PROVE  /\ DOMAIN m = Ids
             /\ \A k \in Ids : m[k] = Whole(s, k) \/ (k = id /\ m[k] = Without(Whole(s, k), f))
             /\ DOMAIN m[id] # Fields(id)
  <2> HIDE DEF m
  <2>1. /\ DOMAIN m = Ids
        /\ \A k \in Ids : m[k] = IF k = id THEN Without(Whole(s, id), f) ELSE Whole(s, k)
    BY <1>3, <1>8
  <2>2. DOMAIN m[id] = Fields(id) \ {f}
    BY <1>2, <2>1 DEF Without
  <2>3. QED BY <2>1, <2>2
<1>9. \A id \in Ids : \A f :
        /\ DOMAIN Without(Whole(s, id), f) \subseteq Fields(id)
        /\ \A g \in DOMAIN Without(Whole(s, id), f) :
             Without(Whole(s, id), f)[g] = Whole(s, id)[g]
  BY <1>2 DEF Without
<1>10. CASE \E id \in Ids : m = Without(e.modules, id)
  <2>1. DOMAIN m \subseteq Ids /\ DOMAIN m # Ids /\ \A k \in DOMAIN m : m[k] = Whole(s, k)
    BY <1>6, <1>10
  <2> HIDE DEF m
  <2>2. QED BY <1>2, <1>4, <2>1 DEF m
<1>11. CASE \E id \in Ids : \E f \in Fields(id) :
              m = [e.modules EXCEPT ![id] = Without(Whole(s, id), f)]
  <2>0. PICK id \in Ids : \E f \in Fields(id) :
               m = [e.modules EXCEPT ![id] = Without(Whole(s, id), f)]
    BY <1>11
  <2>1. PICK f \in Fields(id) : m = [e.modules EXCEPT ![id] = Without(Whole(s, id), f)]
    BY <2>0
  <2>2. /\ DOMAIN m = Ids /\ DOMAIN m[id] # Fields(id)
        /\ \A k \in Ids : m[k] = Whole(s, k) \/ (k = id /\ m[k] = Without(Whole(s, k), f))
    BY <1>8, <2>1
  <2> HIDE DEF m
  <2>3. \A k \in Ids : /\ DOMAIN m[k] \subseteq Fields(k)
                       /\ \A g \in DOMAIN m[k] : m[k][g] = Whole(s, k)[g]
    BY <1>2, <1>9, <2>2
  <2>4. QED BY <1>4, <2>2, <2>3 DEF m
<1>12. QED BY <1>4, <1>5, <1>7, <1>10, <1>11

(* What an engine takes over of a snapshot that arrives: for each module   *)
(* the slice that it is reset to, or the normal form of a slice.           *)
LEMMA TakenOver ==
  ASSUME NEW s \in State, NEW held, DOMAIN held = Ids,
         NEW snapshot \in Damaged(Codecs!ExportState(SlicesOf(s), PolicyId)),
         Codecs!ImportState(held, held, snapshot, PolicyId).ok
  PROVE  LET import == Codecs!ImportState(held, held, snapshot, PolicyId)
         IN  /\ snapshot.formatVersion = 1 /\ snapshot.policyId = PolicyId
             /\ \A id \in Ids \cap DOMAIN snapshot.modules : snapshot.modules[id] # Garbage
             /\ import.current = import.target /\ DOMAIN import.target = Ids
             /\ \A id \in Ids \ DOMAIN snapshot.modules :
                  import.target[id] = Codecs!DefaultSlice[id]
             /\ \A id \in DOMAIN snapshot.modules :
                  \E c : /\ Well(id, c) /\ import.target[id] = Codecs!Normalize(id, c)
                         /\ snapshot.modules[id] = Whole(s, id) => c = Whole(s, id)
<1> DEFINE import == Codecs!ImportState(held, held, snapshot, PolicyId)
           m == snapshot.modules
<1>1. /\ snapshot.formatVersion = 1 /\ snapshot.policyId = PolicyId
      /\ import.current = import.target
      /\ import.target = [id \in Ids |-> Codecs!DeserializeState(id, m)]
      /\ \A id \in Ids \cap DOMAIN m : Codecs!Accepts(id, m[id])
  BY ImportReads
<1>2. \A id \in Ids \cap DOMAIN m : m[id] # Garbage
  <2> HIDE DEF m
  <2>1. QED BY <1>1 DEF Codecs!Accepts
<1>3. /\ DOMAIN m \subseteq Ids
      /\ \A id \in DOMAIN m : /\ DOMAIN m[id] \subseteq Fields(id)
                              /\ \A f \in DOMAIN m[id] : m[id][f] = Whole(s, id)[f]
  BY <1>1, <1>2, PayloadsArrive
<1> HIDE DEF import, m
<1>4. \A id \in Ids \ DOMAIN m : import.target[id] = Codecs!DefaultSlice[id]
  BY <1>1 DEF Codecs!DeserializeState
<1>5. ASSUME NEW id \in DOMAIN m
      PROVE  LET c == Codecs!Completed(id, m[id])
             IN  /\ Well(id, c) /\ import.target[id] = Codecs!Normalize(id, c)
                 /\ m[id] = Whole(s, id) => c = Whole(s, id)
  <2> DEFINE c == Codecs!Completed(id, m[id])
  <2>1. import.target[id] = Codecs!Normalize(id, c)
    BY <1>1, <1>3 DEF Codecs!DeserializeState
  <2>2. Well(id, Whole(s, id)) /\ id \in Ids
    BY <1>3, WholeIsNormal
  <2>3. Well(id, c) /\ (m[id] = Whole(s, id) => c = Whole(s, id))
    BY <1>3, <2>2, CompletedIsWell
  <2>4. QED BY <2>1, <2>3
<1>6. \A id \in DOMAIN m :
        \E c : /\ Well(id, c) /\ import.target[id] = Codecs!Normalize(id, c)
               /\ m[id] = Whole(s, id) => c = Whole(s, id)
  BY <1>5, Zenon
<1>7. DOMAIN import.target = Ids
  BY <1>1
<1>8. QED BY <1>1, <1>2, <1>4, <1>6, <1>7, Zenon DEF import, m

(* A snapshot verifies and is imported: the hash of what the engine then   *)
(* holds is the verified one just if nothing is missing.                   *)
LEMMA TheHashTells ==
  ASSUME NEW s \in State, NEW held, DOMAIN held = Ids,
         NEW snapshot \in Damaged(Codecs!ExportState(SlicesOf(s), PolicyId)),
         Codecs!ImportState(held, held, snapshot, PolicyId).ok
  PROVE  Hash(Codecs!ImportState(held, held, snapshot, PolicyId).current)
           = Codecs!StateHashOf(snapshot)
         <=> snapshot = Codecs!ExportState(SlicesOf(s), PolicyId)
<1> DEFINE target == Codecs!ImportState(held, held, snapshot, PolicyId).target
           m == snapshot.modules
           e == Codecs!ExportState(SlicesOf(s), PolicyId)
           x == Codecs!ExportState(target, PolicyId)
<1>1. /\ snapshot.formatVersion = 1 /\ snapshot.policyId = PolicyId
      /\ \A id \in Ids \cap DOMAIN m : m[id] # Garbage
      /\ Codecs!ImportState(held, held, snapshot, PolicyId).current = target
      /\ DOMAIN target = Ids
      /\ \A id \in DOMAIN m :
           \E c : /\ Well(id, c) /\ target[id] = Codecs!Normalize(id, c)
                  /\ m[id] = Whole(s, id) => c = Whole(s, id)
  BY TakenOver
<1>2. /\ DOMAIN snapshot = SnapshotFields
      /\ snapshot.engineVersion = "1.0.0"
      /\ DOMAIN m \subseteq Ids
      /\ \/ snapshot = e /\ m = [id \in Ids |-> Whole(s, id)]
         \/ DOMAIN m # Ids
         \/ \E id \in DOMAIN m : DOMAIN m[id] # Fields(id)
  BY <1>1, PayloadsArrive
<1> HIDE DEF target
<1>3. /\ DOMAIN x = SnapshotFields /\ x.engineVersion = "1.0.0" /\ x.policyId = PolicyId
      /\ x.modules = [id \in Ids |-> Codecs!Normalize(id, target[id])]
  BY <1>1, Exports
<1>4. Hash(target) = Codecs!StateHashOf(x)
  BY DEF Hash, Codecs!ComputeStateHash
<1> HIDE DEF x, e
<1>5. Codecs!StateHashOf(x) = Codecs!StateHashOf(snapshot) <=> x.modules = m
  BY <1>1, <1>2, <1>3, HashShowsModules
<1>6. \A id \in DOMAIN m :
        /\ DOMAIN Codecs!Normalize(id, target[id]) = Fields(id)
        /\ m[id] = Whole(s, id) => Codecs!Normalize(id, target[id]) = Whole(s, id)
  <2> HIDE DEF m
  <2> TAKE id \in DOMAIN m
  <2>1. PICK c : /\ Well(id, c) /\ target[id] = Codecs!Normalize(id, c)
                 /\ m[id] = Whole(s, id) => c = Whole(s, id)
    BY <1>1
  <2>2. id \in Ids
    BY <1>2
  <2>3. /\ DOMAIN Codecs!Normalize(id, target[id]) = Fields(id)
        /\ Codecs!Normalize(id, target[id]) = Codecs!Normalize(id, c)
    BY <2>1, <2>2, NormalTwice
  <2>4. QED BY <2>1, <2>2, <2>3, WholeIsNormal
<1>7. ASSUME snapshot = e, m = [id \in Ids |-> Whole(s, id)]
      PROVE  x.modules = m
  <2>1. DOMAIN m = Ids /\ \A id \in Ids : m[id] = Whole(s, id)
    BY <1>7
  <2> HIDE DEF m
  <2>2. \A id \in Ids : Codecs!Normalize(id, target[id]) = Whole(s, id)
    BY <1>6, <2>1
  <2>3. QED BY <1>3, <1>7, <2>2
<1>8. ASSUME x.modules = m
      PROVE  DOMAIN m = Ids /\ \A id \in DOMAIN m : DOMAIN m[id] = Fields(id)
  <2> HIDE DEF m
  <2>1. DOMAIN m = Ids /\ \A id \in Ids : m[id] = Codecs!Normalize(id, target[id])
    BY <1>3, <1>8
  <2>2. QED BY <1>6, <2>1
<1>9. ASSUME snapshot = e
      PROVE  x.modules = m
  <2>1. e = snapshot /\ DOMAIN e.modules = Ids /\ e.modules = [id \in Ids |-> Whole(s, id)]
    BY <1>9, Exports, SliceEach DEF e, Whole
  <2>2. QED BY <1>7, <1>9, <2>1
<1>10. x.modules = m <=> snapshot = e
  <2> HIDE DEF m
  <2>1. QED BY <1>2, <1>8, <1>9
<1>11. QED BY <1>1, <1>4, <1>5, <1>10 DEF e

-----------------------------------------------------------------------------
(***************************************************************************)
(* Taking over                                                             *)
(***************************************************************************)

(* What does not change on its way, and what is sorted or left out.        *)
LEMMA WholeShows ==
  ASSUME NEW s \in State
  PROVE  /\ Whole(s, "KillSwitchModule") = KillSwitchSlice(s.kill_switch)
         /\ Whole(s, "ConcurrencyModule") =
              ConcurrencySlice(s.max_concurrent, s.active, s.active_auths)
         /\ Whole(s, "BudgetModule").spent_in_period = s.spent_in_period
         /\ Whole(s, "ReplayModule").nonces =
              [a \in Agents |-> Codecs!NoncesSorted(s.nonces[a])]
         /\ Whole(s, "ToolAmplificationModule").calls =
              [a \in Agents |-> Codecs!CallsSorted(s.calls[a])]
         /\ Whole(s, "VelocityModule").counters = Codecs!Defined(s.counters)
<1>1. Whole(s, "KillSwitchModule") = KillSwitchSlice(s.kill_switch)
  <2> DEFINE x == KillSwitchSlice(s.kill_switch)
  <2>1. /\ Whole(s, "KillSwitchModule") = Codecs!NormalizeKillSwitch(x)
        /\ x = [global |-> s.kill_switch.global, agents |-> [a \in s.kill_switch.agents |-> TRUE]]
    BY NormalizeEach, SliceEach DEF Whole, KillSwitchSlice
  <2> HIDE DEF x
  <2>2. TRUE # Undefined
    BY StandbyAssumption
  <2>3. Codecs!Defined(x.agents) = x.agents
    BY <2>1, <2>2 DEF Codecs!Defined
  <2>4. Codecs!NormalizeKillSwitch(x) = x
    BY <2>1, <2>3 DEF Codecs!NormalizeKillSwitch
  <2>5. QED BY <2>1, <2>4 DEF x
<1>2. Whole(s, "ConcurrencyModule") = ConcurrencySlice(s.max_concurrent, s.active, s.active_auths)
  <2> DEFINE x == ConcurrencySlice(s.max_concurrent, s.active, s.active_auths)
  <2>1. /\ Whole(s, "ConcurrencyModule") = Codecs!NormalizeConcurrency(x)
        /\ x = [ max_concurrent |-> s.max_concurrent, active |-> s.active,
                 active_auths |-> s.active_auths ]
    BY NormalizeEach, SliceEach DEF Whole, ConcurrencySlice
  <2> HIDE DEF x
  <2>2. /\ s.max_concurrent = [a \in Agents |-> s.max_concurrent[a]]
        /\ s.active = [a \in Agents |-> s.active[a]]
        /\ s.active_auths = [a \in Agents |-> s.active_auths[a]]
    BY DEF State
  <2>3. UNION {DOMAIN x[f] : f \in DOMAIN x} = Agents
    BY <2>1, <2>2
  <2>4. /\ Codecs!Filled(s.max_concurrent, Agents, 0) = s.max_concurrent
        /\ Codecs!Filled(s.active, Agents, 0) = s.active
        /\ Codecs!Filled(s.active_auths, Agents, {}) = s.active_auths
    BY <2>2 DEF Codecs!Filled
  <2>5. Codecs!NormalizeConcurrency(x) =
          [ max_concurrent |-> Codecs!Filled(x.max_concurrent, Agents, 0),
            active         |-> Codecs!Filled(x.active, Agents, 0),
            active_auths   |-> Codecs!Filled(x.active_auths, Agents, {}) ]
    BY <2>3 DEF Codecs!NormalizeConcurrency
  <2>6. Codecs!NormalizeConcurrency(x) = x
    BY <2>1, <2>4, <2>5
  <2>7. QED BY <2>1, <2>6 DEF x
<1>3. Whole(s, "BudgetModule").spent_in_period = s.spent_in_period
  <2> DEFINE x == BudgetSlice(s.spent_in_period)
  <2>1. /\ Whole(s, "BudgetModule") = Codecs!NormalizeBudget(x)
        /\ x = [ budget_limit |-> BudgetLimit, spent_in_period |-> s.spent_in_period,
                 max_amount_per_action |-> MaxAmount ]
    BY NormalizeEach, SliceEach DEF Whole, BudgetSlice
  <2> HIDE DEF x
  <2>2. /\ s.spent_in_period = [a \in Agents |-> s.spent_in_period[a]]
        /\ \A a \in Agents : s.spent_in_period[a] # Undefined
    BY StandbyAssumption DEF State
  <2>3. Codecs!Defined(s.spent_in_period) = s.spent_in_period
    BY <2>2 DEF Codecs!Defined
  <2>4. Codecs!NormalizeBudget(x).spent_in_period = Codecs!Defined(x.spent_in_period)
    BY <2>1 DEF Codecs!NormalizeBudget
  <2>5. QED BY <2>1, <2>3, <2>4
<1>4. Whole(s, "ReplayModule").nonces = [a \in Agents |-> Codecs!NoncesSorted(s.nonces[a])]
  <2> DEFINE x == ReplaySlice(s.nonces)
             z == [a \in DOMAIN x.nonces |-> Codecs!NoncesSorted(x.nonces[a])]
  <2>1. /\ Whole(s, "ReplayModule") = Codecs!NormalizeReplay(x)
        /\ x = [ window_seconds |-> ReplayWindow, max_nonces_per_agent |-> MaxNonces,
                 nonces |-> s.nonces ]
    BY NormalizeEach, SliceEach DEF Whole, ReplaySlice
  <2> HIDE DEF x
  <2>2. Codecs!NormalizeReplay(x) = [x EXCEPT !.nonces = z]
    BY DEF Codecs!NormalizeReplay
  <2>3. z = [a \in Agents |-> Codecs!NoncesSorted(s.nonces[a])]
    BY <2>1 DEF State
  <2> HIDE DEF z
  <2>4. QED BY <2>1, <2>2, <2>3
<1>5. Whole(s, "ToolAmplificationModule").calls = [a \in Agents |-> Codecs!CallsSorted(s.calls[a])]
  <2> DEFINE x == ToolSlice(s.calls)
             z == [a \in DOMAIN s.calls |-> Codecs!CallsSorted(s.calls[a])]
  <2>1. /\ Whole(s, "ToolAmplificationModule") = Codecs!NormalizeToolLimits(x)
        /\ x = [ window_seconds |-> ToolWindow, max_calls |-> MaxCalls,
                 max_calls_by_tool |-> MaxCallsByTool, calls |-> s.calls ]
    BY NormalizeEach, SliceEach DEF Whole, ToolSlice
  <2>2. s.calls \in PartialMaps(Agents, Seq(CallEntry)) /\ ToolWindow \in Nat
    BY LimitsAreThere, LimitsAssumption DEF State
  <2> HIDE DEF x
  <2>3. Codecs!NormalizeToolLimits(x) =
          [ window_seconds |-> ToolWindow, max_calls |-> MaxCalls,
            max_calls_by_tool |-> MaxCallsByTool, calls |-> z ]
    BY <2>1, <2>2, LimitsAreThere, LimitsNormalized
  <2>4. z = [a \in Agents |-> Codecs!CallsSorted(s.calls[a])]
    BY DEF State
  <2> HIDE DEF z
  <2>5. QED BY <2>1, <2>3, <2>4
<1>6. Whole(s, "VelocityModule").counters = Codecs!Defined(s.counters)
  <2> DEFINE x == VelocitySlice(s.counters)
  <2>1. /\ Whole(s, "VelocityModule") = Codecs!NormalizeVelocity(x)
        /\ x = [ window_seconds |-> VelocityWindow, max_actions |-> MaxActions,
                 counters |-> s.counters ]
    BY NormalizeEach, SliceEach DEF Whole, VelocitySlice
  <2> HIDE DEF x
  <2>2. Codecs!NormalizeVelocity(x) = [x EXCEPT !.counters = Codecs!Defined(x.counters)]
    BY DEF Codecs!NormalizeVelocity
  <2>3. QED BY <2>1, <2>2
<1>7. QED BY <1>1, <1>2, <1>3, <1>4, <1>5, <1>6

(* The normal forms of a state's slices are slices of a state alike.       *)
LEMMA StateOfNormalForms ==
  ASSUME NEW s \in State, s.policy_version = PolicyVersion, NEW slices,
         \A id \in Ids \ {"AllowlistModule"} : slices[id] = Whole(s, id)
  PROVE  StateFrom(slices) \in State /\ Alike(s, StateFrom(slices))
<1> DEFINE t  == StateFrom(slices)
           ks == slices.KillSwitchModule
           cs == slices.ConcurrencyModule
           vc == slices.VelocityModule.counters
<1>1. /\ ks = KillSwitchSlice(s.kill_switch)
      /\ cs = ConcurrencySlice(s.max_concurrent, s.active, s.active_auths)
      /\ slices.BudgetModule.spent_in_period = s.spent_in_period
      /\ slices.ReplayModule.nonces = [a \in Agents |-> Codecs!NoncesSorted(s.nonces[a])]
      /\ slices.ToolAmplificationModule.calls =
           [a \in Agents |-> Codecs!CallsSorted(s.calls[a])]
      /\ vc = Codecs!Defined(s.counters)
  BY WholeShows DEF Ids
<1> HIDE DEF ks, cs, vc
<1>2. /\ ks.global = s.kill_switch.global
      /\ {a \in DOMAIN ks.agents : ks.agents[a]} = s.kill_switch.agents
  BY <1>1 DEF KillSwitchSlice
<1>3. cs.max_concurrent = s.max_concurrent /\ cs.active = s.active
      /\ cs.active_auths = s.active_auths
  BY <1>1 DEF ConcurrencySlice
<1>4. [a \in Agents |-> IF a \in DOMAIN vc THEN vc[a] ELSE Undefined] = s.counters
  <2>1. DOMAIN s.counters = Agents /\ s.counters = [a \in Agents |-> s.counters[a]]
    BY DEF State
  <2>2. /\ DOMAIN vc = {a \in Agents : s.counters[a] # Undefined}
        /\ \A a \in DOMAIN vc : vc[a] = s.counters[a]
    BY <1>1, <2>1 DEF Codecs!Defined
  <2>3. QED BY <2>1, <2>2
<1>5. t = [ policy_version  |-> PolicyVersion,
            kill_switch     |-> [global |-> s.kill_switch.global, agents |-> s.kill_switch.agents],
            nonces          |-> [a \in Agents |-> Codecs!NoncesSorted(s.nonces[a])],
            max_concurrent  |-> s.max_concurrent,
            active          |-> s.active,
            active_auths    |-> s.active_auths,
            calls           |-> [a \in Agents |-> Codecs!CallsSorted(s.calls[a])],
            spent_in_period |-> s.spent_in_period,
            counters        |-> s.counters ]
  BY <1>1, <1>2, <1>3, <1>4 DEF StateFrom, ks, cs, vc
<1> HIDE DEF t
<1>6. /\ s.kill_switch = [global |-> s.kill_switch.global, agents |-> s.kill_switch.agents]
      /\ s.kill_switch \in [global : BOOLEAN, agents : SUBSET Agents]
  BY DEF State
<1>7. \A a \in Agents :
        /\ s.nonces[a] \in Seq(NonceEntry) /\ s.calls[a] \in Seq(CallEntry)
  BY DEF State
<1>8. \A a \in Agents :
        /\ Codecs!NoncesSorted(s.nonces[a]) \in Seq(NonceEntry)
        /\ SameElements(s.nonces[a], Codecs!NoncesSorted(s.nonces[a]))
  BY <1>7, NoncesAreSorted
<1>9. \A a \in Agents :
        /\ Codecs!CallsSorted(s.calls[a]) \in Seq(CallEntry)
        /\ SameElements(s.calls[a], Codecs!CallsSorted(s.calls[a]))
  BY <1>7, SameCalls
<1>10. /\ t.nonces \in [Agents -> Seq(NonceEntry)]
       /\ t.calls \in [Agents -> Seq(CallEntry)]
       /\ \A a \in Agents : /\ SameElements(s.nonces[a], t.nonces[a])
                            /\ SameElements(s.calls[a], t.calls[a])
  BY <1>5, <1>8, <1>9
<1>11. /\ t.policy_version = PolicyVersion /\ t.kill_switch = s.kill_switch
       /\ t.max_concurrent = s.max_concurrent /\ t.active = s.active
       /\ t.active_auths = s.active_auths /\ t.spent_in_period = s.spent_in_period
       /\ t.counters = s.counters
  BY <1>5, <1>6
<1>12. t = [ policy_version |-> t.policy_version, kill_switch |-> t.kill_switch,
             nonces |-> t.nonces, max_concurrent |-> t.max_concurrent, active |-> t.active,
             active_auths |-> t.active_auths, calls |-> t.calls,
             spent_in_period |-> t.spent_in_period, counters |-> t.counters ]
  BY <1>5
<1>13. t \in State
  <2>1. /\ s.max_concurrent \in [Agents -> Nat] /\ s.active \in [Agents -> Nat]
        /\ s.active_auths \in [Agents -> SUBSET AuthId] /\ s.spent_in_period \in [Agents -> Int]
        /\ s.counters \in [Agents -> Counter \cup {Undefined}]
        /\ s.policy_version \in PolicyVersions
    BY DEF State
  <2>2. QED BY <1>6, <1>10, <1>11, <1>12, <2>1 DEF State
<1>14. Alike(s, t)
  BY <1>10, <1>11 DEF Alike
<1>15. QED BY <1>13, <1>14 DEF t

(* Of a state's own slices, the state.                                     *)
LEMMA StateOfSlices ==
  ASSUME NEW s \in State, s.policy_version = PolicyVersion
  PROVE  StateFrom(SlicesOf(s)) = s
<1> DEFINE x == SlicesOf(s)
           t == StateFrom(x)
<1>1. /\ x.KillSwitchModule = KillSwitchSlice(s.kill_switch)
      /\ x.ConcurrencyModule = ConcurrencySlice(s.max_concurrent, s.active, s.active_auths)
      /\ x.BudgetModule = BudgetSlice(s.spent_in_period)
      /\ x.ReplayModule = ReplaySlice(s.nonces)
      /\ x.ToolAmplificationModule = ToolSlice(s.calls)
      /\ x.VelocityModule = VelocitySlice(s.counters)
  BY SliceEach
<1> HIDE DEF x
<1>2. /\ s.kill_switch = [global |-> s.kill_switch.global, agents |-> s.kill_switch.agents]
      /\ s.counters = [a \in Agents |-> s.counters[a]]
  BY DEF State
<1>3. /\ x.KillSwitchModule.global = s.kill_switch.global
      /\ {a \in DOMAIN x.KillSwitchModule.agents : x.KillSwitchModule.agents[a]}
           = s.kill_switch.agents
  BY <1>1 DEF KillSwitchSlice
<1>4. /\ x.ConcurrencyModule.max_concurrent = s.max_concurrent
      /\ x.ConcurrencyModule.active = s.active
      /\ x.ConcurrencyModule.active_auths = s.active_auths
      /\ x.BudgetModule.spent_in_period = s.spent_in_period
      /\ x.ReplayModule.nonces = s.nonces
      /\ x.ToolAmplificationModule.calls = s.calls
      /\ x.VelocityModule.counters = s.counters
  BY <1>1 DEF ConcurrencySlice, BudgetSlice, ReplaySlice, ToolSlice, VelocitySlice
<1>5. [a \in Agents |-> IF a \in DOMAIN s.counters THEN s.counters[a] ELSE Undefined] = s.counters
  BY <1>2
<1>6. t = [ policy_version |-> PolicyVersion, kill_switch |-> s.kill_switch,
            nonces |-> s.nonces, max_concurrent |-> s.max_concurrent, active |-> s.active,
            active_auths |-> s.active_auths, calls |-> s.calls,
            spent_in_period |-> s.spent_in_period, counters |-> s.counters ]
  BY <1>2, <1>3, <1>4, <1>5 DEF StateFrom
<1>7. s = [ policy_version |-> s.policy_version, kill_switch |-> s.kill_switch,
            nonces |-> s.nonces, max_concurrent |-> s.max_concurrent, active |-> s.active,
            active_auths |-> s.active_auths, calls |-> s.calls,
            spent_in_period |-> s.spent_in_period, counters |-> s.counters ]
  BY DEF State
<1>8. QED BY <1>6, <1>7 DEF x

(* An import after which the hash is that of the state that was exported   *)
(* makes a state alike.                                                    *)
LEMMA FollowersAreAlike ==
  ASSUME NEW s \in State, s.policy_version = PolicyVersion, NEW held, DOMAIN held = Ids,
         NEW snapshot \in Damaged(Codecs!ExportState(SlicesOf(s), PolicyId)),
         Codecs!ImportState(held, held, snapshot, PolicyId).ok,
         Hash(Codecs!ImportState(held, held, snapshot, PolicyId).target) = Hash(SlicesOf(s))
  PROVE  LET target == Codecs!ImportState(held, held, snapshot, PolicyId).target
         IN  StateFrom(target) \in State /\ Alike(s, StateFrom(target))
<1> DEFINE target == Codecs!ImportState(held, held, snapshot, PolicyId).target
           m == snapshot.modules
<1>1. /\ DOMAIN target = Ids
      /\ \A id \in Ids \ DOMAIN m : target[id] = Codecs!DefaultSlice[id]
      /\ \A id \in DOMAIN m : \E c : Well(id, c) /\ target[id] = Codecs!Normalize(id, c)
  BY TakenOver
<1> HIDE DEF target, m
<1>2. \A id \in Ids : Codecs!Normalize(id, target[id]) = Whole(s, id)
  <2>1. Hash(target) = Hash(SlicesOf(s)) /\ DOMAIN SlicesOf(s) = Ids
    BY SliceEach DEF target
  <2>2. QED BY <1>1, <2>1, HashShowsNormal DEF Whole
<1>3. \A id \in Ids \ {"AllowlistModule"} : Codecs!Normalize(id, target[id]) = target[id]
  BY <1>1, NormalTwice, DefaultIsNormal
<1>4. \A id \in Ids \ {"AllowlistModule"} : target[id] = Whole(s, id)
  BY <1>2, <1>3
<1>5. QED BY <1>4, StateOfNormalForms DEF target

(* No evaluation changes the policy's version.                             *)
LEMMA VersionStays ==
  ASSUME NEW i, NEW s \in State, NEW mode
  PROVE  Evaluation(i, s, mode).next.policy_version = s.policy_version
<1> DEFINE working == MergeDeltas(i, s, Merged(i, Denying(i, s), mode))
           out == Evaluation(i, s, mode)
<1>1. working.policy_version = s.policy_version
  BY DEF MergeDeltas
<1>2. WithAuth(i, working).policy_version = working.policy_version
  BY DEF WithAuth, MergeDeltas
<1>3. \/ out = [decision |-> "DENY", next |-> s, events |-> << >>]
      \/ out = [ decision |-> "DENY", next |-> working,
                 events |-> <<"INTENT_RECEIVED", "DECISION">> ]
      \/ out = [decision |-> "DENY", next |-> working, events |-> <<"INTENT_RECEIVED">>]
      \/ out = [ decision |-> "ALLOW", next |-> WithAuth(i, working),
                 events |-> <<"INTENT_RECEIVED", "DECISION", "AUTH_EMITTED">> ]
  BY Zenon DEF Evaluation
<1> HIDE DEF working, out
<1>4. QED BY <1>1, <1>2, <1>3 DEF out

-----------------------------------------------------------------------------
(***************************************************************************)
(* The two engines                                                         *)
(***************************************************************************)

(* What holds of the two at every step: while the second follows the       *)
(* first, and no nonce has given way to another, it holds a state alike.   *)
StandbyInv ==
  /\ primary \in State /\ primary.policy_version = PolicyVersion
  /\ DOMAIN standby = Ids
  /\ follows /\ ~evicted => StateFrom(standby) \in State /\ Alike(primary, StateFrom(standby))
  /\ AlikeUntilEviction

(* It holds in the beginning.                                              *)
LEMMA StandbyInit == Init => StandbyInv
<1> SUFFICES ASSUME Init PROVE StandbyInv
  OBVIOUS
<1>1. PICK killed \in {{}, Agents} :
         primary = [ policy_version  |-> PolicyVersion,
                     kill_switch     |-> [global |-> FALSE, agents |-> killed],
                     nonces          |-> [a \in Agents |-> << >>],
                     max_concurrent  |-> MaxConcurrent,
                     active          |-> [a \in Agents |-> 0],
                     active_auths    |-> [a \in Agents |-> {}],
                     calls           |-> [a \in Agents |-> << >>],
                     spent_in_period |-> [a \in Agents |-> 0],
                     counters        |-> [a \in Agents |-> Undefined] ]
  BY DEF Init
<1>2. primary \in State
  BY <1>1, StandbyAssumption, PipelineAssumption DEF State
<1>3. primary.policy_version = PolicyVersion
  BY <1>1
<1>4. DOMAIN standby = Ids
  BY SliceEach DEF Init
<1>5. ~follows /\ last = "nothing"
  BY DEF Init
<1>6. QED BY <1>2, <1>3, <1>4, <1>5 DEF StandbyInv, AlikeUntilEviction

(* An import keeps it: after one that was refused all is as it was, after  *)
(* one that went through the hash tells whether the states are alike.      *)
LEMMA StandbyImports ==
  ASSUME StandbyInv, Import
  PROVE  StandbyInv'
<1> DEFINE exported == Codecs!ExportState(SlicesOf(primary), PolicyId)
           hash == Codecs!StateHashOf(exported)
           import(snapshot) == Codecs!ImportState(standby, standby, snapshot, PolicyId)
<1>1. PICK snapshot \in Arriving(exported) :
         /\ standby' = import(snapshot).current
         /\ IF import(snapshot).ok
            THEN /\ follows' = (Hash(import(snapshot).target) = hash)
                 /\ evicted' = FALSE
                 /\ last' = "imported"
            ELSE /\ last' = "refused"
                 /\ UNCHANGED <<follows, evicted>>
  BY DEF Import
<1>2. snapshot \in Damaged(exported)
  BY <1>1, Zenon DEF Arriving, Damaged
<1>3. /\ primary' = primary /\ primary \in State /\ primary.policy_version = PolicyVersion
      /\ DOMAIN standby = Ids
  BY DEF Import, StandbyInv
<1>4. hash = Hash(SlicesOf(primary))
  BY DEF Hash, Codecs!ComputeStateHash
<1>5. CASE import(snapshot).ok
  <2>1. import(snapshot).current = import(snapshot).target /\ DOMAIN import(snapshot).target = Ids
    BY <1>2, <1>3, <1>5, TakenOver
  <2>2. Hash(import(snapshot).target) = Hash(SlicesOf(primary)) =>
          LET target == import(snapshot).target
          IN  StateFrom(target) \in State /\ Alike(primary, StateFrom(target))
    BY <1>2, <1>3, <1>5, FollowersAreAlike
  <2> HIDE DEF import, hash, exported
  <2>3. /\ standby' = import(snapshot).target /\ last' = "imported"
        /\ follows' => Hash(import(snapshot).target) = Hash(SlicesOf(primary))
    BY <1>1, <1>4, <1>5, <2>1
  <2>4. follows' => StateFrom(standby') \in State /\ Alike(primary', StateFrom(standby'))
    BY <1>3, <2>2, <2>3
  <2>5. DOMAIN standby' = Ids
    BY <2>1, <2>3
  <2>6. QED BY <1>3, <2>3, <2>4, <2>5 DEF StandbyInv, AlikeUntilEviction
<1>6. CASE ~import(snapshot).ok
  <2>1. import(snapshot).current = standby
    BY <1>6 DEF Codecs!ImportState
  <2> HIDE DEF import, hash, exported
  <2>2. standby' = standby /\ follows' = follows /\ evicted' = evicted /\ last' = "refused"
    BY <1>1, <1>6, <2>1
  <2>3. QED BY <1>3, <2>2 DEF StandbyInv, AlikeUntilEviction
<1>7. QED BY <1>5, <1>6

(* An intent keeps it: from states alike both engines go to states alike.  *)
LEMMA StandbyEvaluates ==
  ASSUME StandbyInv, Evaluate
  PROVE  StandbyInv'
<1>1. PICK i \in ExecuteIntents(Timestamps) :
         /\ primary' = Evaluation(i, primary, "fail-fast").next
         /\ \/ /\ follows
               /\ LET first  == Evaluation(i, primary, "fail-fast")
                      other  == StateFrom(standby)
                      second == Evaluation(i, other, "fail-fast")
                  IN  /\ standby' = SlicesOf(second.next)
                      /\ follows' = (first.decision = second.decision)
                      /\ last' = IF ~follows' THEN "differed"
                                 ELSE IF /\ Denials(i, primary) = Denials(i, other)
                                         /\ Hash(SlicesOf(first.next)) = Hash(standby')
                                      THEN "agreed" ELSE "diverged"
               /\ evicted' = (evicted \/ Evicts(i, primary))
            \/ /\ ~follows /\ last' = "decided"
               /\ UNCHANGED <<standby, follows, evicted>>
  BY DEF Evaluate
<1> DEFINE first  == Evaluation(i, primary, "fail-fast")
           other  == StateFrom(standby)
           second == Evaluation(i, other, "fail-fast")
<1>2. primary \in State /\ primary.policy_version = PolicyVersion
  BY DEF StandbyInv
<1>3. i.agent_id \in Agents => Readable(i)
  BY StandbyAssumption DEF ExecuteIntents, Readable
<1>4. first.next \in State /\ first.next.policy_version = PolicyVersion
  BY <1>2, <1>3, EvaluationState, VersionStays
<1>5. primary' = first.next
  BY <1>1
<1>6. ASSUME follows,
             standby' = SlicesOf(second.next),
             follows' = (first.decision = second.decision),
             last' = IF ~follows' THEN "differed"
                     ELSE IF /\ Denials(i, primary) = Denials(i, other)
                             /\ Hash(SlicesOf(first.next)) = Hash(standby')
                          THEN "agreed" ELSE "diverged",
             evicted' = (evicted \/ Evicts(i, primary))
      PROVE  StandbyInv'
  <2>1. DOMAIN standby' = Ids
    BY <1>6, SliceEach
  <2>2. ASSUME ~evicted'
        PROVE  /\ StateFrom(standby') \in State
               /\ Alike(primary', StateFrom(standby'))
               /\ last' = "agreed"
    <3>1. ~evicted /\ ~Evicts(i, primary)
      BY <1>6, <2>2
    <3>2. other \in State /\ Alike(primary, other)
      BY <1>6, <3>1 DEF StandbyInv
    <3>3. /\ second.decision = first.decision
          /\ Denials(i, other) = Denials(i, primary)
          /\ Alike(first.next, second.next)
      <4> HIDE DEF other
      <4>1. Fits(i, primary, "fail-fast")
        <5>1. ASSUME EarlyReasons(i, primary) = {},
                     "Replay" \in Merged(i, Denying(i, primary), "fail-fast")
              PROVE  Len(NoncesWith(i, primary)) <= MaxNonces
          <6>1. Readable(i)
            BY <1>3, <5>1 DEF EarlyReasons
          <6>2. NoncesWith(i, primary) \in Seq(NonceEntry)
            BY <1>2, <6>1, ReplayTypes
          <6>3. Len(NoncesWith(i, primary)) \in Nat /\ MaxNonces \in Nat
            BY <6>2, LimitsAssumption
          <6>4. QED BY <3>1, <5>1, <6>3 DEF Evicts
        <5>2. QED BY <5>1 DEF Fits
      <4>2. QED BY <1>2, <1>3, <3>2, <4>1, AlikeEvaluations DEF Denials
    <3>4. second.next \in State
      BY <1>3, <3>2, EvaluationState
    <3> HIDE DEF first, second, other
    <3>5. second.next.policy_version = PolicyVersion
      BY <1>4, <3>3 DEF Alike
    <3>6. StateFrom(standby') = second.next
      BY <1>6, <3>4, <3>5, StateOfSlices
    <3>7. Hash(SlicesOf(first.next)) = Hash(SlicesOf(second.next))
      BY <1>4, <3>3, <3>4, AlikeHash
    <3>8. last' = "agreed"
      BY <1>6, <3>3, <3>7
    <3>9. QED BY <1>5, <3>3, <3>4, <3>6, <3>8
  <2> HIDE DEF first, second, other
  <2>3. QED BY <1>4, <1>5, <2>1, <2>2 DEF StandbyInv, AlikeUntilEviction
<1>7. ASSUME ~follows, last' = "decided", UNCHANGED <<standby, follows, evicted>>
      PROVE  StandbyInv'
  <2> HIDE DEF first, second, other
  <2>1. QED BY <1>4, <1>5, <1>7 DEF StandbyInv, AlikeUntilEviction
<1>8. QED BY <1>1, <1>6, <1>7

(* Hence every step does.                                                  *)
LEMMA StandbyStep == StandbyInv /\ [Next]_vars => StandbyInv'
<1>1. ASSUME StandbyInv, UNCHANGED vars
      PROVE  StandbyInv'
  BY <1>1 DEF vars, StandbyInv, AlikeUntilEviction
<1>2. QED BY <1>1, StandbyImports, StandbyEvaluates DEF Next

(* Hence it always holds.                                                  *)
LEMMA StandbyInvariant == Spec => []StandbyInv
<1>1. QED BY StandbyInit, StandbyStep, PTL DEF Spec

(* An engine that imports the state of another and then has its hash       *)
(* decides alike, gives the same reasons and comes to the same hashes,     *)
(* until a nonce has to give way to another (PolicyEngine.importState,     *)
(* evaluatePure, ReplayModule's cap).                                      *)
THEOREM Alikeness == Spec => []AlikeUntilEviction
<1>1. StandbyInv => AlikeUntilEviction
  BY DEF StandbyInv
<1>2. QED BY <1>1, StandbyInvariant, PTL

(* What verifySnapshot reports tells an import that is whole from one that *)
(* lacks a module or a field.                                              *)
THEOREM TellingHashes == Spec => []HashesTell
<1>1. ASSUME StandbyInv
      PROVE  HashesTell
  <2> DEFINE exported == Codecs!ExportState(SlicesOf(primary), PolicyId)
             verified(snapshot) == Codecs!VerifySnapshot(snapshot, PolicyId)
             import(snapshot) == Codecs!ImportState(standby, standby, snapshot, PolicyId)
  <2>1. ASSUME NEW snapshot \in Damaged(exported),
               verified(snapshot).violations = {}, import(snapshot).ok
        PROVE  Hash(import(snapshot).current) = verified(snapshot).stateHash
                 <=> snapshot = exported
    <3>1. verified(snapshot).stateHash = Codecs!StateHashOf(snapshot)
      BY <2>1 DEF Codecs!VerifySnapshot
    <3>2. Hash(import(snapshot).current) = Codecs!StateHashOf(snapshot) <=> snapshot = exported
      BY <1>1, <2>1, TheHashTells DEF StandbyInv
    <3>3. QED BY <3>1, <3>2
  <2>2. QED BY <2>1 DEF HashesTell
<1>2. QED BY <1>1, StandbyInvariant, PTL

(* An import that throws leaves the engine with the state it had, whatever *)
(* it has written into the copy by then (PolicyEngine.importState).        *)
THEOREM RefusedImports == Spec => EngineKeepsItsState
<1>1. ASSUME [Next]_vars
      PROVE  [last' = "refused" => standby' = standby]_vars
  <2>1. CASE Import
    <3>1. \E snapshot \in Arriving(Codecs!ExportState(SlicesOf(primary), PolicyId)) :
            LET import == Codecs!ImportState(standby, standby, snapshot, PolicyId)
            IN  /\ standby' = import.current
                /\ last' = "refused" => ~import.ok
      BY <2>1 DEF Import
    <3>2. \A snapshot :
            LET import == Codecs!ImportState(standby, standby, snapshot, PolicyId)
            IN  ~import.ok => import.current = standby
      BY DEF Codecs!ImportState
    <3>3. QED BY <3>1, <3>2
  <2>2. CASE Evaluate
    <3>1. last' # "refused"
      BY <2>2 DEF Evaluate
    <3>2. QED BY <3>1
  <2>3. CASE UNCHANGED vars
    BY <2>3
  <2>4. QED BY <1>1, <2>1, <2>2, <2>3 DEF Next
<1>2. QED BY <1>1, PTL DEF Spec, EngineKeepsItsState

-----------------------------------------------------------------------------
(***************************************************************************)
(* Hashes and decisions, of any two states                                 *)
(***************************************************************************)

(* The hash of a state tells exactly what it holds, but for the order of   *)
(* its lists (PolicyEngine.computeStateHash).                              *)
THEOREM HashShowsState ==
  ASSUME NEW s \in State, NEW t \in State, s.policy_version = t.policy_version
  PROVE  Hash(SlicesOf(s)) = Hash(SlicesOf(t)) <=> Alike(s, t)
<1>1. ASSUME Hash(SlicesOf(s)) = Hash(SlicesOf(t))
      PROVE  Alike(s, t)
  <2>1. \A id \in Ids : Whole(s, id) = Whole(t, id)
    BY <1>1, SliceEach, HashShowsNormal DEF Whole
  <2>2. /\ KillSwitchSlice(s.kill_switch) = KillSwitchSlice(t.kill_switch)
        /\ ConcurrencySlice(s.max_concurrent, s.active, s.active_auths)
             = ConcurrencySlice(t.max_concurrent, t.active, t.active_auths)
        /\ s.spent_in_period = t.spent_in_period
        /\ [a \in Agents |-> Codecs!NoncesSorted(s.nonces[a])]
             = [a \in Agents |-> Codecs!NoncesSorted(t.nonces[a])]
        /\ [a \in Agents |-> Codecs!CallsSorted(s.calls[a])]
             = [a \in Agents |-> Codecs!CallsSorted(t.calls[a])]
        /\ Codecs!Defined(s.counters) = Codecs!Defined(t.counters)
    BY <2>1, WholeShows DEF Ids
  <2>3. s.kill_switch = t.kill_switch
    <3>1. /\ s.kill_switch = [global |-> s.kill_switch.global, agents |-> s.kill_switch.agents]
          /\ t.kill_switch = [global |-> t.kill_switch.global, agents |-> t.kill_switch.agents]
      BY DEF State
    <3>2. /\ s.kill_switch.global = t.kill_switch.global
          /\ [a \in s.kill_switch.agents |-> TRUE] = [a \in t.kill_switch.agents |-> TRUE]
      BY <2>2 DEF KillSwitchSlice
    <3>3. s.kill_switch.agents = t.kill_switch.agents
      <4>1. /\ DOMAIN [a \in s.kill_switch.agents |-> TRUE] = s.kill_switch.agents
            /\ DOMAIN [a \in t.kill_switch.agents |-> TRUE] = t.kill_switch.agents
        OBVIOUS
      <4>2. QED BY <3>2, <4>1, Zenon
    <3>4. QED BY <3>1, <3>2, <3>3
  <2>4. /\ s.max_concurrent = t.max_concurrent /\ s.active = t.active
        /\ s.active_auths = t.active_auths
    BY <2>2 DEF ConcurrencySlice
  <2>5. s.counters = t.counters
    <3>1. /\ s.counters = [a \in Agents |-> s.counters[a]]
          /\ t.counters = [a \in Agents |-> t.counters[a]]
      BY DEF State
    <3>2. ASSUME NEW x, x = [a \in Agents |-> x[a]]
          PROVE  \A a \in Agents :
                   x[a] = IF a \in DOMAIN Codecs!Defined(x) THEN Codecs!Defined(x)[a]
                          ELSE Undefined
      BY <3>2 DEF Codecs!Defined
    <3>3. \A a \in Agents : s.counters[a] = t.counters[a]
      BY <2>2, <3>1, <3>2
    <3>4. QED BY <3>1, <3>3
  <2>6. ASSUME NEW a \in Agents
        PROVE  SameElements(s.nonces[a], t.nonces[a]) /\ SameElements(s.calls[a], t.calls[a])
    <3>1. /\ s.nonces[a] \in Seq(NonceEntry) /\ t.nonces[a] \in Seq(NonceEntry)
          /\ s.calls[a] \in Seq(CallEntry) /\ t.calls[a] \in Seq(CallEntry)
      BY DEF State
    <3>2. /\ [b \in Agents |-> Codecs!NoncesSorted(s.nonces[b])][a]
               = Codecs!NoncesSorted(s.nonces[a])
          /\ [b \in Agents |-> Codecs!NoncesSorted(t.nonces[b])][a]
               = Codecs!NoncesSorted(t.nonces[a])
          /\ [b \in Agents |-> Codecs!CallsSorted(s.calls[b])][a]
               = Codecs!CallsSorted(s.calls[a])
          /\ [b \in Agents |-> Codecs!CallsSorted(t.calls[b])][a]
               = Codecs!CallsSorted(t.calls[a])
      OBVIOUS
    <3>3. /\ Codecs!NoncesSorted(s.nonces[a]) = Codecs!NoncesSorted(t.nonces[a])
          /\ Codecs!CallsSorted(s.calls[a]) = Codecs!CallsSorted(t.calls[a])
      BY <2>2, <3>2, Zenon
    <3>4. QED BY <3>1, <3>3, SameNonces, SameCalls
  <2>7. QED BY <2>2, <2>3, <2>4, <2>5, <2>6 DEF Alike
<1>2. QED BY <1>1, AlikeHash

(* docs/invariants.md:12, I3, of any two states: from equal hashes the same *)
(* intent, an EXECUTE or a RELEASE, comes in either mode to the same        *)
(* decision, for the same reasons, to the same audit events and to equal    *)
(* hashes, if its nonce has room (PolicyEngine.evaluatePure).               *)
THEOREM EqualHashesDecideAlike ==
  ASSUME NEW s \in State, NEW t \in State, s.policy_version = t.policy_version,
         Hash(SlicesOf(s)) = Hash(SlicesOf(t)),
         NEW i, i.agent_id \in Agents => Readable(i), NEW mode, Fits(i, s, mode)
  PROVE  LET first  == Evaluation(i, s, mode)
             second == Evaluation(i, t, mode)
         IN  /\ second.decision = first.decision /\ second.events = first.events
             /\ EarlyReasons(i, t) = EarlyReasons(i, s)
             /\ EarlyReasons(i, s) = {} => DenyReasons(i, t, Denying(i, t), mode)
                                             = DenyReasons(i, s, Denying(i, s), mode)
             /\ Hash(SlicesOf(second.next)) = Hash(SlicesOf(first.next))
<1>1. Alike(s, t)
  BY HashShowsState
<1>2. Evaluation(i, s, mode).next \in State /\ Evaluation(i, t, mode).next \in State
  BY EvaluationState
<1>3. QED BY <1>1, <1>2, AlikeEvaluations, AlikeHash
=============================================================================
