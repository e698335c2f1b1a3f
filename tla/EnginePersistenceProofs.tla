----------------------- MODULE EnginePersistenceProofs -----------------------
(***************************************************************************)
(* What the HashChainedLog of AuditVerification.tla is after any history;  *)
(* and what EnginePersistence.tla promises in every behaviour, for any     *)
(* hosts, flushes and bounds: the order and completeness of what the sink  *)
(* holds, what the head of the log commits to, what the two verifiers say  *)
(* of it, what a flush that resolves means, and that the stored state only *)
(* moves forward.                                                          *)
(***************************************************************************)
EXTENDS EnginePersistence, SequenceTheorems, FiniteSetTheorems,
        WellFoundedInduction, TLAPS

(* The entry of the n-th event of a history.                               *)
Entry(history, n) ==
  [ event     |-> history[n],
    prev_hash |-> Genesis \o SubSeq(history, 1, n - 1),
    hash      |-> Genesis \o SubSeq(history, 1, n) ]

(* The log after a history of which d events have been drained.            *)
LogOf(history, d) ==
  [ chain |-> [k \in 1 .. Len(history) - d |-> Entry(history, d + k)],
    head  |-> Genesis \o history ]

(* A function on 1 .. n is a sequence of that length.                      *)
LEMMA TupleIsSeq ==
  ASSUME NEW T, NEW n \in Nat, NEW f \in [1 .. n -> T]
  PROVE  f \in Seq(T) /\ Len(f) = n
<1>1. f \in Seq(T)
  BY SeqDef
<1>2. DOMAIN f = 1 .. n
  OBVIOUS
<1>3. QED BY <1>1, <1>2, LenProperties

(* The log that every engine makes is the log of the empty history.        *)
LEMMA EmptyLog == LogOf(<< >>, 0) = [chain |-> << >>, head |-> Genesis]
<1>1. Len(<< >>) = 0
  OBVIOUS
<1>2. [k \in 1 .. 0 |-> Entry(<< >>, 0 + k)] = << >>
  OBVIOUS
<1>3. Genesis \o << >> = Genesis
  <2>1. Genesis \in Seq({"GENESIS"})
    BY DEF Genesis
  <2>2. QED BY <2>1, ConcatEmptySeq
<1>4. QED BY <1>1, <1>2, <1>3 DEF LogOf

(* A beginning of a history is a beginning of any that goes on from it.    *)
LEMMA PrefixStays ==
  ASSUME NEW S, NEW s \in Seq(S), NEW t \in Seq(S), NEW n \in 0 .. Len(s)
  PROVE  SubSeq(s \o t, 1, n) = SubSeq(s, 1, n)
<1>1. CASE n = 0
  BY <1>1, SubSeqEmpty
<1>2. CASE n # 0
  <2>1. 1 \in 1 .. Len(s) /\ n \in 1 .. Len(s)
    BY <1>2
  <2>2. QED BY <2>1, SubSeqOfConcat1
<1>3. QED BY <1>1, <1>2

(* A history and the beginning of what follows it.                         *)
LEMMA PrefixGrows ==
  ASSUME NEW S, NEW s \in Seq(S), NEW t \in Seq(S), NEW k \in 0 .. Len(t)
  PROVE  s \o SubSeq(t, 1, k) = SubSeq(s \o t, 1, Len(s) + k)
<1>1. s \o t \in Seq(S) /\ Len(s \o t) = Len(s) + Len(t) /\ Len(s) \in Nat /\ Len(t) \in Nat
  BY ConcatProperties, LenProperties
<1>2. CASE k = 0
  <2>1. SubSeq(t, 1, k) = << >>
    BY <1>2, SubSeqEmpty
  <2>2. SubSeq(s \o t, 1, Len(s)) = SubSeq(s, 1, Len(s))
    BY <1>1, PrefixStays
  <2>3. QED BY <1>1, <1>2, <2>1, <2>2, SubSeqFull, ConcatEmptySeq
<1>3. CASE k # 0
  <2>1. k \in 1 .. Len(t)
    BY <1>3
  <2>2. SubSeq(s \o t, 1, Len(s)) = s
    BY <1>1, PrefixStays, SubSeqFull
  <2>3. SubSeq(s \o t, Len(s) + 1, Len(s) + k) = SubSeq(t, 1, k)
    <3>1. Len(s) + 1 \in Len(s) + 1 .. Len(s) + Len(t) /\ Len(s) + k \in Len(s) + 1 .. Len(s) + Len(t)
      BY <1>1, <2>1
    <3>2. SubSeq(s \o t, Len(s) + 1, Len(s) + k) = SubSeq(t, Len(s) + 1 - Len(s), Len(s) + k - Len(s))
      BY <3>1, SubSeqOfConcat2
    <3>3. Len(s) + 1 - Len(s) = 1 /\ Len(s) + k - Len(s) = k
      BY <1>1, <2>1
    <3>4. QED BY <3>2, <3>3
  <2>4. SubSeq(s \o t, 1, Len(s)) \o SubSeq(s \o t, Len(s) + 1, Len(s) + k)
          = SubSeq(s \o t, 1, Len(s) + k)
    <3>1. /\ 1 \in 1 .. Len(s \o t) + 1
          /\ Len(s) \in 1 - 1 .. Len(s \o t)
          /\ Len(s) + k \in Len(s) .. Len(s \o t)
      BY <1>1, <2>1
    <3>2. QED BY <1>1, <3>1, ConcatAdjacentSubSeq
  <2>5. QED BY <2>2, <2>3, <2>4
<1>4. QED BY <1>2, <1>3

(* The head behind a history and the beginning of what follows it.         *)
LEMMA HeadGrows ==
  ASSUME NEW S, NEW s \in Seq(S), NEW t \in Seq(S), NEW k \in 0 .. Len(t)
  PROVE  HeadFrom(Genesis \o s, SubSeq(t, 1, k)) = Genesis \o SubSeq(s \o t, 1, Len(s) + k)
<1> DEFINE U == S \cup {"GENESIS"}
<1>1. s \in Seq(U) /\ t \in Seq(U)
  BY SeqMonotonic
<1>2. Genesis \in Seq(U)
  <2>1. "GENESIS" \in U
    OBVIOUS
  <2>2. QED BY <2>1 DEF Genesis
<1>3. SubSeq(t, 1, k) \in Seq(U)
  <2>1. \A i \in 1 .. k : t[i] \in U
    BY <1>1, ElementOfSeq
  <2>2. QED BY <2>1, SubSeqProperties
<1> HIDE DEF U
<1>4. (Genesis \o s) \o SubSeq(t, 1, k) = Genesis \o (s \o SubSeq(t, 1, k))
  <2>1. \A a, b, c \in Seq(U) : (a \o b) \o c = a \o (b \o c)
    BY ConcatAssociative, SMTT(30)
  <2>2. QED BY <1>1, <1>2, <1>3, <2>1
<1>5. QED BY <1>4, PrefixGrows DEF HeadFrom

(* The entries of a history stay when it goes on.                          *)
LEMMA EntryStays ==
  ASSUME NEW S, NEW s \in Seq(S), NEW t \in Seq(S), NEW n \in 1 .. Len(s)
  PROVE  Entry(s \o t, n) = Entry(s, n)
<1>1. (s \o t)[n] = s[n]
  BY ConcatProperties
<1>2. n - 1 \in 0 .. Len(s) /\ n \in 0 .. Len(s)
  OBVIOUS
<1>3. SubSeq(s \o t, 1, n - 1) = SubSeq(s, 1, n - 1) /\ SubSeq(s \o t, 1, n) = SubSeq(s, 1, n)
  BY <1>2, PrefixStays
<1>4. QED BY <1>1, <1>3 DEF Entry

(* What is left of the history has its length.                             *)
LEMMA LogLength ==
  ASSUME NEW S, NEW s \in Seq(S), NEW d \in 0 .. Len(s)
  PROVE  Len(LogOf(s, d).chain) = Len(s) - d
<1> DEFINE n     == Len(s) - d
           chain == [k \in 1 .. n |-> Entry(s, d + k)]
<1>1. n \in Nat
  BY LenProperties
<1>2. LogOf(s, d).chain = chain
  BY DEF LogOf
<1>3. chain \in [1 .. n -> {chain[k] : k \in 1 .. n}]
  OBVIOUS
<1>4. \A T, f : f \in [1 .. n -> T] => Len(f) = n
  BY <1>1, TupleIsSeq
<1> HIDE DEF chain
<1>5. QED BY <1>2, <1>3, <1>4

(* append: the log after a history that goes on.                           *)
LEMMA AppendAllGoesOn ==
  ASSUME NEW S, NEW s \in Seq(S), NEW t \in Seq(S), NEW d \in 0 .. Len(s)
  PROVE  AppendAll(LogOf(s, d), t) = LogOf(s \o t, d)
<1> DEFINE HeadAt(k) == HeadFrom(Genesis \o s, SubSeq(t, 1, k))
           added     == [k \in 1 .. Len(t) |-> [ event |-> t[k], prev_hash |-> HeadAt(k - 1),
                                                hash |-> HeadAt(k) ]]
           before    == [k \in 1 .. Len(s) - d |-> Entry(s, d + k)]
           after     == [k \in 1 .. Len(s \o t) - d |-> Entry(s \o t, d + k)]
           Entries   == {Entry(s \o t, n) : n \in 1 .. Len(s \o t)}
<1>1. /\ s \o t \in Seq(S)
      /\ Len(s) \in Nat /\ Len(t) \in Nat
      /\ Len(s \o t) = Len(s) + Len(t)
      /\ DOMAIN t = 1 .. Len(t)
      /\ d \in Nat /\ Len(s) - d \in Nat
  BY ConcatProperties, LenProperties
<1>2. \A k \in 1 .. Len(t) : added[k] = Entry(s \o t, Len(s) + k)
  <2> SUFFICES ASSUME NEW k \in 1 .. Len(t)
               PROVE  added[k] = Entry(s \o t, Len(s) + k)
    OBVIOUS
  <2>1. (s \o t)[Len(s) + k] = t[k]
    <3>1. Len(s) + k \in 1 .. Len(s) + Len(t) /\ ~(Len(s) + k <= Len(s)) /\ Len(s) + k - Len(s) = k
      BY <1>1
    <3>2. QED BY <3>1, ConcatProperties
  <2>2. k - 1 \in 0 .. Len(t) /\ k \in 0 .. Len(t)
    BY <1>1
  <2> DEFINE n == Len(s) + k
  <2>3. Len(s) + (k - 1) = n - 1
    BY <1>1
  <2>4. /\ HeadAt(k - 1) = Genesis \o SubSeq(s \o t, 1, n - 1)
        /\ HeadAt(k) = Genesis \o SubSeq(s \o t, 1, n)
    BY <2>2, <2>3, HeadGrows
  <2> HIDE DEF HeadAt
  <2>5. added[k] = [event |-> t[k], prev_hash |-> HeadAt(k - 1), hash |-> HeadAt(k)]
    OBVIOUS
  <2>6. (s \o t)[n] = t[k]
    BY <2>1
  <2> HIDE DEF added, n
  <2>7. Entry(s \o t, n) = [ event |-> t[k], prev_hash |-> HeadAt(k - 1), hash |-> HeadAt(k) ]
    BY <2>4, <2>6 DEF Entry
  <2>8. added[k] = Entry(s \o t, n)
    BY <2>5, <2>7
  <2>9. QED BY <2>8 DEF n
<1>3. \A k \in 1 .. Len(s) - d : before[k] = Entry(s \o t, d + k)
  <2> SUFFICES ASSUME NEW k \in 1 .. Len(s) - d
               PROVE  Entry(s, d + k) = Entry(s \o t, d + k)
    OBVIOUS
  <2>1. d + k \in 1 .. Len(s)
    BY <1>1
  <2>2. QED BY <2>1, EntryStays
<1>4. HeadAt(Len(t)) = Genesis \o (s \o t)
  <2>1. Len(t) \in 0 .. Len(t)
    BY <1>1
  <2>2. HeadAt(Len(t)) = Genesis \o SubSeq(s \o t, 1, Len(s) + Len(t))
    BY <2>1, HeadGrows
  <2>3. QED BY <1>1, <2>2, SubSeqFull
<1>5. DOMAIN added = 1 .. Len(t) /\ DOMAIN before = 1 .. Len(s) - d
      /\ DOMAIN after = 1 .. Len(s) + Len(t) - d
      /\ \A k \in 1 .. Len(s) + Len(t) - d : after[k] = Entry(s \o t, d + k)
  BY <1>1
<1>6. AppendAll(LogOf(s, d), t) = [chain |-> before \o added, head |-> HeadAt(Len(t))]
  BY <1>1 DEF AppendAll, LogOf
<1>7. LogOf(s \o t, d) = [chain |-> after, head |-> Genesis \o (s \o t)]
  BY DEF LogOf
<1>8. /\ \A k \in 1 .. Len(t) : added[k] \in Entries
      /\ \A k \in 1 .. Len(s) - d : before[k] \in Entries
      /\ \A k \in 1 .. Len(s) + Len(t) - d : after[k] \in Entries
  <2>1. \A n \in 1 .. Len(s) + Len(t) : Entry(s \o t, n) \in Entries
    BY <1>1
  <2>2. /\ \A k \in 1 .. Len(t) : Len(s) + k \in 1 .. Len(s) + Len(t)
        /\ \A k \in 1 .. Len(s) - d : d + k \in 1 .. Len(s) + Len(t)
        /\ \A k \in 1 .. Len(s) + Len(t) - d : d + k \in 1 .. Len(s) + Len(t)
    BY <1>1
  <2> HIDE DEF Entries, added, before, after
  <2>3. QED BY <1>2, <1>3, <1>5, <2>1, <2>2
<1>9. /\ added \in [1 .. Len(t) -> Entries]
      /\ before \in [1 .. Len(s) - d -> Entries]
      /\ after \in [1 .. Len(s) + Len(t) - d -> Entries]
  BY <1>1, <1>8
<1> HIDE DEF added, before, after, Entries, HeadAt
<1>10. /\ added \in Seq(Entries) /\ Len(added) = Len(t)
      /\ before \in Seq(Entries) /\ Len(before) = Len(s) - d
      /\ after \in Seq(Entries) /\ Len(after) = Len(s) + Len(t) - d
  <2>1. added \in Seq(Entries) /\ Len(added) = Len(t)
    BY <1>1, <1>9, TupleIsSeq
  <2>2. before \in Seq(Entries) /\ Len(before) = Len(s) - d
    BY <1>1, <1>9, TupleIsSeq
  <2>3. after \in Seq(Entries) /\ Len(after) = Len(s) + Len(t) - d
    <3>1. Len(s) + Len(t) - d \in Nat
      BY <1>1
    <3>2. \A n \in Nat : after \in [1 .. n -> Entries] => after \in Seq(Entries) /\ Len(after) = n
      BY TupleIsSeq
    <3>3. QED BY <3>1, <3>2, <1>9
  <2>4. QED BY <2>1, <2>2, <2>3
<1>11. before \o added = after
  <2>1. /\ before \o added \in Seq(Entries)
        /\ Len(before \o added) = Len(s) + Len(t) - d
    BY <1>1, <1>10, ConcatProperties
  <2>2. ASSUME NEW k \in 1 .. Len(s) + Len(t) - d
        PROVE  (before \o added)[k] = after[k]
    <3>1. (before \o added)[k] = IF k <= Len(s) - d THEN before[k] ELSE added[k - (Len(s) - d)]
      BY <1>1, <1>10, ConcatProperties
    <3>2. CASE k <= Len(s) - d
      BY <3>1, <3>2, <1>1, <1>3, <1>5
    <3>3. CASE ~(k <= Len(s) - d)
      <4>1. k - (Len(s) - d) \in 1 .. Len(t) /\ Len(s) + (k - (Len(s) - d)) = d + k
        BY <3>3, <1>1
      <4>2. QED BY <3>1, <3>3, <4>1, <1>2, <1>5
    <3>4. QED BY <3>2, <3>3
  <2>3. QED BY <1>10, <2>1, <2>2, SeqEqual
<1>12. QED BY <1>4, <1>6, <1>7, <1>11

(* drain: the log after the same history, all of it drained.               *)
LEMMA DrainDrainsAll ==
  ASSUME NEW S, NEW s \in Seq(S), NEW d \in 0 .. Len(s)
  PROVE  Drain(LogOf(s, d)) = LogOf(s, Len(s))
<1>1. Len(s) - Len(s) = 0
  BY LenProperties
<1>2. [k \in 1 .. 0 |-> Entry(s, Len(s) + k)] = << >>
  OBVIOUS
<1>3. Drain(LogOf(s, d)) = [chain |-> << >>, head |-> Genesis \o s]
  <2> DEFINE chain == [k \in 1 .. Len(s) - d |-> Entry(s, d + k)]
  <2>1. LogOf(s, d) = [chain |-> chain, head |-> Genesis \o s]
    BY DEF LogOf
  <2> HIDE DEF chain
  <2>2. \A c, h : Drain([chain |-> c, head |-> h]) = [chain |-> << >>, head |-> h]
    BY DEF Drain
  <2>3. QED BY <2>1, <2>2
<1>4. LogOf(s, Len(s)) = [chain |-> << >>, head |-> Genesis \o s]
  BY <1>1, <1>2 DEF LogOf
<1>5. QED BY <1>3, <1>4

(* snapshot: what is left of the history.                                  *)
LEMMA SnapshotIsTheRest ==
  ASSUME NEW S, NEW s \in Seq(S), NEW d \in 0 .. Len(s)
  PROVE  Snapshot(LogOf(s, d)) = SubSeq(s, d + 1, Len(s))
<1> DEFINE n    == Len(s) - d
           rest == SubSeq(s, d + 1, Len(s))
           left == Snapshot(LogOf(s, d))
<1>1. Len(s) \in Nat /\ d \in Nat /\ n \in Nat
  BY LenProperties
<1>2. LogOf(s, d).chain = [k \in 1 .. n |-> Entry(s, d + k)]
  BY DEF LogOf
<1>3. left = [k \in 1 .. n |-> s[d + k]]
  <2>1. DOMAIN LogOf(s, d).chain = 1 .. n
    BY <1>2
  <2>2. \A k \in 1 .. n : LogOf(s, d).chain[k].event = s[d + k]
    BY <1>2 DEF Entry
  <2>3. QED BY <2>1, <2>2 DEF Snapshot
<1>4. \A k \in 1 .. n : s[d + k] \in S
  <2>1. \A k \in 1 .. n : d + k \in 1 .. Len(s)
    BY <1>1
  <2>2. QED BY <2>1, ElementOfSeq
<1>5. left \in Seq(S) /\ Len(left) = n /\ \A k \in 1 .. n : left[k] = s[d + k]
  <2>1. left \in [1 .. n -> S]
    BY <1>3, <1>4
  <2>2. \A f : f \in [1 .. n -> S] => f \in Seq(S) /\ Len(f) = n
    BY <1>1, TupleIsSeq
  <2>3. QED BY <1>3, <2>1, <2>2
<1>6. rest \in Seq(S) /\ Len(rest) = n /\ \A k \in 1 .. n : rest[k] = s[d + k]
  <2>1. \A i \in d + 1 .. Len(s) : s[i] \in S
    BY <1>1, ElementOfSeq
  <2>2. /\ rest \in Seq(S)
        /\ Len(rest) = IF d + 1 <= Len(s) THEN Len(s) - (d + 1) + 1 ELSE 0
        /\ \A i \in 1 .. Len(s) - (d + 1) + 1 : rest[i] = s[d + 1 + i - 1]
    BY <1>1, <2>1, SubSeqProperties
  <2>3. \A i \in 1 .. n : i \in 1 .. Len(s) - (d + 1) + 1 /\ d + 1 + i - 1 = d + i
    BY <1>1
  <2>4. (IF d + 1 <= Len(s) THEN Len(s) - (d + 1) + 1 ELSE 0) = n
    BY <1>1
  <2>5. QED BY <2>2, <2>3, <2>4
<1> HIDE DEF left, rest, n
<1>7. left = rest
  BY <1>5, <1>6, SeqEqual
<1>8. QED BY <1>7 DEF left, rest

(* verify: every link holds, and the first one is GENESIS only if nothing  *)
(* has been drained.                                                       *)
LEMMA VerifyWantsAll ==
  ASSUME NEW S, NEW s \in Seq(S), NEW d \in 0 .. Len(s)
  PROVE  VerifyLog(LogOf(s, d)) <=> d = 0
<1> DEFINE U     == S \cup {"GENESIS"}
           n     == Len(s) - d
           chain == [k \in 1 .. n |-> Entry(s, d + k)]
           At(j) == Genesis \o SubSeq(s, 1, j)
<1>1. Len(s) \in Nat /\ d \in Nat /\ n \in Nat
  BY LenProperties
<1>2. /\ LogOf(s, d).chain = chain
      /\ LogOf(s, d).head = Genesis \o s
      /\ DOMAIN chain = 1 .. n
      /\ \A k \in 1 .. n : chain[k] = Entry(s, d + k)
  BY DEF LogOf
<1>3. \A k \in 1 .. n : /\ chain[k].event = s[d + k]
                        /\ chain[k].prev_hash = At(d + k - 1)
                        /\ chain[k].hash = At(d + k)
  BY <1>2 DEF Entry
<1>4. Len(chain) = n
  BY <1>2, LogLength
<1>5. /\ s \in Seq(U) /\ Genesis \in Seq(U) /\ Len(Genesis) = 1
      /\ \A j \in 0 .. Len(s) : SubSeq(s, 1, j) \in Seq(U) /\ Len(SubSeq(s, 1, j)) = j
  <2>1. s \in Seq(U)
    BY SeqMonotonic
  <2>2. "GENESIS" \in U
    OBVIOUS
  <2>3. Genesis \in Seq(U) /\ Len(Genesis) = 1
    BY <2>2 DEF Genesis
  <2>4. ASSUME NEW j \in 0 .. Len(s)
        PROVE  SubSeq(s, 1, j) \in Seq(U) /\ Len(SubSeq(s, 1, j)) = j
    <3>1. \A i \in 1 .. j : s[i] \in U
      BY <2>1, ElementOfSeq
    <3>2. QED BY <3>1, SubSeqProperties
  <2>5. QED BY <2>1, <2>3, <2>4
<1> HIDE DEF U
<1>6. \A j \in 0 .. Len(s) : Len(At(j)) = j + 1
  <2>1. \A a, b \in Seq(U) : Len(a \o b) = Len(a) + Len(b)
    BY ConcatProperties
  <2>2. ASSUME NEW j \in 0 .. Len(s)
        PROVE  Len(Genesis \o SubSeq(s, 1, j)) = j + 1
    <3>1. SubSeq(s, 1, j) \in Seq(U) /\ Len(SubSeq(s, 1, j)) = j
      BY <1>5
    <3>2. Len(Genesis \o SubSeq(s, 1, j)) = Len(Genesis) + Len(SubSeq(s, 1, j))
      BY <1>5, <2>1, <3>1
    <3>3. QED BY <1>1, <1>5, <3>1, <3>2
  <2>3. QED BY <2>2
<1>7. At(0) = Genesis /\ At(Len(s)) = Genesis \o s
  <2>1. SubSeq(s, 1, 0) = << >> /\ SubSeq(s, 1, Len(s)) = s
    BY SubSeqEmpty, SubSeqFull
  <2>2. QED BY <1>5, <2>1, ConcatEmptySeq
<1>8. \A j \in 1 .. Len(s) : At(j) = HeadFrom(At(j - 1), <<s[j]>>)
  <2> SUFFICES ASSUME NEW j \in 1 .. Len(s)
               PROVE  Genesis \o SubSeq(s, 1, j) = (Genesis \o SubSeq(s, 1, j - 1)) \o <<s[j]>>
    BY DEF HeadFrom
  <2>1. SubSeq(s, 1, j) = SubSeq(s, 1, j - 1) \o <<s[j]>>
    <3>1. 1 \in 1 .. Len(s) /\ j \in 1 .. Len(s)
      BY <1>1
    <3>2. QED BY <3>1, SubSeqRecursiveSecond
  <2>2. \A a, b, c \in Seq(U) : (a \o b) \o c = a \o (b \o c)
    BY ConcatAssociative
  <2>3. SubSeq(s, 1, j - 1) \in Seq(U)
    BY <1>1, <1>5
  <2>4. <<s[j]>> \in Seq(U)
    <3>1. s[j] \in U
      BY <1>5, ElementOfSeq
    <3>2. QED BY <3>1
  <2>5. QED BY <1>5, <2>1, <2>2, <2>3, <2>4
<1> DEFINE Prev(k) == IF k = 1 THEN Genesis ELSE chain[k - 1].hash
<1>9. VerifyLog(LogOf(s, d)) <=>
        /\ \A k \in 1 .. n : /\ chain[k].prev_hash = Prev(k)
                             /\ chain[k].hash = HeadFrom(chain[k].prev_hash, <<chain[k].event>>)
        /\ Genesis \o s = Prev(n + 1)
  <2> HIDE DEF chain
  <2>1. QED BY <1>2, <1>4 DEF VerifyLog
<1>10. \A k \in 2 .. n + 1 : Prev(k) = At(d + k - 1)
  <2> SUFFICES ASSUME NEW k \in 2 .. n + 1
               PROVE  chain[k - 1].hash = At(d + k - 1)
    BY <1>1
  <2>1. k - 1 \in 1 .. n /\ d + (k - 1) = d + k - 1
    BY <1>1
  <2> HIDE DEF chain
  <2>2. chain[k - 1].hash = At(d + (k - 1))
    BY <1>3, <2>1
  <2>3. QED BY <2>1, <2>2
<1> HIDE DEF chain, At
<1>11. \A k \in 1 .. n : chain[k].hash = HeadFrom(chain[k].prev_hash, <<chain[k].event>>)
  <2> SUFFICES ASSUME NEW k \in 1 .. n
               PROVE  At(d + k) = HeadFrom(At(d + k - 1), <<s[d + k]>>)
    BY <1>3
  <2>1. d + k \in 1 .. Len(s)
    BY <1>1
  <2>2. QED BY <1>8, <2>1
<1>12. CASE d = 0
  <2>1. \A k \in 1 .. n + 1 : Prev(k) = At(k - 1)
    BY <1>1, <1>7, <1>10, <1>12
  <2>2. n + 1 \in 1 .. n + 1 /\ n + 1 - 1 = Len(s)
    BY <1>1, <1>12
  <2>3. Prev(n + 1) = At(Len(s))
    BY <2>1, <2>2
  <2>4. \A k \in 1 .. n : chain[k].prev_hash = Prev(k)
    BY <1>1, <1>3, <1>12, <2>1
  <2> HIDE DEF Prev
  <2>5. QED BY <1>7, <1>9, <1>11, <1>12, <2>3, <2>4
<1>13. CASE d # 0
  <2>1. CASE n = 0
    <3>1. Prev(n + 1) = Genesis /\ Genesis \o s = At(Len(s))
      BY <2>1, <1>7
    <3>2. Len(At(Len(s))) = Len(s) + 1 /\ Len(s) # 0
      BY <1>1, <1>6, <1>13
    <3>3. Prev(n + 1) # Genesis \o s
      BY <1>1, <1>5, <3>1, <3>2
    <3> HIDE DEF Prev
    <3>4. QED BY <1>9, <1>13, <3>3
  <2>2. CASE n # 0
    <3>1. 1 \in 1 .. n /\ d + 1 - 1 = d /\ d \in 0 .. Len(s)
      BY <1>1, <2>2
    <3>2. chain[1].prev_hash = At(d) /\ Prev(1) = Genesis
      BY <1>3, <3>1
    <3>3. chain[1].prev_hash # Prev(1)
      <4>1. Len(At(d)) = d + 1
        BY <1>6, <3>1
      <4>2. Len(At(d)) # Len(Genesis)
        BY <1>1, <1>5, <1>13, <4>1
      <4> HIDE DEF Prev
      <4>3. QED BY <3>2, <4>2
    <3> HIDE DEF Prev
    <3>4. QED BY <1>9, <1>13, <3>1, <3>3
  <2>3. QED BY <2>1, <2>2
<1>14. QED BY <1>12, <1>13

-----------------------------------------------------------------------------

(***************************************************************************)
(* The audit log                                                           *)
(***************************************************************************)

Kinds == {"INVALID", "ERROR", "OVER_LIMIT", "DENY", "ALLOW"}

(* What an engine may emit.                                                *)
Receipts ==
  [ type : {"INTENT_RECEIVED"}, intent_hash : {"i"}, agent_id : {"a"},
    timestamp : Nat, policyId : {PolicyId} ]

Verdicts ==
  [ type : {"DECISION"}, intent_hash : {"i"}, decision : {"DENY", "ALLOW"},
    timestamp : Nat, policyId : {PolicyId} ]

Emissions ==
  [ type : {"AUTH_EMITTED"}, intent_hash : {"i"}, authorization_id : {"z"},
    timestamp : Nat, policyId : {PolicyId} ]

Checkpoints ==
  [type : {"STATE_CHECKPOINT"}, stateHash : {"h"}, timestamp : Nat, policyId : {PolicyId}]

Happening == Receipts \cup Verdicts \cup Emissions \cup Checkpoints

(* The log is that of what was emitted, less what was drained.             *)
LogInv ==
  /\ emitted \in Seq(Happening)
  /\ \E d \in 0 .. Len(emitted) : log = LogOf(emitted, d)

(* A decision emits events.                                                *)
LEMMA DecisionsHappen ==
  ASSUME NEW kind \in Kinds, NEW t \in Nat
  PROVE  DecisionEvents(kind, t) \in Seq(Happening)
<1> DEFINE received    == [ type |-> "INTENT_RECEIVED", intent_hash |-> "i", agent_id |-> "a",
                            timestamp |-> t, policyId |-> PolicyId ]
           Decision(d) == [ type |-> "DECISION", intent_hash |-> "i", decision |-> d,
                            timestamp |-> t, policyId |-> PolicyId ]
           auth        == [ type |-> "AUTH_EMITTED", intent_hash |-> "i", authorization_id |-> "z",
                            timestamp |-> t, policyId |-> PolicyId ]
<1>1. received \in Happening /\ auth \in Happening
  BY DEF Happening, Receipts, Emissions
<1>2. Decision("DENY") \in Happening /\ Decision("ALLOW") \in Happening
  BY DEF Happening, Verdicts
<1>3. /\ kind = "INVALID" => DecisionEvents(kind, t) = << >>
      /\ kind = "ERROR" => DecisionEvents(kind, t) = <<received>>
      /\ kind \in {"OVER_LIMIT", "DENY"} => DecisionEvents(kind, t) = <<received, Decision("DENY")>>
      /\ kind = "ALLOW" => DecisionEvents(kind, t) = <<received, Decision("ALLOW"), auth>>
  BY DEF DecisionEvents
<1> HIDE DEF received, Decision, auth
<1>4. /\ << >> \in Seq(Happening)
      /\ <<received>> \in Seq(Happening)
      /\ <<received, Decision("DENY")>> \in Seq(Happening)
      /\ <<received, Decision("ALLOW"), auth>> \in Seq(Happening)
  BY <1>1, <1>2
<1>5. QED BY <1>3, <1>4, Zenon DEF Kinds

(* So it does with its checkpoint.                                         *)
LEMMA CheckpointsHappen ==
  ASSUME NEW kind \in Kinds, NEW t \in Nat
  PROVE  WithCheckpoint(kind, t) \in Seq(Happening)
<1> DEFINE events     == DecisionEvents(kind, t)
           checkpoint == [ type |-> "STATE_CHECKPOINT", stateHash |-> "h",
                           timestamp |-> t, policyId |-> PolicyId ]
<1>1. events \in Seq(Happening)
  BY DecisionsHappen
<1>2. checkpoint \in Happening
  BY DEF Happening, Checkpoints
<1>3. WithCheckpoint(kind, t) \in {events, Append(events, checkpoint)}
  BY Zenon DEF WithCheckpoint
<1> HIDE DEF events, checkpoint
<1>4. QED BY <1>1, <1>2, <1>3, AppendProperties

(* An engine that emits appends to its log.                                *)
LEMMA EmitLogs ==
  ASSUME LogInv, NEW events \in Seq(Happening), Emit(events)
  PROVE  LogInv' /\ Len(emitted') \in Nat /\ Len(emitted') >= Len(emitted)
<1>1. PICK d \in 0 .. Len(emitted) : log = LogOf(emitted, d)
  BY DEF LogInv
<1>2. /\ emitted \in Seq(Happening)
      /\ emitted' = emitted \o events
      /\ log' = AppendAll(log, events)
  BY DEF LogInv, Emit
<1>3. log' = LogOf(emitted', d)
  BY <1>1, <1>2, AppendAllGoesOn
<1>4. emitted' \in Seq(Happening) /\ Len(emitted') = Len(emitted) + Len(events)
  BY <1>2, ConcatProperties
<1>5. Len(emitted) \in Nat /\ Len(events) \in Nat
  BY <1>2, LenProperties
<1>6. d \in 0 .. Len(emitted')
  BY <1>4, <1>5
<1>7. QED BY <1>3, <1>4, <1>5, <1>6 DEF LogInv

(* A host that drains leaves the head.                                     *)
LEMMA DrainLogs ==
  ASSUME LogInv, DrainLog
  PROVE  LogInv'
<1>1. PICK d \in 0 .. Len(emitted) : log = LogOf(emitted, d)
  BY DEF LogInv
<1>2. emitted \in Seq(Happening) /\ emitted' = emitted /\ log' = Drain(log)
  BY DEF LogInv, DrainLog
<1>3. log' = LogOf(emitted', Len(emitted'))
  BY <1>1, <1>2, DrainDrainsAll
<1>4. Len(emitted') \in 0 .. Len(emitted')
  BY <1>2, LenProperties
<1>5. QED BY <1>2, <1>3, <1>4 DEF LogInv

(* The log starts empty.                                                   *)
LEMMA LogStarts ==
  ASSUME log = [chain |-> << >>, head |-> Genesis], emitted = << >>
  PROVE  LogInv
<1>1. emitted \in Seq(Happening) /\ Len(emitted) = 0
  BY EmptySeq
<1>2. log = LogOf(emitted, 0)
  BY EmptyLog
<1>3. 0 \in 0 .. Len(emitted)
  BY <1>1
<1>4. QED BY <1>1, <1>2, <1>3 DEF LogInv

(* What such a log says of the history.                                    *)
LEMMA LogCommits ==
  ASSUME LogInv
  PROVE  HeadCommitsToHistory
<1>1. PICK d \in 0 .. Len(emitted) : log = LogOf(emitted, d)
  BY DEF LogInv
<1>2. emitted \in Seq(Happening) /\ Len(emitted) \in Nat
  BY LenProperties DEF LogInv
<1>3. log.head = HeadFrom(Genesis, emitted)
  BY <1>1 DEF LogOf, HeadFrom
<1>4. Drained = d
  <2>1. Len(log.chain) = Len(emitted) - d
    BY <1>1, <1>2, LogLength
  <2>2. QED BY <1>2, <2>1 DEF Drained
<1>5. Snapshot(log) = SubSeq(emitted, d + 1, Len(emitted))
  BY <1>1, <1>2, SnapshotIsTheRest
<1>6. VerifyLog(log) <=> d = 0
  BY <1>1, <1>2, VerifyWantsAll
<1>7. QED BY <1>3, <1>4, <1>5, <1>6 DEF HeadCommitsToHistory

(* A set of natural numbers that is not empty has a least element.         *)
LEMMA LeastElement ==
  ASSUME NEW X \in SUBSET Nat, NEW z \in X
  PROVE  \E x \in X : \A y \in X : ~(y < x)
<1>1. \E x \in X : \A y \in X : ~(<<y, x>> \in OpToRel(<, Nat))
  BY NatLessThanWellFounded, WFMin, Zenon
<1>2. QED BY <1>1, Zenon DEF OpToRel

(* If an event is older than an earlier one, some event is older than the  *)
(* one before it: the first that is older than an earlier one.             *)
LEMMA BackIsBack ==
  ASSUME NEW n \in Nat, NEW events, DOMAIN events = 1 .. n,
         \A k \in 1 .. n : events[k].timestamp \in Nat
  PROVE  GoesBack(events, DOMAIN events) <=> WentBack(events)
<1> DEFINE Late(k) == \E j \in 1 .. n : j < k /\ events[k].timestamp < events[j].timestamp
           Lates   == {k \in 1 .. n : Late(k)}
<1>1. GoesBack(events, DOMAIN events) => WentBack(events)
  BY DEF GoesBack, WentBack
<1>2. ASSUME WentBack(events)
      PROVE  GoesBack(events, DOMAIN events)
  <2>1. PICK z \in Lates : TRUE
    BY <1>2 DEF WentBack
  <2>2. PICK k \in Lates : \A m \in Lates : ~(m < k)
    <3>1. Lates \in SUBSET Nat
      OBVIOUS
    <3> HIDE DEF Lates
    <3>2. QED BY <2>1, <3>1, LeastElement, Zenon
  <2>3. PICK j \in 1 .. n : j < k /\ events[k].timestamp < events[j].timestamp
    BY <2>2
  <2>4. /\ k \in 1 .. n /\ k - 1 \in 1 .. n /\ k - 1 < k /\ j <= k - 1
        /\ \A i \in 1 .. n : i <= k - 1 \/ k <= i
    BY <2>2, <2>3
  <2>5. events[k].timestamp < events[k - 1].timestamp
    <3>1. k - 1 \notin Lates
      BY <2>2, <2>4
    <3>2. j < k - 1 => ~(events[k - 1].timestamp < events[j].timestamp)
      BY <3>1, <2>4
    <3>3. /\ events[k].timestamp \in Nat
          /\ events[k - 1].timestamp \in Nat
          /\ events[j].timestamp \in Nat
      BY <2>4
    <3>4. CASE j = k - 1
      BY <2>3, <3>4
    <3>5. CASE j < k - 1
      BY <2>3, <3>2, <3>3, <3>5
    <3>6. QED BY <2>4, <3>4, <3>5
  <2>6. k - 1 \in DOMAIN events /\ k \in DOMAIN events /\ k - 1 < k
    BY <2>4
  <2>7. QED BY <2>4, <2>5, <2>6 DEF GoesBack
<1>3. QED BY <1>1, <1>2

(* What an engine emits is in the form that the schema asks for, and names *)
(* this policy.                                                            *)
LEMMA HappeningsAreWellFormed ==
  ASSUME NEW e \in Happening
  PROVE  /\ WellFormedEvent(e)
         /\ HasPolicyId(e)
         /\ e.policyId = PolicyId
         /\ e.timestamp \in Nat
         /\ IsCheckpoint(e) => IsStateHash(e.stateHash)
<1>1. PolicyId # ""
  BY DeliveryAssumption
<1>2. CASE e \in Receipts
  <2>1. /\ e.type = "INTENT_RECEIVED" /\ e.intent_hash = "i" /\ e.timestamp \in Nat
        /\ e.policyId = PolicyId
        /\ DOMAIN e = {"type", "intent_hash", "agent_id", "timestamp", "policyId"}
    BY <1>2 DEF Receipts
  <2>2. /\ e.type \in DOMAIN OwnFields
        /\ OwnFields[e.type] = {"intent_hash", "agent_id"}
        /\ Required(e) = {"intent_hash"}
    BY <2>1 DEF OwnFields, Required
  <2>3. QED BY <1>1, <2>1, <2>2 DEF WellFormedEvent, HasPolicyId, IsCheckpoint
<1>3. CASE e \in Verdicts
  <2>1. /\ e.type = "DECISION" /\ e.intent_hash = "i" /\ e.timestamp \in Nat
        /\ e.policyId = PolicyId
        /\ DOMAIN e = {"type", "intent_hash", "decision", "timestamp", "policyId"}
    BY <1>3 DEF Verdicts
  <2>2. /\ e.type \in DOMAIN OwnFields
        /\ OwnFields[e.type] = {"intent_hash", "decision"}
        /\ Required(e) = {"intent_hash"}
    BY <2>1 DEF OwnFields, Required
  <2>3. QED BY <1>1, <2>1, <2>2 DEF WellFormedEvent, HasPolicyId, IsCheckpoint
<1>4. CASE e \in Emissions
  <2>1. /\ e.type = "AUTH_EMITTED" /\ e.intent_hash = "i" /\ e.authorization_id = "z"
        /\ e.timestamp \in Nat /\ e.policyId = PolicyId
        /\ DOMAIN e = {"type", "intent_hash", "authorization_id", "timestamp", "policyId"}
    BY <1>4 DEF Emissions
  <2>2. /\ e.type \in DOMAIN OwnFields
        /\ OwnFields[e.type] = {"intent_hash", "authorization_id"}
        /\ Required(e) = {"intent_hash", "authorization_id"}
    BY <2>1 DEF OwnFields, Required
  <2>3. QED BY <1>1, <2>1, <2>2 DEF WellFormedEvent, HasPolicyId, IsCheckpoint
<1>5. CASE e \in Checkpoints
  <2>1. /\ e.type = "STATE_CHECKPOINT" /\ e.stateHash = "h" /\ e.timestamp \in Nat
        /\ e.policyId = PolicyId
        /\ DOMAIN e = {"type", "stateHash", "timestamp", "policyId"}
    BY <1>5 DEF Checkpoints
  <2>2. /\ e.type \in DOMAIN OwnFields
        /\ OwnFields[e.type] = {"stateHash"}
        /\ Required(e) = {"stateHash"}
    BY <2>1 DEF OwnFields, Required
  <2>3. QED BY <1>1, <2>1, <2>2 DEF WellFormedEvent, HasPolicyId, IsStateHash
<1>6. QED BY <1>2, <1>3, <1>4, <1>5 DEF Happening

(* Both verifiers say of such events whether they went back and whether    *)
(* they are anchored, and nothing else.                                    *)
LEMMA HappeningsAreAgreedOn ==
  ASSUME NEW events \in Seq(Happening)
  PROVE  AgreeOn(events)
<1> DEFINE places  == DOMAIN events
           back    == WentBack(events)
           bare    == \A k \in DOMAIN events : ~IsCheckpoint(events[k])
           opts    == [policyId |-> PolicyId, mode |-> "strict"]
           lenient == [policyId |-> PolicyId, mode |-> "best-effort"]
           audit   == VerifyAuditEvents(events, StrictOptions)
           replay  == VerifyReplayEvents(events, opts)
           Said    == (IF back THEN {"NON_MONOTONIC_TIMESTAMP"} ELSE {})
<1>1. \A k \in places : /\ WellFormedEvent(events[k])
                        /\ HasPolicyId(events[k])
                        /\ "policyId" \in DOMAIN events[k]
                        /\ events[k].policyId = PolicyId
                        /\ events[k].timestamp \in Nat
                        /\ IsCheckpoint(events[k]) => IsStateHash(events[k].stateHash)
  <2>1. \A k \in places : events[k] \in Happening
    OBVIOUS
  <2>2. QED BY <2>1, HappeningsAreWellFormed DEF HasPolicyId
<1>2. Checked(events) = places
  BY <1>1 DEF Checked
<1>3. GoesBack(events, places) <=> back
  <2>1. Len(events) \in Nat /\ places = 1 .. Len(events)
    BY LenProperties
  <2>2. QED BY <1>1, <2>1, BackIsBack
<1>4. /\ places = {} => PolicyIdsOf(events, places) = {}
      /\ places # {} => PolicyIdsOf(events, places) = {PolicyId}
  BY <1>1 DEF PolicyIdsOf
<1>5. Cardinality(PolicyIdsOf(events, places)) = IF places = {} THEN 0 ELSE 1
  BY <1>4, FS_EmptySet, FS_Singleton
<1>6. PolicyId # "" /\ PolicyId # Absent
  BY DeliveryAssumption
<1>7. AuditCodes(events, StrictOptions)
        = Said \cup (IF bare THEN {"NO_STATE_ANCHOR"} ELSE {})
  <2> DEFINE In(code, condition) == IF condition THEN {code} ELSE {}
             o == StrictOptions
  <2>1. /\ o.mode = "strict" /\ o.requireStateAnchors = Absent /\ o.expectedPolicyId = PolicyId
    BY DEF StrictOptions
  <2> HIDE DEF o
  <2>2. AuditCodes(events, o) = UNION {
          In("MALFORMED_EVENT", Checked(events) # DOMAIN events),
          In("NON_MONOTONIC_TIMESTAMP", GoesBack(events, Checked(events))),
          In("POLICY_ID_MISSING",
             o.expectedPolicyId # Absent /\ \E k \in Checked(events) : ~HasPolicyId(events[k])),
          In("POLICY_ID_MISMATCH",
             o.expectedPolicyId # Absent
               /\ \E p \in PolicyIdsOf(events, Checked(events)) : p # o.expectedPolicyId),
          In("MIXED_POLICY_ID", Cardinality(PolicyIdsOf(events, Checked(events))) > 1),
          In("NO_STATE_ANCHOR",
             (IF o.requireStateAnchors = Absent THEN o.mode = "strict" ELSE o.requireStateAnchors)
               /\ ~\E k \in Checked(events) : IsCheckpoint(events[k])) }
    BY Zenon DEF AuditCodes
  <2>3. AuditCodes(events, o) = UNION {
          In("MALFORMED_EVENT", FALSE), In("NON_MONOTONIC_TIMESTAMP", back),
          In("POLICY_ID_MISSING", FALSE), In("POLICY_ID_MISMATCH", FALSE),
          In("MIXED_POLICY_ID", FALSE), In("NO_STATE_ANCHOR", bare) }
    <3>1. /\ (Checked(events) # DOMAIN events) = FALSE
          /\ GoesBack(events, Checked(events)) = back
          /\ (o.expectedPolicyId # Absent /\ \E k \in Checked(events) : ~HasPolicyId(events[k]))
               = FALSE
          /\ (o.expectedPolicyId # Absent
                /\ \E p \in PolicyIdsOf(events, Checked(events)) : p # o.expectedPolicyId)
               = FALSE
      BY <1>1, <1>2, <1>3, <1>4, <2>1 DEF GoesBack, WentBack
    <3>2. (Cardinality(PolicyIdsOf(events, Checked(events))) > 1) = FALSE
      BY <1>2, <1>5
    <3>3. ( (IF o.requireStateAnchors = Absent THEN o.mode = "strict" ELSE o.requireStateAnchors)
              /\ ~\E k \in Checked(events) : IsCheckpoint(events[k]) ) = bare
      BY <1>2, <2>1
    <3> HIDE DEF In
    <3>4. QED BY <2>2, <3>1, <3>2, <3>3, Zenon
  <2> HIDE DEF back, bare
  <2>4. QED BY <2>3 DEF o
<1>8. /\ audit.status = AuditStatus(AuditCodes(events, StrictOptions))
      /\ audit.violations = AuditCodes(events, StrictOptions)
      /\ audit.policyId = IF places = {} THEN Absent ELSE PolicyId
  <2> DEFINE ids == PolicyIdsOf(events, Checked(events))
  <2>1. audit = [ status        |-> AuditStatus(AuditCodes(events, StrictOptions)),
                  violations    |-> AuditCodes(events, StrictOptions),
                  policyId      |-> IF Cardinality(ids) = 1 THEN CHOOSE p \in ids : TRUE
                                    ELSE Absent,
                  auditHeadHash |-> CheckedHead(events) ]
    BY DEF VerifyAuditEvents
  <2>2. (IF Cardinality(ids) = 1 THEN CHOOSE p \in ids : TRUE ELSE Absent)
          = IF places = {} THEN Absent ELSE PolicyId
    <3>1. ids = PolicyIdsOf(events, places)
      BY <1>2
    <3>2. (CHOOSE p \in {PolicyId} : TRUE) = PolicyId
      OBVIOUS
    <3> HIDE DEF ids, places
    <3>3. CASE places = {}
      BY <3>1, <3>3, <1>5
    <3>4. CASE places # {}
      <4>1. Cardinality(ids) = 1 /\ ids = {PolicyId}
        BY <3>1, <3>4, <1>4, <1>5
      <4>2. QED BY <3>2, <3>4, <4>1
    <3>5. QED BY <3>3, <3>4
  <2> HIDE DEF audit, ids
  <2>3. QED BY <2>1, <2>2
<1>9. audit.status = IF back THEN "invalid" ELSE IF bare THEN "inconclusive" ELSE "ok"
  BY <1>7, <1>8 DEF AuditStatus
<1>10. ASSUME NEW o \in {opts, lenient}
       PROVE  LET verdict == VerifyReplayEvents(events, o)
              IN  /\ verdict.policyId = IF places = {} THEN Absent ELSE PolicyId
                  /\ verdict.status = IF back THEN "violation"
                                      ELSE IF o.mode = "strict" /\ bare THEN "inconclusive"
                                      ELSE "ok"
                  /\ verdict.violations = IF ~back /\ o.mode = "strict" /\ bare
                                          THEN {"NO_STATE_ANCHOR"} ELSE Said
  <2> DEFINE named    == {k \in DOMAIN events : "policyId" \in DOMAIN events[k]}
             observed == IF named = {} THEN Absent
                         ELSE events[CHOOSE k \in named : \A j \in named : k <= j].policyId
  <2>1. named = places
    BY <1>1
  <2>2. observed = IF places = {} THEN Absent ELSE PolicyId
    <3>1. ASSUME places # {}
          PROVE  (CHOOSE k \in places : \A j \in places : k <= j) \in places
      <4>1. Len(events) \in Nat /\ places = 1 .. Len(events)
        BY LenProperties
      <4>2. \E k \in places : \A j \in places : k <= j
        <5>1. 1 \in places
          BY <3>1, <4>1
        <5>2. QED BY <4>1, <5>1
      <4> HIDE DEF places
      <4>3. QED BY <4>2
    <3>2. QED BY <1>1, <2>1, <3>1
  <2>3. o.policyId = PolicyId
    OBVIOUS
  <2>4. ~(\E k \in DOMAIN events : IsCheckpoint(events[k]) /\ ~IsStateHash(events[k].stateHash))
    BY <1>1
  <2>5. ~(\E k \in named : events[k].policyId # observed)
    BY <1>1, <2>1, <2>2
  <2>6. ~(observed \notin {Absent, ""} /\ PolicyId # observed)
    BY <2>2
  <2> HIDE DEF opts, lenient
  <2>7. VerifyReplayEvents(events, o) =
          [ status        |-> IF Said # {} THEN "violation"
                              ELSE IF o.mode = "strict" /\ bare THEN "inconclusive" ELSE "ok",
            violations    |-> IF Said = {} /\ o.mode = "strict" /\ bare
                              THEN {"NO_STATE_ANCHOR"} ELSE Said,
            policyId      |-> observed,
            auditHeadHash |-> HeadFrom(Genesis, events) ]
    BY <1>3, <2>3, <2>4, <2>5, <2>6 DEF VerifyReplayEvents
  <2>8. QED BY <2>2, <2>7
<1>11. opts.mode = "strict" /\ lenient.mode = "best-effort"
  OBVIOUS
<1>12. InvariantViolations(events, PolicyId) = Said
  BY <1>10, <1>11 DEF InvariantViolations
<1>13. /\ replay.policyId = IF places = {} THEN Absent ELSE PolicyId
       /\ replay.status = IF back THEN "violation" ELSE IF bare THEN "inconclusive" ELSE "ok"
  BY <1>10, <1>11
<1>14. audit.violations \ {"NO_STATE_ANCHOR"} = Said
  BY <1>7, <1>8
<1> HIDE DEF audit, replay, back, bare, Said, opts
<1>15. /\ audit.status = "invalid" <=> back
       /\ audit.status = "inconclusive" <=> ~back /\ bare
       /\ replay.status = (IF audit.status = "invalid" THEN "violation" ELSE audit.status)
       /\ replay.policyId = audit.policyId
       /\ InvariantViolations(events, PolicyId) = audit.violations \ {"NO_STATE_ANCHOR"}
  BY <1>8, <1>9, <1>12, <1>13, <1>14
<1>16. QED BY <1>15, Zenon DEF AgreeOn, audit, replay, back, bare, opts

(* So do they of what a drain leaves.                                      *)
LEMMA LogIsAgreedOn ==
  ASSUME LogInv
  PROVE  VerifiersAgree
<1>1. PICK d \in 0 .. Len(emitted) : log = LogOf(emitted, d)
  BY DEF LogInv
<1>2. emitted \in Seq(Happening) /\ Len(emitted) \in Nat
  BY LenProperties DEF LogInv
<1>3. Snapshot(log) = SubSeq(emitted, d + 1, Len(emitted))
  BY <1>1, <1>2, SnapshotIsTheRest
<1>4. SubSeq(emitted, d + 1, Len(emitted)) \in Seq(Happening)
  <2>1. \A i \in d + 1 .. Len(emitted) : emitted[i] \in Happening
    BY <1>1, <1>2, ElementOfSeq
  <2>2. d + 1 \in Nat
    BY <1>1, <1>2
  <2>3. QED BY <1>2, <2>1, <2>2, SubSeqProperties
<1>5. QED BY <1>2, <1>3, <1>4, HappeningsAreAgreedOn DEF VerifiersAgree

(***************************************************************************)
(* The audit sink                                                          *)
(***************************************************************************)

DeliveryTypes ==
  /\ sink \in Sinks
  /\ Len(emitted) \in Nat
  /\ sunk \in 0 .. Len(emitted)
  /\ lines \in Seq(Nat)
  /\ \A k \in DOMAIN lines : lines[k] \in 1 .. sunk
  /\ sinkError \in BOOLEAN
  /\ DOMAIN flush = Flushes
  /\ \A f \in Flushes : flush[f].upto \in Nat /\ DOMAIN flush[f] = {"stage", "upto"}

(* Until an append of a file sink fails, it has all that has settled.      *)
NothingMissing == sink \in {"file", "memory"} /\ ~Poisoned => Len(lines) = sunk

(* A failure is kept for the next flush, or was thrown by an earlier one.  *)
ErrorsAreKept == ~sinkError => Failed \subseteq reported

DeliveryInv ==
  /\ DeliveryTypes
  /\ SinkKeepsOrder
  /\ NothingMissing
  /\ ErrorsAreKept
  /\ FlushIsHonest

(* An engine starts with nothing emitted.                                  *)
LEMMA DeliveryStarts ==
  ASSUME DeliveryInit
  PROVE  DeliveryInv
<1>1. /\ sink \in Sinks
      /\ emitted = << >> /\ sunk = 0 /\ lines = << >>
      /\ sinkError = FALSE
      /\ flush = [f \in Flushes |-> [stage |-> "idle", upto |-> 0]]
  BY DEF DeliveryInit, Idle
<1>2. DeliveryTypes
  <2>1. Len(emitted) = 0 /\ lines \in Seq(Nat) /\ DOMAIN lines = {}
    BY <1>1
  <2>2. /\ DOMAIN flush = Flushes
        /\ \A f \in Flushes : flush[f].upto \in Nat /\ DOMAIN flush[f] = {"stage", "upto"}
    BY <1>1
  <2>3. sinkError \in BOOLEAN
    BY <1>1
  <2>4. sunk \in 0 .. Len(emitted)
    BY <1>1, <2>1
  <2>5. Len(emitted) \in Nat /\ \A k \in DOMAIN lines : lines[k] \in 1 .. sunk
    BY <2>1
  <2>6. sink \in Sinks
    BY <1>1
  <2>7. QED BY <2>1, <2>2, <2>3, <2>4, <2>5, <2>6 DEF DeliveryTypes
<1>3. FlushIsHonest
  BY <1>1 DEF FlushIsHonest
<1>4. Failed = {}
  BY <1>1 DEF Failed
<1>5. SinkKeepsOrder /\ NothingMissing /\ ErrorsAreKept
  BY <1>1, <1>4 DEF SinkKeepsOrder, NothingMissing, ErrorsAreKept
<1>6. QED BY <1>2, <1>3, <1>5 DEF DeliveryInv

(* More events in the engine change nothing in the sink.                   *)
LEMMA EmitDelivers ==
  ASSUME DeliveryInv, NEW events, Emit(events), Len(emitted') \in Nat, Len(emitted') >= Len(emitted)
  PROVE  DeliveryInv'
BY DEF Emit, DeliveryInv, DeliveryTypes, SinkKeepsOrder, NothingMissing, ErrorsAreKept,
       FlushIsHonest, Failed, Poisoned

(* Nor does emptying the log.                                              *)
LEMMA DrainDelivers ==
  ASSUME DeliveryInv, DrainLog
  PROVE  DeliveryInv'
BY DEF DrainLog, DeliveryInv, DeliveryTypes, SinkKeepsOrder, NothingMissing, ErrorsAreKept,
       FlushIsHonest, Failed, Poisoned

(* An append that lands puts the next event behind the ones before it.     *)
LEMMA AppendDelivers ==
  ASSUME DeliveryInv, AppendLands
  PROVE  DeliveryInv'
<1>1. /\ sunk' = sunk + 1
      /\ sunk \in Nat
      /\ sunk + 1 \in 1 .. Len(emitted)
      /\ UNCHANGED <<sink, emitted, sinkError, flush, reported>>
      /\ ~Poisoned
  BY DEF AppendLands, DeliveryInv, DeliveryTypes
<1>2. /\ lines' \in Seq(Nat)
      /\ Len(lines') = Len(lines) + 1
      /\ DOMAIN lines' = 1 .. Len(lines) + 1
      /\ DOMAIN lines = 1 .. Len(lines)
      /\ Len(lines) \in Nat
      /\ \A k \in 1 .. Len(lines) : lines'[k] = lines[k]
      /\ lines'[Len(lines) + 1] = sunk + 1
  BY <1>1 DEF AppendLands, DeliveryInv, DeliveryTypes
<1>3. \A k \in DOMAIN lines : lines[k] \in 1 .. sunk
  BY DEF DeliveryInv, DeliveryTypes
<1>4. DeliveryTypes'
  <2>1. \A k \in DOMAIN lines' : lines'[k] \in 1 .. sunk'
    <3> SUFFICES ASSUME NEW k \in 1 .. Len(lines) + 1
                 PROVE  lines'[k] \in 1 .. sunk + 1
      BY <1>1, <1>2
    <3>1. CASE k = Len(lines) + 1
      BY <3>1, <1>1, <1>2
    <3>2. CASE k # Len(lines) + 1
      <4>1. k \in 1 .. Len(lines)
        BY <3>2, <1>2
      <4>2. lines'[k] = lines[k] /\ lines[k] \in 1 .. sunk
        BY <4>1, <1>2, <1>3
      <4>3. QED BY <4>2, <1>1
    <3>3. QED BY <3>1, <3>2
  <2>2. sunk' \in 0 .. Len(emitted')
    BY <1>1
  <2>3. /\ sink \in Sinks
        /\ Len(emitted) \in Nat
        /\ sinkError \in BOOLEAN
        /\ DOMAIN flush = Flushes
        /\ \A f \in Flushes : flush[f].upto \in Nat /\ DOMAIN flush[f] = {"stage", "upto"}
    BY DEF DeliveryInv, DeliveryTypes
  <2>4. QED BY <1>1, <1>2, <2>1, <2>2, <2>3 DEF DeliveryTypes
<1>5. sink \in {"file", "memory"} => Len(lines) = sunk
  BY <1>1 DEF DeliveryInv, NothingMissing
<1>6. SinkKeepsOrder'
  <2>1. \A j, k \in 1 .. Len(lines) + 1 : j < k => lines'[j] < lines'[k]
    <3> SUFFICES ASSUME NEW j \in 1 .. Len(lines) + 1, NEW k \in 1 .. Len(lines) + 1, j < k
                 PROVE  lines'[j] < lines'[k]
      OBVIOUS
    <3>1. CASE k = Len(lines) + 1
      <4>1. j \in 1 .. Len(lines) /\ lines'[j] = lines[j]
        BY <3>1, <1>2
      <4>2. lines[j] \in 1 .. sunk
        BY <4>1, <1>2, <1>3
      <4>3. lines'[k] = sunk + 1
        BY <3>1, <1>2
      <4>4. QED BY <4>1, <4>2, <4>3, <1>1
    <3>2. CASE k # Len(lines) + 1
      <4>1. j \in 1 .. Len(lines) /\ k \in 1 .. Len(lines)
        BY <3>2, <1>2
      <4>2. lines[j] < lines[k]
        BY <4>1, <1>2 DEF DeliveryInv, SinkKeepsOrder
      <4>3. QED BY <4>1, <4>2, <1>2
    <3>3. QED BY <3>1, <3>2
  <2>2. sink' \in {"file", "memory"} => \A k \in DOMAIN lines' : lines'[k] = k
    <3> SUFFICES ASSUME sink \in {"file", "memory"}, NEW k \in 1 .. Len(lines) + 1
                 PROVE  lines'[k] = k
      BY <1>1, <1>2
    <3>1. Len(lines) = sunk
      BY <1>5
    <3>2. CASE k = Len(lines) + 1
      BY <3>1, <3>2, <1>2
    <3>3. CASE k # Len(lines) + 1
      <4>1. k \in DOMAIN lines /\ lines'[k] = lines[k]
        BY <3>3, <1>2
      <4>2. QED BY <4>1 DEF DeliveryInv, SinkKeepsOrder
    <3>4. QED BY <3>2, <3>3
  <2>3. QED BY <1>2, <2>1, <2>2 DEF SinkKeepsOrder
<1>7. NothingMissing'
  BY <1>1, <1>2, <1>5 DEF NothingMissing
<1>8. Failed' = Failed
  <2>1. ASSUME NEW k \in 1 .. sunk
        PROVE  (\A j \in DOMAIN lines' : lines'[j] # k) <=> (\A j \in DOMAIN lines : lines[j] # k)
    <3>1. k # sunk + 1
      BY <1>1
    <3>2. QED BY <1>2, <3>1
  <2>2. ~\A j \in DOMAIN lines' : lines'[j] # sunk + 1
    BY <1>2
  <2>3. 1 .. sunk + 1 = (1 .. sunk) \cup {sunk + 1}
    BY <1>1
  <2>4. QED BY <1>1, <2>1, <2>2, <2>3 DEF Failed
<1>9. ErrorsAreKept'
  BY <1>1, <1>8 DEF DeliveryInv, ErrorsAreKept
<1>10. FlushIsHonest'
  BY <1>1, <1>2 DEF DeliveryInv, FlushIsHonest
<1>11. QED BY <1>4, <1>6, <1>7, <1>9, <1>10 DEF DeliveryInv

(* An append that fails is remembered.                                     *)
LEMMA FailureDelivers ==
  ASSUME DeliveryInv, AppendFails
  PROVE  DeliveryInv'
<1>1. /\ sunk' = sunk + 1
      /\ sunk \in Nat
      /\ sunk + 1 \in 1 .. Len(emitted)
      /\ sink \in {"file", "host"}
      /\ sinkError' = TRUE
      /\ UNCHANGED <<sink, emitted, lines, flush, reported>>
  BY DEF AppendFails, DeliveryInv, DeliveryTypes
<1>2. DeliveryTypes'
  BY <1>1 DEF DeliveryInv, DeliveryTypes
<1>3. sunk + 1 \in Failed'
  BY <1>1 DEF Failed, DeliveryInv, DeliveryTypes
<1>4. NothingMissing'
  BY <1>1, <1>3 DEF NothingMissing, Poisoned
<1>5. QED BY <1>1, <1>2, <1>4 DEF DeliveryInv, SinkKeepsOrder, ErrorsAreKept, FlushIsHonest

(* The end of a flush throws what was kept, or all is in the sink.         *)
LEMMA FlushEndDelivers ==
  ASSUME DeliveryInv, NEW f \in Flushes, FlushEnds(f), flush[f].upto <= sunk,
         sink = "file" => \A k \in Failed : k > flush[f].upto
  PROVE  DeliveryInv'
<1>1. /\ UNCHANGED <<sink, emitted, sunk, lines>>
      /\ sinkError' = FALSE
      /\ flush' = [flush EXCEPT ![f].stage = IF sinkError THEN "rejected" ELSE "resolved"]
      /\ reported' = IF sinkError THEN reported \cup Failed ELSE reported
  BY DEF FlushEnds
<1>2. /\ \A g \in Flushes : flush'[g].upto = flush[g].upto
      /\ \A g \in Flushes \ {f} : flush'[g] = flush[g]
      /\ flush'[f].stage = IF sinkError THEN "rejected" ELSE "resolved"
      /\ DOMAIN flush' = Flushes
      /\ \A g \in Flushes : DOMAIN flush'[g] = DOMAIN flush[g]
  BY <1>1 DEF DeliveryInv, DeliveryTypes
<1>3. DeliveryTypes'
  BY <1>1, <1>2 DEF DeliveryInv, DeliveryTypes
<1>4. Failed' = Failed /\ Failed \subseteq reported'
  BY <1>1 DEF Failed, DeliveryInv, ErrorsAreKept
<1>5. \A k \in 1 .. flush[f].upto : k \in Failed \/ \E j \in DOMAIN lines : lines[j] = k
  BY DEF Failed, DeliveryInv, DeliveryTypes
<1>6. FlushIsHonest'
  <2> SUFFICES ASSUME NEW g \in Flushes, flush'[g].stage = "resolved", NEW k \in 1 .. flush[g].upto
               PROVE  (\E j \in DOMAIN lines : lines[j] = k) \/ (sink # "file" /\ k \in reported')
    BY <1>1, <1>2 DEF FlushIsHonest
  <2>1. CASE g = f
    BY <2>1, <1>4, <1>5 DEF DeliveryInv, DeliveryTypes
  <2>2. CASE g # f
    BY <2>2, <1>1, <1>2 DEF DeliveryInv, FlushIsHonest
  <2>3. QED BY <2>1, <2>2
<1>7. QED BY <1>1, <1>3, <1>4, <1>6 DEF DeliveryInv, SinkKeepsOrder, NothingMissing, ErrorsAreKept, Poisoned

(* A flush that throws what the queue of the file sink rejected.           *)
LEMMA QueueRejects ==
  ASSUME DeliveryInv, NEW f \in Flushes,
         flush' = [flush EXCEPT ![f].stage = "rejected"],
         reported' = reported \cup Failed,
         UNCHANGED <<sink, log, emitted, sunk, lines, sinkError>>
  PROVE  DeliveryInv'
<1>1. /\ \A g \in Flushes : flush'[g].upto = flush[g].upto
      /\ \A g \in Flushes \ {f} : flush'[g] = flush[g]
      /\ flush'[f].stage = "rejected"
      /\ DOMAIN flush' = Flushes
      /\ \A g \in Flushes : DOMAIN flush'[g] = DOMAIN flush[g]
  BY DEF DeliveryInv, DeliveryTypes
<1>2. DeliveryTypes'
  BY <1>1 DEF DeliveryInv, DeliveryTypes
<1>3. Failed' = Failed
  BY DEF Failed
<1>4. FlushIsHonest'
  BY <1>1 DEF DeliveryInv, FlushIsHonest
<1>5. QED BY <1>2, <1>3, <1>4 DEF DeliveryInv, SinkKeepsOrder, NothingMissing, ErrorsAreKept, Poisoned

(* A flush moves on to wait for n appends, and has not resolved yet.       *)
LEMMA FlushWaits ==
  ASSUME DeliveryInv, NEW f \in Flushes, NEW stage \in {"chain", "queue"}, NEW n \in Nat,
         flush' = [flush EXCEPT ![f] = [stage |-> stage, upto |-> n]],
         UNCHANGED <<sink, log, emitted, sunk, lines, sinkError, reported>>
  PROVE  DeliveryInv'
<1>1. /\ \A g \in Flushes \ {f} : flush'[g] = flush[g]
      /\ flush'[f] = [stage |-> stage, upto |-> n]
      /\ DOMAIN flush' = Flushes
  BY DEF DeliveryInv, DeliveryTypes
<1>2. /\ flush'[f].stage \in {"chain", "queue"}
      /\ flush'[f].upto \in Nat
      /\ DOMAIN flush'[f] = {"stage", "upto"}
  BY <1>1
<1>3. DeliveryTypes'
  BY <1>1, <1>2 DEF DeliveryInv, DeliveryTypes
<1>4. Failed' = Failed
  BY DEF Failed
<1>5. FlushIsHonest'
  BY <1>1, <1>2 DEF DeliveryInv, FlushIsHonest
<1>6. QED BY <1>3, <1>4, <1>5 DEF DeliveryInv, SinkKeepsOrder, NothingMissing, ErrorsAreKept, Poisoned

(* Every step of the sink's side.                                          *)
LEMMA DeliveryKept ==
  ASSUME DeliveryInv, DeliveryStep
  PROVE  DeliveryInv'
<1>1. CASE DrainLog
  BY <1>1, DrainDelivers
<1>2. CASE AppendLands
  BY <1>2, AppendDelivers
<1>3. CASE AppendFails
  BY <1>3, FailureDelivers
<1>4. ASSUME NEW f \in Flushes, FlushCalled(f)
      PROVE  DeliveryInv'
  BY <1>4, FlushWaits DEF FlushCalled, DeliveryInv, DeliveryTypes
<1>5. ASSUME NEW f \in Flushes, ChainAwaited(f)
      PROVE  DeliveryInv'
  <2>1. CASE sink = "file"
    <3>1. PICK n \in {sunk, sunk + 1} \cap 0 .. Len(emitted) :
            flush' = [flush EXCEPT ![f] = [stage |-> "queue", upto |-> n]]
      BY <1>5, <2>1 DEF ChainAwaited
    <3>2. n \in Nat
      BY DEF DeliveryInv, DeliveryTypes
    <3>3. UNCHANGED <<sink, log, emitted, sunk, lines, sinkError, reported>>
      BY <1>5, <2>1 DEF ChainAwaited
    <3>4. QED BY <3>1, <3>2, <3>3, FlushWaits
  <2>2. CASE sink # "file"
    BY <1>5, <2>2, FlushEndDelivers DEF ChainAwaited
  <2>3. QED BY <2>1, <2>2
<1>6. ASSUME NEW f \in Flushes, QueueAwaited(f)
      PROVE  DeliveryInv'
  <2>1. CASE \E k \in Failed : k <= flush[f].upto
    BY <1>6, <2>1, QueueRejects DEF QueueAwaited
  <2>2. CASE ~\E k \in Failed : k <= flush[f].upto
    <3>1. FlushEnds(f) /\ flush[f].upto <= sunk
      BY <1>6, <2>2 DEF QueueAwaited
    <3>2. \A k \in Failed : k > flush[f].upto
      BY <2>2 DEF Failed, DeliveryInv, DeliveryTypes
    <3>3. QED BY <3>1, <3>2, FlushEndDelivers
  <2>3. QED BY <2>1, <2>2
<1>7. QED BY <1>1, <1>2, <1>3, <1>4, <1>5, <1>6 DEF DeliveryStep

(***************************************************************************)
(* The state store                                                         *)
(***************************************************************************)

StoreTypes ==
  /\ version \in Nat
  /\ commits \in Seq(Nat)
  /\ saved \in 0 .. Len(commits)
  /\ excused \in 0 .. saved
  /\ promised # NoFile => promised \in Nat
  /\ stateError \in BOOLEAN
  /\ DOMAIN stateFlush = StateFlushes
  /\ \A f \in StateFlushes :
       /\ stateFlush[f].upto \in 0 .. Len(commits)
       /\ DOMAIN stateFlush[f] = {"stage", "upto"}

(* The snapshots are in the order of the decisions.                        *)
CommitsOrdered ==
  /\ \A j, k \in 1 .. Len(commits) : j <= k => commits[j] <= commits[k]
  /\ \A k \in 1 .. Len(commits) : commits[k] <= version

(* The set under way is the next one.                                      *)
TemporaryIsNext ==
  temporary # NoFile => saved < Len(commits) /\ temporary = commits[saved + 1]

(* What is stored is no newer than what is still to be set.                *)
StoredIsBehind ==
  stored # NoFile =>
    /\ stored \in Nat
    /\ stored <= version
    /\ \A k \in 1 .. Len(commits) : k > saved => stored <= commits[k]

(* Unless an error is kept, the last set that was not excused is stored.   *)
StoredIsLast ==
  ~stateError /\ saved > excused => stored # NoFile /\ stored >= commits[saved]

StoreInv ==
  /\ StoreTypes
  /\ CommitsOrdered
  /\ TemporaryIsNext
  /\ StoredIsBehind
  /\ StoredIsLast
  /\ PromisedStateIsStored

(* A process that has committed nothing starts from what is stored.        *)
FreshCommits ==
  /\ commits = << >>
  /\ saved = 0
  /\ temporary = NoFile
  /\ stateError = FALSE
  /\ stateFlush = [f \in StateFlushes |-> [stage |-> "idle", upto |-> 0]]
  /\ excused = 0
  /\ version = IF stored = NoFile THEN 0 ELSE stored
  /\ stored # NoFile => stored \in Nat
  /\ promised # NoFile => promised \in Nat /\ stored # NoFile /\ stored >= promised

(* Then there is nothing to set.                                           *)
LEMMA StoreStarts ==
  ASSUME FreshCommits
  PROVE  StoreInv
<1>1. /\ commits = << >> /\ saved = 0 /\ excused = 0
      /\ temporary = NoFile /\ stateError = FALSE
      /\ stateFlush = [f \in StateFlushes |-> [stage |-> "idle", upto |-> 0]]
      /\ version = (IF stored = NoFile THEN 0 ELSE stored)
      /\ stored # NoFile => stored \in Nat
      /\ promised # NoFile => promised \in Nat /\ stored # NoFile /\ stored >= promised
  BY DEF FreshCommits
<1>2. Len(commits) = 0 /\ commits \in Seq(Nat)
  BY <1>1
<1>3. StoreTypes
  <2>1. /\ DOMAIN stateFlush = StateFlushes
        /\ \A f \in StateFlushes : /\ stateFlush[f].upto = 0
                                   /\ DOMAIN stateFlush[f] = {"stage", "upto"}
    BY <1>1
  <2>2. stateError \in BOOLEAN
    BY <1>1
  <2>3. saved \in 0 .. Len(commits) /\ excused \in 0 .. saved /\ 0 \in 0 .. Len(commits)
    BY <1>1, <1>2
  <2>4. version \in Nat /\ (promised # NoFile => promised \in Nat)
    BY <1>1
  <2>5. QED BY <1>2, <2>1, <2>2, <2>3, <2>4 DEF StoreTypes
<1>4. CommitsOrdered /\ TemporaryIsNext /\ StoredIsBehind /\ PromisedStateIsStored
  BY <1>1, <1>2 DEF CommitsOrdered, TemporaryIsNext, StoredIsBehind, PromisedStateIsStored
<1>5. StoredIsLast
  BY <1>1 DEF StoredIsLast
<1>6. QED BY <1>3, <1>4, <1>5 DEF StoreInv

(* What a decision makes of the caller's state is that or the next one.    *)
LEMMA VersionsGrow ==
  ASSUME StoreInv, NEW kind, version' \in Versions(kind)
  PROVE  version' \in Nat /\ version' >= version
<1>1. Versions(kind) \subseteq {version, version + 1}
  BY Zenon DEF Versions
<1>2. QED BY <1>1 DEF StoreInv, StoreTypes

(* A decision that commits nothing.                                        *)
LEMMA ThrowKeepsStore ==
  ASSUME StoreInv, version' \in Nat, version' >= version, UNCHANGED <<commitVars, promised>>
  PROVE  StoreInv'
<1>1. UNCHANGED <<commits, saved, temporary, stored, stateError, stateFlush, excused, promised>>
  BY DEF commitVars
<1>2. StoreTypes'
  BY <1>1 DEF StoreInv, StoreTypes
<1>3. CommitsOrdered'
  BY <1>1 DEF StoreInv, StoreTypes, CommitsOrdered
<1>4. StoredIsBehind'
  BY <1>1 DEF StoreInv, StoreTypes, StoredIsBehind
<1>5. QED BY <1>1, <1>2, <1>3, <1>4
          DEF StoreInv, TemporaryIsNext, StoredIsLast, PromisedStateIsStored

(* A decision that commits queues the newest state.                        *)
LEMMA CommitKeepsStore ==
  ASSUME StoreInv, version' \in Nat, version' >= version, Commit(version'), promised' = promised
  PROVE  StoreInv'
<1>1. UNCHANGED <<saved, temporary, stored, stateError, stateFlush, excused, promised>>
  BY DEF Commit
<1>2. CASE commits' = commits
  BY <1>1, <1>2, ThrowKeepsStore DEF Commit, commitVars
<1>3. CASE commits' = Append(commits, version')
  <2>1. /\ commits' \in Seq(Nat)
        /\ Len(commits) \in Nat
        /\ Len(commits') = Len(commits) + 1
        /\ \A k \in 1 .. Len(commits) : commits'[k] = commits[k]
        /\ commits'[Len(commits) + 1] = version'
    BY <1>3 DEF StoreInv, StoreTypes
  <2>2. StoreTypes'
    <3>1. saved \in 0 .. Len(commits') /\ excused \in 0 .. saved /\ stateError \in BOOLEAN
      BY <2>1 DEF StoreInv, StoreTypes
    <3>2. /\ DOMAIN stateFlush = StateFlushes
          /\ \A f \in StateFlushes : /\ stateFlush[f].upto \in 0 .. Len(commits')
                                     /\ DOMAIN stateFlush[f] = {"stage", "upto"}
      BY <2>1 DEF StoreInv, StoreTypes
    <3>3. promised # NoFile => promised \in Nat
      BY DEF StoreInv, StoreTypes
    <3>4. QED BY <1>1, <2>1, <3>1, <3>2, <3>3 DEF StoreTypes
  <2>3. \A k \in 1 .. Len(commits') : commits'[k] <= version'
    <3> SUFFICES ASSUME NEW k \in 1 .. Len(commits')
                 PROVE  commits'[k] <= version'
      OBVIOUS
    <3>1. CASE k \in 1 .. Len(commits)
      <4>1. commits[k] <= version /\ commits[k] \in Nat /\ version \in Nat
        BY <3>1 DEF StoreInv, StoreTypes, CommitsOrdered
      <4>2. QED BY <3>1, <4>1, <2>1
    <3>2. CASE k = Len(commits) + 1
      BY <3>2, <2>1
    <3>3. QED BY <3>1, <3>2, <2>1
  <2>4. CommitsOrdered'
    <3> SUFFICES ASSUME NEW j \in 1 .. Len(commits'), NEW k \in 1 .. Len(commits'), j <= k
                 PROVE  commits'[j] <= commits'[k]
      BY <2>3 DEF CommitsOrdered
    <3>1. CASE k \in 1 .. Len(commits)
      <4>1. j \in 1 .. Len(commits)
        BY <3>1, <2>1
      <4>2. commits[j] <= commits[k]
        BY <3>1, <4>1 DEF StoreInv, CommitsOrdered
      <4>3. QED BY <3>1, <4>1, <4>2, <2>1
    <3>2. CASE k = Len(commits) + 1
      BY <3>2, <2>1, <2>3
    <3>3. QED BY <3>1, <3>2, <2>1
  <2>5. TemporaryIsNext'
    <3>1. temporary # NoFile => saved + 1 \in 1 .. Len(commits) /\ temporary = commits[saved + 1]
      BY DEF StoreInv, StoreTypes, TemporaryIsNext
    <3>2. saved \in Nat
      BY DEF StoreInv, StoreTypes
    <3>3. QED BY <1>1, <2>1, <3>1, <3>2 DEF TemporaryIsNext
  <2>6. StoredIsBehind'
    <3> SUFFICES ASSUME stored # NoFile
                 PROVE  /\ stored \in Nat /\ stored <= version'
                        /\ \A k \in 1 .. Len(commits') : k > saved => stored <= commits'[k]
      BY <1>1 DEF StoredIsBehind
    <3>1. stored \in Nat /\ stored <= version /\ version \in Nat
      BY DEF StoreInv, StoreTypes, StoredIsBehind
    <3>2. stored <= version'
      BY <3>1
    <3>3. ASSUME NEW k \in 1 .. Len(commits'), k > saved
          PROVE  stored <= commits'[k]
      <4>1. CASE k \in 1 .. Len(commits)
        BY <3>3, <4>1, <2>1 DEF StoreInv, StoredIsBehind
      <4>2. CASE k = Len(commits) + 1
        BY <4>2, <2>1, <3>2
      <4>3. QED BY <4>1, <4>2, <2>1
    <3>4. QED BY <3>1, <3>2, <3>3
  <2>7. StoredIsLast'
    <3>1. saved > excused => saved \in 1 .. Len(commits)
      BY DEF StoreInv, StoreTypes
    <3>2. QED BY <1>1, <2>1, <3>1 DEF StoreInv, StoredIsLast
  <2>8. PromisedStateIsStored'
    BY <1>1 DEF StoreInv, PromisedStateIsStored
  <2>9. QED BY <2>2, <2>4, <2>5, <2>6, <2>7, <2>8 DEF StoreInv
<1>4. QED BY <1>2, <1>3 DEF Commit

(* A temporary file is written.                                            *)
LEMMA WriteKeepsStore ==
  ASSUME StoreInv, SetWrites, UNCHANGED <<version, promised>>
  PROVE  StoreInv'
BY DEF SetWrites, StoreInv, StoreTypes, CommitsOrdered, TemporaryIsNext, StoredIsBehind,
       StoredIsLast, PromisedStateIsStored

(* The rename stores the next snapshot, which is no older.                 *)
LEMMA RenameStores ==
  ASSUME StoreInv, SetRenames, UNCHANGED <<version, promised>>
  PROVE  StoreInv' /\ (stored # NoFile => stored' # NoFile /\ stored' >= stored)
<1>1. /\ temporary # NoFile
      /\ stored' = temporary
      /\ temporary' = NoFile
      /\ saved' = saved + 1
      /\ UNCHANGED <<commits, stateError, stateFlush, excused, version, promised>>
  BY DEF SetRenames
<1>2. saved \in Nat /\ saved + 1 \in 1 .. Len(commits) /\ stored' = commits[saved + 1]
  BY <1>1 DEF StoreInv, StoreTypes, TemporaryIsNext
<1>3. stored' \in Nat /\ stored' # NoFile /\ stored' <= version
  BY <1>2, CommitsAssumption DEF StoreInv, StoreTypes, CommitsOrdered
<1>4. stored # NoFile => stored' # NoFile /\ stored' >= stored
  BY <1>2, <1>3 DEF StoreInv, StoredIsBehind
<1>5. StoreTypes'
  BY <1>1, <1>2 DEF StoreInv, StoreTypes
<1>6. StoredIsBehind'
  BY <1>1, <1>2, <1>3 DEF StoreInv, StoreTypes, StoredIsBehind, CommitsOrdered
<1>7. StoredIsLast'
  BY <1>1, <1>2, <1>3 DEF StoredIsLast
<1>8. PromisedStateIsStored'
  <2>1. promised # NoFile => /\ stored # NoFile /\ stored >= promised
                             /\ stored \in Nat /\ promised \in Nat
    BY DEF StoreInv, StoreTypes, PromisedStateIsStored, StoredIsBehind
  <2>2. QED BY <1>1, <1>3, <1>4, <2>1 DEF PromisedStateIsStored
<1>9. CommitsOrdered' /\ TemporaryIsNext'
  BY <1>1 DEF StoreInv, CommitsOrdered, TemporaryIsNext
<1>10. QED BY <1>4, <1>5, <1>6, <1>7, <1>8, <1>9 DEF StoreInv

(* A set that fails keeps what was stored, and an error.                   *)
LEMMA FailKeepsStore ==
  ASSUME StoreInv, SetFails, UNCHANGED <<version, promised>>
  PROVE  StoreInv'
<1>1. /\ saved \in Nat /\ saved + 1 \in 1 .. Len(commits)
      /\ temporary' = NoFile
      /\ saved' = saved + 1
      /\ stateError' = TRUE
      /\ UNCHANGED <<commits, stored, stateFlush, excused, version, promised>>
  BY DEF SetFails, StoreInv, StoreTypes
<1>2. StoreTypes'
  BY <1>1 DEF StoreInv, StoreTypes
<1>3. StoredIsBehind'
  BY <1>1 DEF StoreInv, StoreTypes, StoredIsBehind
<1>4. CommitsOrdered' /\ TemporaryIsNext' /\ StoredIsLast' /\ PromisedStateIsStored'
  BY <1>1 DEF StoreInv, CommitsOrdered, TemporaryIsNext, StoredIsLast, PromisedStateIsStored
<1>5. QED BY <1>2, <1>3, <1>4 DEF StoreInv

(* A flush is called.                                                      *)
LEMMA FlushStateCallKeepsStore ==
  ASSUME StoreInv, NEW f \in StateFlushes, FlushStateCalled(f), UNCHANGED <<version, promised>>
  PROVE  StoreInv'
<1>1. /\ stateFlush' = [stateFlush EXCEPT ![f] = [stage |-> "chain", upto |-> Len(commits)]]
      /\ UNCHANGED <<commits, saved, temporary, stored, stateError, excused, version, promised>>
  BY DEF FlushStateCalled
<1>2. /\ DOMAIN stateFlush' = StateFlushes
      /\ \A g \in StateFlushes \ {f} : stateFlush'[g] = stateFlush[g]
      /\ stateFlush'[f].upto = Len(commits)
      /\ DOMAIN stateFlush'[f] = {"stage", "upto"}
  BY <1>1 DEF StoreInv, StoreTypes
<1>3. Len(commits) \in 0 .. Len(commits)
  BY DEF StoreInv, StoreTypes
<1>4. StoreTypes'
  BY <1>1, <1>2, <1>3 DEF StoreInv, StoreTypes
<1>5. QED BY <1>1, <1>4 DEF StoreInv, CommitsOrdered, TemporaryIsNext, StoredIsBehind,
                            StoredIsLast, PromisedStateIsStored

(* A flush ends: what it vouches for is stored.                            *)
LEMMA FlushStateEndKeepsStore ==
  ASSUME StoreInv, NEW f \in StateFlushes, FlushStateEnds(f), RecordPromise, version' = version
  PROVE  StoreInv'
<1> DEFINE n       == stateFlush[f].upto
           vouched == {stateFlush[g].upto : g \in
                         {h \in StateFlushes : /\ stateFlush[h].stage = "chain"
                                               /\ stateFlush'[h].stage = "resolved"}}
<1>1. /\ n \in 0 .. saved
      /\ stateFlush[f].stage = "chain"
      /\ stateFlush' = [stateFlush EXCEPT ![f].stage = IF stateError THEN "rejected" ELSE "resolved"]
      /\ stateError' = FALSE
      /\ excused' = (IF stateError THEN saved ELSE excused)
      /\ UNCHANGED <<commits, saved, temporary, stored, version>>
  BY DEF FlushStateEnds, StoreInv, StoreTypes
<1>2. /\ DOMAIN stateFlush' = StateFlushes
      /\ \A g \in StateFlushes \ {f} : stateFlush'[g] = stateFlush[g]
      /\ stateFlush'[f].upto = n
      /\ stateFlush'[f].stage = IF stateError THEN "rejected" ELSE "resolved"
      /\ DOMAIN stateFlush'[f] = {"stage", "upto"}
  BY <1>1 DEF StoreInv, StoreTypes
<1>3. CommitsOrdered' /\ TemporaryIsNext' /\ StoredIsBehind'
  BY <1>1 DEF StoreInv, CommitsOrdered, TemporaryIsNext, StoredIsBehind
<1>4. StoredIsLast'
  BY <1>1 DEF StoreInv, StoreTypes, StoredIsLast
<1>5. vouched = IF stateError THEN {} ELSE {n}
  <2> DEFINE Resolves(h) == stateFlush[h].stage = "chain" /\ stateFlush'[h].stage = "resolved"
  <2>1. \A h \in StateFlushes \ {f} : ~Resolves(h)
    BY <1>2
  <2>2. Resolves(f) <=> ~stateError
    BY <1>1, <1>2
  <2>3. vouched = {stateFlush[g].upto : g \in {h \in StateFlushes : Resolves(h)}}
    OBVIOUS
  <2> HIDE DEF Resolves, vouched
  <2>4. {h \in StateFlushes : Resolves(h)} = IF stateError THEN {} ELSE {f}
    BY <2>1, <2>2
  <2>5. QED BY <2>3, <2>4
<1> HIDE DEF n
<1>6. promised' = promised \/ (~stateError /\ n > excused /\ promised' = commits[n])
  <2>1. CASE stateError
    BY <1>5, <2>1 DEF RecordPromise
  <2>2. CASE ~stateError
    <3>1. vouched = {n}
      BY <1>5, <2>2
    <3>2. (CHOOSE m \in vouched : TRUE) = n
      BY <3>1
    <3>3. promised' = IF \E m \in vouched : m > excused /\ (promised = NoFile \/ commits[m] > promised)
                      THEN commits[CHOOSE m \in vouched : TRUE]
                      ELSE promised
      BY DEF RecordPromise
    <3> HIDE DEF vouched
    <3>4. QED BY <2>2, <3>1, <3>2, <3>3
  <2>3. QED BY <2>1, <2>2
<1>7. StoreTypes'
  <2>1. \A g \in StateFlushes : /\ stateFlush'[g].upto \in 0 .. Len(commits)
                                /\ DOMAIN stateFlush'[g] = {"stage", "upto"}
    <3>1. \A g \in StateFlushes : /\ stateFlush[g].upto \in 0 .. Len(commits)
                                  /\ DOMAIN stateFlush[g] = {"stage", "upto"}
      BY DEF StoreInv, StoreTypes
    <3>2. stateFlush'[f].upto = stateFlush[f].upto
      BY <1>2 DEF n
    <3>3. QED BY <1>2, <3>1, <3>2
  <2>2. excused' \in 0 .. saved
    BY <1>1 DEF StoreInv, StoreTypes
  <2>3. promised' # NoFile => promised' \in Nat
    <3>1. ~stateError /\ n > excused => n \in 1 .. Len(commits)
      BY <1>1 DEF StoreInv, StoreTypes
    <3>2. QED BY <1>6, <3>1 DEF StoreInv, StoreTypes
  <2>4. QED BY <1>1, <1>2, <2>1, <2>2, <2>3 DEF StoreInv, StoreTypes
<1>8. PromisedStateIsStored'
  <2>1. CASE promised' = promised
    BY <1>1, <2>1 DEF StoreInv, PromisedStateIsStored
  <2>2. CASE ~stateError /\ n > excused /\ promised' = commits[n]
    <3>1. /\ n \in 1 .. Len(commits) /\ saved \in 1 .. Len(commits)
          /\ n <= saved /\ saved > excused
      BY <1>1, <2>2 DEF StoreInv, StoreTypes
    <3>2. stored # NoFile /\ stored >= commits[saved] /\ stored \in Nat
      BY <2>2, <3>1 DEF StoreInv, StoredIsLast, StoredIsBehind
    <3>3. commits[n] <= commits[saved] /\ commits[n] \in Nat /\ commits[saved] \in Nat
      <4>1. commits[n] <= commits[saved]
        BY <3>1 DEF StoreInv, CommitsOrdered
      <4>2. commits[n] \in Nat /\ commits[saved] \in Nat
        BY <3>1 DEF StoreInv, StoreTypes
      <4>3. QED BY <4>1, <4>2
    <3>4. QED BY <1>1, <2>2, <3>2, <3>3 DEF PromisedStateIsStored
  <2>3. QED BY <1>6, <2>1, <2>2
<1>9. QED BY <1>3, <1>4, <1>7, <1>8 DEF StoreInv

(* Every step of the store's side.                                         *)
LEMMA StoreKept ==
  ASSUME StoreInv, CommitsStep, RecordPromise, version' = version
  PROVE  StoreInv' /\ (stored # NoFile => stored' # NoFile /\ stored' >= stored)
<1>1. stored # NoFile => stored >= stored
  BY DEF StoreInv, StoredIsBehind
<1>2. ASSUME stateFlush' = stateFlush
      PROVE  promised' = promised
  <2>1. {stateFlush[f].upto : f \in {g \in StateFlushes : /\ stateFlush[g].stage = "chain"
                                                         /\ stateFlush'[g].stage = "resolved"}} = {}
    BY <1>2
  <2>2. QED BY <2>1 DEF RecordPromise
<1>3. CASE SetWrites
  BY <1>1, <1>2, <1>3, WriteKeepsStore DEF SetWrites
<1>4. CASE SetRenames
  BY <1>2, <1>4, RenameStores DEF SetRenames
<1>5. CASE SetFails
  BY <1>1, <1>2, <1>5, FailKeepsStore DEF SetFails
<1>6. ASSUME NEW f \in StateFlushes, FlushStateCalled(f)
      PROVE  StoreInv' /\ stored' = stored
  <2>1. /\ stateFlush[f].stage = "idle"
        /\ stateFlush' = [stateFlush EXCEPT ![f] = [stage |-> "chain", upto |-> Len(commits)]]
        /\ stored' = stored
    BY <1>6 DEF FlushStateCalled
  <2>2. \A g \in StateFlushes : ~(stateFlush[g].stage = "chain" /\ stateFlush'[g].stage = "resolved")
    <3>1. stateFlush'[f].stage = "chain" /\ \A g \in StateFlushes \ {f} : stateFlush'[g] = stateFlush[g]
      BY <2>1 DEF StoreInv, StoreTypes
    <3>2. QED BY <3>1
  <2>3. {stateFlush[h].upto : h \in {g \in StateFlushes : /\ stateFlush[g].stage = "chain"
                                                         /\ stateFlush'[g].stage = "resolved"}} = {}
    BY <2>2
  <2>4. promised' = promised
    BY <2>3 DEF RecordPromise
  <2>5. QED BY <1>6, <2>1, <2>4, FlushStateCallKeepsStore
<1>7. ASSUME NEW f \in StateFlushes, FlushStateEnds(f)
      PROVE  StoreInv' /\ stored' = stored
  BY <1>7, FlushStateEndKeepsStore DEF FlushStateEnds
<1>8. QED BY <1>1, <1>3, <1>4, <1>5, <1>6, <1>7 DEF CommitsStep

(***************************************************************************)
(* The engine                                                              *)
(***************************************************************************)

Inv == host \in Hosts /\ LogInv /\ DeliveryInv /\ StoreInv

(* A process, the first one or one behind a crash, starts with nothing     *)
(* emitted and nothing committed.                                          *)
Fresh ==
  /\ DeliveryInit
  /\ FreshCommits
  /\ host \in Hosts

(* Such a process is in the invariant.                                     *)
LEMMA Starts == Fresh => Inv
BY DeliveryStarts, LogStarts, StoreStarts DEF Fresh, DeliveryInit, Inv

(* So it is after the step that makes it one.                              *)
LEMMA Restarts == Fresh' => Inv'
BY Starts, PTL

(* An evaluation, whichever way it ends.                                   *)
LEMMA EvaluationKeeps ==
  ASSUME Inv, NEW kind \in host.kinds, Evaluates(kind)
  PROVE  /\ host' \in Hosts /\ LogInv' /\ DeliveryInv'
         /\ version' \in Nat /\ version' >= version
<1>1. kind \in Kinds /\ host.instants \subseteq Nat
  BY PersistenceAssumption DEF Inv, Kinds
<1>2. PICK t \in host.instants : Emit(WithCheckpoint(kind, t))
  BY DEF Evaluates
<1>3. WithCheckpoint(kind, t) \in Seq(Happening)
  BY <1>1, CheckpointsHappen
<1>4. LogInv' /\ Len(emitted') \in Nat /\ Len(emitted') >= Len(emitted)
  BY <1>2, <1>3, EmitLogs DEF Inv
<1>5. DeliveryInv'
  BY <1>2, <1>4, EmitDelivers DEF Inv
<1>6. version' \in Nat /\ version' >= version
  BY VersionsGrow DEF Evaluates, Inv
<1>7. host' \in Hosts
  BY DEF Evaluates, Inv
<1>8. QED BY <1>4, <1>5, <1>6, <1>7

(* A crash leaves the file, and an engine that starts from it.             *)
LEMMA CrashKeeps ==
  ASSUME Inv, Crash
  PROVE  Inv' /\ stored' = stored
<1>1. DeliveryInit'
  BY DEF Crash, DeliveryInit, Inv, DeliveryInv, DeliveryTypes
<1>2. FreshCommits'
  BY DEF Crash, FreshCommits, Inv, StoreInv, StoreTypes, StoredIsBehind, PromisedStateIsStored
<1>3. host' \in Hosts /\ stored' = stored
  BY DEF Crash, Inv
<1>4. QED BY <1>1, <1>2, <1>3, Restarts DEF Fresh

(* Every step keeps the invariant, and what is stored.                     *)
LEMMA Kept ==
  ASSUME Inv, [Next]_vars
  PROVE  Inv' /\ (stored # NoFile => stored' # NoFile /\ stored' >= stored)
<1>1. stored # NoFile => stored >= stored
  BY DEF Inv, StoreInv, StoredIsBehind
<1>2. ASSUME NEW kind \in host.kinds, Evaluate(kind)
      PROVE  Inv' /\ stored' = stored
  <2>1. Commit(version') /\ promised' = promised /\ stored' = stored
    BY <1>2 DEF Evaluate, Evaluates, Commit
  <2>2. QED BY <1>2, <2>1, EvaluationKeeps, CommitKeepsStore DEF Evaluate, Inv
<1>3. ASSUME NEW kind \in host.kinds, EvaluateThrows(kind)
      PROVE  Inv' /\ stored' = stored
  <2>1. UNCHANGED <<commitVars, promised>> /\ stored' = stored
    BY <1>3 DEF EvaluateThrows, Evaluates, commitVars
  <2>2. QED BY <1>3, <2>1, EvaluationKeeps, ThrowKeepsStore DEF EvaluateThrows, Inv
<1>4. CASE DeliveryStep /\ UNCHANGED <<commitVars, host, version, evaluations, crashes, promised>>
  <2>1. DeliveryInv'
    BY <1>4, DeliveryKept DEF Inv
  <2>2. StoreInv' /\ stored' = stored
    <3>1. version \in Nat /\ version >= version
      BY DEF Inv, StoreInv, StoreTypes
    <3>2. stored' = stored
      BY <1>4 DEF commitVars
    <3>3. QED BY <1>4, <3>1, <3>2, ThrowKeepsStore DEF Inv
  <2>3. LogInv'
    <3>1. CASE DrainLog
      BY <3>1, DrainLogs DEF Inv
    <3>2. CASE UNCHANGED <<log, emitted>>
      BY <3>2 DEF Inv, LogInv
    <3>3. DrainLog \/ UNCHANGED <<log, emitted>>
      BY <1>4 DEF DeliveryStep, AppendLands, AppendFails, FlushCalled, ChainAwaited, QueueAwaited, FlushEnds
    <3>4. QED BY <3>1, <3>2, <3>3
  <2>4. QED BY <1>1, <1>4, <2>1, <2>2, <2>3 DEF Inv
<1>5. CASE CommitsStep /\ RecordPromise /\ UNCHANGED <<deliveryVars, host, version, evaluations, crashes>>
  <2>1. StoreInv' /\ (stored # NoFile => stored' # NoFile /\ stored' >= stored)
    BY <1>5, StoreKept DEF Inv
  <2>2. LogInv' /\ DeliveryInv'
    BY <1>5 DEF deliveryVars, Inv, LogInv, DeliveryInv, DeliveryTypes, SinkKeepsOrder, NothingMissing,
                ErrorsAreKept, FlushIsHonest, Failed, Poisoned
  <2>3. QED BY <1>5, <2>1, <2>2 DEF Inv
<1>6. CASE Crash
  BY <1>1, <1>6, CrashKeeps
<1>7. CASE UNCHANGED vars
  <2>1. UNCHANGED <<deliveryVars, commitVars, host, version, promised, stored>>
    BY <1>7 DEF vars, commitVars
  <2>2. LogInv' /\ DeliveryInv'
    BY <2>1 DEF deliveryVars, Inv, LogInv, DeliveryInv, DeliveryTypes, SinkKeepsOrder, NothingMissing,
                ErrorsAreKept, FlushIsHonest, Failed, Poisoned
  <2>3. StoreInv'
    <3>1. version \in Nat /\ version >= version
      BY DEF Inv, StoreInv, StoreTypes
    <3>2. QED BY <2>1, <3>1, ThrowKeepsStore DEF Inv
  <2>4. QED BY <1>1, <2>1, <2>2, <2>3 DEF Inv
<1>8. QED BY <1>1, <1>2, <1>3, <1>4, <1>5, <1>6, <1>7 DEF Next

(* The invariant holds in every behaviour.                                 *)
LEMMA InvHolds == Spec => []Inv
<1>1. Init => Inv
  <2>1. Init => FreshCommits
    BY DEF Init, CommitsInit, FreshCommits
  <2>2. QED BY <2>1, Starts DEF Init, Fresh
<1>2. Inv /\ [Next]_vars => Inv'
  BY Kept
<1>3. QED BY <1>1, <1>2, PTL DEF Spec

(* In every behaviour, for any hosts, flushes and bounds, the sink holds   *)
(* what it has received in the order of emission (emitAudit's chain,       *)
(* FileAuditSink.queue).                                                   *)
THEOREM SinkIsInOrder == Spec => []SinkKeepsOrder
<1>1. Inv => SinkKeepsOrder
  BY DEF Inv, DeliveryInv
<1>2. QED BY <1>1, InvHolds, PTL

(* The head of the log commits to everything emitted, whatever is drained  *)
(* (HashChainedLog).                                                       *)
THEOREM HeadIsHistory == Spec => []HeadCommitsToHistory
<1>1. Inv => HeadCommitsToHistory
  BY LogCommits DEF Inv
<1>2. QED BY <1>1, InvHolds, PTL

(* Whatever was decided, drained and written, and whenever: strict audit   *)
(* verification and replay say the same of the events of an engine, and of *)
(* what a drain has left: they fail only if the caller's timestamps went   *)
(* back, and are left open only if there is no checkpoint.                 *)
THEOREM VerdictsAgree == Spec => []VerifiersAgree
<1>1. Inv => VerifiersAgree
  BY LogIsAgreedOn DEF Inv
<1>2. QED BY <1>1, InvHolds, PTL

(* A call of flushAudit that resolves has its events in the sink, or their *)
(* loss was thrown to another one (flushAudit, FileAuditSink.flush).       *)
THEOREM FlushHonours == Spec => []FlushIsHonest
<1>1. Inv => FlushIsHonest
  BY DEF Inv, DeliveryInv
<1>2. QED BY <1>1, InvHolds, PTL

(* What flushState vouched for is in the file after any crash              *)
(* (flushState, FileStateStore.set).                                       *)
THEOREM PromisesSurvive == Spec => []PromisedStateIsStored
<1>1. Inv => PromisedStateIsStored
  BY DEF Inv, StoreInv
<1>2. QED BY <1>1, InvHolds, PTL

(* No step takes the state file back to an earlier state                   *)
(* (stateStoreChain, FileStateStore.set).                                  *)
THEOREM StoredMovesForward == Spec => StoredNeverGoesBack
<1>1. Inv /\ [Next]_vars => [stored # NoFile => stored' # NoFile /\ stored' >= stored]_vars
  BY Kept
<1>2. QED BY <1>1, InvHolds, PTL DEF Spec, StoredNeverGoesBack
=============================================================================
