--------------------------- MODULE SequenceLemmas ---------------------------
(***************************************************************************)
(* What the proofs about queues, logs and selections have in common:       *)
(* sequences that grow at one end and are emptied at the other, and finite *)
(* sets written out in order.                                              *)
(***************************************************************************)
EXTENDS Listings, Sequences, SequenceTheorems, FiniteSetTheorems, TLAPS

(* What is appended to the second half is appended to the whole.           *)
LEMMA AppendLast ==
    ASSUME NEW S, NEW p \in Seq(S), NEW q \in Seq(S), NEW b \in S
    PROVE  p \o Append(q, b) = Append(p \o q, b)
  <1> DEFINE left == p \o Append(q, b)
             right == Append(p \o q, b)
  <1>1. /\ left \in Seq(S) /\ right \in Seq(S)
        /\ Len(left) = Len(p) + Len(q) + 1 /\ Len(right) = Len(p) + Len(q) + 1
    OBVIOUS
  <1>2. ASSUME NEW i \in 1..(Len(p) + Len(q) + 1)
        PROVE  left[i] = right[i]
    OBVIOUS
  <1> HIDE DEF left, right
  <1>3. left = right
    BY <1>1, <1>2, SeqEqual
  <1>4. QED
    BY <1>3 DEF left, right

(* The head of a queue may be moved to the log in front of it.             *)
LEMMA HeadMoved ==
    ASSUME NEW S, NEW p \in Seq(S), NEW q \in Seq(S), q # <<>>
    PROVE  Append(p, Head(q)) \o Tail(q) = p \o q
  <1> DEFINE left == Append(p, Head(q)) \o Tail(q)
             right == p \o q
  <1>1. /\ left \in Seq(S) /\ right \in Seq(S)
        /\ Len(left) = Len(p) + Len(q) /\ Len(right) = Len(p) + Len(q)
    OBVIOUS
  <1>2. ASSUME NEW i \in 1..(Len(p) + Len(q))
        PROVE  left[i] = right[i]
    OBVIOUS
  <1> HIDE DEF left, right
  <1>3. left = right
    BY <1>1, <1>2, SeqEqual
  <1>4. QED
    BY <1>3 DEF left, right

-----------------------------------------------------------------------------
(* A strict total order on S.                                              *)
Orders(before, S) ==
    /\ \A x \in S : <<x, x>> \notin before
    /\ \A x, y, z \in S : <<x, y>> \in before /\ <<y, z>> \in before => <<x, z>> \in before
    /\ \A x, y \in S : x # y => <<x, y>> \in before \/ <<y, x>> \in before

(* Listed has every member once, in the order given.                       *)
LEMMA ListedOnce ==
    ASSUME NEW S, NEW before, IsFiniteSet(S), Orders(before, S)
    PROVE  /\ Cardinality(S) \in Nat
           /\ Listed(S, before) \in Bijection(1..Cardinality(S), S)
           /\ \A j, k \in 1..Cardinality(S) :
                j < k => <<Listed(S, before)[j], Listed(S, before)[k]>> \in before
  <1> DEFINE n == Cardinality(S)
             below(x) == {y \in S : <<y, x>> \in before}
             rank == [x \in S |-> Cardinality(below(x)) + 1]
  <1>1. n \in Nat
    BY FS_CardinalityType
  <1>2. ASSUME NEW x \in S
        PROVE  /\ IsFiniteSet(below(x)) /\ Cardinality(below(x)) \in Nat
               /\ Cardinality(below(x)) < n
    <2>1. IsFiniteSet(below(x)) /\ Cardinality(below(x)) \in Nat
      BY FS_Subset, FS_CardinalityType
    <2>2. below(x) \in SUBSET S /\ below(x) # S
      BY DEF Orders
    <2> HIDE DEF below
    <2>3. Cardinality(below(x)) <= n /\ Cardinality(below(x)) # n
      BY <2>2, FS_Subset
    <2>4. QED
      BY <1>1, <2>1, <2>3
  <1>3. ASSUME NEW x \in S, NEW y \in S, <<x, y>> \in before
        PROVE  rank[x] < rank[y]
    <2>1. below(x) \in SUBSET below(y) /\ below(x) # below(y)
      BY <1>3 DEF Orders
    <2>2. rank[x] = Cardinality(below(x)) + 1 /\ rank[y] = Cardinality(below(y)) + 1
      OBVIOUS
    <2> HIDE DEF below, rank
    <2>3. /\ Cardinality(below(x)) <= Cardinality(below(y))
          /\ Cardinality(below(x)) # Cardinality(below(y))
      BY <1>2, <2>1, FS_Subset
    <2>4. QED
      BY <1>2, <2>2, <2>3
  <1>4. rank \in [S -> 1..n]
    BY <1>1, <1>2
  <1>5. \A x, y \in S : rank[x] = rank[y] => x = y
    <2>1. SUFFICES ASSUME NEW x \in S, NEW y \in S, rank[x] = rank[y], x # y PROVE FALSE
      OBVIOUS
    <2>2. <<x, y>> \in before \/ <<y, x>> \in before
      BY <2>1 DEF Orders
    <2>3. rank[x] \in 1..n /\ rank[y] \in 1..n
      BY <1>4
    <2>4. QED
      BY <1>1, <1>3, <2>1, <2>2, <2>3
  <1>6. rank \in Injection(S, 1..n)
    BY <1>4, <1>5 DEF Injection, IsInjective
  <1>7. rank \in Surjection(S, 1..n)
    <2>1. IsFiniteSet(1..n) /\ Cardinality(1..n) = n
      BY <1>1, FS_Interval
    <2>2. QED
      BY <1>6, <2>1, FS_Injection
  <1>8. \A k \in 1..n : \E x \in S : rank[x] = k
    BY <1>7 DEF Surjection
  <1> DEFINE f == Listed(S, before)
  <1>9. f = [k \in 1..n |-> CHOOSE x \in S : Cardinality(below(x)) = k - 1]
    BY DEF Listed
  <1>10. ASSUME NEW k \in 1..n PROVE f[k] \in S /\ rank[f[k]] = k
    <2>1. PICK x \in S : rank[x] = k
      BY <1>8
    <2>2. Cardinality(below(x)) = k - 1
      <3> HIDE DEF below
      <3>1. rank[x] = Cardinality(below(x)) + 1
        OBVIOUS
      <3>2. QED
        BY <1>1, <1>2, <2>1, <3>1
    <2>3. f[k] = CHOOSE y \in S : Cardinality(below(y)) = k - 1
      BY <1>9
    <2> HIDE DEF f, below
    <2>4. f[k] \in S /\ Cardinality(below(f[k])) = k - 1
      BY <2>2, <2>3
    <2>5. QED
      BY <1>1, <2>4
  <1> HIDE DEF f, rank
  <1>11. f \in [1..n -> S]
    BY <1>9, <1>10
  <1>12. \A j, k \in 1..n : f[j] = f[k] => j = k
    BY <1>10
  <1>13. \A x \in S : \E k \in 1..n : f[k] = x
    <2>1. SUFFICES ASSUME NEW x \in S PROVE \E k \in 1..n : f[k] = x
      OBVIOUS
    <2>2. rank[x] \in 1..n
      BY <1>4
    <2>3. f[rank[x]] = x
      BY <1>5, <1>10, <2>2
    <2>4. QED
      BY <2>2, <2>3
  <1>14. f \in Bijection(1..n, S)
    BY <1>11, <1>12, <1>13 DEF Bijection, Injection, Surjection, IsInjective
  <1>15. \A j, k \in 1..n : j < k => <<f[j], f[k]>> \in before
    <2>1. SUFFICES ASSUME NEW j \in 1..n, NEW k \in 1..n, j < k, <<f[j], f[k]>> \notin before
                   PROVE  FALSE
      OBVIOUS
    <2>2. f[j] \in S /\ f[k] \in S /\ f[j] # f[k]
      BY <1>11, <1>12, <2>1
    <2>3. <<f[k], f[j]>> \in before
      BY <2>1, <2>2 DEF Orders
    <2>4. rank[f[k]] < rank[f[j]]
      BY <1>3, <2>2, <2>3
    <2>5. QED
      BY <1>1, <1>10, <2>1, <2>4
  <1>16. QED
    BY <1>1, <1>14, <1>15 DEF f

(* A selection from a sequence: some places of it, in its order.           *)
LEMMA PickedPlaces ==
    ASSUME NEW T, NEW seq \in Seq(T), NEW places, places \subseteq DOMAIN seq
    PROVE  /\ IsFiniteSet(places) /\ Cardinality(places) \in Nat
           /\ Picked(seq, places) \in Seq(T)
           /\ Len(Picked(seq, places)) = Cardinality(places)
           /\ \E at \in Bijection(1..Cardinality(places), places) :
                /\ \A j, k \in 1..Cardinality(places) : j < k => at[j] < at[k]
                /\ \A k \in 1..Cardinality(places) : Picked(seq, places)[k] = seq[at[k]]
  <1> DEFINE before == {p \in places \X places : p[1] < p[2]}
             at == Listed(places, before)
             n == Cardinality(places)
  <1>1. IsFiniteSet(places)
    <2>1. DOMAIN seq = 1..Len(seq) /\ Len(seq) \in Nat
      OBVIOUS
    <2>2. IsFiniteSet(1..Len(seq))
      BY <2>1, FS_Interval
    <2>3. places \in SUBSET (1..Len(seq))
      BY <2>1
    <2>4. QED
      BY <2>2, <2>3, FS_Subset
  <1>2. places \subseteq Nat
    OBVIOUS
  <1>3. Orders(before, places)
    BY <1>2 DEF Orders
  <1>4. /\ n \in Nat /\ at \in Bijection(1..n, places)
        /\ \A j, k \in 1..n : j < k => <<at[j], at[k]>> \in before
    <2> HIDE DEF before
    <2>1. QED
      BY <1>1, <1>3, ListedOnce
  <1>5. at \in [1..n -> places]
    BY <1>4 DEF Bijection, Injection
  <1>6. \A j, k \in 1..n : j < k => at[j] < at[k]
    BY <1>4
  <1> DEFINE picked == Picked(seq, places)
  <1>7. picked = [k \in 1..n |-> seq[at[k]]]
    <2>1. DOMAIN at = 1..n
      BY <1>5
    <2>2. QED
      BY <2>1 DEF Picked
  <1> HIDE DEF at, picked, n
  <1>8. picked \in Seq(T) /\ Len(picked) = n
    <2>1. \A k \in 1..n : seq[at[k]] \in T
      BY <1>5
    <2>2. QED
      BY <1>4, <1>7, <2>1
  <1>9. \A k \in 1..n : picked[k] = seq[at[k]]
    BY <1>7
  <1>10. QED
    BY <1>1, <1>4, <1>6, <1>8, <1>9 DEF picked, n

(* g lists the places 1..n in order.                                       *)
Climbs(g, n) == \A j, k \in 1..n : j < k => g[j] < g[k]

(* There is one way only to list places in order.                          *)
LEMMA PickedIs ==
    ASSUME NEW T, NEW seq \in Seq(T), NEW places, places \subseteq DOMAIN seq,
           NEW n \in Nat, NEW g \in Bijection(1..n, places), Climbs(g, n)
    PROVE  Picked(seq, places) = [k \in 1..n |-> seq[g[k]]]
  <1> DEFINE before == {p \in places \X places : p[1] < p[2]}
             below(x) == {y \in places : <<y, x>> \in before}
             at == Listed(places, before)
  <1>1. /\ g \in [1..n -> places]
        /\ \A j, k \in 1..n : g[j] = g[k] => j = k
        /\ \A x \in places : \E k \in 1..n : g[k] = x
        /\ \A j, k \in 1..n : j < k => g[j] < g[k]
    BY DEF Bijection, Injection, Surjection, IsInjective, Climbs
  <1>2. places \subseteq Nat
    OBVIOUS
  <1>3. Cardinality(places) = n
    BY FS_CountingElements DEF ExistsBijection
  <1>4. ASSUME NEW k \in 1..n PROVE Cardinality(below(g[k])) = k - 1
    <2> DEFINE f == [j \in 1..(k - 1) |-> g[j]]
    <2>1. \A y \in places : y \in below(g[k]) <=> y < g[k]
      BY <1>1
    <2>2. \A j \in 1..(k - 1) : g[j] \in below(g[k])
      BY <1>1, <2>1
    <2>3. \A y \in below(g[k]) : \E j \in 1..(k - 1) : g[j] = y
      <3>1. SUFFICES ASSUME NEW y \in places, y < g[k] PROVE \E j \in 1..(k - 1) : g[j] = y
        BY <2>1
      <3>2. PICK j \in 1..n : g[j] = y
        BY <1>1
      <3>3. g[j] \in Nat /\ g[k] \in Nat
        BY <1>1, <1>2
      <3>4. ~(k < j) /\ j # k
        BY <1>1, <3>1, <3>2, <3>3
      <3>5. j \in 1..(k - 1)
        BY <3>4
      <3>6. QED
        BY <3>2, <3>5
    <2> HIDE DEF below
    <2>4. f \in [1..(k - 1) -> below(g[k])]
      BY <2>2
    <2>5. f \in Bijection(1..(k - 1), below(g[k]))
      BY <1>1, <2>3, <2>4 DEF Bijection, Injection, Surjection, IsInjective
    <2>6. k - 1 \in Nat
      OBVIOUS
    <2> HIDE DEF f
    <2>7. QED
      BY <2>5, <2>6, FS_CountingElements DEF ExistsBijection
  <1>5. at = [k \in 1..n |-> CHOOSE x \in places : Cardinality(below(x)) = k - 1]
    BY <1>3 DEF Listed
  <1> HIDE DEF below
  <1>6. ASSUME NEW k \in 1..n PROVE at[k] = g[k]
    <2>1. at[k] = CHOOSE x \in places : Cardinality(below(x)) = k - 1
      BY <1>5
    <2>2. g[k] \in places /\ Cardinality(below(g[k])) = k - 1
      BY <1>1, <1>4
    <2> HIDE DEF at
    <2>3. at[k] \in places /\ Cardinality(below(at[k])) = k - 1
      BY <2>1, <2>2
    <2>4. PICK j \in 1..n : g[j] = at[k]
      BY <1>1, <2>3
    <2>5. Cardinality(below(at[k])) = j - 1
      BY <1>4, <2>4
    <2>6. j = k
      BY <2>3, <2>5
    <2>7. QED
      BY <2>4, <2>6
  <1>7. DOMAIN at = 1..n
    BY <1>5
  <1>8. Picked(seq, places) = [k \in 1..n |-> seq[at[k]]]
    BY <1>7 DEF Picked
  <1> HIDE DEF at
  <1>9. QED
    BY <1>6, <1>8

(* What is picked from two sequences is the same when the places           *)
(* correspond, in their order.                                             *)
LEMMA SamePicked ==
    ASSUME NEW T, NEW s \in Seq(T), NEW t \in Seq(T),
           NEW P, P \subseteq DOMAIN s, NEW Q, Q \subseteq DOMAIN t,
           NEW h \in [P -> Q], \A q \in Q : \E p \in P : h[p] = q,
           \A x, y \in P : x < y => h[x] < h[y],
           \A p \in P : t[h[p]] = s[p]
    PROVE  Picked(t, Q) = Picked(s, P)
  <1> DEFINE n == Cardinality(P)
  <1>1. /\ n \in Nat /\ Picked(s, P) \in Seq(T) /\ Len(Picked(s, P)) = n
        /\ \E at \in Bijection(1..n, P) :
              /\ \A j, k \in 1..n : j < k => at[j] < at[k]
              /\ \A k \in 1..n : Picked(s, P)[k] = s[at[k]]
    BY ONLY PickedPlaces, s \in Seq(T), P \subseteq DOMAIN s
  <1>2. PICK at \in Bijection(1..n, P) :
              /\ \A j, k \in 1..n : j < k => at[j] < at[k]
              /\ \A k \in 1..n : Picked(s, P)[k] = s[at[k]]
    BY <1>1
  <1> HIDE DEF n
  <1>3. /\ at \in [1..n -> P]
        /\ \A x \in P : \E k \in 1..n : at[k] = x
    BY DEF Bijection, Injection, Surjection
  <1> DEFINE g == [k \in 1..n |-> h[at[k]]]
  <1>4. /\ g \in [1..n -> Q]
        /\ \A j, k \in 1..n : j < k => g[j] < g[k]
        /\ \A q \in Q : \E k \in 1..n : g[k] = q
    <2>1. g \in [1..n -> Q]
      BY <1>3
    <2>2. \A j, k \in 1..n : j < k => g[j] < g[k]
      BY <1>2, <1>3
    <2>3. ASSUME NEW q \in Q PROVE \E k \in 1..n : g[k] = q
      <3>1. PICK x \in P : h[x] = q
        OBVIOUS
      <3>2. PICK k \in 1..n : at[k] = x
        BY <1>3
      <3>3. QED
        BY <3>1, <3>2
    <2>4. QED
      BY <2>1, <2>2, <2>3
  <1>5. \A k \in 1..n : t[g[k]] = s[at[k]]
    BY <1>3
  <1>6. Q \subseteq Nat
    OBVIOUS
  <1> HIDE DEF g
  <1>7. \A j, k \in 1..n : g[j] = g[k] => j = k
    <2>1. SUFFICES ASSUME NEW j \in 1..n, NEW k \in 1..n, g[j] = g[k], j # k PROVE FALSE
      OBVIOUS
    <2>2. j < k \/ k < j
      BY <1>1, <2>1
    <2>3. g[j] \in Nat /\ g[k] \in Nat
      BY <1>4, <1>6
    <2>4. QED
      BY <1>4, <2>1, <2>2, <2>3
  <1>8. g \in Bijection(1..n, Q)
    BY <1>4, <1>7 DEF Bijection, Injection, Surjection, IsInjective
  <1>9. Picked(t, Q) = [k \in 1..n |-> t[g[k]]]
    <2>1. Climbs(g, n)
      BY <1>4 DEF Climbs
    <2>2. n \in Nat
      BY <1>1
    <2>3. QED
      BY ONLY <1>8, <2>1, <2>2, t \in Seq(T), Q \subseteq DOMAIN t, PickedIs
  <1>10. \A k \in 1..n : Picked(s, P)[k] = t[g[k]]
    BY <1>2, <1>5
  <1>11. QED
    BY <1>1, <1>9, <1>10

(* An element appended is picked last, or not at all.                      *)
LEMMA PickedAppend ==
    ASSUME NEW T, NEW s \in Seq(T), NEW e \in T, NEW P, P \subseteq DOMAIN s
    PROVE  /\ Picked(Append(s, e), P) = Picked(s, P)
           /\ Picked(Append(s, e), P \cup {Len(s) + 1}) = Append(Picked(s, P), e)
  <1> DEFINE n == Cardinality(P)
             t == Append(s, e)
             Q == P \cup {Len(s) + 1}
  <1>1. /\ t \in Seq(T) /\ Len(t) = Len(s) + 1 /\ t[Len(t)] = e /\ Len(s) \in Nat
        /\ DOMAIN s = 1..Len(s) /\ DOMAIN t = 1..Len(t)
        /\ \A k \in DOMAIN s : t[k] = s[k]
    OBVIOUS
  <1>2. /\ n \in Nat /\ Picked(s, P) \in Seq(T) /\ Len(Picked(s, P)) = n
        /\ \E at \in Bijection(1..n, P) :
              /\ \A j, k \in 1..n : j < k => at[j] < at[k]
              /\ \A k \in 1..n : Picked(s, P)[k] = s[at[k]]
    BY PickedPlaces
  <1>3. PICK at \in Bijection(1..n, P) :
              /\ \A j, k \in 1..n : j < k => at[j] < at[k]
              /\ \A k \in 1..n : Picked(s, P)[k] = s[at[k]]
    BY <1>2
  <1> HIDE DEF n, t
  <1>4. /\ at \in [1..n -> P]
        /\ \A j, k \in 1..n : at[j] = at[k] => j = k
        /\ \A x \in P : \E k \in 1..n : at[k] = x
    BY DEF Bijection, Injection, Surjection, IsInjective
  <1>5. \A k \in 1..n : t[at[k]] = s[at[k]]
    BY <1>1, <1>4
  <1>6. Picked(t, P) = Picked(s, P)
    <2>1. P \subseteq DOMAIN t
      BY <1>1
    <2>2. Climbs(at, n)
      BY <1>3 DEF Climbs
    <2>3. t \in Seq(T) /\ n \in Nat
      BY <1>1, <1>2
    <2>4. Picked(t, P) = [k \in 1..n |-> t[at[k]]]
      BY ONLY <2>1, <2>2, <2>3, at \in Bijection(1..n, P), PickedIs
    <2>5. QED
      BY <1>2, <1>3, <1>5, <2>4
  <1> DEFINE g == [k \in 1..(n + 1) |-> IF k = n + 1 THEN Len(s) + 1 ELSE at[k]]
  <1>7. /\ g \in [1..(n + 1) -> Q]
        /\ \A j, k \in 1..(n + 1) : j < k => g[j] < g[k]
        /\ \A j, k \in 1..(n + 1) : g[j] = g[k] => j = k
        /\ \A x \in Q : \E k \in 1..(n + 1) : g[k] = x
    <2>1. \A k \in 1..n : at[k] \in 1..Len(s) /\ at[k] \in Q
      BY <1>1, <1>4
    <2>2. \A k \in 1..(n + 1) : k = n + 1 \/ k \in 1..n
      BY <1>2
    <2>3. g \in [1..(n + 1) -> Q]
      BY <1>2, <2>1, <2>2
    <2>4. g[n + 1] = Len(s) + 1 /\ \A k \in 1..n : g[k] = at[k]
      BY <1>2
    <2> HIDE DEF g
    <2>5. ASSUME NEW j \in 1..(n + 1), NEW k \in 1..(n + 1), j < k PROVE g[j] < g[k]
      <3>1. j \in 1..n /\ g[j] = at[j] /\ at[j] \in 1..Len(s)
        BY <1>2, <2>1, <2>2, <2>4, <2>5
      <3>2. CASE k = n + 1
        BY <1>1, <2>4, <3>1, <3>2
      <3>3. CASE k \in 1..n
        BY <1>3, <2>4, <2>5, <3>1, <3>3
      <3>4. QED
        BY <2>2, <3>2, <3>3
    <2>6. \A j, k \in 1..(n + 1) : g[j] = g[k] => j = k
      BY <1>1, <1>2, <1>4, <2>1, <2>2, <2>4
    <2>7. ASSUME NEW x \in Q PROVE \E k \in 1..(n + 1) : g[k] = x
      <3>1. CASE x = Len(s) + 1
        BY <1>2, <2>4, <3>1
      <3>2. CASE x \in P
        <4>1. PICK k \in 1..n : at[k] = x
          BY <1>4, <3>2
        <4>2. k \in 1..(n + 1) /\ g[k] = x
          BY <1>2, <2>4, <4>1
        <4>3. QED
          BY <4>2
      <3>3. QED
        BY <3>1, <3>2
    <2>8. QED
      BY <2>3, <2>5, <2>6, <2>7
  <1>8. \A k \in 1..n : t[g[k]] = s[at[k]]
    BY <1>2, <1>5
  <1>9. t[g[n + 1]] = e
    BY <1>1, <1>2
  <1>10. Q \subseteq DOMAIN t
    BY <1>1
  <1> HIDE DEF g, Q
  <1>11. g \in Bijection(1..(n + 1), Q)
    BY <1>7 DEF Bijection, Injection, Surjection, IsInjective
  <1>12. n + 1 \in Nat
    BY <1>2
  <1>13. Picked(t, Q) = [k \in 1..(n + 1) |-> t[g[k]]]
    <2>1. Climbs(g, n + 1)
      BY <1>7 DEF Climbs
    <2>2. t \in Seq(T)
      BY <1>1
    <2>3. QED
      BY ONLY <1>10, <1>11, <1>12, <2>1, <2>2, PickedIs
  <1>14. Picked(t, Q) = Append(Picked(s, P), e)
    <2> DEFINE left == Picked(t, Q)
               right == Append(Picked(s, P), e)
    <2>1. right \in Seq(T) /\ Len(right) = n + 1
      BY <1>2
    <2>2. \A k \in 1..n : right[k] = s[at[k]]
      BY <1>2, <1>3
    <2>3. right[n + 1] = e
      BY <1>2
    <2> HIDE DEF right
    <2>4. right = [k \in 1..(n + 1) |-> right[k]]
      BY <2>1
    <2>5. \A k \in 1..(n + 1) : t[g[k]] = right[k]
      BY <1>2, <1>8, <1>9, <2>2, <2>3
    <2>6. QED
      BY <1>13, <2>4, <2>5 DEF right
  <1>15. QED
    BY <1>6, <1>14 DEF t, Q

(* Finitely many finite sets have finitely many members.                   *)
LEMMA FamilyFinite ==
    ASSUME NEW K, IsFiniteSet(K), NEW f, \A k \in K : IsFiniteSet(f[k])
    PROVE  IsFiniteSet(UNION {f[k] : k \in K})
  <1> DEFINE T == {f[k] : k \in K}
             g == [k \in K |-> f[k]]
  <1>1. g \in Surjection(K, T)
    BY DEF Surjection
  <1>2. IsFiniteSet(T)
    BY <1>1, FS_Surjection
  <1>3. QED
    BY <1>2, FS_UNION

(* A set of natural numbers that is not empty has a least element.         *)
LEMMA Smallest ==
    ASSUME NEW T, T \subseteq Nat, T # {}
    PROVE  \E x \in T : \A y \in T : x <= y
  <1>1. \E R : IsWellFoundedOn(R, Nat) /\ \A x, y \in Nat : y < x => <<y, x>> \in R
    <2> DEFINE R == OpToRel(<, Nat)
    <2>1. IsWellFoundedOn(R, Nat)
      BY NatLessThanWellFounded
    <2>2. \A x, y \in Nat : y < x => <<y, x>> \in R
      BY DEF OpToRel
    <2> QED
      BY <2>1, <2>2, Zenon
  <1>2. PICK R : IsWellFoundedOn(R, Nat) /\ \A x, y \in Nat : y < x => <<y, x>> \in R
    BY <1>1, Zenon
  <1>3. PICK x \in T : \A y \in T : ~ (<<y, x>> \in R)
    BY <1>2, WFMin, Zenon
  <1>4. \A y \in T : ~ (y < x)
    BY <1>2, <1>3, Zenon
  <1>5. \A y \in T : x <= y
    BY <1>4, SMT
  <1>6. QED
    BY <1>5, Zenon
=============================================================================
