----------------------- MODULE PlaylistListingProofs -----------------------
(***************************************************************************)
(* Theorems about PlaylistListing, for every playlist, every set of        *)
(* filters, every size of page and every bound.                            *)
(***************************************************************************)
EXTENDS PlaylistListing, RankLemmas, FiniteSetTheorems, SequenceTheorems, TLAPS

-----------------------------------------------------------------------------
(***************************************************************************)
(* Lists in order.                                                         *)
(***************************************************************************)

\* The orders in which the entries E can be listed by their numbers p.
Sorts(p, E) == {s \in SetToSeqs(E) : \A i, j \in DOMAIN s : i < j => p[s[i]] <= p[s[j]]}

\* A list of a set has each member once.
LEMMA Lists ==
  ASSUME NEW E, IsFiniteSet(E), NEW s \in SetToSeqs(E)
  PROVE  /\ Cardinality(E) \in Nat /\ DOMAIN s = 1..Cardinality(E) /\ s \in Seq(E)
         /\ Len(s) = Cardinality(E)
         /\ \A i \in DOMAIN s : s[i] \in E
         /\ \A i, j \in DOMAIN s : s[i] = s[j] => i = j
         /\ \A e \in E : \E i \in DOMAIN s : s[i] = e
<1> DEFINE n == Cardinality(E)
<1>1. n \in Nat
  BY FS_CardinalityType
<1>2. s \in [1..n -> E] /\ \A i, j \in 1..n : s[i] = s[j] => i = j
  BY DEF SetToSeqs
<1> HIDE DEF n
<1>3. s \in Injection(1..n, E)
  BY <1>2 DEF Injection, IsInjective
<1>4. IsFiniteSet(1..n) /\ Cardinality(1..n) = n
  BY <1>1, FS_Interval
<1>5. s \in Surjection(1..n, E)
  BY <1>3, <1>4, FS_Injection DEF n
<1>6. s \in Seq(E) /\ Len(s) = n /\ DOMAIN s = 1..n
  BY <1>1, <1>2
<1> QED
  BY <1>1, <1>2, <1>5, <1>6 DEF n, Surjection

\* A total order of S: B[c] are those up to c.
Orders(B, S) ==
  /\ \A c \in S : B[c] \subseteq S
  /\ \A a, b \in S : a \in B[b] \/ b \in B[a]
  /\ \A a, b \in S : a \in B[b] /\ b \in B[a] => a = b
  /\ \A a, b, c \in S : a \in B[b] /\ b \in B[c] => a \in B[c]

\* A set that is totally ordered can be listed in that order.
LEMMA Sorted ==
  ASSUME NEW S, IsFiniteSet(S), NEW B, Orders(B, S)
  PROVE  \E s \in SetToSeqs(S) : \A i, j \in DOMAIN s : i < j => s[i] \in B[s[j]]
<1> DEFINE n == Cardinality(S)
           r == [c \in S |-> Cardinality(B[c])]
           s == [k \in 1..n |-> CHOOSE c \in S : Cardinality(B[c]) = k]
<1>1. n \in Nat
  BY FS_CardinalityType
<1>2. \A c \in S : c \in B[c] /\ B[c] \in SUBSET S
  BY DEF Orders
<1>3. \A c, d \in S : c \in B[d] => B[c] \in SUBSET B[d]
  BY DEF Orders
<1>4. \A c, d \in S : c \in B[d] /\ c # d => d \notin B[c]
  BY DEF Orders
<1>5. \A c \in S : IsFiniteSet(B[c]) /\ Cardinality(B[c]) \in 1..n
  <2> TAKE c \in S
  <2>1. /\ IsFiniteSet(B[c]) /\ Cardinality(B[c]) \in Nat /\ Cardinality(B[c]) <= n
    BY <1>2, FS_Subset, FS_CardinalityType
  <2>2. Cardinality(B[c]) # 0
    BY <1>2, <2>1, FS_EmptySet
  <2> QED
    BY <1>1, <2>1, <2>2
<1>6. \A c, d \in S : c \in B[d] => Cardinality(B[c]) <= Cardinality(B[d])
  BY <1>3, <1>5, FS_Subset
<1>7. \A c, d \in S : c \in B[d] /\ Cardinality(B[c]) = Cardinality(B[d]) => c = d
  <2> SUFFICES ASSUME NEW c \in S, NEW d \in S, c \in B[d], c # d,
                      Cardinality(B[c]) = Cardinality(B[d])
               PROVE  FALSE
    OBVIOUS
  <2>1. B[c] \in SUBSET B[d] /\ d \in B[d] /\ d \notin B[c]
    BY <1>2, <1>3, <1>4
  <2> QED
    BY <1>5, <2>1, FS_Subset
<1>8. \A c, d \in S : Cardinality(B[c]) = Cardinality(B[d]) => c = d
  BY <1>7 DEF Orders
<1>9. r \in Injection(S, 1..n)
  BY <1>5, <1>8 DEF Injection, IsInjective
<1>10. r \in Surjection(S, 1..n)
  <2>1. IsFiniteSet(1..n) /\ Cardinality(1..n) = n
    BY <1>1, FS_Interval
  <2> QED
    BY <1>9, <2>1, FS_Injection
<1>11. \A k \in 1..n : \E c \in S : Cardinality(B[c]) = k
  BY <1>10 DEF Surjection
<1>12. \A k \in 1..n : s[k] \in S /\ Cardinality(B[s[k]]) = k
  BY <1>11
<1>13. s \in [1..n -> S]
  BY <1>11
<1> HIDE DEF s, r
<1>14. s \in SetToSeqs(S)
  BY <1>12, <1>13 DEF SetToSeqs
<1>15. ASSUME NEW i \in DOMAIN s, NEW j \in DOMAIN s, i < j PROVE s[i] \in B[s[j]]
  <2>1. i \in 1..n /\ j \in 1..n
    BY <1>13, <1>15
  <2>2. /\ s[i] \in S /\ Cardinality(B[s[i]]) = i
        /\ s[j] \in S /\ Cardinality(B[s[j]]) = j
    BY <1>12, <2>1
  <2>3. s[j] \in B[s[i]] => j <= i
    BY <1>6, <2>2
  <2> QED
    BY <1>15, <2>1, <2>2, <2>3 DEF Orders
<1> QED
  BY <1>14, <1>15

\* Entries can be listed by their numbers, whatever these are.
LEMMA CanBeListed ==
  ASSUME NEW E \in SUBSET Nat, IsFiniteSet(E), NEW p, \A e \in E : p[e] \in Nat
  PROVE  Sorts(p, E) # {}
<1> DEFINE B == [c \in E |-> {x \in E : p[x] < p[c] \/ (p[x] = p[c] /\ x <= c)}]
<1>1. \A a, b \in E : a \in B[b] <=> (p[a] < p[b] \/ (p[a] = p[b] /\ a <= b))
  OBVIOUS
<1>2. \A a \in E : a \in Nat
  OBVIOUS
<1>3. \A c \in E : B[c] \in SUBSET E
  OBVIOUS
<1> HIDE DEF B
<1>4. \A a, b \in E : a \in B[b] \/ b \in B[a]
  BY <1>1, <1>2
<1>5. \A a, b \in E : a \in B[b] /\ b \in B[a] => a = b
  BY <1>1, <1>2
<1>6. \A a, b, c \in E : a \in B[b] /\ b \in B[c] => a \in B[c]
  BY <1>1, <1>2
<1>7. PICK s \in SetToSeqs(E) : \A i, j \in DOMAIN s : i < j => s[i] \in B[s[j]]
  <2>1. Orders(B, E)
    BY <1>3, <1>4, <1>5, <1>6 DEF Orders
  <2> QED
    BY <2>1, Sorted
<1>8. \A i \in DOMAIN s : s[i] \in E
  BY <1>7, Lists
<1>9. \A i, j \in DOMAIN s : i < j => p[s[i]] <= p[s[j]]
  <2> TAKE i, j \in DOMAIN s
  <2> HAVE i < j
  <2>1. s[i] \in E /\ s[j] \in E /\ s[i] \in B[s[j]]
    BY <1>7, <1>8
  <2>2. p[s[i]] \in Nat /\ p[s[j]] \in Nat
    BY <2>1
  <2>3. p[s[i]] < p[s[j]] \/ p[s[i]] = p[s[j]]
    BY <1>1, <2>1
  <2> QED
    BY <2>2, <2>3
<1> QED
  BY <1>7, <1>9 DEF Sorts

\* An entry that shares its number with no other is listed after those with lower numbers.
LEMMA IndexIs ==
  ASSUME NEW E, IsFiniteSet(E), NEW p, \A e \in E : p[e] \in Nat,
         NEW s \in Sorts(p, E), NEW i \in DOMAIN s,
         \A f \in E : p[f] = p[s[i]] => f = s[i]
  PROVE  i = Cardinality({f \in E : p[f] <= p[s[i]]})
<1> DEFINE U == {f \in E : p[f] <= p[s[i]]}
           r == [k \in 1..i |-> s[k]]
<1>1. /\ s \in SetToSeqs(E) /\ \A k, j \in DOMAIN s : k < j => p[s[k]] <= p[s[j]]
  BY DEF Sorts
<1>2. /\ Cardinality(E) \in Nat /\ DOMAIN s = 1..Cardinality(E)
      /\ \A k \in DOMAIN s : s[k] \in E
      /\ \A k, j \in DOMAIN s : s[k] = s[j] => k = j
      /\ \A e \in E : \E k \in DOMAIN s : s[k] = e
  BY <1>1, Lists
<1>3. i \in Nat /\ \A k \in 1..i : k \in DOMAIN s
  BY <1>2
<1>4. \A k \in 1..i : s[k] \in U
  <2> TAKE k \in 1..i
  <2>1. k = i \/ k < i
    BY <1>3
  <2>2. p[s[k]] <= p[s[i]]
    BY <1>1, <1>2, <1>3, <2>1
  <2> QED
    BY <1>2, <1>3, <2>2
<1>5. \A f \in U : \E k \in 1..i : s[k] = f
  <2> TAKE f \in U
  <2>1. PICK k \in DOMAIN s : s[k] = f
    BY <1>2
  <2>2. k > i => p[s[i]] <= p[f]
    BY <1>1, <1>2, <2>1
  <2>3. p[f] \in Nat /\ p[s[i]] \in Nat /\ p[f] <= p[s[i]]
    BY <1>2
  <2>4. k > i => f = s[i]
    BY <2>2, <2>3
  <2>5. ~(k > i)
    BY <1>2, <2>1, <2>4
  <2>6. k \in 1..i
    BY <1>2, <1>3, <2>5
  <2> QED
    BY <2>1, <2>6
<1> HIDE DEF U
<1>6. r \in Bijection(1..i, U)
  BY <1>2, <1>3, <1>4, <1>5 DEF Bijection, Injection, Surjection, IsInjective
<1>7. ExistsBijection(1..i, U)
  BY <1>6 DEF ExistsBijection
<1>8. Cardinality(U) = i
  BY <1>3, <1>7, FS_CountingElements
<1> QED
  BY <1>8 DEF U

\* Entries of low numbers are listed first.
LEMMA IndexWithin ==
  ASSUME NEW E, IsFiniteSet(E), NEW p, \A e \in E : p[e] \in Nat,
         NEW s \in Sorts(p, E), NEW i \in DOMAIN s, NEW L \in Nat, p[s[i]] <= L
  PROVE  i <= Cardinality({f \in E : p[f] <= L})
<1> DEFINE U == {f \in E : p[f] <= L}
           r == [k \in 1..i |-> s[k]]
<1>1. /\ s \in SetToSeqs(E) /\ \A k, j \in DOMAIN s : k < j => p[s[k]] <= p[s[j]]
  BY DEF Sorts
<1>2. /\ Cardinality(E) \in Nat /\ DOMAIN s = 1..Cardinality(E)
      /\ \A k \in DOMAIN s : s[k] \in E
      /\ \A k, j \in DOMAIN s : s[k] = s[j] => k = j
  BY <1>1, Lists
<1>3. i \in Nat /\ \A k \in 1..i : k \in DOMAIN s
  BY <1>2
<1>4. \A k \in 1..i : s[k] \in U
  <2> TAKE k \in 1..i
  <2>1. k = i \/ k < i
    BY <1>3
  <2>2. p[s[k]] <= p[s[i]]
    BY <1>1, <1>2, <1>3, <2>1
  <2>3. p[s[k]] \in Nat /\ p[s[i]] \in Nat
    BY <1>2, <1>3
  <2> QED
    BY <1>2, <1>3, <2>2, <2>3
<1>5. U \in SUBSET E
  OBVIOUS
<1> HIDE DEF U
<1>6. IsFiniteSet(U)
  BY <1>5, FS_Subset
<1>7. r \in Injection(1..i, U)
  BY <1>2, <1>3, <1>4 DEF Injection, IsInjective
<1>8. Cardinality(1..i) <= Cardinality(U)
  BY <1>6, <1>7, FS_Injection
<1>9. Cardinality(1..i) = i
  BY <1>3, FS_Interval
<1> QED
  BY <1>8, <1>9 DEF U

\* Beyond L the numbers p and T are the same, and up to L no fewer are.
Agree(p, T, D, L) == \A e \in D : (p[e] <= L <=> T[e] <= L) /\ (p[e] > L => p[e] = T[e])

\* Lists by numbers that agree beyond L differ within their first m members only.
LEMMA SortsAgree ==
  ASSUME NEW E, IsFiniteSet(E), NEW p, \A e \in E : p[e] \in Nat,
         NEW T, \A e \in E : T[e] \in Nat \ {0}, \A e, f \in E : T[e] = T[f] => e = f,
         NEW L \in Nat, Agree(p, T, E, L), NEW m \in Nat, L <= m,
         NEW s \in Sorts(p, E), NEW u \in Sorts(T, E)
  PROVE  /\ DOMAIN s = DOMAIN u
         /\ \A i \in DOMAIN s : i > m => s[i] = u[i]
         /\ \A i \in DOMAIN s : i <= m => \E j \in DOMAIN u : j <= m /\ u[j] = s[i]
         /\ \A i \in DOMAIN u : i <= m => \E j \in DOMAIN s : j <= m /\ s[j] = u[i]
<1>1. s \in SetToSeqs(E) /\ u \in SetToSeqs(E)
  BY DEF Sorts
<1>2. /\ Cardinality(E) \in Nat /\ DOMAIN s = 1..Cardinality(E) /\ DOMAIN u = 1..Cardinality(E)
      /\ \A i \in DOMAIN s : s[i] \in E
      /\ \A i \in DOMAIN u : u[i] \in E
  BY <1>1, Lists
<1>10. \A e \in E : (\E i \in DOMAIN s : s[i] = e) /\ (\E i \in DOMAIN u : u[i] = e)
  BY <1>1, Lists
<1> DEFINE Low(q) == {f \in E : q[f] <= L}
           Upto(q, e) == {f \in E : q[f] <= q[e]}
<1>3. Low(p) = Low(T)
  BY DEF Agree
<1>4. Low(T) \in SUBSET E /\ \A e \in Low(T) : T[e] \in 1..L
  OBVIOUS
<1> HIDE DEF Low
<1>5. Cardinality(Low(T)) <= L
  <2> DEFINE g == [e \in Low(T) |-> T[e]]
  <2>1. g \in Injection(Low(T), 1..L)
    BY <1>4 DEF Injection, IsInjective
  <2>2. IsFiniteSet(1..L) /\ Cardinality(1..L) = L
    BY FS_Interval
  <2> QED
    BY <2>1, <2>2, FS_Injection
<1>6. ASSUME NEW i \in DOMAIN s, NEW j \in DOMAIN u, s[i] = u[j]
      PROVE  i = j \/ (i <= m /\ j <= m)
  <2> DEFINE e == s[i]
  <2>0. e \in E /\ i \in Nat /\ j \in Nat
    BY <1>2
  <2>1. p[e] \in Nat /\ T[e] \in Nat
    BY <2>0
  <2>2. CASE p[e] <= L
    <3>1. i <= Cardinality(Low(p))
      BY <2>2, IndexWithin DEF Low
    <3>2. T[u[j]] <= L
      BY <1>6, <2>0, <2>2 DEF Agree
    <3>3. j <= Cardinality(Low(T))
      BY <3>2, IndexWithin DEF Low
    <3>4. Cardinality(Low(T)) \in Nat
      BY <1>4, FS_Subset, FS_CardinalityType
    <3> QED
      BY <1>3, <1>5, <2>0, <3>1, <3>3, <3>4
  <2>3. CASE p[e] > L
    <3>1. p[e] = T[e]
      BY <2>0, <2>3 DEF Agree
    <3>2. \A f \in E : p[f] = p[e] => f = e
      BY <2>0, <2>3, <3>1 DEF Agree
    <3>3. \A f \in E : p[f] <= p[e] <=> T[f] <= T[e]
      <4> TAKE f \in E
      <4>1. p[f] \in Nat /\ T[f] \in Nat /\ (p[f] <= L <=> T[f] <= L)
            /\ (p[f] > L => p[f] = T[f])
        BY DEF Agree
      <4> QED
        BY <2>1, <2>3, <3>1, <4>1
    <3>4. Upto(p, e) = Upto(T, e)
      BY <3>3
    <3>5. i = Cardinality(Upto(p, e))
      BY <3>2, IndexIs
    <3>6. j = Cardinality(Upto(T, u[j]))
      <4>1. /\ \A f \in E : T[f] \in Nat
            /\ \A f \in E : T[f] = T[u[j]] => f = u[j]
        BY <1>2
      <4> QED
        BY <4>1, IndexIs
    <3> QED
      BY <1>6, <3>4, <3>5, <3>6
  <2>4. p[e] <= L \/ p[e] > L
    BY <2>1
  <2> QED
    BY <2>2, <2>3, <2>4
<1>7. ASSUME NEW i \in DOMAIN s, i > m PROVE s[i] = u[i]
  <2>1. PICK j \in DOMAIN u : u[j] = s[i]
    BY <1>2, <1>10
  <2>2. i = j
    BY <1>2, <1>6, <1>7, <2>1
  <2> QED
    BY <2>1, <2>2
<1>8. ASSUME NEW i \in DOMAIN s, i <= m PROVE \E j \in DOMAIN u : j <= m /\ u[j] = s[i]
  <2>1. PICK j \in DOMAIN u : u[j] = s[i]
    BY <1>2, <1>10
  <2>2. j <= m
    BY <1>6, <1>8, <2>1
  <2> QED
    BY <2>1, <2>2
<1>9. ASSUME NEW i \in DOMAIN u, i <= m PROVE \E j \in DOMAIN s : j <= m /\ s[j] = u[i]
  <2>1. PICK j \in DOMAIN s : s[j] = u[i]
    BY <1>2, <1>10
  <2>2. j <= m
    BY <1>6, <1>9, <2>1
  <2> QED
    BY <2>1, <2>2
<1> QED
  BY <1>2, <1>7, <1>8, <1>9

-----------------------------------------------------------------------------
(***************************************************************************)
(* Pages of a list.                                                        *)
(***************************************************************************)
LEMMA MinOf ==
  ASSUME NEW a \in Int, NEW b \in Int
  PROVE  Min({a, b}) = IF a <= b THEN a ELSE b
<1>1. \E x \in {a, b} : \A y \in {a, b} : x =< y
  OBVIOUS
<1>2. Min({a, b}) \in {a, b} /\ \A y \in {a, b} : Min({a, b}) =< y
  BY <1>1 DEF Min
<1> QED
  BY <1>2

LEMMA PageSizes ==
  ASSUME NEW n \in Nat
  PROVE  /\ PerPage * n \in Nat /\ PerPage * 0 = 0
         /\ PerPage * (n + 1) = PerPage * n + PerPage
         /\ n > 0 => PerPage * n > 0
<1>1. PerPage \in Nat \ {0}
  BY ListingAssumption
<1> QED
  BY <1>1

\* A part of a sequence.
LEMMA PartOf ==
  ASSUME NEW S, NEW s \in Seq(S), NEW a \in Nat, NEW m \in Nat, a + m <= Len(s)
  PROVE  /\ SubSeq(s, a + 1, a + m) \in Seq(S)
         /\ Len(SubSeq(s, a + 1, a + m)) = m
         /\ \A i \in 1..m : SubSeq(s, a + 1, a + m)[i] = s[a + i] /\ a + i \in 1..Len(s)
<1>1. Len(s) \in Nat
  OBVIOUS
<1>2. \A i \in (a + 1)..(a + m) : i \in 1..Len(s)
  BY <1>1
<1>3. \A i \in (a + 1)..(a + m) : s[i] \in S
  BY <1>2
<1> DEFINE b == a + 1
           c == a + m
           x == SubSeq(s, b, c)
<1>4. b \in Int /\ c \in Int /\ \A i \in b..c : s[i] \in S
  BY <1>3
<1> HIDE DEF b, c
<1>5. /\ x \in Seq(S) /\ Len(x) = (IF b <= c THEN c - b + 1 ELSE 0)
      /\ \A i \in 1..(c - b + 1) : x[i] = s[b + i - 1]
  <2>1. x \in Seq(S)
    BY <1>4, SubSeqProperties
  <2>2. Len(x) = IF b <= c THEN c - b + 1 ELSE 0
    BY <1>4, SubSeqProperties
  <2>3. \A i \in 1..(c - b + 1) : x[i] = s[b + i - 1]
    BY <1>4, SubSeqProperties
  <2> QED
    BY <2>1, <2>2, <2>3
<1> HIDE DEF x
<1>6. c - b + 1 = m /\ (b <= c <=> m > 0) /\ \A i \in 1..m : b + i - 1 = a + i
  BY DEF b, c
<1>7. Len(x) = m
  BY <1>5, <1>6
<1>8. \A i \in 1..m : a + i \in 1..Len(s)
  BY <1>1
<1>9. \A i \in 1..m : x[i] = s[a + i]
  BY <1>5, <1>6
<1> QED
  BY <1>5, <1>7, <1>8, <1>9 DEF b, c, x

\* A part is joined to what comes before it.
LEMMA PartsJoin ==
  ASSUME NEW S, NEW s \in Seq(S), NEW a \in Nat, NEW m \in Nat, a + m <= Len(s)
  PROVE  SubSeq(s, 0 + 1, 0 + a) \o SubSeq(s, a + 1, a + m) = SubSeq(s, 0 + 1, 0 + (a + m))
<1> DEFINE x == SubSeq(s, 0 + 1, 0 + a)
           y == SubSeq(s, a + 1, a + m)
           z == SubSeq(s, 0 + 1, 0 + (a + m))
           xy == x \o y
<1>1. Len(s) \in Nat /\ 0 \in Nat /\ 0 + a <= Len(s) /\ 0 + (a + m) <= Len(s) /\ a + m \in Nat
  OBVIOUS
<1>2. x \in Seq(S) /\ Len(x) = a /\ \A i \in 1..a : x[i] = s[0 + i]
  BY <1>1, PartOf
<1>3. y \in Seq(S) /\ Len(y) = m /\ \A i \in 1..m : y[i] = s[a + i]
  BY <1>1, PartOf
<1>4. z \in Seq(S) /\ Len(z) = a + m /\ \A i \in 1..(a + m) : z[i] = s[0 + i]
  <2> DEFINE k == a + m
  <2>1. k \in Nat /\ 0 + k <= Len(s)
    BY <1>1
  <2> HIDE DEF k
  <2>2. /\ SubSeq(s, 0 + 1, 0 + k) \in Seq(S) /\ Len(SubSeq(s, 0 + 1, 0 + k)) = k
        /\ \A i \in 1..k : SubSeq(s, 0 + 1, 0 + k)[i] = s[0 + i]
    BY <2>1, <1>1, PartOf
  <2> QED
    BY <2>2 DEF k
<1> HIDE DEF x, y, z
<1>5. /\ xy \in Seq(S) /\ Len(xy) = Len(x) + Len(y)
      /\ \A i \in 1..(Len(x) + Len(y)) : xy[i] = IF i <= Len(x) THEN x[i] ELSE y[i - Len(x)]
  BY <1>2, <1>3, ConcatProperties
<1> HIDE DEF xy
<1>6. Len(xy) = a + m
  BY <1>2, <1>3, <1>5
<1>7. ASSUME NEW i \in 1..(a + m) PROVE xy[i] = z[i]
  <2>1. xy[i] = IF i <= a THEN x[i] ELSE y[i - a]
    BY <1>2, <1>3, <1>5
  <2>2. z[i] = s[i]
    BY <1>4
  <2>3. CASE i <= a
    <3>1. i \in 1..a /\ 0 + i = i
      BY <2>3
    <3> QED
      BY <1>2, <2>1, <2>2, <2>3, <3>1
  <2>4. CASE ~(i <= a)
    <3>1. i - a \in 1..m /\ a + (i - a) = i
      BY <2>4
    <3>2. y[i - a] = s[a + (i - a)]
      BY <1>3, <3>1
    <3> QED
      BY <2>1, <2>2, <2>4, <3>1, <3>2
  <2> QED
    BY <2>3, <2>4
<1>8. xy = z
  BY <1>4, <1>5, <1>6, <1>7, SeqEqual
<1> QED
  BY <1>8 DEF x, y, z, xy

\* The first pages of a list.
LEMMA PagesAre ==
  ASSUME NEW S, NEW s \in Seq(S), NEW n \in Nat
  PROVE  /\ Pages(s, n) \in Seq(S) /\ Len(Pages(s, n)) \in Nat /\ Len(s) \in Nat
         /\ PerPage * n \in Nat
         /\ Len(Pages(s, n)) = IF PerPage * n <= Len(s) THEN PerPage * n ELSE Len(s)
         /\ \A i \in 1..Len(Pages(s, n)) : Pages(s, n)[i] = s[i] /\ i \in 1..Len(s)
<1> DEFINE a == PerPage * n
           m == IF a <= Len(s) THEN a ELSE Len(s)
           x == Pages(s, n)
<1>1. a \in Nat
  BY PageSizes
<1>2. Len(s) \in Nat
  OBVIOUS
<1>3. x = SubSeq(s, 1, Min({a, Len(s)}))
  BY DEF Pages
<1> HIDE DEF a, x
<1>4. Min({a, Len(s)}) = m
  BY <1>1, <1>2, MinOf
<1>5. m \in Nat /\ 0 + m <= Len(s) /\ 0 \in Nat
  BY <1>1, <1>2
<1> HIDE DEF m
<1>6. 0 + 1 = 1 /\ 0 + m = m
  BY <1>5
<1>7. /\ x \in Seq(S) /\ Len(x) = m
      /\ \A i \in 1..m : x[i] = s[0 + i] /\ 0 + i \in 1..Len(s)
  <2> DEFINE y == SubSeq(s, 0 + 1, 0 + m)
  <2>1. /\ y \in Seq(S) /\ Len(y) = m
        /\ \A i \in 1..m : y[i] = s[0 + i] /\ 0 + i \in 1..Len(s)
    BY <1>5, PartOf
  <2>2. x = y
    BY <1>3, <1>4, <1>6
  <2> HIDE DEF y
  <2> QED
    BY <2>1, <2>2
<1>8. \A i \in 1..m : 0 + i = i
  BY <1>5
<1>9. \A i \in 1..m : x[i] = s[i] /\ i \in 1..Len(s)
  BY <1>7, <1>8
<1> QED
  BY <1>1, <1>2, <1>5, <1>7, <1>9 DEF a, m, x

\* The entries of the first n pages of l entries.
Cut(l, n) == IF PerPage * n <= l THEN PerPage * n ELSE l

LEMMA PagesCut ==
  ASSUME NEW S, NEW s \in Seq(S), NEW n \in Nat
  PROVE  /\ Pages(s, n) \in Seq(S) /\ Len(Pages(s, n)) = Cut(Len(s), n)
         /\ \A i \in 1..Cut(Len(s), n) : Pages(s, n)[i] = s[i]
<1>1. Pages(s, n) \in Seq(S)
  BY PagesAre
<1>2. Len(Pages(s, n)) = Cut(Len(s), n)
  BY PagesAre DEF Cut
<1>3. \A i \in 1..Len(Pages(s, n)) : Pages(s, n)[i] = s[i]
  BY PagesAre
<1> QED
  BY <1>1, <1>2, <1>3

\* The entries of page n of l entries.
PageSize(l, n) ==
  LET k == IF PerPage * (n + 1) <= l THEN PerPage * (n + 1) ELSE l
  IN  IF PerPage * n <= l THEN k - PerPage * n ELSE 0

\* A page of a list, and the pages with it.
LEMMA PageIs ==
  ASSUME NEW S, NEW s \in Seq(S), NEW n \in Nat
  PROVE  /\ PageOf(s, n) \in Seq(S) /\ Len(PageOf(s, n)) = PageSize(Len(s), n)
         /\ \A i \in 1..Len(PageOf(s, n)) :
              PageOf(s, n)[i] = s[PerPage * n + i] /\ PerPage * n + i \in 1..Len(s)
         /\ Pages(s, n) \o PageOf(s, n) = Pages(s, n + 1)
<1> DEFINE a == PerPage * n
           c == PerPage * (n + 1)
           k == IF c <= Len(s) THEN c ELSE Len(s)
           x == PageOf(s, n)
<1>1. a \in Nat /\ c \in Nat /\ a <= c
  BY PageSizes, ListingAssumption
<1>2. Len(s) \in Nat
  OBVIOUS
<1>3. x = SubSeq(s, a + 1, Min({c, Len(s)}))
  BY DEF PageOf
<1>4. /\ Pages(s, n) = SubSeq(s, 1, Min({a, Len(s)}))
      /\ Pages(s, n + 1) = SubSeq(s, 1, Min({c, Len(s)}))
  BY DEF Pages
<1> HIDE DEF a, c, x
<1>5. Min({c, Len(s)}) = k
  BY <1>1, <1>2, MinOf
<1>6. k \in Nat /\ k <= Len(s)
  BY <1>1, <1>2
<1>7. CASE a <= Len(s)
  <2> DEFINE m == k - a
  <2>1. m \in Nat /\ a + m <= Len(s) /\ a + m = k
    BY <1>1, <1>2, <1>7
  <2>2. Min({a, Len(s)}) = a
    BY <1>1, <1>2, <1>7, MinOf
  <2> HIDE DEF k, m
  <2>3. /\ x \in Seq(S) /\ Len(x) = m
        /\ \A i \in 1..m : x[i] = s[a + i] /\ a + i \in 1..Len(s)
    <3> DEFINE y == SubSeq(s, a + 1, a + m)
    <3>1. /\ y \in Seq(S) /\ Len(y) = m
          /\ \A i \in 1..m : y[i] = s[a + i] /\ a + i \in 1..Len(s)
      BY <1>1, <2>1, PartOf
    <3>2. x = y
      BY <1>3, <1>5, <2>1
    <3> HIDE DEF y
    <3> QED
      BY <3>1, <3>2
  <2>4. SubSeq(s, 0 + 1, 0 + a) \o SubSeq(s, a + 1, a + m) = SubSeq(s, 0 + 1, 0 + (a + m))
    BY <1>1, <2>1, PartsJoin
  <2>5. 0 + 1 = 1 /\ 0 + a = a /\ 0 + (a + m) = k
    BY <1>1, <2>1
  <2>6. Pages(s, n) \o x = Pages(s, n + 1)
    BY <1>3, <1>4, <1>5, <2>1, <2>2, <2>4, <2>5
  <2>7. m = PageSize(Len(s), n)
    BY <1>7 DEF a, c, k, m, PageSize
  <2> QED
    BY <2>3, <2>6, <2>7 DEF a, x
<1>8. CASE ~(a <= Len(s))
  <2>1. k = Len(s) /\ Min({a, Len(s)}) = Len(s) /\ Len(s) < a + 1
    BY <1>1, <1>2, <1>8, MinOf
  <2> HIDE DEF k
  <2>2. x = <<>>
    BY <1>1, <1>2, <1>3, <1>5, <2>1, SubSeqEmpty
  <2>3. Pages(s, n) = Pages(s, n + 1)
    BY <1>4, <1>5, <2>1
  <2>4. Pages(s, n) \in Seq(S)
    BY PagesAre
  <2>5. Pages(s, n) \o x = Pages(s, n + 1)
    BY <2>2, <2>3, <2>4, ConcatEmptySeq
  <2>6. x \in Seq(S) /\ Len(x) = 0
    BY <2>2
  <2>7. PageSize(Len(s), n) = 0
    BY <1>8 DEF a, PageSize
  <2> QED
    BY <2>5, <2>6, <2>7 DEF a, x
<1> QED
  BY <1>7, <1>8

\* Lists of one length that differ on earlier pages only have the same page n.
LEMMA SamePage ==
  ASSUME NEW S, NEW s \in Seq(S), NEW u \in Seq(S), NEW n \in Nat, Len(s) = Len(u),
         \A i \in 1..Len(s) : i > PerPage * n => s[i] = u[i]
  PROVE  PageOf(s, n) = PageOf(u, n)
<1> DEFINE x == PageOf(s, n)
           y == PageOf(u, n)
           a == PerPage * n
<1>1. a \in Nat
  BY PageSizes
<1>2. /\ x \in Seq(S) /\ Len(x) = PageSize(Len(s), n)
      /\ \A i \in 1..Len(x) : x[i] = s[a + i] /\ a + i \in 1..Len(s)
  BY PageIs
<1>3. /\ y \in Seq(S) /\ Len(y) = PageSize(Len(u), n)
      /\ \A i \in 1..Len(y) : y[i] = u[a + i]
  BY PageIs
<1>4. \A i \in 1..Len(s) : i > a => s[i] = u[i]
  OBVIOUS
<1> HIDE DEF x, y, a
<1>5. Len(x) = Len(y)
  BY <1>2, <1>3
<1>6. ASSUME NEW i \in 1..Len(x) PROVE x[i] = y[i]
  <2>1. a + i > a
    BY <1>1
  <2> QED
    BY <1>2, <1>3, <1>4, <1>5, <2>1
<1>7. x = y
  BY <1>2, <1>3, <1>5, <1>6, SeqEqual
<1> QED
  BY <1>7 DEF x, y

\* Numbers up to a bound have a greatest one.
LEMMA MaxIs ==
  ASSUME NEW S, S # {}, NEW n \in Nat, S \subseteq 0..n
  PROVE  Max(S) \in S /\ Max(S) \in Nat
<1> DEFINE R == {n - x : x \in S}
<1>1. R \subseteq Nat /\ R # {}
  <2>1. \A x \in S : n - x \in Nat
    OBVIOUS
  <2>2. R \subseteq Nat
    BY <2>1
  <2>3. R # {}
    OBVIOUS
  <2> QED
    BY <2>2, <2>3
<1>2. PICK r \in R : \A x \in R : r <= x
  <2> HIDE DEF R
  <2> QED
    BY <1>1, LeastNumber
<1>3. PICK m \in S : r = n - m
  OBVIOUS
<1>4. \A x \in S : m >= x
  <2> TAKE x \in S
  <2>1. n - x \in R /\ x \in 0..n /\ m \in 0..n
    OBVIOUS
  <2> HIDE DEF R
  <2> QED
    BY <1>2, <1>3, <2>1
<1>5. Max(S) \in S
  BY <1>4 DEF Max
<1>6. \A x \in S : x \in Nat
  OBVIOUS
<1> QED
  BY <1>5, <1>6

\* d has the members of s in another order.
Rearranged(d, s) ==
  \E f \in [1..Len(s) -> 1..Len(s)] :
    /\ \A k \in 1..Len(s) : d[k] = s[f[k]]
    /\ \A k, l \in 1..Len(s) : f[k] = f[l] => k = l

\* Dragging rearranges a list.
LEMMA Dragged ==
  ASSUME NEW S, NEW s \in Seq(S), NEW i \in 1..Len(s), NEW j \in 1..Len(s),
         NEW ds, ds = InsertAt(RemoveAt(s, i), j, s[i])
  PROVE  ds \in Seq(S) /\ Len(ds) = Len(s) /\ Rearranged(ds, s)
<1> DEFINE n == Len(s)
           before == SubSeq(s, 1, i - 1)
           after == SubSeq(s, i + 1, n)
           r == before \o after
<1>1. n \in Nat /\ i \in 1..n /\ j \in 1..n /\ \A k \in 1..n : s[k] \in S
  OBVIOUS
<1>2. /\ before \in Seq(S) /\ Len(before) = i - 1
      /\ \A k \in 1..(i - 1) : before[k] = s[k]
  <2>1. 0 \in Nat /\ i - 1 \in Nat /\ 0 + (i - 1) <= Len(s) /\ 0 + 1 = 1 /\ 0 + (i - 1) = i - 1
        /\ \A k \in 1..(i - 1) : 0 + k = k
    BY <1>1
  <2> QED
    BY <2>1, PartOf
<1>3. /\ after \in Seq(S) /\ Len(after) = n - i
      /\ \A k \in 1..(n - i) : after[k] = s[i + k]
  <2> DEFINE k == n - i
             y == SubSeq(s, i + 1, i + k)
  <2>1. i \in Nat /\ k \in Nat /\ i + k <= Len(s) /\ i + k = n
    BY <1>1
  <2>2. after = y
    BY <2>1
  <2> HIDE DEF k, after
  <2>3. y \in Seq(S) /\ Len(y) = k /\ \A l \in 1..k : y[l] = s[i + l]
    BY <2>1, PartOf
  <2> HIDE DEF y
  <2> QED
    BY <2>2, <2>3 DEF k
<1> HIDE DEF before, after
<1>4. /\ r \in Seq(S) /\ Len(r) = Len(before) + Len(after)
      /\ \A k \in 1..(Len(before) + Len(after)) :
           r[k] = IF k <= Len(before) THEN before[k] ELSE after[k - Len(before)]
  BY <1>2, <1>3, ConcatProperties
<1> HIDE DEF r, n
<1>5. /\ Len(r) = n - 1
      /\ \A k \in 1..(n - 1) : r[k] = IF k < i THEN s[k] ELSE s[k + 1]
  <2>1. Len(before) + Len(after) = n - 1
    BY <1>1, <1>2, <1>3
  <2>2. ASSUME NEW k \in 1..(n - 1), k < i PROVE r[k] = s[k]
    <3>1. k <= Len(before) /\ k \in 1..(i - 1)
      BY <1>1, <1>2, <2>2
    <3> QED
      BY <1>2, <1>4, <2>1, <3>1
  <2>3. ASSUME NEW k \in 1..(n - 1), ~(k < i) PROVE r[k] = s[k + 1]
    <3>1. /\ ~(k <= i - 1) /\ k - (i - 1) \in 1..(n - i)
          /\ i + (k - (i - 1)) = k + 1
      BY <1>1, <2>3
    <3>2. r[k] = after[k - (i - 1)]
      BY <1>2, <1>4, <2>1, <3>1
    <3> QED
      BY <1>3, <3>1, <3>2
  <2> QED
    BY <1>4, <2>1, <2>2, <2>3
<1> DEFINE b == SubSeq(r, 1, j - 1)
           m == <<s[i]>>
           e == SubSeq(r, j, n - 1)
           d == b \o m \o e
<1>6. b \in Seq(S) /\ Len(b) = j - 1 /\ \A k \in 1..(j - 1) : b[k] = r[k]
  <2>1. 0 \in Nat /\ j - 1 \in Nat /\ 0 + (j - 1) <= Len(r) /\ 0 + 1 = 1 /\ 0 + (j - 1) = j - 1
        /\ \A k \in 1..(j - 1) : 0 + k = k
    BY <1>1, <1>5
  <2> QED
    BY <1>4, <2>1, PartOf
<1>7. e \in Seq(S) /\ Len(e) = n - j /\ \A k \in 1..(n - j) : e[k] = r[(j - 1) + k]
  <2>1. j - 1 \in Nat /\ n - j \in Nat /\ (j - 1) + (n - j) <= Len(r)
        /\ (j - 1) + (n - j) = n - 1 /\ (j - 1) + 1 = j
    BY <1>1, <1>5
  <2> QED
    BY <1>4, <2>1, PartOf
<1>8. m \in Seq(S) /\ Len(m) = 1 /\ m[1] = s[i]
  BY <1>1
<1>9. ds = d
  BY <1>5 DEF InsertAt, RemoveAt, r, before, after, n
<1> HIDE DEF b, m, e
<1> DEFINE bm == b \o m
<1>10. /\ bm \in Seq(S) /\ Len(bm) = Len(b) + Len(m)
       /\ \A k \in 1..(Len(b) + Len(m)) : bm[k] = IF k <= Len(b) THEN b[k] ELSE m[k - Len(b)]
  BY <1>6, <1>8, ConcatProperties
<1> HIDE DEF bm
<1>11. /\ d \in Seq(S) /\ Len(d) = Len(bm) + Len(e)
       /\ \A k \in 1..(Len(bm) + Len(e)) : d[k] = IF k <= Len(bm) THEN bm[k] ELSE e[k - Len(bm)]
  <2>1. d = bm \o e
    BY DEF bm
  <2> HIDE DEF d
  <2>2. /\ bm \o e \in Seq(S) /\ Len(bm \o e) = Len(bm) + Len(e)
        /\ \A k \in 1..(Len(bm) + Len(e)) :
             (bm \o e)[k] = IF k <= Len(bm) THEN bm[k] ELSE e[k - Len(bm)]
    BY <1>7, <1>10, ConcatProperties
  <2> QED
    BY <2>1, <2>2
<1> HIDE DEF d
<1>12. Len(bm) = j /\ Len(d) = n
  BY <1>1, <1>6, <1>7, <1>8, <1>10, <1>11
<1>13. ASSUME NEW k \in 1..n, k < j PROVE d[k] = r[k]
  <2>1. k \in 1..(j - 1) /\ k <= j /\ k <= j - 1 /\ k \in 1..(j - 1 + 1) /\ k \in 1..(j + (n - j))
    BY <1>1, <1>13
  <2> QED
    BY <1>6, <1>7, <1>8, <1>10, <1>11, <1>12, <2>1
<1>14. d[j] = s[i]
  <2>1. j <= j /\ ~(j <= j - 1) /\ j \in 1..(j - 1 + 1) /\ j \in 1..(j + (n - j)) /\ j - (j - 1) = 1
    BY <1>1
  <2> QED
    BY <1>6, <1>7, <1>8, <1>10, <1>11, <1>12, <2>1
<1>15. ASSUME NEW k \in 1..n, j < k PROVE d[k] = r[k - 1]
  <2>1. ~(k <= j) /\ k \in 1..(j + (n - j)) /\ k - j \in 1..(n - j) /\ (j - 1) + (k - j) = k - 1
    BY <1>1, <1>15
  <2>2. d[k] = e[k - j]
    BY <1>7, <1>11, <1>12, <2>1
  <2> QED
    BY <1>7, <2>1, <2>2
<1> DEFINE g(k) == IF k < i THEN k ELSE k + 1
           f == [k \in 1..n |-> IF k = j THEN i ELSE IF k < j THEN g(k) ELSE g(k - 1)]
<1>16. f \in [1..n -> 1..n]
  <2> SUFFICES ASSUME NEW k \in 1..n
               PROVE  (IF k = j THEN i ELSE IF k < j THEN g(k) ELSE g(k - 1)) \in 1..n
    OBVIOUS
  <2> QED
    BY <1>1
<1>17. \A k \in 1..n : d[k] = s[f[k]]
  <2> TAKE k \in 1..n
  <2>1. CASE k = j
    BY <1>14, <2>1
  <2>2. CASE k < j
    <3>1. k \in 1..(n - 1) /\ k # j
      BY <1>1, <2>2
    <3> QED
      BY <1>5, <1>13, <2>2, <3>1
  <2>3. CASE j < k
    <3>1. k - 1 \in 1..(n - 1) /\ k # j /\ ~(k < j) /\ k - 1 + 1 = k
      BY <1>1, <2>3
    <3> QED
      BY <1>5, <1>15, <2>3, <3>1
  <2> QED
    BY <1>1, <2>1, <2>2, <2>3
<1>18. \A k, l \in 1..n : f[k] = f[l] => k = l
  <2> SUFFICES ASSUME NEW k \in 1..n, NEW l \in 1..n,
                      (IF k = j THEN i ELSE IF k < j THEN g(k) ELSE g(k - 1))
                        = IF l = j THEN i ELSE IF l < j THEN g(l) ELSE g(l - 1)
               PROVE  k = l
    OBVIOUS
  <2> QED
    BY <1>1
<1> HIDE DEF f, g
<1>19. Rearranged(d, s)
  BY <1>16, <1>17, <1>18 DEF Rearranged, n
<1> QED
  BY <1>9, <1>11, <1>12, <1>19 DEF n

-----------------------------------------------------------------------------
(***************************************************************************)
(* The inductive invariant.                                                *)
(***************************************************************************)

\* A page is asked for.
Out(r) == IF r = None THEN 0 ELSE 1

\* No more pages come, and no more timers are set, than were asked for.
Tallied ==
  /\ used \in [asks : 0..MaxAsks, drags : 0..MaxDrags, others : 0..MaxOthers,
               faults : 0..MaxFaults]
  /\ page + Out(request) <= used.asks /\ timers + Out(request) <= used.asks

\* The page that is asked for is the next one; a list that has had none is empty, and so
\* is one that says so; a drag leaves something to save.
WindowSane ==
  /\ request # None => request.page = page /\ ~ended
  /\ page = 0 \/ message => shown = <<>>
  /\ \A w \in writes : DOMAIN w # {}

\* The part of the invariant that has nothing to do with the order of the list.
LTyped == TypeOK /\ Tallied /\ WindowSane

\* The page of the list has been served, if it is asked for.
Served(r) == r # None /\ r.ids # None

\* Of the list that is in the window, a page has been served.
Started == page > 0 \/ Served(request)

\* T gives no two of the entries D the same number.
Numbers(T, D) == \A e, f \in D : T[e] = T[f] => e = f

\* Once the writes ws are saved, the numbers p have become T.
Due(T, p, ws) ==
  \A e \in DOMAIN p :
    /\ \A w \in ws : e \in DOMAIN w => T[e] = w[e]
    /\ (\A w \in ws : e \notin DOMAIN w) => T[e] = p[e]

\* The list sh, of n pages, is the start of the filter t by the numbers T, and page r
\* follows it if it has been served.
Shows(T, D, t, n, sh, r) ==
  \E s \in Sorts(T, Matches[t] \cap D) :
    sh = Pages(s, n) /\ (Served(r) => r.ids = PageOf(s, n))

\* The numbers differ from those that they are to become within the n pages only.
Near(T, p, n) == \E L \in 0..(PerPage * n) : Agree(p, T, DOMAIN p, L)

\* The list is the start of the playlist by the numbers that its entries are to have.
Joined(p, ws, t, n, sh, r) ==
  /\ \A v, w \in ws : v = w
  /\ \E T \in [DOMAIN p -> 1..Cardinality(DOMAIN p)] :
       Numbers(T, DOMAIN p) /\ Due(T, p, ws) /\ Near(T, p, n) /\ Shows(T, DOMAIN p, t, n, sh, r)

\* The inductive invariant of a list.
CInv == clean /\ Started => Joined(place, writes, base, page, shown, request)
LInv == LTyped /\ CInv

-----------------------------------------------------------------------------
(***************************************************************************)
(* Types.                                                                  *)
(***************************************************************************)

\* What a window asks for is of its type, and has not been served.
LEMMA AskTyped ==
  ASSUME LTyped, NEW t \in Texts, NEW n \in 0..page, Ask(t, n)
  PROVE  /\ used' \in [asks : 0..MaxAsks, drags : 0..MaxDrags, others : 0..MaxOthers,
                       faults : 0..MaxFaults]
         /\ request' = None \/ request' \in Request
         /\ n + Out(request') <= used'.asks /\ timers + Out(request') <= used'.asks
         /\ request' # None => request'.page = n /\ ~ended
         /\ spinner' \in BOOLEAN /\ message' \in BOOLEAN /\ (message' => message)
         /\ ~Served(request')
<1>1. /\ used \in [asks : 0..MaxAsks, drags : 0..MaxDrags, others : 0..MaxOthers,
                   faults : 0..MaxFaults]
      /\ page + Out(request) <= used.asks /\ timers + Out(request) <= used.asks
      /\ page \in 0..MaxAsks /\ timers \in 0..MaxAsks /\ MaxAsks \in Nat
      /\ used.asks \in 0..MaxAsks
  BY ListingAssumption DEF LTyped, Tallied, TypeOK
<1>2. /\ request = None \/ request \in Request
      /\ request # None => ~ended
      /\ spinner \in BOOLEAN /\ message \in BOOLEAN /\ ended \in BOOLEAN
  BY DEF LTyped, TypeOK, WindowSane
<1>3. CASE ended
  <2>1. request' = request /\ spinner' = spinner /\ message' = message /\ used' = used
    BY <1>3 DEF Ask
  <2>2. request = None
    BY <1>2, <1>3
  <2>3. Out(request) = 0 /\ n <= page /\ n \in Nat
    BY <1>1, <2>2 DEF Out
  <2> QED
    BY <1>1, <1>2, <2>1, <2>2, <2>3 DEF Served
<1>4. CASE ~ended
  <2>1. /\ used.asks < MaxAsks /\ used' = [used EXCEPT !.asks = @ + 1]
        /\ request' = [text |-> t, page |-> n, ids |-> None]
        /\ spinner' = TRUE /\ message' = (message /\ request = None)
    BY <1>4 DEF Ask
  <2>2. n \in 0..MaxAsks /\ n <= page
    BY <1>1
  <2>3. request' \in Request
    BY <2>1, <2>2 DEF Request
  <2>4. used.asks + 1 \in 0..MaxAsks
    BY <1>1, <2>1
  <2>5. /\ used' \in [asks : 0..MaxAsks, drags : 0..MaxDrags, others : 0..MaxOthers,
                      faults : 0..MaxFaults]
        /\ used'.asks = used.asks + 1
    BY <1>1, <2>1, <2>4
  <2>6. Out(request) \in {0, 1} /\ Out(request') \in {0, 1}
    BY DEF Out
  <2>7. n + Out(request') <= used'.asks /\ timers + Out(request') <= used'.asks
    BY <1>1, <2>2, <2>5, <2>6
  <2>8. request'.page = n /\ request'.ids = None
    BY <2>1
  <2>9. ~Served(request')
    BY <2>8 DEF Served
  <2>10. spinner' \in BOOLEAN /\ message' \in BOOLEAN /\ (message' => message)
    BY <1>2, <2>1
  <2> QED
    BY <1>4, <2>3, <2>5, <2>7, <2>8, <2>9, <2>10
<1> QED
  BY <1>2, <1>3, <1>4

\* Orders of entries are sequences of entries.
LEMMA ListingsAre ==
  ASSUME NEW t \in Texts, DOMAIN place \subseteq Entries
  PROVE  /\ Listings(t) = Sorts(place, Matches[t] \cap DOMAIN place)
         /\ IsFiniteSet(Matches[t] \cap DOMAIN place) /\ Matches[t] \cap DOMAIN place \subseteq Entries
         /\ \A s \in Listings(t) : s \in Seq(Entries)
<1> DEFINE E == Matches[t] \cap DOMAIN place
<1>1. E \subseteq Entries
  OBVIOUS
<1>2. IsFiniteSet(E)
  BY <1>1, FS_Subset, ListingAssumption
<1>3. Listings(t) = Sorts(place, E)
  BY DEF Listings, Sorts
<1> HIDE DEF E
<1>4. \A s \in Sorts(place, E) : s \in Seq(E)
  BY <1>2, Lists DEF Sorts
<1>5. \A s \in Seq(E) : s \in Seq(Entries)
  BY <1>1
<1> QED
  BY <1>1, <1>2, <1>3, <1>4, <1>5 DEF E

\* A request is served with entries.
LEMMA ServeTyped ==
  ASSUME LTyped, ServePage
  PROVE  /\ request' = [request EXCEPT !.ids = request'.ids] /\ request' \in Request
         /\ request \in Request
<1>1. PICK s \in Listings(request.text) :
        request' = [request EXCEPT !.ids = PageOf(s, request.page)]
  BY DEF ServePage
<1>2. request \in Request /\ request.text \in Texts /\ request.page \in Nat
  BY DEF ServePage, LTyped, TypeOK, Request
<1>3. s \in Seq(Entries)
  BY <1>1, <1>2, ListingsAre DEF LTyped, TypeOK
<1> DEFINE ids == PageOf(s, request.page)
<1>4. ids \in Seq(Entries)
  BY <1>2, <1>3, PageIs
<1>5. request' = [request EXCEPT !.ids = ids]
  BY <1>1
<1> HIDE DEF ids
<1>6. request' \in Request /\ request'.ids = ids
  BY <1>2, <1>4, <1>5 DEF Request
<1> QED
  BY <1>2, <1>5, <1>6

\* The next row that is saved is one of those to save.
LEMMA NextRow ==
  ASSUME LTyped, NEW w \in writes
  PROVE  LET e == CHOOSE e \in DOMAIN w : \A f \in DOMAIN w : e <= f
         IN  e \in DOMAIN w /\ e \in Entries /\ w[e] \in Nat
<1>1. /\ DOMAIN w # {} /\ DOMAIN w \subseteq Nat /\ DOMAIN w \subseteq Entries
      /\ \A e \in DOMAIN w : w[e] \in Nat
  BY ListingAssumption DEF LTyped, TypeOK, WindowSane
<1> DEFINE D == DOMAIN w
<1>2. \E e \in D : \A f \in D : e <= f
  <2>1. D # {} /\ D \subseteq Nat
    BY <1>1
  <2> HIDE DEF D
  <2> QED
    BY <2>1, LeastNumber
<1> QED
  BY <1>1, <1>2

\* Numbering a list gives each of its entries a number.
LEMMA NumberingIs ==
  ASSUME NEW S, NEW s \in Seq(S)
  PROVE  /\ DOMAIN Numbering(s) = ToSet(s) /\ ToSet(s) \subseteq S
         /\ \A e \in ToSet(s) : Numbering(s)[e] \in Nat
         /\ (\A k, l \in 1..Len(s) : s[k] = s[l] => k = l) =>
              \A k \in 1..Len(s) : Numbering(s)[s[k]] = k
<1>1. Len(s) \in Nat /\ DOMAIN s = 1..Len(s) /\ \A k \in 1..Len(s) : s[k] \in S
  OBVIOUS
<1>2. DOMAIN Numbering(s) = ToSet(s)
  BY DEF Numbering
<1>3. ToSet(s) \subseteq S
  BY <1>1 DEF ToSet
<1>4. ASSUME NEW e \in ToSet(s)
      PROVE  /\ Numbering(s)[e] \in {i \in DOMAIN s : s[i] = e}
             /\ Numbering(s)[e] \in Nat
  <2> DEFINE I == {i \in DOMAIN s : s[i] = e}
  <2>1. I # {} /\ I \subseteq 0..Len(s)
    BY <1>1 DEF ToSet
  <2>2. Numbering(s)[e] = Max(I)
    BY DEF Numbering
  <2> HIDE DEF I
  <2>3. Max(I) \in I /\ Max(I) \in Nat
    BY <1>1, <2>1, MaxIs
  <2> QED
    BY <2>2, <2>3 DEF I
<1>5. ASSUME \A k, l \in 1..Len(s) : s[k] = s[l] => k = l, NEW k \in 1..Len(s)
      PROVE  Numbering(s)[s[k]] = k
  <2>1. s[k] \in ToSet(s)
    BY <1>1 DEF ToSet
  <2>2. Numbering(s)[s[k]] \in {i \in DOMAIN s : s[i] = s[k]}
    BY <1>4, <2>1
  <2> QED
    BY <1>1, <1>5, <2>2
<1> QED
  BY <1>2, <1>3, <1>4, <1>5

\* The list begins well.
LEMMA LTypedInit == Init => LTyped
<1> SUFFICES ASSUME Init PROVE LTyped
  OBVIOUS
<1>1. /\ Entries \subseteq Nat /\ IsFiniteSet(Entries) /\ NoText \in Texts
      /\ MaxAsks \in Nat \ {0} /\ MaxDrags \in Nat /\ MaxOthers \in Nat /\ MaxFaults \in Nat
  BY ListingAssumption
<1>2. place = [e \in Entries |-> Cardinality({f \in Entries : f <= e})]
  BY DEF Init
<1>3. \A e \in Entries : Cardinality({f \in Entries : f <= e}) \in Nat
  BY <1>1, Ranks
<1>4. DOMAIN place \subseteq Entries /\ \A e \in DOMAIN place : place[e] \in Nat
  BY <1>2, <1>3
<1>5. request \in Request /\ request.page = 0
  BY <1>1 DEF Init, Request
<1>6. shown = <<>> /\ shown \in Seq(Entries) /\ page = 0 /\ timers = 0 /\ ended = FALSE
  BY DEF Init
<1>7. TypeOK
  <2>1. text \in Texts /\ base \in Texts /\ writes = {}
    BY <1>1 DEF Init
  <2>2. {ended, spinner, message, clean, failed} \subseteq BOOLEAN
    BY DEF Init
  <2>3. page \in 0..MaxAsks /\ timers \in 0..MaxAsks
    BY <1>1, <1>6
  <2> QED
    BY <1>4, <1>5, <1>6, <2>1, <2>2, <2>3 DEF TypeOK
<1>8. Tallied
  <2>1. Out(request) \in {0, 1}
    BY DEF Out
  <2>2. used = [asks |-> 1, drags |-> 0, others |-> 0, faults |-> 0]
    BY DEF Init
  <2> QED
    BY <1>1, <1>6, <2>1, <2>2 DEF Tallied
<1>9. WindowSane
  BY <1>5, <1>6 DEF Init, WindowSane
<1> QED
  BY <1>7, <1>8, <1>9 DEF LTyped

\* Every step keeps the types.
LEMMA LTypedStep == LTyped /\ [Next]_vars => LTyped'
<1> SUFFICES ASSUME LTyped, [Next]_vars PROVE LTyped'
  OBVIOUS
<1> DEFINE Uses == [asks : 0..MaxAsks, drags : 0..MaxDrags, others : 0..MaxOthers,
                    faults : 0..MaxFaults]
<1>1. /\ DOMAIN place \subseteq Entries /\ \A e \in DOMAIN place : place[e] \in Nat
      /\ text \in Texts /\ base \in Texts
      /\ shown \in Seq(Entries)
      /\ page \in 0..MaxAsks /\ timers \in 0..MaxAsks
      /\ request = None \/ request \in Request
      /\ ended \in BOOLEAN /\ spinner \in BOOLEAN /\ message \in BOOLEAN /\ clean \in BOOLEAN
      /\ failed \in BOOLEAN
      /\ \A w \in writes : DOMAIN w \subseteq Entries /\ \A e \in DOMAIN w : w[e] \in Nat
  BY DEF LTyped, TypeOK
<1>2. /\ used \in Uses
      /\ page + Out(request) <= used.asks /\ timers + Out(request) <= used.asks
  BY DEF LTyped, Tallied
<1>3. /\ request # None => request.page = page /\ ~ended
      /\ page = 0 \/ message => shown = <<>>
      /\ \A w \in writes : DOMAIN w # {}
  BY DEF LTyped, WindowSane
<1>4. /\ MaxAsks \in Nat /\ MaxDrags \in Nat /\ MaxOthers \in Nat /\ MaxFaults \in Nat
      /\ used.asks \in 0..MaxAsks /\ used.drags \in 0..MaxDrags
      /\ used.others \in 0..MaxOthers /\ used.faults \in 0..MaxFaults
  BY <1>2, ListingAssumption
<1>5. Out(request) \in {0, 1} /\ (request # None => Out(request) = 1)
  BY DEF Out
<1>6. CASE UNCHANGED vars
  <2>1. TypeOK'
    BY <1>1, <1>6 DEF vars, served, list, past, TypeOK
  <2>2. Tallied'
    BY <1>2, <1>6 DEF vars, served, list, past, Tallied
  <2>3. WindowSane'
    BY <1>3, <1>6 DEF vars, served, list, past, WindowSane
  <2> QED
    BY <2>1, <2>2, <2>3 DEF LTyped
<1>7. ASSUME NEW t \in Texts, Type(t) PROVE LTyped'
  <2>1. /\ text' = t /\ place' = place /\ writes' = writes /\ ended' = ended
        /\ timers' = timers /\ base' = base /\ clean' = clean /\ failed' = failed
    BY <1>7 DEF Type, served, past
  <2>2. CASE t \in ShortTexts
    <3>1. /\ shown' = shown /\ page' = page /\ request' = request /\ spinner' = spinner
          /\ message' = message /\ used' = used
      BY <1>7, <2>2 DEF Type
    <3>2. TypeOK'
      BY <1>1, <2>1, <3>1 DEF TypeOK
    <3>3. Tallied'
      BY <1>2, <2>1, <3>1 DEF Tallied
    <3>4. WindowSane'
      BY <1>3, <2>1, <3>1 DEF WindowSane
    <3> QED
      BY <3>2, <3>3, <3>4 DEF LTyped
  <2>3. CASE t \notin ShortTexts
    <3>1. shown' = <<>> /\ page' = 0 /\ Ask(t, 0)
      BY <1>7, <2>3 DEF Type
    <3>2. 0 \in 0..page
      BY <1>1
    <3>3. /\ used' \in Uses
          /\ request' = None \/ request' \in Request
          /\ 0 + Out(request') <= used'.asks /\ timers + Out(request') <= used'.asks
          /\ request' # None => request'.page = 0 /\ ~ended
          /\ spinner' \in BOOLEAN /\ message' \in BOOLEAN
      BY <3>1, <3>2, AskTyped
    <3>4. TypeOK'
      BY <1>1, <1>4, <2>1, <3>1, <3>3 DEF TypeOK
    <3>5. Tallied'
      BY <2>1, <3>1, <3>3 DEF Tallied
    <3>6. WindowSane'
      BY <1>3, <2>1, <3>1, <3>3 DEF WindowSane
    <3> QED
      BY <3>4, <3>5, <3>6 DEF LTyped
  <2> QED
    BY <2>2, <2>3
<1>8. CASE Scroll
  <2>1. /\ text' = text /\ place' = place /\ writes' = writes /\ ended' = ended
        /\ timers' = timers /\ base' = base /\ clean' = clean /\ failed' = failed
        /\ shown' = shown /\ page' = page /\ shown # <<>> /\ Ask(text, page)
    BY <1>8 DEF Scroll, served, past
  <2>2. page \in 0..page
    BY <1>1
  <2>3. /\ used' \in Uses
        /\ request' = None \/ request' \in Request
        /\ page + Out(request') <= used'.asks /\ timers + Out(request') <= used'.asks
        /\ request' # None => request'.page = page /\ ~ended
        /\ spinner' \in BOOLEAN /\ message' \in BOOLEAN /\ (message' => message)
    BY <1>1, <2>1, <2>2, AskTyped
  <2>4. TypeOK'
    BY <1>1, <2>1, <2>3 DEF TypeOK
  <2>5. Tallied'
    BY <2>1, <2>3 DEF Tallied
  <2>6. WindowSane'
    BY <1>3, <2>1, <2>3 DEF WindowSane
  <2> QED
    BY <2>4, <2>5, <2>6 DEF LTyped
<1>9. ASSUME NEW i \in DOMAIN shown, NEW j \in DOMAIN shown, Drag(i, j) PROVE LTyped'
  <2> DEFINE s == InsertAt(RemoveAt(shown, i), j, shown[i])
             n == Numbering(s)
  <2>1. /\ shown' = s /\ writes' = writes \cup {n}
        /\ used.drags < MaxDrags /\ used' = [used EXCEPT !.drags = @ + 1]
        /\ clean' = (clean /\ base = NoText /\ writes = {})
        /\ text' = text /\ place' = place /\ ended' = ended /\ message' = message
        /\ timers' = timers /\ base' = base /\ failed' = failed /\ page' = page
        /\ request' = request /\ spinner' = spinner
    BY <1>9 DEF Drag
  <2>2. i \in 1..Len(shown) /\ j \in 1..Len(shown) /\ Len(shown) \in Nat /\ shown # <<>>
    BY <1>1
  <2>3. s \in Seq(Entries) /\ Len(s) = Len(shown)
    BY <1>1, <2>2, Dragged
  <2> HIDE DEF s
  <2>4. /\ DOMAIN n = ToSet(s) /\ ToSet(s) \subseteq Entries
        /\ \A e \in ToSet(s) : n[e] \in Nat
    BY <2>3, NumberingIs
  <2>5. DOMAIN n # {}
    <3>1. 1 \in DOMAIN s
      BY <2>2, <2>3
    <3> QED
      BY <2>4, <3>1 DEF ToSet
  <2> HIDE DEF n
  <2>6. TypeOK'
    BY <1>1, <2>1, <2>3, <2>4 DEF TypeOK
  <2>7. used' \in Uses /\ used'.asks = used.asks
    BY <1>2, <1>4, <2>1
  <2>8. Tallied'
    BY <1>2, <2>1, <2>7 DEF Tallied
  <2>9. WindowSane'
    BY <1>3, <2>1, <2>2, <2>5 DEF WindowSane
  <2> QED
    BY <2>6, <2>8, <2>9 DEF LTyped
<1>10. CASE ServePage
  <2>1. /\ text' = text /\ place' = place /\ writes' = writes /\ ended' = ended
        /\ timers' = timers /\ failed' = failed /\ used' = used
        /\ shown' = shown /\ page' = page /\ spinner' = spinner /\ message' = message
        /\ request # None
    BY <1>10 DEF ServePage, served
  <2>2. /\ request' = [request EXCEPT !.ids = request'.ids] /\ request' \in Request
        /\ request \in Request
    BY <1>10, ServeTyped
  <2>3. request'.page = request.page /\ request.text \in Texts
    BY <2>2 DEF Request
  <2>4. base' \in Texts /\ clean' \in BOOLEAN
    BY <1>1, <1>10, <2>3 DEF ServePage
  <2>5. Out(request) = 1 /\ Out(request') \in {0, 1}
    BY <2>1 DEF Out
  <2>6. TypeOK'
    BY <1>1, <2>1, <2>2, <2>4 DEF TypeOK
  <2>7. Tallied'
    BY <1>1, <1>2, <1>4, <2>1, <2>5 DEF Tallied
  <2>8. WindowSane'
    BY <1>3, <2>1, <2>3 DEF WindowSane
  <2> QED
    BY <2>6, <2>7, <2>8 DEF LTyped
<1>11. CASE TakePage
  <2>1. /\ text' = text /\ place' = place /\ writes' = writes /\ timers' = timers + 1
        /\ base' = base /\ clean' = clean /\ failed' = failed /\ used' = used
        /\ shown' = shown \o request.ids /\ page' = page + 1 /\ spinner' = FALSE
        /\ message' = FALSE /\ ended' = (request.ids = <<>>) /\ request' = None
        /\ request # None /\ request.ids # None
    BY <1>11 DEF TakePage, served, past
  <2>2. request.ids \in Seq(Entries)
    BY <1>1, <2>1 DEF Request
  <2>3. shown' \in Seq(Entries)
    BY <1>1, <2>1, <2>2, ConcatProperties
  <2>4. page + 1 <= used.asks /\ timers + 1 <= used.asks /\ Out(None) = 0
    BY <1>2, <1>5, <2>1 DEF Out
  <2>5. page' \in 0..MaxAsks /\ timers' \in 0..MaxAsks /\ page' # 0
    BY <1>1, <1>4, <2>1, <2>4
  <2>6. TypeOK'
    BY <1>1, <2>1, <2>3, <2>5 DEF TypeOK
  <2>7. Tallied'
    BY <1>1, <1>2, <1>4, <2>1, <2>4 DEF Tallied
  <2>8. WindowSane'
    BY <1>3, <2>1, <2>5 DEF WindowSane
  <2> QED
    BY <2>6, <2>7, <2>8 DEF LTyped
<1>12. CASE LookEmpty
  <2>1. /\ text' = text /\ place' = place /\ writes' = writes /\ ended' = ended
        /\ base' = base /\ clean' = clean /\ failed' = failed /\ used' = used
        /\ shown' = shown /\ page' = page /\ spinner' = spinner /\ request' = request
        /\ message' = (message \/ shown = <<>>) /\ timers > 0 /\ timers' = timers - 1
    BY <1>12 DEF LookEmpty, served, past
  <2>2. timers' \in 0..MaxAsks
    BY <1>1, <1>4, <2>1
  <2>3. TypeOK'
    BY <1>1, <2>1, <2>2 DEF TypeOK
  <2>4. Tallied'
    BY <1>1, <1>2, <1>4, <1>5, <2>1 DEF Tallied
  <2>5. WindowSane'
    BY <1>3, <2>1 DEF WindowSane
  <2> QED
    BY <2>3, <2>4, <2>5 DEF LTyped
<1>13. CASE FailPage
  <2>1. /\ text' = text /\ place' = place /\ writes' = writes /\ ended' = FALSE
        /\ base' = base /\ clean' = clean /\ failed' = TRUE
        /\ shown' = shown /\ page' = page /\ spinner' = spinner /\ request' = None
        /\ message' = FALSE /\ timers' = timers
        /\ used.faults < MaxFaults /\ used' = [used EXCEPT !.faults = @ + 1]
    BY <1>13 DEF FailPage, served
  <2>2. used' \in Uses /\ used'.asks = used.asks
    BY <1>2, <1>4, <2>1
  <2>3. Out(None) = 0
    BY DEF Out
  <2>4. TypeOK'
    BY <1>1, <2>1 DEF TypeOK
  <2>5. Tallied'
    BY <1>1, <1>2, <1>4, <1>5, <2>1, <2>2, <2>3 DEF Tallied
  <2>6. WindowSane'
    BY <1>3, <2>1 DEF WindowSane
  <2> QED
    BY <2>4, <2>5, <2>6 DEF LTyped
<1>14. ASSUME NEW w \in writes, SaveNumber(w) PROVE LTyped'
  <2> DEFINE e == CHOOSE e \in DOMAIN w : \A f \in DOMAIN w : e <= f
             rest == [f \in DOMAIN w \ {e} |-> w[f]]
  <2>1. e \in DOMAIN w /\ w[e] \in Nat
    BY NextRow
  <2>2. /\ place' = IF e \in DOMAIN place THEN [place EXCEPT ![e] = w[e]] ELSE place
        /\ writes' = (writes \ {w}) \cup (IF DOMAIN rest = {} THEN {} ELSE {rest})
    BY <1>14 DEF SaveNumber
  <2>3. UNCHANGED <<list, past, used>>
    BY <1>14 DEF SaveNumber
  <2>4. /\ DOMAIN rest \subseteq Entries /\ \A f \in DOMAIN rest : rest[f] \in Nat
    BY <1>1
  <2> HIDE DEF e, rest
  <2>5. DOMAIN place' = DOMAIN place /\ \A f \in DOMAIN place : place'[f] \in Nat
    BY <1>1, <2>1, <2>2
  <2>6. \A v \in writes' : v \in writes \/ (v = rest /\ DOMAIN rest # {})
    BY <2>2
  <2>7. TypeOK'
    BY <1>1, <2>3, <2>4, <2>5, <2>6 DEF TypeOK, list, past
  <2>8. Tallied'
    BY <1>2, <2>3 DEF Tallied, list, past
  <2>9. WindowSane'
    BY <1>3, <2>3, <2>6 DEF WindowSane, list, past
  <2> QED
    BY <2>7, <2>8, <2>9 DEF LTyped
<1>15. ASSUME NEW w \in writes, FailDrag(w) PROVE LTyped'
  <2>1. /\ UNCHANGED <<place, list, base>> /\ clean' = FALSE /\ failed' = TRUE
        /\ writes' = writes \ {w}
        /\ used.faults < MaxFaults /\ used' = [used EXCEPT !.faults = @ + 1]
    BY <1>15 DEF FailDrag
  <2>2. used' \in Uses /\ used'.asks = used.asks
    BY <1>2, <1>4, <2>1
  <2>3. TypeOK'
    BY <1>1, <2>1 DEF TypeOK, list
  <2>4. Tallied'
    BY <1>2, <2>1, <2>2 DEF Tallied, list
  <2>5. WindowSane'
    BY <1>3, <2>1 DEF WindowSane, list
  <2> QED
    BY <2>3, <2>4, <2>5 DEF LTyped
<1>16. ASSUME NEW e \in Entries, RemoveElsewhere(e) PROVE LTyped'
  <2> DEFINE rest == DOMAIN place \ {e}
             p == [f \in rest |-> Cardinality({g \in rest : g <= f})]
  <2>1. /\ UNCHANGED <<writes, list, base, failed>> /\ clean' = FALSE /\ place' = p
        /\ used.others < MaxOthers /\ used' = [used EXCEPT !.others = @ + 1]
    BY <1>16 DEF RemoveElsewhere
  <2>2. used' \in Uses /\ used'.asks = used.asks
    BY <1>2, <1>4, <2>1
  <2>3. rest \subseteq Entries /\ rest \in SUBSET Nat /\ IsFiniteSet(rest)
    BY <1>1, ListingAssumption, FS_Subset
  <2> HIDE DEF rest
  <2>4. \A f \in rest : Cardinality({g \in rest : g <= f}) \in Nat
    BY <2>3, Ranks
  <2>5. DOMAIN p = rest /\ \A f \in rest : p[f] \in Nat
    BY <2>4
  <2> HIDE DEF p
  <2>6. TypeOK'
    BY <1>1, <2>1, <2>3, <2>5 DEF TypeOK, list
  <2>7. Tallied'
    BY <1>2, <2>1, <2>2 DEF Tallied, list
  <2>8. WindowSane'
    BY <1>3, <2>1 DEF WindowSane, list
  <2> QED
    BY <2>6, <2>7, <2>8 DEF LTyped
<1> QED
  BY <1>6, <1>7, <1>8, <1>9, <1>10, <1>11, <1>12, <1>13, <1>14, <1>15, <1>16 DEF Next, Person

\* The entries that a window shows and asks for, the numbers and the drags that are
\* being saved are of their types.
THEOREM ListingTyped == Spec => []TypeOK
<1>1. LTyped => TypeOK
  BY DEF LTyped
<1> QED
  BY <1>1, LTypedInit, LTypedStep, PTL DEF Spec

-----------------------------------------------------------------------------
(***************************************************************************)
(* Lists by the numbers that the entries have, and by those that they are  *)
(* to have.                                                                *)
(***************************************************************************)

\* If the entries are numbered from 1 on, each is listed in the place of its number.
LEMMA NumberIs ==
  ASSUME NEW D, IsFiniteSet(D), NEW T \in [D -> 1..Cardinality(D)], Numbers(T, D),
         NEW s \in Sorts(T, D), NEW k \in DOMAIN s
  PROVE  T[s[k]] = k
<1> DEFINE n == Cardinality(D)
           m == T[s[k]]
           U == {f \in D : T[f] <= m}
           r == [f \in U |-> T[f]]
<1>1. n \in Nat
  BY FS_CardinalityType
<1>2. s[k] \in D /\ s \in SetToSeqs(D)
  BY Lists DEF Sorts
<1>3. T \in Injection(D, 1..n)
  BY DEF Numbers, Injection, IsInjective
<1>4. T \in Surjection(D, 1..n)
  <2>1. IsFiniteSet(1..n) /\ Cardinality(1..n) = n
    BY <1>1, FS_Interval
  <2> QED
    BY <1>3, <2>1, FS_Injection
<1>5. m \in 1..n
  BY <1>2
<1>6. \A x \in 1..n : \E f \in D : T[f] = x
  BY <1>4 DEF Surjection
<1>7. \A f \in D : T[f] \in 1..n
  OBVIOUS
<1>8. \A e, f \in D : T[e] = T[f] => e = f
  BY DEF Numbers
<1>9. k = Cardinality(U)
  <2>1. \A e \in D : T[e] \in Nat
    BY <1>1, <1>7
  <2>2. \A f \in D : T[f] = T[s[k]] => f = s[k]
    BY <1>2, <1>8
  <2> QED
    BY <2>1, <2>2, IndexIs
<1> HIDE DEF m, n
<1>10. r \in [U -> 1..m]
  <2>1. \A f \in U : T[f] \in 1..m
    BY <1>1, <1>5, <1>7
  <2> QED
    BY <2>1
<1>11. \A x \in 1..m : \E f \in U : r[f] = x
  <2> TAKE x \in 1..m
  <2>1. x \in 1..n /\ x <= m
    BY <1>1, <1>5
  <2>2. PICK f \in D : T[f] = x
    BY <1>6, <2>1
  <2> QED
    BY <2>1, <2>2
<1>12. \A e, f \in U : r[e] = r[f] => e = f
  BY <1>8
<1> HIDE DEF U, r
<1>13. r \in Bijection(U, 1..m)
  BY <1>10, <1>11, <1>12 DEF Bijection, Injection, Surjection, IsInjective
<1>14. U \in SUBSET D
  BY DEF U
<1>15. IsFiniteSet(U) /\ IsFiniteSet(1..m) /\ Cardinality(1..m) = m
  BY <1>1, <1>5, <1>14, FS_Subset, FS_Interval
<1>16. Cardinality(U) = m
  <2>1. ExistsBijection(U, 1..m)
    BY <1>13 DEF ExistsBijection
  <2>2. Cardinality(1..m) = Cardinality(U)
    BY <1>15, <2>1, FS_Bijection
  <2> QED
    BY <1>15, <2>2
<1> QED
  BY <1>9, <1>16 DEF m

\* Lists of the same length that differ only in the first m members have these in common.
LEMMA SamePages ==
  ASSUME NEW S, NEW s \in Seq(S), NEW u \in Seq(S), Len(s) = Len(u), NEW n \in Nat,
         \A i \in 1..Len(s) : i <= PerPage * n =>
           \E j \in 1..Len(u) : j <= PerPage * n /\ u[j] = s[i]
  PROVE  ToSet(Pages(s, n)) \subseteq ToSet(Pages(u, n))
<1> DEFINE a == PerPage * n
           x == Pages(s, n)
           y == Pages(u, n)
           m == IF a <= Len(s) THEN a ELSE Len(s)
<1>1. /\ x \in Seq(S) /\ Len(s) \in Nat /\ a \in Nat
      /\ Len(x) = m
      /\ \A i \in 1..Len(x) : x[i] = s[i]
  BY PagesAre
<1>2. /\ y \in Seq(S)
      /\ Len(y) = m
      /\ \A i \in 1..Len(y) : y[i] = u[i]
  BY PagesAre
<1>3. \A i \in 1..Len(s) : i <= a => \E j \in 1..Len(u) : j <= a /\ u[j] = s[i]
  OBVIOUS
<1> HIDE DEF a, x, y
<1>4. ASSUME NEW i \in 1..m PROVE \E j \in 1..m : y[j] = x[i]
  <2>1. i \in 1..Len(s) /\ i <= a
    BY <1>1
  <2>2. PICK j \in 1..Len(u) : j <= a /\ u[j] = s[i]
    BY <1>3, <2>1
  <2>3. j \in 1..m
    BY <1>1, <2>2
  <2> HIDE DEF m
  <2> QED
    BY <1>1, <1>2, <2>2, <2>3
<1> HIDE DEF m
<1>5. DOMAIN x = 1..m /\ DOMAIN y = 1..m
  BY <1>1, <1>2
<1>6. ToSet(x) \subseteq ToSet(y)
  BY <1>4, <1>5 DEF ToSet
<1> QED
  BY <1>6 DEF x, y

\* The start of a list has each entry once.
LEMMA PagesOnce ==
  ASSUME NEW E, IsFiniteSet(E), NEW s \in SetToSeqs(E), NEW n \in Nat
  PROVE  IsInjective(Pages(s, n))
<1> DEFINE x == Pages(s, n)
<1>1. s \in Seq(E) /\ DOMAIN s = 1..Len(s) /\ \A i, j \in DOMAIN s : s[i] = s[j] => i = j
  BY Lists
<1>2. x \in Seq(E) /\ \A i \in 1..Len(x) : x[i] = s[i] /\ i \in 1..Len(s)
  BY <1>1, PagesAre
<1> HIDE DEF x
<1>3. DOMAIN x = 1..Len(x)
  BY <1>2
<1>4. \A i, j \in DOMAIN x : x[i] = x[j] => i = j
  BY <1>1, <1>2, <1>3
<1> QED
  BY <1>4 DEF IsInjective, x

\* By numbers that differ within n pages only, these hold the same entries, and the next
\* page is the same.
LEMMA NearPages ==
  ASSUME LTyped, NEW t \in Texts, NEW n \in Nat,
         NEW T \in [DOMAIN place -> 1..Cardinality(DOMAIN place)],
         Numbers(T, DOMAIN place), Near(T, place, n),
         NEW s \in Sorts(place, Matches[t] \cap DOMAIN place),
         NEW u \in Sorts(T, Matches[t] \cap DOMAIN place)
  PROVE  /\ ToSet(Pages(s, n)) = ToSet(Pages(u, n))
         /\ PageOf(s, n) = PageOf(u, n)
<1> DEFINE E == Matches[t] \cap DOMAIN place
           a == PerPage * n
<1>1. E \subseteq DOMAIN place /\ DOMAIN place \subseteq Entries /\ IsFiniteSet(E)
      /\ \A e \in DOMAIN place : place[e] \in Nat
  BY ListingsAre DEF LTyped, TypeOK
<1>2. IsFiniteSet(DOMAIN place) /\ Cardinality(DOMAIN place) \in Nat
  BY <1>1, FS_Subset, FS_CardinalityType, ListingAssumption
<1>3. s \in Sorts(place, E) /\ u \in Sorts(T, E)
  OBVIOUS
<1>4. a \in Nat
  BY PageSizes
<1>5. PICK L \in 0..a : Agree(place, T, DOMAIN place, L)
  BY DEF Near
<1> HIDE DEF E, a
<1>6. \A e \in E : place[e] \in Nat
  BY <1>1
<1>7. \A e \in E : T[e] \in Nat \ {0}
  BY <1>1, <1>2
<1>8. \A e, f \in E : T[e] = T[f] => e = f
  BY <1>1 DEF Numbers
<1>9. Agree(place, T, E, L) /\ L \in Nat /\ L <= a
  BY <1>1, <1>4, <1>5 DEF Agree
<1>10. /\ DOMAIN s = DOMAIN u
       /\ \A i \in DOMAIN s : i > a => s[i] = u[i]
       /\ \A i \in DOMAIN s : i <= a => \E j \in DOMAIN u : j <= a /\ u[j] = s[i]
       /\ \A i \in DOMAIN u : i <= a => \E j \in DOMAIN s : j <= a /\ s[j] = u[i]
  BY <1>1, <1>3, <1>4, <1>6, <1>7, <1>8, <1>9, SortsAgree
<1>11. /\ s \in Seq(E) /\ DOMAIN s = 1..Len(s) /\ Len(s) = Cardinality(E)
       /\ u \in Seq(E) /\ DOMAIN u = 1..Len(u) /\ Len(u) = Cardinality(E)
  <2>1. s \in SetToSeqs(E) /\ u \in SetToSeqs(E)
    BY <1>3 DEF Sorts
  <2>2. s \in Seq(E) /\ Len(s) = Cardinality(E)
    BY <1>1, <2>1, Lists
  <2>3. u \in Seq(E) /\ Len(u) = Cardinality(E)
    BY <1>1, <2>1, Lists
  <2> QED
    BY <2>2, <2>3
<1>12. Len(s) = Len(u)
  BY <1>11
<1>13. \A i \in 1..Len(s) : i > PerPage * n => s[i] = u[i]
  BY <1>10, <1>11 DEF a
<1>14. \A i \in 1..Len(s) : i <= PerPage * n =>
         \E j \in 1..Len(u) : j <= PerPage * n /\ u[j] = s[i]
  BY <1>10, <1>11 DEF a
<1>15. \A i \in 1..Len(u) : i <= PerPage * n =>
         \E j \in 1..Len(s) : j <= PerPage * n /\ s[j] = u[i]
  BY <1>10, <1>11 DEF a
<1>16. PageOf(s, n) = PageOf(u, n)
  BY <1>11, <1>12, <1>13, SamePage
<1>17. ToSet(Pages(s, n)) \subseteq ToSet(Pages(u, n))
  BY <1>11, <1>12, <1>14, SamePages
<1>18. ToSet(Pages(u, n)) \subseteq ToSet(Pages(s, n))
  BY <1>11, <1>12, <1>15, SamePages
<1> QED
  BY <1>16, <1>17, <1>18

\* There is an order for each filter.
LEMMA SomeListing ==
  ASSUME LTyped, NEW t \in Texts
  PROVE  \E s \in Listings(t) : s \in Sorts(place, Matches[t] \cap DOMAIN place)
<1> DEFINE E == Matches[t] \cap DOMAIN place
<1>1. /\ DOMAIN place \subseteq Entries /\ \A e \in DOMAIN place : place[e] \in Nat
      /\ Entries \subseteq Nat
  BY ListingAssumption DEF LTyped, TypeOK
<1>2. Listings(t) = Sorts(place, E) /\ IsFiniteSet(E)
  BY <1>1, ListingsAre
<1>3. E \in SUBSET Nat /\ \A e \in E : place[e] \in Nat
  BY <1>1
<1> HIDE DEF E
<1>4. Sorts(place, E) # {}
  BY <1>2, <1>3, CanBeListed
<1> QED
  BY <1>2, <1>4 DEF E

\* A list of no pages is empty.
LEMMA NoPages ==
  ASSUME NEW S, NEW s \in Seq(S)
  PROVE  Pages(s, 0) = <<>>
<1>1. PerPage * 0 = 0 /\ 0 \in Nat
  BY PageSizes
<1>2. /\ Pages(s, 0) \in Seq(S) /\ Len(s) \in Nat
      /\ Len(Pages(s, 0)) = IF PerPage * 0 <= Len(s) THEN PerPage * 0 ELSE Len(s)
  BY <1>1, PagesAre
<1>3. Len(Pages(s, 0)) = 0
  BY <1>1, <1>2
<1> QED
  BY <1>2, <1>3

\* Lists by numbers that are the same are the same.
LEMMA SortsEqual ==
  ASSUME NEW E, IsFiniteSet(E), NEW p, NEW T, \A e \in E : p[e] = T[e]
  PROVE  Sorts(p, E) = Sorts(T, E)
<1>1. \A s \in SetToSeqs(E) : \A i \in DOMAIN s : s[i] \in E
  BY Lists
<1>2. \A s \in SetToSeqs(E) : \A i \in DOMAIN s : p[s[i]] = T[s[i]]
  BY <1>1
<1> QED
  BY <1>2 DEF Sorts

-----------------------------------------------------------------------------
(***************************************************************************)
(* What the invariant says of a clean list.                                *)
(***************************************************************************)

\* A clean list that no page has come for is empty.
LEMMA Unstarted ==
  ASSUME LTyped, ~Started
  PROVE  page = 0 /\ shown = <<>>
<1>1. page \in Nat
  BY ListingAssumption DEF LTyped, TypeOK
<1> QED
  BY <1>1 DEF Started, LTyped, WindowSane

\* The pages of a clean list join.
LEMMA InvPagesJoin == LInv => PagesJoin
<1> SUFFICES ASSUME LInv, clean
             PROVE  /\ IsInjective(shown)
                    /\ \E s \in Listings(base) : ToSet(shown) = ToSet(Pages(s, page))
  BY DEF PagesJoin
<1>1. /\ DOMAIN place \subseteq Entries /\ base \in Texts /\ page \in Nat /\ LTyped
  BY ListingAssumption DEF LInv, LTyped, TypeOK
<1> DEFINE E == Matches[base] \cap DOMAIN place
<1>2. /\ Listings(base) = Sorts(place, E) /\ IsFiniteSet(E)
      /\ \A s \in Listings(base) : s \in Seq(Entries)
  BY <1>1, ListingsAre
<1>3. PICK s \in Listings(base) : s \in Sorts(place, E)
  BY <1>1, SomeListing
<1>4. CASE ~Started
  <2>1. page = 0 /\ shown = <<>>
    BY <1>1, <1>4, Unstarted
  <2>2. Pages(s, page) = <<>>
    BY <1>2, <1>3, <2>1, NoPages
  <2>3. IsInjective(shown)
    BY <2>1 DEF IsInjective
  <2> QED
    BY <2>1, <2>2, <2>3
<1>5. CASE Started
  <2>1. Joined(place, writes, base, page, shown, request)
    BY <1>5 DEF LInv, CInv
  <2>2. PICK T \in [DOMAIN place -> 1..Cardinality(DOMAIN place)] :
          /\ Numbers(T, DOMAIN place) /\ Near(T, place, page)
          /\ Shows(T, DOMAIN place, base, page, shown, request)
    BY <2>1 DEF Joined
  <2>3. PICK u \in Sorts(T, E) : shown = Pages(u, page)
    BY <2>2 DEF Shows
  <2>4. ToSet(Pages(s, page)) = ToSet(Pages(u, page))
    BY <1>1, <1>3, <2>2, <2>3, NearPages
  <2>5. u \in SetToSeqs(E)
    BY <2>3 DEF Sorts
  <2> HIDE DEF E
  <2>6. IsInjective(shown)
    BY <1>1, <1>2, <2>3, <2>5, PagesOnce
  <2> QED
    BY <2>3, <2>4, <2>6
<1> QED
  BY <1>4, <1>5

\* Once all is saved, a clean list is in the order of the playlist.
LEMMA InvDragsStick == LInv => DragsStick
<1> SUFFICES ASSUME LInv, clean, writes = {}
             PROVE  \E s \in Listings(base) : shown = Pages(s, page)
  BY DEF DragsStick
<1>1. /\ DOMAIN place \subseteq Entries /\ base \in Texts /\ page \in Nat /\ LTyped
  BY ListingAssumption DEF LInv, LTyped, TypeOK
<1> DEFINE E == Matches[base] \cap DOMAIN place
<1>2. /\ Listings(base) = Sorts(place, E) /\ IsFiniteSet(E)
      /\ \A s \in Listings(base) : s \in Seq(Entries)
  BY <1>1, ListingsAre
<1>3. CASE ~Started
  <2>1. page = 0 /\ shown = <<>>
    BY <1>1, <1>3, Unstarted
  <2>2. PICK s \in Listings(base) : s \in Sorts(place, E)
    BY <1>1, SomeListing
  <2>3. Pages(s, page) = <<>>
    BY <1>2, <2>1, <2>2, NoPages
  <2> QED
    BY <2>1, <2>2, <2>3
<1>4. CASE Started
  <2>1. Joined(place, writes, base, page, shown, request)
    BY <1>4 DEF LInv, CInv
  <2>2. PICK T \in [DOMAIN place -> 1..Cardinality(DOMAIN place)] :
          /\ Due(T, place, writes)
          /\ Shows(T, DOMAIN place, base, page, shown, request)
    BY <2>1 DEF Joined
  <2>3. PICK u \in Sorts(T, E) : shown = Pages(u, page)
    BY <2>2 DEF Shows
  <2>4. \A e \in E : place[e] = T[e]
    BY <2>2 DEF Due
  <2> HIDE DEF E
  <2>5. Sorts(place, E) = Sorts(T, E)
    BY <1>2, <2>4, SortsEqual
  <2> QED
    BY <1>2, <2>3, <2>5
<1> QED
  BY <1>3, <1>4

\* A clean list that a page has come for is not empty for nothing.
LEMMA InvSaysNone == LInv => SaysNoneRightly
<1> SUFFICES ASSUME LInv, message, request = None, page > 0, clean
             PROVE  Matches[base] \cap DOMAIN place = {}
  BY DEF SaysNoneRightly
<1>1. /\ DOMAIN place \subseteq Entries /\ base \in Texts /\ page \in Nat /\ shown = <<>>
  BY ListingAssumption DEF LInv, LTyped, TypeOK, WindowSane
<1> DEFINE E == Matches[base] \cap DOMAIN place
<1>2. IsFiniteSet(E)
  BY <1>1, ListingsAre
<1>3. Joined(place, writes, base, page, shown, request)
  BY DEF LInv, CInv, Started
<1>4. PICK T : Shows(T, DOMAIN place, base, page, shown, request)
  BY <1>3 DEF Joined
<1>5. PICK u \in Sorts(T, E) : shown = Pages(u, page)
  BY <1>4 DEF Shows
<1>6. u \in SetToSeqs(E)
  BY <1>5 DEF Sorts
<1> HIDE DEF E
<1>7. u \in Seq(E) /\ Len(u) = Cardinality(E)
  BY <1>2, <1>6, Lists
<1>8. Len(shown) = IF PerPage * page <= Len(u) THEN PerPage * page ELSE Len(u)
  BY <1>1, <1>5, <1>7, PagesAre
<1>9. PerPage * page > 0 /\ PerPage * page \in Nat
  BY <1>1, PageSizes
<1> DEFINE a == PerPage * page
<1>10. a > 0 /\ a \in Nat /\ Len(shown) = (IF a <= Len(u) THEN a ELSE Len(u)) /\ Len(shown) = 0
  BY <1>1, <1>8, <1>9
<1> HIDE DEF a
<1>11. Cardinality(E) = 0
  BY <1>7, <1>10
<1> QED
  BY <1>2, <1>11, FS_EmptySet DEF E

-----------------------------------------------------------------------------
(***************************************************************************)
(* The steps that change a clean list.                                     *)
(***************************************************************************)

\* Asking for another page, or for none, leaves the list joined.
LEMMA JoinedKept ==
  ASSUME NEW p, NEW ws, NEW t, NEW n, NEW sh, NEW r, NEW q, Joined(p, ws, t, n, sh, r),
         Served(q) => q = r
  PROVE  Joined(p, ws, t, n, sh, q)
<1>1. \A T : Shows(T, DOMAIN p, t, n, sh, r) => Shows(T, DOMAIN p, t, n, sh, q)
  BY DEF Shows
<1> QED
  BY <1>1 DEF Joined

\* The first page begins a list.
LEMMA FirstPage ==
  ASSUME LTyped, ServePage, request.page = 0, clean'
  PROVE  Joined(place, writes, base', 0, shown, request')
<1>1. /\ request # None /\ request \in Request /\ base' = request.text
      /\ writes = {} /\ Numbered
  BY ServeTyped DEF ServePage
<1>2. /\ DOMAIN place \subseteq Entries /\ base' \in Texts /\ shown = <<>>
      /\ \A e \in DOMAIN place : place[e] \in Nat
  BY <1>1 DEF LTyped, TypeOK, WindowSane, Request
<1>3. PICK s \in Listings(request.text) :
        request' = [request EXCEPT !.ids = PageOf(s, request.page)]
  BY DEF ServePage
<1> DEFINE D == DOMAIN place
           n == Cardinality(D)
           E == Matches[base'] \cap D
           T == [e \in D |-> place[e]]
<1>4. IsFiniteSet(D) /\ n \in Nat
  BY <1>2, FS_Subset, FS_CardinalityType, ListingAssumption
<1>5. IsFiniteSet(E) /\ s \in Sorts(place, E) /\ s \in Seq(Entries) /\ E \subseteq D
  BY <1>1, <1>2, <1>3, ListingsAre
<1>6. request'.ids = PageOf(s, 0)
  BY <1>1, <1>3 DEF Request
<1>7. {place[e] : e \in D} = 1..n
  BY <1>1 DEF Numbered
<1> HIDE DEF E
<1>8. T \in [D -> 1..n]
  <2>1. \A e \in D : place[e] \in 1..n
    BY <1>7
  <2> QED
    BY <2>1
<1>9. Numbers(T, D)
  <2>1. T \in Surjection(D, 1..n)
    <3>1. \A x \in 1..n : \E e \in D : T[e] = x
      BY <1>7
    <3> QED
      BY <1>8, <3>1 DEF Surjection
  <2>2. Cardinality(1..n) = n
    BY <1>4, FS_Interval
  <2>3. T \in Injection(D, 1..n)
    BY <1>4, <2>1, <2>2, FS_Surjection
  <2> QED
    BY <1>8, <2>3 DEF Injection, IsInjective, Numbers
<1>10. \A e \in D : T[e] = place[e]
  OBVIOUS
<1> HIDE DEF T
<1>11. Due(T, place, writes)
  BY <1>1, <1>10 DEF Due
<1>12. Near(T, place, 0)
  <2>1. PerPage * 0 = 0
    BY PageSizes
  <2>2. Agree(place, T, D, 0)
    BY <1>10 DEF Agree
  <2>3. 0 \in 0..(PerPage * 0)
    BY <2>1
  <2> QED
    BY <2>2, <2>3 DEF Near
<1>13. s \in Sorts(T, E)
  <2>1. \A e \in E : place[e] = T[e]
    BY <1>5, <1>10
  <2> QED
    BY <1>5, <2>1, SortsEqual
<1>14. shown = Pages(s, 0)
  BY <1>2, <1>5, NoPages
<1>15. Shows(T, D, base', 0, shown, request')
  BY <1>6, <1>13, <1>14 DEF Shows, E
<1> QED
  BY <1>1, <1>8, <1>9, <1>11, <1>12, <1>15 DEF Joined

\* A later page follows those that are in the list.
LEMMA NextPage ==
  ASSUME LTyped, ServePage, Joined(place, writes, base, page, shown, request),
         request.text = base
  PROVE  Joined(place, writes, base, page, shown, request')
<1>1. /\ request \in Request /\ request # None /\ request.page = page /\ page \in Nat
      /\ base \in Texts
  BY ServeTyped, ListingAssumption DEF ServePage, LTyped, TypeOK, WindowSane
<1>2. PICK s \in Listings(base) :
        request' = [request EXCEPT !.ids = PageOf(s, page)]
  BY <1>1 DEF ServePage
<1>3. request'.ids = PageOf(s, page)
  BY <1>1, <1>2 DEF Request
<1> DEFINE E == Matches[base] \cap DOMAIN place
<1>4. s \in Sorts(place, E)
  BY <1>1, <1>2, ListingsAre DEF LTyped, TypeOK
<1>5. PICK T \in [DOMAIN place -> 1..Cardinality(DOMAIN place)] :
        /\ Numbers(T, DOMAIN place) /\ Due(T, place, writes) /\ Near(T, place, page)
        /\ Shows(T, DOMAIN place, base, page, shown, request)
  BY DEF Joined
<1>6. PICK u \in Sorts(T, E) : shown = Pages(u, page)
  BY <1>5 DEF Shows
<1>7. PageOf(s, page) = PageOf(u, page)
  BY <1>1, <1>4, <1>5, <1>6, NearPages
<1>8. Shows(T, DOMAIN place, base, page, shown, request')
  BY <1>3, <1>6, <1>7 DEF Shows
<1> QED
  BY <1>5, <1>8 DEF Joined

\* A page that comes joins those before it.
LEMMA PageJoins ==
  ASSUME LTyped, TakePage, Joined(place, writes, base, page, shown, request)
  PROVE  Joined(place, writes, base, page + 1, shown', request')
<1>1. /\ page \in Nat /\ base \in Texts /\ DOMAIN place \subseteq Entries
      /\ shown' = shown \o request.ids /\ request' = None /\ Served(request)
  BY ListingAssumption DEF LTyped, TypeOK, TakePage, Served
<1>2. PICK T \in [DOMAIN place -> 1..Cardinality(DOMAIN place)] :
        /\ Numbers(T, DOMAIN place) /\ Due(T, place, writes) /\ Near(T, place, page)
        /\ Shows(T, DOMAIN place, base, page, shown, request)
  BY DEF Joined
<1> DEFINE E == Matches[base] \cap DOMAIN place
<1>3. PICK u \in Sorts(T, E) : shown = Pages(u, page) /\ request.ids = PageOf(u, page)
  BY <1>1, <1>2 DEF Shows
<1>4. IsFiniteSet(E)
  BY <1>1, ListingsAre
<1>5. u \in SetToSeqs(E)
  BY <1>3 DEF Sorts
<1> HIDE DEF E
<1>6. u \in Seq(E)
  BY <1>4, <1>5, Lists
<1>7. shown' = Pages(u, page + 1)
  BY <1>1, <1>3, <1>6, PageIs
<1>8. Shows(T, DOMAIN place, base, page + 1, shown', request')
  BY <1>1, <1>3, <1>7 DEF Shows, Served, E
<1>9. Near(T, place, page + 1)
  <2> DEFINE a == PerPage * page
             b == PerPage * (page + 1)
  <2>1. a \in Nat /\ b \in Nat /\ a <= b
    BY <1>1, PageSizes, ListingAssumption
  <2>2. PICK L \in 0..a : Agree(place, T, DOMAIN place, L)
    BY <1>2 DEF Near
  <2> HIDE DEF a, b
  <2>3. L \in 0..b
    BY <2>1, <2>2
  <2> QED
    BY <2>2, <2>3 DEF Near, b
<1> QED
  BY <1>2, <1>8, <1>9 DEF Joined

\* While the rows of a drag are saved, the list stays the start of what comes of them.
LEMMA RowSaved ==
  ASSUME LTyped, NEW w \in writes, SaveNumber(w),
         Joined(place, writes, base, page, shown, request)
  PROVE  Joined(place', writes', base, page, shown, request)
<1> DEFINE e == CHOOSE e \in DOMAIN w : \A f \in DOMAIN w : e <= f
           rest == [f \in DOMAIN w \ {e} |-> w[f]]
           D == DOMAIN place
<1>1. e \in DOMAIN w
  BY NextRow
<1>2. /\ place' = IF e \in D THEN [place EXCEPT ![e] = w[e]] ELSE place
      /\ writes' = (writes \ {w}) \cup (IF DOMAIN rest = {} THEN {} ELSE {rest})
  BY DEF SaveNumber
<1>3. DOMAIN rest = DOMAIN w \ {e} /\ \A f \in DOMAIN rest : rest[f] = w[f]
  OBVIOUS
<1> HIDE DEF e, rest
<1>4. DOMAIN place' = D
  BY <1>2
<1>5. \A v \in writes : v = w
  BY DEF Joined
<1>6. PICK T \in [D -> 1..Cardinality(D)] :
        /\ Numbers(T, D) /\ Due(T, place, writes) /\ Near(T, place, page)
        /\ Shows(T, D, base, page, shown, request)
  BY DEF Joined
<1>7. \A v \in writes' : v = rest
  BY <1>2, <1>5
<1>8. \A f \in D : (f \in DOMAIN w => T[f] = w[f]) /\ (f \notin DOMAIN w => T[f] = place[f])
  BY <1>5, <1>6 DEF Due
<1>9. \A f \in D : place'[f] = IF f = e THEN w[f] ELSE place[f]
  <2> TAKE f \in D
  <2>1. CASE e \in D
    BY <1>2, <2>1
  <2>2. CASE e \notin D
    BY <1>2, <2>2
  <2> QED
    BY <2>1, <2>2
<1>10. \A f \in D : place'[f] = place[f] \/ place'[f] = T[f]
  BY <1>1, <1>8, <1>9
<1>11. Due(T, place', writes')
  <2> SUFFICES ASSUME NEW f \in D
               PROVE  /\ \A v \in writes' : f \in DOMAIN v => T[f] = v[f]
                      /\ (\A v \in writes' : f \notin DOMAIN v) => T[f] = place'[f]
    BY <1>4 DEF Due
  <2>1. \A v \in writes' : f \in DOMAIN v => T[f] = v[f]
    BY <1>3, <1>7, <1>8
  <2>2. ASSUME \A v \in writes' : f \notin DOMAIN v PROVE T[f] = place'[f]
    <3>1. f \notin DOMAIN rest
      BY <1>2, <2>2
    <3>2. f = e \/ f \notin DOMAIN w
      BY <1>3, <3>1
    <3> QED
      BY <1>1, <1>8, <1>9, <3>2
  <2> QED
    BY <2>1, <2>2
<1>12. Near(T, place', page)
  <2>1. PICK L \in 0..(PerPage * page) : Agree(place, T, D, L)
    BY <1>6 DEF Near
  <2>2. Agree(place', T, D, L)
    <3> SUFFICES ASSUME NEW f \in D
                 PROVE  /\ place'[f] <= L <=> T[f] <= L
                        /\ place'[f] > L => place'[f] = T[f]
      BY DEF Agree
    <3>1. /\ place[f] <= L <=> T[f] <= L
          /\ place[f] > L => place[f] = T[f]
      BY <2>1 DEF Agree
    <3> QED
      BY <1>10, <3>1
  <2> QED
    BY <1>4, <2>1, <2>2 DEF Near
<1>13. \A v, x \in writes' : v = x
  BY <1>7
<1> QED
  BY <1>4, <1>6, <1>11, <1>12, <1>13 DEF Joined

\* A drag rearranges the start of the playlist, to which the entries have their numbers,
\* and the numbers to save are those of the new order.
LEMMA DragJoins ==
  ASSUME LTyped, NEW i \in DOMAIN shown, NEW j \in DOMAIN shown,
         Joined(place, {}, NoText, page, shown, request)
  PROVE  LET d == InsertAt(RemoveAt(shown, i), j, shown[i])
         IN  Joined(place, {Numbering(d)}, NoText, page, d, request)
<1> DEFINE d == InsertAt(RemoveAt(shown, i), j, shown[i])
           N == Numbering(d)
           D == DOMAIN place
           n == Cardinality(D)
           L == Len(shown)
           a == PerPage * page
<1>1. /\ shown \in Seq(Entries) /\ page \in Nat /\ D \subseteq Entries /\ NoText \in Texts
      /\ \A e \in D : place[e] \in Nat /\ Matches[NoText] = Entries
  BY ListingAssumption DEF LTyped, TypeOK
<1>2. IsFiniteSet(D) /\ n \in Nat
  BY <1>1, FS_Subset, FS_CardinalityType, ListingAssumption
<1>3. Matches[NoText] \cap D = D
  BY <1>1, ListingAssumption
<1>4. PICK T \in [D -> 1..n] :
        /\ Numbers(T, D) /\ Due(T, place, {}) /\ Shows(T, D, NoText, page, shown, request)
  BY DEF Joined
<1>5. PICK u \in Sorts(T, D) :
        shown = Pages(u, page) /\ (Served(request) => request.ids = PageOf(u, page))
  BY <1>3, <1>4 DEF Shows
<1>6. u \in SetToSeqs(D)
  BY <1>5 DEF Sorts
<1>7. /\ u \in Seq(D) /\ Len(u) = n /\ DOMAIN u = 1..n
      /\ \A k \in 1..n : u[k] \in D
      /\ \A k, l \in 1..n : u[k] = u[l] => k = l
  BY <1>2, <1>6, Lists
<1>8. \A e \in D : \E k \in DOMAIN u : u[k] = e
  <2> HIDE DEF D
  <2> QED
    BY <1>2, <1>6, Lists
<1>9. \A k \in 1..n : T[u[k]] = k
  BY <1>2, <1>4, <1>5, <1>7, NumberIs
<1>10. \A e \in D : T[e] = place[e]
  BY <1>4 DEF Due
<1>11. /\ a \in Nat /\ L \in Nat
       /\ L = IF a <= n THEN a ELSE n
       /\ \A k \in 1..L : shown[k] = u[k]
  <2>1. a \in Nat /\ L \in Nat
    BY <1>1, PageSizes
  <2> HIDE DEF D, n, N, d
  <2>2. Len(Pages(u, page)) = Cut(Len(u), page)
        /\ \A k \in 1..Cut(Len(u), page) : Pages(u, page)[k] = u[k]
    BY <1>1, <1>7, PagesCut
  <2>3. L = Cut(n, page) /\ \A k \in 1..L : shown[k] = u[k]
    BY <1>5, <1>7, <2>2
  <2> QED
    BY <2>1, <2>3 DEF Cut
<1>12. L <= a /\ L <= n /\ \A k \in 1..L : k \in 1..n
  BY <1>2, <1>11
<1>13. i \in 1..L /\ j \in 1..L
  BY <1>1
<1>14. d \in Seq(Entries) /\ Len(d) = L /\ Rearranged(d, shown)
  <2>1. i \in 1..Len(shown) /\ j \in 1..Len(shown)
    BY <1>13
  <2>2. d = InsertAt(RemoveAt(shown, i), j, shown[i])
    OBVIOUS
  <2> HIDE DEF d, D, n, N, a
  <2>3. d \in Seq(Entries) /\ Len(d) = Len(shown) /\ Rearranged(d, shown)
    BY <1>1, <2>1, <2>2, Dragged
  <2> QED
    BY <2>3
<1> HIDE DEF d, L
<1>15. PICK f \in [1..L -> 1..L] :
         /\ \A k \in 1..L : d[k] = shown[f[k]]
         /\ \A k, l \in 1..L : f[k] = f[l] => k = l
  BY <1>14 DEF Rearranged, L
<1>16. \A k \in 1..L : f[k] \in 1..L /\ f[k] \in 1..n /\ d[k] = u[f[k]] /\ d[k] \in D
  <2> TAKE k \in 1..L
  <2>1. f[k] \in 1..L /\ d[k] = shown[f[k]]
    BY <1>15
  <2>2. f[k] \in 1..n /\ shown[f[k]] = u[f[k]]
    BY <1>11, <1>12, <2>1
  <2> QED
    BY <1>7, <2>1, <2>2
<1>17. \A k, l \in 1..L : d[k] = d[l] => k = l
  BY <1>7, <1>15, <1>16
<1>18. DOMAIN N = ToSet(d) /\ \A k \in 1..L : N[d[k]] = k
  <2>1. \A k, l \in 1..Len(d) : d[k] = d[l] => k = l
    BY <1>14, <1>17
  <2>2. DOMAIN N = ToSet(d) /\ \A k \in 1..Len(d) : N[d[k]] = k
    BY <1>14, <2>1, NumberingIs
  <2> QED
    BY <1>14, <2>2
<1> HIDE DEF N, n, a
<1>19. DOMAIN d = 1..L
  BY <1>14
<1>20. \A k \in 1..L : d[k] \in DOMAIN N
  BY <1>18, <1>19 DEF ToSet
<1>21. \A k \in 1..n : k > L => u[k] \notin DOMAIN N
  <2> SUFFICES ASSUME NEW k \in 1..n, k > L, u[k] \in DOMAIN N
               PROVE  FALSE
    OBVIOUS
  <2>1. PICK l \in 1..L : d[l] = u[k]
    BY <1>18, <1>19 DEF ToSet
  <2>2. f[l] = k /\ f[l] \in 1..L
    BY <1>7, <1>16, <2>1
  <2> QED
    BY <1>11, <2>2
<1> DEFINE v == [k \in 1..n |-> IF k <= L THEN d[k] ELSE u[k]]
           T2 == [e \in D |-> IF e \in DOMAIN N THEN N[e] ELSE T[e]]
<1>22. /\ v \in [1..n -> D]
       /\ \A k \in 1..L : v[k] = d[k]
       /\ \A k \in 1..n : k > L => v[k] = u[k]
  <2>1. \A k \in 1..L : v[k] = d[k] /\ v[k] \in D
    <3> TAKE k \in 1..L
    <3>1. k \in 1..n /\ k <= L /\ d[k] \in D
      BY <1>11, <1>12, <1>16
    <3> QED
      BY <3>1
  <2>2. \A k \in 1..n : k > L => v[k] = u[k] /\ v[k] \in D
    BY <1>7, <1>11
  <2>3. \A k \in 1..n : k \in 1..L \/ k > L
    BY <1>11
  <2>4. v = [k \in 1..n |-> v[k]]
    OBVIOUS
  <2> HIDE DEF v
  <2>5. \A k \in 1..n : v[k] \in D
    BY <2>1, <2>2, <2>3
  <2> QED
    BY <2>1, <2>2, <2>4, <2>5
<1>23. /\ \A e \in D : e \in DOMAIN N => T2[e] = N[e]
       /\ \A e \in D : e \notin DOMAIN N => T2[e] = T[e]
  OBVIOUS
<1>24. T2 = [e \in D |-> T2[e]]
  OBVIOUS
<1> HIDE DEF v, T2, D
<1>25. \A k \in 1..n : k \in 1..L \/ (k > L /\ k \notin 1..L)
  BY <1>11
<1>26. \A k \in 1..L : T2[d[k]] = k
  BY <1>16, <1>18, <1>20, <1>23
<1>27. \A k \in 1..n : k > L => T2[u[k]] = k
  BY <1>7, <1>9, <1>21, <1>23
<1>28. \A k \in 1..n : T2[v[k]] = k
  BY <1>22, <1>25, <1>26, <1>27
<1>29. \A k, l \in 1..n : v[k] = v[l] => k = l
  BY <1>28
<1>30. v \in SetToSeqs(D)
  BY <1>22, <1>29 DEF SetToSeqs, n
<1>31. \A e \in D : \E k \in 1..n : v[k] = e
  <2>1. \A e \in D : \E k \in DOMAIN v : v[k] = e
    BY <1>2, <1>30, Lists
  <2> QED
    BY <1>22, <2>1
<1>32. T2 \in [D -> 1..n]
  <2>1. \A e \in D : T2[e] \in 1..n
    BY <1>28, <1>31
  <2> QED
    BY <1>24, <2>1
<1>33. Numbers(T2, D)
  BY <1>28, <1>31 DEF Numbers
<1>34. v \in Sorts(T2, D)
  <2>1. \A k, l \in DOMAIN v : k < l => T2[v[k]] <= T2[v[l]]
    BY <1>22, <1>28
  <2> QED
    BY <1>30, <2>1 DEF Sorts
<1>35. Due(T2, place, {N})
  BY <1>10, <1>23 DEF Due, D
<1>36. Near(T2, place, page)
  <2>1. ASSUME NEW e \in D
        PROVE  /\ place[e] <= L <=> T2[e] <= L
               /\ place[e] > L => place[e] = T2[e]
    <3>1. CASE e \in DOMAIN N
      <4>1. PICK k \in 1..L : d[k] = e
        BY <1>18, <1>19, <3>1 DEF ToSet
      <4>2. T2[e] = k /\ place[e] = f[k] /\ f[k] \in 1..L
        BY <1>9, <1>10, <1>16, <1>26, <4>1
      <4> QED
        BY <1>11, <4>2
    <3>2. CASE e \notin DOMAIN N
      <4>1. T2[e] = place[e]
        BY <1>10, <1>23, <3>2
      <4> QED
        BY <4>1
    <3> QED
      BY <3>1, <3>2
  <2>2. Agree(place, T2, D, L)
    BY <2>1 DEF Agree
  <2>3. L \in 0..a
    BY <1>11, <1>12
  <2> QED
    BY <2>2, <2>3 DEF Near, D, a
<1>37. v \in Seq(D) /\ Len(v) = n
  BY <1>2, <1>30, Lists DEF n
<1>38. d = Pages(v, page)
  <2>1. /\ Pages(v, page) \in Seq(D)
        /\ Len(Pages(v, page)) = IF a <= n THEN a ELSE n
        /\ \A k \in 1..Len(Pages(v, page)) : Pages(v, page)[k] = v[k]
    <3>1. /\ Pages(v, page) \in Seq(D) /\ Len(Pages(v, page)) = Cut(Len(v), page)
          /\ \A k \in 1..Cut(Len(v), page) : Pages(v, page)[k] = v[k]
      BY <1>1, <1>37, PagesCut
    <3> QED
      BY <1>37, <3>1 DEF Cut, a
  <2>2. Len(Pages(v, page)) = L
    BY <1>11, <2>1
  <2>3. \A k \in 1..L : Pages(v, page)[k] = d[k]
    BY <1>22, <2>1, <2>2
  <2>4. Pages(v, page) \in Seq(Entries)
    BY <1>1, <2>1
  <2> QED
    BY <1>14, <2>2, <2>3, <2>4, SeqEqual
<1>39. PageOf(v, page) = PageOf(u, page)
  <2>1. \A k \in 1..Len(v) : k > PerPage * page => v[k] = u[k]
    <3>1. \A k \in 1..n : k > a => k > L
      BY <1>11, <1>12
    <3> QED
      BY <1>22, <1>37, <3>1 DEF a
  <2>2. u \in Seq(D) /\ Len(v) = Len(u)
    BY <1>7, <1>37
  <2> QED
    BY <1>1, <1>37, <2>1, <2>2, SamePage
<1>40. Shows(T2, D, NoText, page, d, request)
  BY <1>3, <1>5, <1>34, <1>38, <1>39 DEF Shows
<1>41. \A x, y \in {N} : x = y
  OBVIOUS
<1>42. Joined(place, {N}, NoText, page, d, request)
  BY <1>32, <1>33, <1>35, <1>36, <1>40, <1>41 DEF Joined, D, n
<1> QED
  BY <1>42 DEF d, N

-----------------------------------------------------------------------------
(***************************************************************************)
(* The invariant, and the theorems.                                        *)
(***************************************************************************)

\* No page has come for the list at first.
LEMMA LInvInit == Init => LInv
<1> SUFFICES ASSUME Init PROVE LInv
  OBVIOUS
<1>1. LTyped
  BY LTypedInit
<1>2. page = 0 /\ request.ids = None
  BY DEF Init
<1>3. ~Started
  BY <1>2 DEF Started, Served
<1> QED
  BY <1>1, <1>3 DEF LInv, CInv

\* Every step keeps a clean list joined.
LEMMA LInvStep == LInv /\ [Next]_vars => LInv'
<1> SUFFICES ASSUME LInv, [Next]_vars PROVE CInv'
  BY LTypedStep DEF LInv
<1> DEFINE J == Joined(place, writes, base, page, shown, request)
<1>1. LTyped /\ (clean /\ Started => J)
  BY DEF LInv, CInv
<1>2. page \in Nat /\ (page = 0 => shown = <<>>)
  BY <1>1, ListingAssumption DEF LTyped, TypeOK, WindowSane
<1> SUFFICES ASSUME clean', Started'
             PROVE  Joined(place, writes, base, page, shown, request)'
  BY DEF CInv
<1>3. ASSUME place' = place, writes' = writes, base' = base, page' = page, shown' = shown,
             clean' => clean, Started, Served(request') => request' = request
      PROVE  Joined(place, writes, base, page, shown, request)'
  <2>1. J
    BY <1>1, <1>3
  <2>2. Joined(place, writes, base, page, shown, request')
    BY <1>3, <2>1, JoinedKept
  <2> QED
    BY <1>3, <2>2
<1>4. CASE UNCHANGED vars
  <2>1. /\ place' = place /\ writes' = writes /\ base' = base /\ page' = page
        /\ shown' = shown /\ clean' = clean /\ request' = request
    BY <1>4 DEF vars, served, list, past
  <2>2. Started
    BY <2>1 DEF Started
  <2> QED
    BY <1>3, <2>1, <2>2
<1>5. ASSUME NEW t \in Texts, Type(t)
      PROVE  Joined(place, writes, base, page, shown, request)'
  <2>1. place' = place /\ writes' = writes /\ base' = base /\ clean' = clean
    BY <1>5 DEF Type, served, past
  <2>2. CASE t \in ShortTexts
    <3>1. shown' = shown /\ page' = page /\ request' = request
      BY <1>5, <2>2 DEF Type
    <3>2. Started
      BY <3>1 DEF Started
    <3> QED
      BY <1>3, <2>1, <3>1, <3>2
  <2>3. CASE t \notin ShortTexts
    <3>1. page' = 0 /\ Ask(t, 0) /\ 0 \in 0..page
      BY <1>2, <1>5, <2>3 DEF Type
    <3>2. ~Served(request')
      BY <1>1, <3>1, AskTyped
    <3> QED
      BY <3>1, <3>2 DEF Started
  <2> QED
    BY <2>2, <2>3
<1>6. CASE Scroll
  <2>1. /\ place' = place /\ writes' = writes /\ base' = base /\ clean' = clean
        /\ shown' = shown /\ page' = page /\ shown # <<>> /\ Ask(text, page)
    BY <1>6 DEF Scroll, served, past
  <2>2. Started
    BY <1>2, <2>1 DEF Started
  <2>3. text \in Texts /\ page \in 0..page
    BY <1>1, <1>2 DEF LTyped, TypeOK
  <2>4. ~Served(request')
    BY <1>1, <2>1, <2>3, AskTyped
  <2> QED
    BY <1>3, <2>1, <2>2, <2>4
<1>7. ASSUME NEW i \in DOMAIN shown, NEW j \in DOMAIN shown, Drag(i, j)
      PROVE  Joined(place, writes, base, page, shown, request)'
  <2> DEFINE d == InsertAt(RemoveAt(shown, i), j, shown[i])
  <2>1. /\ shown' = d /\ writes' = writes \cup {Numbering(d)}
        /\ clean /\ base = NoText /\ writes = {}
        /\ place' = place /\ base' = base /\ page' = page /\ request' = request
    BY <1>7 DEF Drag
  <2>2. Started
    BY <2>1 DEF Started
  <2>3. Joined(place, {}, NoText, page, shown, request)
    BY <1>1, <2>1, <2>2
  <2>4. Joined(place, {Numbering(d)}, NoText, page, d, request)
    BY <1>1, <2>3, DragJoins
  <2> HIDE DEF d
  <2>5. writes' = {Numbering(d)}
    BY <2>1
  <2> QED
    BY <2>1, <2>4, <2>5
<1>8. CASE ServePage
  <2>1. /\ place' = place /\ writes' = writes /\ page' = page /\ shown' = shown
        /\ request # None /\ request.page = page
    BY <1>1, <1>8 DEF ServePage, served, LTyped, WindowSane
  <2>2. CASE page = 0
    <3>1. Joined(place, writes, base', 0, shown, request')
      BY <1>1, <1>8, <2>1, <2>2, FirstPage
    <3> QED
      BY <2>1, <2>2, <3>1
  <2>3. CASE page # 0
    <3>1. base' = base /\ clean /\ request.text = base
      BY <1>8, <2>1, <2>3 DEF ServePage
    <3>2. J
      BY <1>1, <1>2, <2>3, <3>1 DEF Started
    <3>3. Joined(place, writes, base, page, shown, request')
      BY <1>1, <1>8, <3>1, <3>2, NextPage
    <3> QED
      BY <2>1, <3>1, <3>3
  <2> QED
    BY <2>2, <2>3
<1>9. CASE TakePage
  <2>1. /\ place' = place /\ writes' = writes /\ base' = base /\ clean' = clean
        /\ page' = page + 1 /\ Started
    BY <1>9 DEF TakePage, served, past, Started, Served
  <2>2. Joined(place, writes, base, page + 1, shown', request')
    BY <1>1, <1>9, <2>1, PageJoins
  <2> QED
    BY <2>1, <2>2
<1>10. CASE LookEmpty
  <2>1. /\ place' = place /\ writes' = writes /\ base' = base /\ page' = page
        /\ shown' = shown /\ clean' = clean /\ request' = request
    BY <1>10 DEF LookEmpty, served, past
  <2>2. Started
    BY <2>1 DEF Started
  <2> QED
    BY <1>3, <2>1, <2>2
<1>11. CASE FailPage
  <2>1. /\ place' = place /\ writes' = writes /\ base' = base /\ page' = page
        /\ shown' = shown /\ clean' = clean /\ request' = None
    BY <1>11 DEF FailPage, served
  <2>2. ~Served(request')
    BY <2>1 DEF Served
  <2>3. Started
    BY <2>1, <2>2 DEF Started
  <2> QED
    BY <1>3, <2>1, <2>2, <2>3
<1>12. ASSUME NEW w \in writes, SaveNumber(w)
       PROVE  Joined(place, writes, base, page, shown, request)'
  <2>1. /\ base' = base /\ page' = page /\ shown' = shown /\ clean' = clean
        /\ request' = request
    BY <1>12 DEF SaveNumber, list, past
  <2>2. Started
    BY <2>1 DEF Started
  <2>3. J
    BY <1>1, <2>1, <2>2
  <2>4. Joined(place', writes', base, page, shown, request)
    BY <1>1, <1>12, <2>3, RowSaved
  <2> QED
    BY <2>1, <2>4
<1>13. ASSUME NEW w \in writes, FailDrag(w) PROVE FALSE
  BY <1>13 DEF FailDrag
<1>14. ASSUME NEW e \in Entries, RemoveElsewhere(e) PROVE FALSE
  BY <1>14 DEF RemoveElsewhere
<1> QED
  BY <1>4, <1>5, <1>6, <1>7, <1>8, <1>9, <1>10, <1>11, <1>12, <1>13, <1>14 DEF Next, Person

\* Nothing parts the list of a window from its playlist but what is named (a page served
\* amid a drag that is not saved, a filter that is typed but not fetched, a removal, a
\* drag in a filtered list, a second drag, a failure): but for these it has each entry
\* once, and those of the first pages of the playlist.
THEOREM PagesAlwaysJoin == Spec => []PagesJoin
<1> QED
  BY LInvInit, LInvStep, InvPagesJoin, PTL DEF Spec

\* Rows saved one at a time end in the order that the window shows.
THEOREM DragsEndAsShown == Spec => []DragsStick
<1> QED
  BY LInvInit, LInvStep, InvDragsStick, PTL DEF Spec

\* "No Resource Found" is said of a clean list only if the playlist has none.
THEOREM NoneIsNone == Spec => []SaysNoneRightly
<1> QED
  BY LInvInit, LInvStep, InvSaysNone, PTL DEF Spec
=============================================================================
