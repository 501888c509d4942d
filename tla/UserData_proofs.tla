-------------------------- MODULE UserData_proofs --------------------------
(***************************************************************************)
(* For any accounts, tracks, requests in flight and lists they carry, and  *)
(* with all tables in use at once: the types, and the properties of        *)
(* UserData. The order in which clients see a playlist is treated first.   *)
(***************************************************************************)
EXTENDS UserData, FiniteSetTheorems, SequenceTheorems, TLAPS

-----------------------------------------------------------------------------
(* Positions in order *)

Below(D, p) == {q \in D : q < p}
Rank(D, p) == Cardinality(Below(D, p))
FiniteInNat(D) == D \subseteq Nat /\ IsFiniteSet(D)

\* A number of positions is a number.
LEMMA RankType ==
  ASSUME NEW D, FiniteInNat(D), NEW p
  PROVE  /\ IsFiniteSet(Below(D, p)) /\ Rank(D, p) \in 0..Cardinality(D)
         /\ Cardinality(D) \in Nat
<1>1. Below(D, p) \in SUBSET D /\ IsFiniteSet(D)
  BY DEF Below, FiniteInNat
<1>2. IsFiniteSet(Below(D, p)) /\ Rank(D, p) <= Cardinality(D)
  BY <1>1, FS_Subset DEF Rank
<1>3. Rank(D, p) \in Nat /\ Cardinality(D) \in Nat
  BY <1>1, <1>2, FS_CardinalityType DEF Rank
<1> QED
  BY <1>2, <1>3

\* Subsets are smaller.
LEMMA SubsetSmaller ==
  ASSUME NEW S, IsFiniteSet(S), NEW T, T \subseteq S
  PROVE  /\ IsFiniteSet(T) /\ Cardinality(T) \in Nat /\ Cardinality(S) \in Nat
         /\ Cardinality(T) <= Cardinality(S)
         /\ T # S => Cardinality(T) < Cardinality(S)
<1>1. /\ IsFiniteSet(T) /\ Cardinality(T) <= Cardinality(S)
      /\ Cardinality(S) = Cardinality(T) => S = T
  BY FS_Subset
<1>2. Cardinality(T) \in Nat /\ Cardinality(S) \in Nat
  BY <1>1, FS_CardinalityType
<1> QED
  BY <1>1, <1>2

\* More positions are below a greater one, and not all are below one of them.
LEMMA RankLess ==
  ASSUME NEW D, FiniteInNat(D), NEW p \in D, NEW q \in Nat, p < q
  PROVE  Rank(D, p) < Rank(D, q)
<1>1. /\ Below(D, p) \subseteq Below(D, q)
      /\ p \in Below(D, q) /\ p \notin Below(D, p)
  <2>1. \A x \in D : x \in Nat
    BY DEF FiniteInNat
  <2>2. ASSUME NEW x \in D, x < p PROVE x < q
    BY <2>1, <2>2
  <2> QED
    BY <2>1, <2>2 DEF Below
<1>2. IsFiniteSet(Below(D, q)) /\ Below(D, p) # Below(D, q)
  BY <1>1, RankType
<1> QED
  BY <1>1, <1>2, SubsetSmaller DEF Rank

\* The rank of a position is at least that of an earlier one.
LEMMA RankLeq ==
  ASSUME NEW D, FiniteInNat(D), NEW p \in Nat, NEW q \in Nat, q <= p
  PROVE  Rank(D, q) <= Rank(D, p)
<1>1. Below(D, q) \subseteq Below(D, p)
  <2>1. \A x \in D : x \in Nat
    BY DEF FiniteInNat
  <2>2. ASSUME NEW x \in D, x < q PROVE x < p
    BY <2>1, <2>2
  <2> QED
    BY <2>2 DEF Below
<1>2. IsFiniteSet(Below(D, p))
  BY RankType
<1> QED
  BY <1>1, <1>2, SubsetSmaller DEF Rank

\* The rank of a position in use is below the number of positions in use.
LEMMA RankBounded ==
  ASSUME NEW D, FiniteInNat(D), NEW p \in D
  PROVE  Rank(D, p) \in 0..Cardinality(D) - 1
<1>1. Below(D, p) \subseteq D /\ Below(D, p) # D /\ IsFiniteSet(D)
  BY DEF Below, FiniteInNat
<1>2. Rank(D, p) < Cardinality(D)
  BY <1>1, SubsetSmaller DEF Rank
<1> QED
  BY <1>2, RankType

\* The position with a given number of others below it is the only one.
LEMMA RankInjective ==
  ASSUME NEW D, FiniteInNat(D), NEW p \in D, NEW q \in D, Rank(D, p) = Rank(D, q)
  PROVE  p = q
<1>0. p \in Nat /\ q \in Nat
  BY DEF FiniteInNat
<1>1. p \in Nat /\ q \in Nat /\ Rank(D, p) \in Nat
  BY <1>0, RankType
<1>2. ~(p < q) /\ ~(q < p)
  <2>1. ASSUME p < q PROVE FALSE
    <3>1. Rank(D, p) < Rank(D, q)
      BY <1>1, <2>1, RankLess
    <3> QED
      BY <1>1, <3>1
  <2>2. ASSUME q < p PROVE FALSE
    <3>1. Rank(D, q) < Rank(D, p)
      BY <1>1, <2>2, RankLess
    <3> QED
      BY <1>1, <3>1
  <2> QED
    BY <2>1, <2>2
<1> QED
  BY <1>1, <1>2

\* There is an i-th position for every i up to their number: an injection into
\* a set of the same size is onto it.
LEMMA NthPosition ==
  ASSUME NEW D, FiniteInNat(D), NEW i \in 1..Cardinality(D)
  PROVE  Nth(D, i) \in D /\ Rank(D, Nth(D, i)) = i - 1
<1> DEFINE n == Cardinality(D)
           f == [p \in D |-> Rank(D, p)]
<1>1. n \in Nat
  BY RankType
<1>2. IsFiniteSet(0..n - 1) /\ Cardinality(0..n - 1) = n
  <2>1. 0 \in Int /\ n - 1 \in Int
    BY <1>1
  <2>2. Cardinality(0..n - 1) = IF 0 > n - 1 THEN 0 ELSE n - 1 - 0 + 1
    BY <2>1, FS_Interval
  <2> QED
    BY <1>1, <2>1, <2>2, FS_Interval
<1>3. f \in Injection(D, 0..n - 1)
  <2>1. \A p \in D : Rank(D, p) \in 0..n - 1
    BY RankBounded
  <2>2. \A p, q \in D : Rank(D, p) = Rank(D, q) => p = q
    BY RankInjective
  <2> QED
    BY <2>1, <2>2 DEF Injection, IsInjective
<1>4. f \in Surjection(D, 0..n - 1)
  BY <1>2, <1>3, FS_Injection
<1>5. i - 1 \in 0..n - 1
  BY <1>1
<1>6. PICK p \in D : Rank(D, p) = i - 1
  BY <1>4, <1>5 DEF Surjection
<1> QED
  BY <1>6 DEF Nth, Rank, Below

\* A position is the i-th when i - 1 are below it.
LEMMA PositionIsNth ==
  ASSUME NEW D, FiniteInNat(D), NEW p \in D
  PROVE  Rank(D, p) + 1 \in 1..Cardinality(D) /\ Nth(D, Rank(D, p) + 1) = p
<1>1. Rank(D, p) + 1 \in 1..Cardinality(D)
  BY RankBounded, RankType
<1>2. Rank(D, Nth(D, Rank(D, p) + 1)) = Rank(D, p) /\ Nth(D, Rank(D, p) + 1) \in D
  BY <1>1, NthPosition, RankType
<1> QED
  BY <1>1, <1>2, RankInjective

\* Some positions have a highest one.
LEMMA MaxPositionExists ==
  ASSUME NEW D, FiniteInNat(D), D # {}
  PROVE  Max(D) \in D /\ \A q \in D : q <= Max(D)
<1> DEFINE n == Cardinality(D)
           p == Nth(D, n)
<1>1. n \in Nat \ {0}
  BY RankType, FS_EmptySet DEF FiniteInNat
<1>2. p \in D /\ Rank(D, p) = n - 1
  BY <1>1, NthPosition
<1>3. ASSUME NEW q \in D PROVE p >= q
  <2>1. p \in Nat /\ q \in Nat
    BY <1>2 DEF FiniteInNat
  <2>2. Rank(D, q) <= n - 1 /\ Rank(D, q) \in Nat
    BY RankBounded, RankType
  <2>3. ASSUME p < q PROVE FALSE
    <3>1. Rank(D, p) < Rank(D, q)
      BY <1>2, <2>1, <2>3, RankLess
    <3> QED
      BY <1>1, <1>2, <2>2, <3>1
  <2> QED
    BY <2>1, <2>3
<1>4. Max(D) \in D /\ \A q \in D : Max(D) >= q
  BY <1>2, <1>3 DEF Max
<1> QED
  BY <1>4 DEF FiniteInNat

-----------------------------------------------------------------------------
(* What clients see of a playlist *)

\* What is visible are the entries, as a sequence of as many tracks.
LEMMA VisibleType ==
  ASSUME NEW D, FiniteInNat(D), NEW rows \in [D -> TrackIds]
  PROVE  /\ Visible(rows) \in Seq(TrackIds)
         /\ Len(Visible(rows)) = Cardinality(D) /\ Cardinality(D) \in Nat
         /\ DOMAIN Visible(rows) = 1..Cardinality(D)
         /\ \A i \in 1..Cardinality(D) : /\ Nth(D, i) \in D
                                         /\ Visible(rows)[i] = rows[Nth(D, i)]
<1>1. Cardinality(D) \in Nat
  BY RankType
<1>2. \A i \in 1..Cardinality(D) : Nth(D, i) \in D
  BY NthPosition
<1>3. Visible(rows) = [i \in 1..Cardinality(D) |-> rows[Nth(D, i)]]
  BY DEF Visible
<1>4. Visible(rows) \in [1..Cardinality(D) -> TrackIds]
  BY <1>2, <1>3
<1>5. Visible(rows) \in Seq(TrackIds)
  BY <1>1, <1>4
<1> QED
  BY <1>1, <1>2, <1>3, <1>5

\* A list written from scratch is seen as it was written.
LEMMA EnumeratedVisible ==
  ASSUME NEW songs \in Seq(TrackIds)
  PROVE  /\ FiniteInNat(0..Len(songs) - 1)
         /\ Enumerated(songs) \in [0..Len(songs) - 1 -> TrackIds]
         /\ Range(Enumerated(songs)) = Range(songs)
         /\ Visible(Enumerated(songs)) = songs
<1> DEFINE n == Len(songs)
           D == 0..n - 1
           new == Enumerated(songs)
<1>1. n \in Nat /\ \A i \in 1..n : songs[i] \in TrackIds
  BY ElementOfSeq, LenProperties
<1>2. IsFiniteSet(D) /\ Cardinality(D) = n /\ D \subseteq Nat
  <2>1. 0 \in Int /\ n - 1 \in Int
    BY <1>1
  <2>2. IsFiniteSet(D) /\ Cardinality(D) = IF 0 > n - 1 THEN 0 ELSE n - 1 - 0 + 1
    BY <2>1, FS_Interval
  <2> QED
    BY <1>1, <2>2
<1>3. FiniteInNat(D)
  BY <1>2 DEF FiniteInNat
<1>4. new = [i \in D |-> songs[i + 1]]
  BY DEF Enumerated
<1>5. new \in [D -> TrackIds]
  BY <1>1, <1>4
<1>6. Range(new) = Range(songs)
  <2>1. DOMAIN songs = 1..n /\ DOMAIN new = D
    BY <1>4
  <2>2. ASSUME NEW i \in 1..n PROVE i - 1 \in D /\ songs[i] = new[i - 1]
    BY <1>1, <1>4
  <2>3. ASSUME NEW i \in D PROVE i + 1 \in 1..n /\ songs[i + 1] = new[i]
    BY <1>1, <1>4
  <2>4. \A x \in Range(songs) : x \in Range(new)
    BY <2>1, <2>2 DEF Range
  <2>5. \A x \in Range(new) : x \in Range(songs)
    BY <2>1, <2>3 DEF Range
  <2> QED
    BY <2>4, <2>5
<1>7. ASSUME NEW i \in 1..n PROVE Visible(new)[i] = songs[i]
  <2>1. i - 1 \in D
    BY <1>1
  <2>2. Below(D, i - 1) = 0..i - 2
    BY <1>1, <2>1 DEF Below
  <2>3. Rank(D, i - 1) = i - 1
    <3>1. 0 \in Int /\ i - 2 \in Int
      BY <1>1
    <3>2. Cardinality(0..i - 2) = IF 0 > i - 2 THEN 0 ELSE i - 2 - 0 + 1
      BY <3>1, FS_Interval
    <3> QED
      BY <1>1, <2>2, <3>2 DEF Rank
  <2>4. Nth(D, i) = i - 1
    <3>1. Nth(D, Rank(D, i - 1) + 1) = i - 1
      BY <1>3, <2>1, PositionIsNth
    <3> QED
      BY <1>1, <2>3, <3>1
  <2>5. Visible(new)[i] = new[Nth(D, i)]
    BY <1>2, <1>3, <1>5, VisibleType
  <2> QED
    BY <1>1, <1>4, <2>1, <2>4, <2>5
<1>8. Visible(new) \in Seq(TrackIds) /\ Len(Visible(new)) = n
  BY <1>2, <1>3, <1>5, VisibleType
<1>9. Visible(new) = songs
  BY <1>7, <1>8, SeqEqual
<1> QED
  BY <1>3, <1>5, <1>6, <1>9

\* A sequence with others put in after its first k.
LEMMA SongsAt ==
  ASSUME NEW s \in Seq(TrackIds), NEW songs \in Seq(TrackIds), NEW k \in 0..Len(s)
  PROVE  /\ WithSongsAt(s, k, songs) \in Seq(TrackIds)
         /\ Len(WithSongsAt(s, k, songs)) = Len(s) + Len(songs)
         /\ \A i \in 1..Len(s) + Len(songs) :
               WithSongsAt(s, k, songs)[i] =
                   IF i <= k THEN s[i]
                   ELSE IF i <= k + Len(songs) THEN songs[i - k] ELSE s[i - Len(songs)]
<1> DEFINE a == SubSeq(s, 1, k)
           c == SubSeq(s, k + 1, Len(s))
<1>1. Len(s) \in Nat /\ Len(songs) \in Nat /\ \A i \in 1..Len(s) : s[i] \in TrackIds
  BY ElementOfSeq, LenProperties
<1>2. a \in Seq(TrackIds) /\ Len(a) = k /\ \A i \in 1..k : a[i] = s[i]
  <2>1. /\ a \in Seq(TrackIds) /\ Len(a) = IF 1 <= k THEN k - 1 + 1 ELSE 0
        /\ \A i \in 1..k - 1 + 1 : a[i] = s[1 + i - 1]
    BY <1>1, SubSeqProperties
  <2> QED
    BY <1>1, <2>1
<1>3. /\ c \in Seq(TrackIds) /\ Len(c) = Len(s) - k
      /\ \A i \in 1..Len(s) - k : c[i] = s[k + i]
  <2>1. /\ c \in Seq(TrackIds)
        /\ Len(c) = IF k + 1 <= Len(s) THEN Len(s) - (k + 1) + 1 ELSE 0
        /\ \A i \in 1..Len(s) - (k + 1) + 1 : c[i] = s[(k + 1) + i - 1]
    BY <1>1, SubSeqProperties
  <2> QED
    BY <1>1, <2>1
<1> HIDE DEF a, c
<1>4. /\ a \o songs \in Seq(TrackIds) /\ Len(a \o songs) = k + Len(songs)
      /\ \A i \in 1..k + Len(songs) :
            (a \o songs)[i] = IF i <= k THEN a[i] ELSE songs[i - k]
  <2>1. /\ a \o songs \in Seq(TrackIds) /\ Len(a \o songs) = Len(a) + Len(songs)
        /\ \A i \in 1..Len(a) + Len(songs) :
              (a \o songs)[i] = IF i <= Len(a) THEN a[i] ELSE songs[i - Len(a)]
    BY <1>2, ConcatProperties
  <2> QED
    BY <1>2, <2>1
<1>5. /\ (a \o songs) \o c \in Seq(TrackIds)
      /\ Len((a \o songs) \o c) = k + Len(songs) + (Len(s) - k)
      /\ \A i \in 1..k + Len(songs) + (Len(s) - k) :
            ((a \o songs) \o c)[i] = IF i <= k + Len(songs) THEN (a \o songs)[i]
                                     ELSE c[i - (k + Len(songs))]
  <2> DEFINE b == a \o songs
  <2>1. b \in Seq(TrackIds) /\ Len(b) = k + Len(songs)
    BY <1>4
  <2> HIDE DEF b
  <2>2. /\ b \o c \in Seq(TrackIds) /\ Len(b \o c) = Len(b) + Len(c)
        /\ \A i \in 1..Len(b) + Len(c) :
              (b \o c)[i] = IF i <= Len(b) THEN b[i] ELSE c[i - Len(b)]
    BY <1>3, <2>1, ConcatProperties
  <2>3. Len(b) + Len(c) = k + Len(songs) + (Len(s) - k)
    BY <1>3, <2>1
  <2>4. /\ b \o c \in Seq(TrackIds) /\ Len(b \o c) = k + Len(songs) + (Len(s) - k)
        /\ \A i \in 1..k + Len(songs) + (Len(s) - k) :
              (b \o c)[i] = IF i <= k + Len(songs) THEN b[i] ELSE c[i - (k + Len(songs))]
    BY <2>1, <2>2, <2>3
  <2> QED
    BY <2>4 DEF b
<1>6. WithSongsAt(s, k, songs) = (a \o songs) \o c
  BY DEF WithSongsAt, a, c
<1>7. k + Len(songs) + (Len(s) - k) = Len(s) + Len(songs)
  BY <1>1
<1>8. ASSUME NEW i \in 1..Len(s) + Len(songs)
      PROVE  ((a \o songs) \o c)[i] =
                   IF i <= k THEN s[i]
                   ELSE IF i <= k + Len(songs) THEN songs[i - k] ELSE s[i - Len(songs)]
  <2>1. CASE i <= k
    BY <1>1, <1>2, <1>4, <1>5, <1>7, <2>1
  <2>2. CASE ~(i <= k) /\ i <= k + Len(songs)
    BY <1>1, <1>4, <1>5, <1>7, <2>2
  <2>3. CASE ~(i <= k + Len(songs))
    <3>1. ((a \o songs) \o c)[i] = c[i - (k + Len(songs))]
      <4>1. i \in 1..k + Len(songs) + (Len(s) - k)
        BY <1>7
      <4> QED
        BY <1>5, <2>3, <4>1
    <3>2. i - (k + Len(songs)) \in 1..Len(s) - k
      BY <1>1, <2>3
    <3>3. k + (i - (k + Len(songs))) = i - Len(songs)
      BY <1>1
    <3>4. c[i - (k + Len(songs))] = s[k + (i - (k + Len(songs)))]
      BY <1>3, <3>2
    <3>5. c[i - (k + Len(songs))] = s[i - Len(songs)]
      BY <3>3, <3>4
    <3>6. ~(i <= k)
      BY <1>1, <2>3
    <3> QED
      BY <2>3, <3>1, <3>5, <3>6
  <2> QED
    BY <2>1, <2>2, <2>3
<1> QED
  BY <1>5, <1>6, <1>7, <1>8
\* Entries added from position n on stand together, after those with lower
\* positions and before those with higher ones.
LEMMA AddedVisible ==
  ASSUME NEW D, FiniteInNat(D), NEW rows \in [D -> TrackIds],
         NEW songs \in Seq(TrackIds), NEW n \in Nat,
         D \cap (n..n + Len(songs) - 1) = {}
  PROVE  LET added == Inserted(rows, Appended(n, songs))
             N == D \cup n..n + Len(songs) - 1
         IN  /\ FiniteInNat(N) /\ added \in [N -> TrackIds]
             /\ Rank(D, n) \in 0..Len(Visible(rows))
             /\ Visible(added) = WithSongsAt(Visible(rows), Rank(D, n), songs)
<1> DEFINE L == Len(songs)
           m == Cardinality(D)
           A == n..n + L - 1
           N == D \cup A
           k == Rank(D, n)
           added == Inserted(rows, Appended(n, songs))
           old == Visible(rows)
<1>1. L \in Nat /\ \A i \in 1..L : songs[i] \in TrackIds
  BY ElementOfSeq, LenProperties
<1>2. m \in Nat /\ k \in 0..m /\ D \subseteq Nat /\ IsFiniteSet(D)
  BY RankType DEF FiniteInNat
<1>3. /\ IsFiniteSet(A) /\ Cardinality(A) = L /\ A \subseteq Nat
      /\ \A j \in 0..L - 1 : IsFiniteSet(n..n + j - 1) /\ Cardinality(n..n + j - 1) = j
  <2>1. ASSUME NEW j \in Nat
        PROVE  IsFiniteSet(n..n + j - 1) /\ Cardinality(n..n + j - 1) = j
    <3>1. n \in Int /\ n + j - 1 \in Int
      OBVIOUS
    <3>2. /\ IsFiniteSet(n..n + j - 1)
          /\ Cardinality(n..n + j - 1) = IF n > n + j - 1 THEN 0 ELSE n + j - 1 - n + 1
      BY <3>1, FS_Interval
    <3> QED
      BY <3>2
  <2> QED
    BY <1>1, <2>1
<1>4. FiniteInNat(N) /\ Cardinality(N) = m + L
  <2>1. IsFiniteSet(N) /\ Cardinality(N) = m + L - Cardinality(D \cap A)
    BY <1>2, <1>3, FS_Union
  <2>2. Cardinality(D \cap A) = 0
    BY FS_EmptySet
  <2>3. Cardinality(N) = m + L
    BY <1>1, <1>2, <2>1, <2>2
  <2>4. N \subseteq Nat
    BY <1>2, <1>3
  <2> QED
    BY <2>1, <2>3, <2>4 DEF FiniteInNat
<1>5. added = [i \in N |-> IF i \in A THEN songs[i - n + 1] ELSE rows[i]]
  BY DEF Inserted, Appended
<1>6. added \in [N -> TrackIds]
  <2>1. \A i \in A : i - n + 1 \in 1..L
    BY <1>1
  <2> QED
    BY <1>1, <1>5, <2>1
<1>14. /\ \A x \in D : added[x] = rows[x]
       /\ \A x \in A : added[x] = songs[x - n + 1]
  BY <1>5
<1> HIDE DEF added
<1>7. ASSUME NEW p \in D, p < n PROVE Rank(N, p) = Rank(D, p)
  <2>1. Below(N, p) = Below(D, p)
    BY <1>2, <1>7 DEF Below
  <2> QED
    BY <2>1 DEF Rank
<1>8. ASSUME NEW p \in D, p >= n PROVE Rank(N, p) = Rank(D, p) + L
  <2>1. p \in Nat /\ \A i \in A : i < p
    BY <1>1, <1>2, <1>8
  <2>2. Below(N, p) = Below(D, p) \cup A /\ Below(D, p) \cap A = {}
    BY <2>1 DEF Below
  <2>3. IsFiniteSet(Below(D, p)) /\ Rank(D, p) \in Nat
    BY RankType
  <2>4. Cardinality(Below(D, p) \cup A) = Rank(D, p) + L - Cardinality(Below(D, p) \cap A)
    BY <1>3, <2>3, FS_Union DEF Rank
  <2>5. Cardinality(Below(D, p) \cap A) = 0
    BY <2>2, FS_EmptySet
  <2>6. Rank(N, p) = Cardinality(Below(D, p) \cup A)
    BY <2>2 DEF Rank
  <2> QED
    BY <1>1, <2>3, <2>4, <2>5, <2>6
<1>9. ASSUME NEW j \in 0..L - 1 PROVE Rank(N, n + j) = k + j
  <2> DEFINE B == n..n + j - 1
  <2>1. Below(N, n + j) = Below(D, n) \cup B /\ Below(D, n) \cap B = {}
    <3>1. \A x \in D : x \in Nat /\ (x < n + j => x < n)
      BY <1>1, <1>2
    <3>2. \A x \in A : x < n + j => x \in B
      BY <1>1
    <3>3. \A x \in B : x \in A /\ x < n + j /\ ~(x < n)
      BY <1>1
    <3>4. \A x \in D : x < n => x < n + j
      BY <1>2
    <3> QED
      BY <3>1, <3>2, <3>3, <3>4 DEF Below
  <2>2. IsFiniteSet(Below(D, n)) /\ IsFiniteSet(B) /\ Cardinality(B) = j
    BY <1>3, RankType
  <2>3. Cardinality(Below(D, n) \cup B) = k + j - Cardinality(Below(D, n) \cap B)
    BY <2>2, FS_Union DEF Rank
  <2>4. Cardinality(Below(D, n) \cap B) = 0
    BY <2>1, FS_EmptySet
  <2>5. Rank(N, n + j) = Cardinality(Below(D, n) \cup B)
    BY <2>1 DEF Rank
  <2> QED
    BY <1>2, <2>3, <2>4, <2>5
<1>10. /\ old \in Seq(TrackIds) /\ Len(old) = m
       /\ \A i \in 1..m : old[i] = rows[Nth(D, i)]
  BY VisibleType
<1> HIDE DEF N
<1>11. /\ Visible(added) \in Seq(TrackIds) /\ Len(Visible(added)) = m + L
       /\ \A i \in 1..m + L : Visible(added)[i] = added[Nth(N, i)]
  <2>1. /\ Visible(added) \in Seq(TrackIds) /\ Len(Visible(added)) = Cardinality(N)
        /\ \A i \in 1..Cardinality(N) : Visible(added)[i] = added[Nth(N, i)]
    BY <1>4, <1>6, VisibleType
  <2> QED
    BY <1>4, <2>1
<1> HIDE DEF L, m, k, old
<1>12. ASSUME NEW i \in 1..m + L
       PROVE  Visible(added)[i] = IF i <= k THEN old[i]
                                  ELSE IF i <= k + L THEN songs[i - k] ELSE old[i - L]
  <2>1. CASE i <= k
    <3>1. i \in 1..m
      BY <1>1, <1>2, <2>1
    <3> DEFINE p == Nth(D, i)
    <3>2. p \in D /\ Rank(D, p) = i - 1
      BY <3>1, NthPosition DEF m
    <3>3. p < n
      <4>1. p \in Nat
        BY <1>2, <3>2
      <4>2. ASSUME n <= p PROVE FALSE
        <5>1. Rank(D, n) <= Rank(D, p)
          BY <4>1, <4>2, RankLeq
        <5> QED
          BY <1>2, <2>1, <3>2, <5>1 DEF k
      <4> QED
        BY <4>1, <4>2
    <3>4. Nth(N, i) = p
      <4>1. p \in N /\ Rank(N, p) = i - 1
        BY <1>7, <3>2, <3>3 DEF N
      <4>2. Nth(N, Rank(N, p) + 1) = p
        BY <1>4, <4>1, PositionIsNth
      <4> QED
        BY <4>1, <4>2
    <3> QED
      BY <1>10, <1>11, <1>14, <2>1, <3>1, <3>2, <3>4
  <2>2. CASE ~(i <= k) /\ i <= k + L
    <3>1. PICK j \in 0..L - 1 : j = i - k - 1
      BY <1>1, <1>2, <2>2
    <3>2. n + j \in A
      BY <1>1, <3>1 DEF L
    <3>3. Nth(N, i) = n + j
      <4>1. n + j \in N /\ Rank(N, n + j) = i - 1
        <5>1. Rank(N, n + j) = k + j
          BY <1>9, <3>1 DEF L
        <5>2. k + j = i - 1
          BY <1>1, <1>2, <3>1
        <5> QED
          BY <3>2, <5>1, <5>2 DEF N
      <4>2. Nth(N, Rank(N, n + j) + 1) = n + j
        BY <1>4, <4>1, PositionIsNth
      <4> QED
        BY <4>1, <4>2
    <3>4. n + j - n + 1 = i - k
      BY <1>2, <3>1
    <3>5. added[n + j] = songs[n + j - n + 1]
      BY <1>14, <3>2
    <3> QED
      BY <1>11, <2>2, <3>3, <3>4, <3>5
  <2>3. CASE ~(i <= k) /\ ~(i <= k + L)
    <3>1. i - L \in 1..m
      BY <1>1, <1>2, <2>3
    <3> DEFINE p == Nth(D, i - L)
    <3>2. p \in D /\ Rank(D, p) = i - L - 1
      BY <3>1, NthPosition DEF m
    <3>3. p >= n
      <4>1. p \in Nat
        BY <1>2, <3>2
      <4>2. ASSUME p < n PROVE FALSE
        <5>1. Rank(D, p) < Rank(D, n)
          BY <3>2, <4>2, RankLess
        <5> QED
          BY <1>1, <1>2, <2>3, <3>2, <5>1 DEF k
      <4> QED
        BY <4>1, <4>2
    <3>4. Nth(N, i) = p
      <4>1. p \in N /\ Rank(N, p) = i - 1
        <5>1. Rank(N, p) = Rank(D, p) + L
          BY <1>8, <3>2, <3>3
        <5>2. i - L - 1 + L = i - 1
          BY <1>1
        <5> QED
          BY <3>2, <5>1, <5>2 DEF N
      <4>2. Nth(N, Rank(N, p) + 1) = p
        BY <1>4, <4>1, PositionIsNth
      <4> QED
        BY <4>1, <4>2
    <3> QED
      BY <1>10, <1>11, <1>14, <2>3, <3>1, <3>2, <3>4
  <2> QED
    BY <2>1, <2>2, <2>3
<1>13. Visible(added) = WithSongsAt(old, k, songs)
  <2> DEFINE new == WithSongsAt(old, k, songs)
  <2>1. k \in 0..Len(old)
    BY <1>2, <1>10
  <2>2. /\ new \in Seq(TrackIds) /\ Len(new) = Len(old) + Len(songs)
        /\ \A i \in 1..Len(old) + Len(songs) :
              new[i] = IF i <= k THEN old[i]
                       ELSE IF i <= k + Len(songs) THEN songs[i - k] ELSE old[i - Len(songs)]
    BY <1>10, <2>1, SongsAt
  <2>3. Len(old) + Len(songs) = m + L
    BY <1>10 DEF L
  <2>4. Len(new) = m + L /\ \A i \in 1..m + L : Visible(added)[i] = new[i]
    BY <1>12, <2>2, <2>3 DEF L
  <2> HIDE DEF new
  <2>5. Visible(added) = new
    BY <1>11, <2>2, <2>4, SeqEqual
  <2> QED
    BY <2>5 DEF new
<1> QED
  BY <1>2, <1>4, <1>6, <1>10, <1>13 DEF L, N, k, old, added

(* The indexes that lead to some of the positions.                         *)
Indexes(D, E) == {j \in 1..Cardinality(D) : Nth(D, j) \in E}

(* What a sequence has at some indexes, in their order.                    *)
Picked(seq, I) == [i \in 1..Cardinality(I) |-> seq[Nth(I, i)]]

\* The positions that are left keep their order: the i-th of them is the i-th
\* of those indexes that lead to one of them.
LEMMA NthOfSome ==
  ASSUME NEW D, FiniteInNat(D), NEW E, E \subseteq D
  PROVE  LET I == {j \in 1..Cardinality(D) : Nth(D, j) \in E}
         IN  /\ FiniteInNat(E) /\ FiniteInNat(I) /\ Cardinality(I) = Cardinality(E)
             /\ \A i \in 1..Cardinality(E) : Nth(I, i) \in I /\ Nth(D, Nth(I, i)) = Nth(E, i)
<1> DEFINE I == {j \in 1..Cardinality(D) : Nth(D, j) \in E}
           at(p) == Rank(D, p) + 1
<1>1. FiniteInNat(E)
  BY FS_Subset DEF FiniteInNat
<1>2. Cardinality(D) \in Nat
  BY RankType
<1>3. FiniteInNat(I)
  <2>1. 1 \in Int /\ Cardinality(D) \in Int
    BY <1>2
  <2>2. IsFiniteSet(1..Cardinality(D)) /\ I \subseteq 1..Cardinality(D)
    BY <2>1, FS_Interval
  <2>3. IsFiniteSet(I)
    BY <2>2, SubsetSmaller
  <2>4. I \subseteq Nat
    BY <1>2
  <2> QED
    BY <2>3, <2>4 DEF FiniteInNat
<1>4. ASSUME NEW p \in D PROVE at(p) \in 1..Cardinality(D) /\ Nth(D, at(p)) = p
  BY PositionIsNth
<1>5. ASSUME NEW p \in E PROVE at(p) \in I /\ Nth(D, at(p)) = p
  BY <1>4
<1>6. ASSUME NEW p \in D, NEW q \in D, at(p) = at(q) PROVE p = q
  BY <1>4, <1>6
<1>7. ASSUME NEW p \in D, NEW q \in D PROVE q < p <=> at(q) < at(p)
  <2>1. p \in Nat /\ q \in Nat
    BY DEF FiniteInNat
  <2>2. Rank(D, p) \in Nat /\ Rank(D, q) \in Nat
    BY RankType
  <2>3. q < p => Rank(D, q) < Rank(D, p)
    BY <2>1, RankLess
  <2>4. p <= q => Rank(D, p) <= Rank(D, q)
    BY <2>1, RankLeq
  <2> QED
    BY <2>1, <2>2, <2>3, <2>4
<1>8. ASSUME NEW j \in I PROVE Nth(D, j) \in E /\ at(Nth(D, j)) = j
  <2>1. j \in 1..Cardinality(D) /\ Nth(D, j) \in E
    OBVIOUS
  <2>2. Rank(D, Nth(D, j)) = j - 1
    BY <2>1, NthPosition
  <2> QED
    BY <1>2, <2>1, <2>2
<1>9. \A p \in E : at(p) \in Nat
  BY <1>3, <1>5 DEF FiniteInNat
<1> HIDE DEF I, at
<1>10. ASSUME NEW p \in E PROVE Rank(I, at(p)) = Rank(E, p)
  <2> DEFINE B == Below(E, p)
             C == Below(I, at(p))
             f == [q \in B |-> at(q)]
  <2>1. IsFiniteSet(B)
    BY <1>1, RankType
  <2>2. f \in Injection(B, C)
    <3>1. \A q \in B : q \in E /\ q \in D /\ q < p
      BY DEF Below
    <3>2. \A q \in B : at(q) \in C
      BY <1>5, <1>7, <3>1 DEF Below
    <3>3. \A q, r \in B : at(q) = at(r) => q = r
      BY <1>6, <3>1
    <3> QED
      BY <3>2, <3>3 DEF Injection, IsInjective
  <2>3. f \in Surjection(B, C)
    <3>1. ASSUME NEW j \in C PROVE Nth(D, j) \in B /\ at(Nth(D, j)) = j
      <4>1. j \in I /\ j < at(p)
        BY DEF Below
      <4>2. Nth(D, j) \in E /\ at(Nth(D, j)) = j
        BY <1>8, <4>1
      <4>3. Nth(D, j) < p
        BY <1>7, <4>1, <4>2
      <4> QED
        BY <4>2, <4>3 DEF Below
    <3> QED
      BY <2>2, <3>1 DEF Injection, Surjection
  <2>4. ExistsBijection(B, C)
    BY <2>2, <2>3 DEF ExistsBijection, Bijection
  <2>5. Cardinality(C) = Cardinality(B)
    BY <2>1, <2>4, FS_Bijection
  <2> QED
    BY <2>5 DEF Rank
<1>11. Cardinality(I) = Cardinality(E)
  <2> DEFINE f == [q \in E |-> at(q)]
  <2>1. f \in Injection(E, I)
    BY <1>5, <1>6 DEF Injection, IsInjective
  <2>2. f \in Surjection(E, I)
    BY <1>5, <1>8 DEF Surjection
  <2>3. ExistsBijection(E, I)
    BY <2>1, <2>2 DEF ExistsBijection, Bijection
  <2> QED
    BY <1>1, <2>3, FS_Bijection DEF FiniteInNat
<1>12. ASSUME NEW i \in 1..Cardinality(E)
       PROVE  Nth(I, i) \in I /\ Nth(D, Nth(I, i)) = Nth(E, i)
  <2> DEFINE p == Nth(E, i)
  <2>1. p \in E /\ Rank(E, p) = i - 1
    BY <1>1, NthPosition
  <2>2. at(p) \in I /\ Rank(I, at(p)) = i - 1 /\ Nth(D, at(p)) = p
    BY <1>5, <1>10, <2>1
  <2>3. Nth(I, Rank(I, at(p)) + 1) = at(p)
    BY <1>3, <2>2, PositionIsNth
  <2>4. Cardinality(E) \in Nat
    BY <1>1, RankType
  <2>5. Nth(I, i) = at(p)
    BY <2>2, <2>3, <2>4
  <2> QED
    BY <2>2, <2>5
<1> QED
  BY <1>1, <1>3, <1>11, <1>12 DEF I
\* Rows that are deleted by position leave the others in their order, and take
\* no more with them than there were positions to delete.
LEMMA KeptVisible ==
  ASSUME NEW D, FiniteInNat(D), NEW rows \in [D -> TrackIds], NEW R, IsFiniteSet(R)
  PROVE  /\ FiniteInNat(D \ R) /\ Kept(rows, R) \in [D \ R -> TrackIds]
         /\ Visible(Kept(rows, R)) = Picked(Visible(rows), Indexes(D, D \ R))
         /\ Cardinality((1..Cardinality(D)) \ Indexes(D, D \ R)) <= Cardinality(R)
<1> DEFINE n == Cardinality(D)
           E == D \ R
           kept == Kept(rows, R)
           I == Indexes(D, E)
           gone == (1..n) \ I
<1>1. /\ FiniteInNat(E) /\ Cardinality(I) = Cardinality(E)
      /\ \A i \in 1..Cardinality(E) : Nth(I, i) \in I /\ Nth(D, Nth(I, i)) = Nth(E, i)
  <2>1. E \subseteq D
    OBVIOUS
  <2> HIDE DEF E
  <2> QED
    BY <2>1, NthOfSome DEF Indexes
<1>2. kept \in [E -> TrackIds] /\ \A p \in E : kept[p] = rows[p]
  BY DEF Kept, Restrict
<1>3. /\ Visible(kept) \in Seq(TrackIds) /\ Len(Visible(kept)) = Cardinality(E)
      /\ \A i \in 1..Cardinality(E) : /\ Nth(E, i) \in E
                                      /\ Visible(kept)[i] = kept[Nth(E, i)]
  BY <1>1, <1>2, VisibleType
<1>4. \A j \in 1..n : Visible(rows)[j] = rows[Nth(D, j)]
  BY VisibleType
<1>5. ASSUME NEW i \in 1..Cardinality(E)
      PROVE  Visible(kept)[i] = Visible(rows)[Nth(I, i)]
  <2>1. Nth(I, i) \in 1..n /\ Nth(D, Nth(I, i)) = Nth(E, i)
    BY <1>1 DEF Indexes
  <2>2. Visible(kept)[i] = rows[Nth(E, i)]
    BY <1>2, <1>3
  <2> QED
    BY <1>4, <2>1, <2>2
<1>6. Cardinality(gone) <= Cardinality(R)
  <2> DEFINE f == [j \in gone |-> Nth(D, j)]
  <2>1. n \in Nat
    BY RankType
  <2>2. \A j \in gone : j \in 1..n /\ Nth(D, j) \in R /\ Rank(D, Nth(D, j)) = j - 1
    BY NthPosition DEF Indexes
  <2>3. f \in Injection(gone, R)
    <3>1. \A j, k \in gone : Nth(D, j) = Nth(D, k) => j = k
      BY <2>1, <2>2
    <3> QED
      BY <2>2, <3>1 DEF Injection, IsInjective
  <2>4. f \in Injection(gone, R) => Cardinality(gone) <= Cardinality(R)
    BY FS_Injection
  <2> QED
    BY <2>3, <2>4
<1>7. Visible(kept) = Picked(Visible(rows), I)
  <2>1. Visible(kept) = [i \in 1..Len(Visible(kept)) |-> Visible(kept)[i]]
    BY <1>3
  <2> HIDE DEF kept, I
  <2> QED
    BY <1>1, <1>3, <1>5, <2>1 DEF Picked
<1> QED
  BY <1>1, <1>2, <1>6, <1>7

-----------------------------------------------------------------------------
(* The inductive invariant.                                                *)

(* Ids of playlists are not reused, rows refer to what exists, and what a  *)
(* request found out about a playlist is still true of it if it is there.  *)
ListInv ==
    /\ CatalogueTypeOK /\ PlaylistsTypeOK
    /\ DOMAIN lists \subseteq 1..lastList
    /\ \A p \in DOMAIN lists :
          lists[p].owner \in accounts /\ Range(lists[p].rows) \subseteq tracks
    /\ \A r \in Editors : edit[r].op # "none" =>
          /\ edit[r].list <= lastList
          /\ edit[r].list \in DOMAIN lists =>
                \/ lists[edit[r].list].owner = edit[r].user
                \/ edit[r].op = "replace" /\ edit[r].user \in Admins
    /\ \A r \in Editors :
          edit[r].op = "update" => edit[r].next + Len(edit[r].songs) <= MaxPosition + 1

(* What requests remember of tracks has existed, and a listed station is   *)
(* the one that was created with its id.                                   *)
CallInv ==
    /\ call \in [Callers -> Calls \cup {NoCall}]
    /\ \A r \in Callers :
          /\ call[r].op = "rate" => call[r].cell[2] \in handedOut
          /\ call[r].op = "answer" => \A i \in DOMAIN call[r].songs :
                                         call[r].songs[i] \in handedOut
          /\ call[r].op = "station" => call[r].shown = call[r].id

(* Plays are of what exists, answers about what has existed.               *)
CountInv ==
    /\ PlaysMatchTheAnswers
    /\ \A c \in Cells :
          /\ plays[c] > 0 => c[1] \in accounts /\ c[2] \in tracks
          /\ c[2] \notin handedOut => reported[c] = 0 /\ unanswered[c] = 0

(* Rows with foreign keys refer to what exists and ratings to what has     *)
(* existed; a station is the one created with its id.                      *)
MarkInv ==
    /\ CatalogueTypeOK /\ MarksTypeOK
    /\ \A c \in bookmarks : c[1] \in accounts /\ c[2] \in tracks
    /\ \A c \in stars \cup ratings : c[1] \in accounts
    /\ \A c \in ratings : c[2] \in handedOut
    /\ CountInv
    /\ \A i \in DOMAIN stations : stations[i] = i
    /\ CallInv

IInv == ListInv /\ MarkInv

-----------------------------------------------------------------------------
(* Rows of playlists *)

(* Rows that a playlist may have.                                          *)
GoodRows(rows) ==
    /\ DOMAIN rows \subseteq Positions /\ rows \in [DOMAIN rows -> TrackIds]
    /\ Range(rows) \subseteq tracks

\* Positions are a finite set of numbers.
LEMMA PositionsFinite ==
  ASSUME NEW P \in SUBSET Positions
  PROVE  FiniteInNat(P)
<1>1. MaxPosition \in Nat
  BY PlaylistsAssumption
<1>2. 0 \in Int /\ MaxPosition \in Int
  BY <1>1
<1>3. IsFiniteSet(Positions) /\ Positions \subseteq Nat
  BY <1>1, <1>2, FS_Interval DEF Positions
<1> QED
  BY <1>3, SubsetSmaller DEF FiniteInNat

\* The rows of every playlist are good ones.
LEMMA ListHasGoodRows ==
  ASSUME ListInv, NEW p \in DOMAIN lists
  PROVE  /\ GoodRows(lists[p].rows) /\ FiniteInNat(DOMAIN lists[p].rows)
         /\ lists[p].owner \in accounts /\ lists[p].owner \in Accounts
<1>1. lists[p] \in Playlist
  BY DEF ListInv, PlaylistsTypeOK
<1>2. PICK P \in SUBSET Positions : lists[p].rows \in [P -> TrackIds]
  BY <1>1 DEF Playlist
<1>3. DOMAIN lists[p].rows = P
  BY <1>2
<1>4. FiniteInNat(P)
  BY PositionsFinite
<1>5. lists[p].owner \in Accounts
  BY <1>1 DEF Playlist
<1>6. lists[p].owner \in accounts /\ Range(lists[p].rows) \subseteq tracks
  BY DEF ListInv
<1> QED
  BY <1>2, <1>3, <1>4, <1>5, <1>6 DEF GoodRows

\* The position after the last one.
LEMMA NextPositionType ==
  ASSUME NEW rows, GoodRows(rows)
  PROVE  /\ NextPosition(rows) \in Nat
         /\ \A i \in DOMAIN rows : i < NextPosition(rows)
<1> DEFINE D == DOMAIN rows
<1>1. FiniteInNat(D)
  BY PositionsFinite DEF GoodRows
<1>2. CASE rows = << >>
  BY <1>2 DEF NextPosition
<1>3. CASE rows # << >>
  <2>1. ASSUME D = {} PROVE FALSE
    <3>1. rows \in [1..0 -> TrackIds]
      BY <2>1 DEF GoodRows
    <3>2. rows \in Seq(TrackIds) /\ Len(rows) = 0
      BY <3>1
    <3> QED
      BY <1>3, <3>2, EmptySeq
  <2>2. Max(D) \in D /\ \A q \in D : q <= Max(D)
    BY <1>1, <2>1, MaxPositionExists
  <2>3. \A q \in D : q \in Nat
    BY <1>1 DEF FiniteInNat
  <2> QED
    BY <1>3, <2>2, <2>3 DEF NextPosition
<1> QED
  BY <1>2, <1>3

\* What clients see are entries.
LEMMA VisibleRange ==
  ASSUME NEW D, FiniteInNat(D), NEW rows \in [D -> TrackIds]
  PROVE  Range(Visible(rows)) \subseteq Range(rows)
<1>1. /\ DOMAIN Visible(rows) = 1..Cardinality(D)
      /\ \A i \in 1..Cardinality(D) : /\ Nth(D, i) \in D
                                      /\ Visible(rows)[i] = rows[Nth(D, i)]
  BY VisibleType
<1>2. DOMAIN rows = D
  OBVIOUS
<1>3. ASSUME NEW x \in Range(Visible(rows)) PROVE x \in Range(rows)
  <2>1. PICK i \in 1..Cardinality(D) : x = Visible(rows)[i]
    BY <1>1 DEF Range
  <2> QED
    BY <1>1, <1>2, <2>1 DEF Range
<1> QED
  BY <1>3

\* A list written from scratch has good rows if its tracks exist.
LEMMA EnumeratedGood ==
  ASSUME NEW songs \in Seq(TrackIds), Len(songs) <= MaxPosition + 1,
         Range(songs) \subseteq tracks
  PROVE  GoodRows(Enumerated(songs))
<1>1. Len(songs) \in Nat /\ MaxPosition \in Nat
  BY LenProperties, PlaylistsAssumption
<1>2. /\ Enumerated(songs) \in [0..Len(songs) - 1 -> TrackIds]
      /\ Range(Enumerated(songs)) = Range(songs)
  BY EnumeratedVisible
<1>3. DOMAIN Enumerated(songs) = 0..Len(songs) - 1
  BY <1>2
<1>4. 0..Len(songs) - 1 \subseteq Positions
  BY <1>1 DEF Positions
<1> QED
  BY <1>2, <1>3, <1>4 DEF GoodRows

\* Adding nothing changes nothing; entries added at free positions are good.
LEMMA AddedGood ==
  ASSUME NEW rows, GoodRows(rows), NEW songs \in Seq(TrackIds), NEW n \in Nat,
         n + Len(songs) <= MaxPosition + 1,
         songs # << >> => ~InsertFails(rows, Appended(n, songs))
  PROVE  /\ GoodRows(Inserted(rows, Appended(n, songs)))
         /\ DOMAIN rows \cap (n..n + Len(songs) - 1) = {}
<1> DEFINE L == Len(songs)
           A == n..n + L - 1
           new == Appended(n, songs)
           added == Inserted(rows, new)
<1>1. L \in Nat /\ MaxPosition \in Nat
  BY LenProperties, PlaylistsAssumption
<1>2. DOMAIN new = A
  BY DEF Appended
<1>3. DOMAIN rows \cap A = {} /\ Range(new) \subseteq tracks
  <2>1. CASE songs = << >>
    <3>1. A = {}
      BY <2>1
    <3> QED
      BY <1>2, <3>1 DEF Range
  <2>2. CASE songs # << >>
    BY <1>2, <2>2 DEF InsertFails
  <2> QED
    BY <2>1, <2>2
<1>4. FiniteInNat(DOMAIN rows) /\ rows \in [DOMAIN rows -> TrackIds]
  BY PositionsFinite DEF GoodRows
<1>5. added \in [DOMAIN rows \cup A -> TrackIds]
  BY <1>3, <1>4, AddedVisible
<1>6. DOMAIN added = DOMAIN rows \cup A
  BY <1>5
<1>7. A \subseteq Positions
  BY <1>1 DEF Positions
<1>8. DOMAIN added \subseteq Positions
  BY <1>6, <1>7 DEF GoodRows
<1>9. \A i \in DOMAIN added : added[i] \in tracks
  <2>1. \A i \in DOMAIN added : added[i] = IF i \in A THEN new[i] ELSE rows[i]
    BY <1>2, <1>6 DEF Inserted
  <2>2. \A i \in A : new[i] \in tracks
    BY <1>2, <1>3 DEF Range
  <2>3. \A i \in DOMAIN rows : rows[i] \in tracks
    BY DEF GoodRows, Range
  <2> QED
    BY <1>6, <2>1, <2>2, <2>3
<1>10. Range(added) \subseteq tracks
  BY <1>9 DEF Range
<1> QED
  BY <1>3, <1>5, <1>6, <1>8, <1>10 DEF GoodRows

\* Renumbered rows are good ones, and their indexes are their positions.
LEMMA RenumberedGood ==
  ASSUME NEW rows, GoodRows(rows), NEW R
  PROVE  LET left == Visible(Kept(rows, R))
         IN  /\ GoodRows(Renumbered(rows, R)) /\ left \in Seq(TrackIds)
             /\ DOMAIN Renumbered(rows, R) = 0..Len(left) - 1
             /\ Visible(Renumbered(rows, R)) = left
<1> DEFINE D == DOMAIN rows
           E == D \ R
           kept == Kept(rows, R)
           left == Visible(kept)
<1>1. E \in SUBSET Positions /\ rows \in [D -> TrackIds] /\ Range(rows) \subseteq tracks
  BY DEF GoodRows
<1>2. FiniteInNat(E)
  BY <1>1, PositionsFinite
<1>3. kept \in [E -> TrackIds] /\ Range(kept) \subseteq tracks
  BY <1>1 DEF Kept, Restrict, Range
<1> HIDE DEF kept
<1>4. left \in Seq(TrackIds) /\ Len(left) = Cardinality(E)
  BY <1>2, <1>3, VisibleType
<1>5. Range(left) \subseteq tracks
  BY <1>2, <1>3, VisibleRange
<1>6. Len(left) <= MaxPosition + 1
  <2>1. MaxPosition \in Nat /\ 0 \in Int /\ MaxPosition \in Int
    BY PlaylistsAssumption
  <2>2. IsFiniteSet(Positions) /\ Cardinality(Positions) = MaxPosition + 1
    <3>1. /\ IsFiniteSet(0..MaxPosition)
          /\ Cardinality(0..MaxPosition) = IF 0 > MaxPosition THEN 0 ELSE MaxPosition - 0 + 1
      BY <2>1, FS_Interval
    <3> QED
      BY <2>1, <3>1 DEF Positions
  <2>3. Cardinality(E) <= Cardinality(Positions)
    BY <1>1, <2>2, SubsetSmaller
  <2> QED
    BY <1>4, <2>2, <2>3
<1> HIDE DEF left
<1>7. GoodRows(Enumerated(left))
  BY <1>4, <1>5, <1>6, EnumeratedGood
<1>8. /\ Visible(Enumerated(left)) = left
      /\ DOMAIN Enumerated(left) = 0..Len(left) - 1
  <2>1. Enumerated(left) \in [0..Len(left) - 1 -> TrackIds]
    BY <1>4, EnumeratedVisible
  <2> QED
    BY <1>4, <2>1, EnumeratedVisible
<1>9. Renumbered(rows, R) = Enumerated(left)
  BY DEF Renumbered, left, kept
<1> QED
  BY <1>4, <1>7, <1>8, <1>9 DEF left, kept

\* What updatePlaylist leaves, if nothing fails, are good rows.
LEMMA UpdatedGood ==
  ASSUME NEW rows, GoodRows(rows), NEW songs \in Seq(TrackIds), NEW n \in Nat,
         n + Len(songs) <= MaxPosition + 1, NEW R,
         ~UpdateFails(rows, n, songs, R)
  PROVE  GoodRows(Updated(rows, n, songs, R))
<1> DEFINE added == Inserted(rows, Appended(n, songs))
<1>1. songs # << >> => ~InsertFails(rows, Appended(n, songs))
  BY DEF UpdateFails
<1>2. GoodRows(added)
  BY <1>1, AddedGood
<1> HIDE DEF added
<1>3. GoodRows(Renumbered(added, R))
  BY <1>2, RenumberedGood
<1> QED
  BY <1>2, <1>3 DEF Updated, added

-----------------------------------------------------------------------------
(* Steps on playlists *)

\* What a request has read, by its kind.
LEMMA EditKinds ==
  ASSUME ListInv, NEW r \in Editors
  PROVE  /\ edit[r].op \in {"none", "replace", "update", "header"}
         /\ edit[r].op = "none" <=> edit[r] = NoEdit
         /\ edit[r].op # "none" =>
               /\ edit[r].user \in Accounts /\ edit[r].list \in ListIds
               /\ edit[r].songs \in Selections /\ edit[r].songs \in Seq(TrackIds)
               /\ Len(edit[r].songs) <= MaxPosition + 1
         /\ edit[r].op = "update" =>
               /\ edit[r].next \in Nat
               /\ edit[r].next + Len(edit[r].songs) <= MaxPosition + 1
         /\ edit[r].op \in {"update", "header"} => edit[r].remove \in Removals
<1>1. edit[r] \in Edits \cup {NoEdit}
  BY DEF ListInv, PlaylistsTypeOK
<1>2. CASE edit[r] = NoEdit
  BY <1>2 DEF NoEdit
<1>3. CASE edit[r] \in Edits
  <2>1. /\ edit[r].op \in {"replace", "update", "header"}
        /\ edit[r].user \in Accounts /\ edit[r].list \in ListIds
        /\ edit[r].songs \in Selections
    BY <1>3 DEF Edits
  <2>2. /\ edit[r].op = "update" => edit[r].next \in 0..MaxPosition + 1
        /\ edit[r].op \in {"update", "header"} => edit[r].remove \in Removals
    BY <1>3 DEF Edits
  <2>3. edit[r] # NoEdit
    BY <2>1 DEF NoEdit
  <2>4. edit[r].songs \in Seq(TrackIds) /\ Len(edit[r].songs) <= MaxPosition + 1
    BY <2>1, PlaylistsAssumption
  <2>5. edit[r].op = "update" => edit[r].next + Len(edit[r].songs) <= MaxPosition + 1
    BY DEF ListInv
  <2> QED
    BY <2>1, <2>2, <2>3, <2>4, <2>5
<1> QED
  BY <1>1, <1>2, <1>3

\* A playlist whose owner may have one and whose rows are good.
LEMMA PlaylistOf ==
  ASSUME NEW u \in Accounts, NEW rows, GoodRows(rows)
  PROVE  [owner |-> u, rows |-> rows] \in Playlist
<1>1. DOMAIN rows \in SUBSET Positions /\ rows \in [DOMAIN rows -> TrackIds]
  BY DEF GoodRows
<1>2. rows \in UNION {[P -> TrackIds] : P \in SUBSET Positions}
  BY <1>1
<1> QED
  BY <1>2 DEF Playlist

\* The rows of one playlist change, in a table whose other rows are good.
LEMMA RowsReplaced ==
  ASSUME ListInv, NEW p \in DOMAIN lists, NEW rows, GoodRows(rows)
  PROVE  LET changed == [lists EXCEPT ![p].rows = rows]
         IN  /\ DOMAIN changed = DOMAIN lists
             /\ changed \in [DOMAIN lists -> Playlist]
             /\ changed[p].rows = rows
             /\ \A q \in DOMAIN lists : /\ changed[q].owner = lists[q].owner
                                        /\ q # p => changed[q] = lists[q]
             /\ \A q \in DOMAIN lists : Range(changed[q].rows) \subseteq tracks
<1> DEFINE changed == [lists EXCEPT ![p].rows = rows]
<1>1. \A q \in DOMAIN lists : lists[q] \in Playlist
  BY DEF ListInv, PlaylistsTypeOK
<1>2. lists[p].owner \in Accounts /\ lists[p] = [owner |-> lists[p].owner, rows |-> lists[p].rows]
  BY <1>1 DEF Playlist
<1>3. changed = [q \in DOMAIN lists |->
                    IF q = p THEN [owner |-> lists[p].owner, rows |-> rows] ELSE lists[q]]
  BY <1>2
<1>4. [owner |-> lists[p].owner, rows |-> rows] \in Playlist
  BY <1>2, PlaylistOf
<1> HIDE DEF changed
<1>5. changed \in [DOMAIN lists -> Playlist]
  BY <1>1, <1>3, <1>4
<1>6. changed[p].rows = rows /\ changed[p].owner = lists[p].owner
  BY <1>3
<1>7. \A q \in DOMAIN lists : q # p => changed[q] = lists[q]
  BY <1>3
<1>8. \A q \in DOMAIN lists : Range(changed[q].rows) \subseteq tracks
  BY <1>6, <1>7, ListHasGoodRows DEF GoodRows
<1> QED
  BY <1>3, <1>5, <1>6, <1>7, <1>8 DEF changed

\* Nothing that the rest of the server does matters to playlists.
LEMMA ListsUntouched ==
  ASSUME ListInv, UNCHANGED <<catalogueVars, listVars>>
  PROVE  ListInv'
BY DEF ListInv, CatalogueTypeOK, PlaylistsTypeOK, catalogueVars, listVars

\* The rows of a playlist change, and the request that did it is over.
LEMMA RowsStep ==
  ASSUME ListInv, NEW p \in DOMAIN lists, NEW rows, GoodRows(rows),
         lists' = [lists EXCEPT ![p].rows = rows],
         \/ edit' = edit
         \/ \E r \in Editors : edit' = [edit EXCEPT ![r] = NoEdit],
         UNCHANGED <<catalogueVars, lastList, dialect>>
  PROVE  ListInv'
<1>1. /\ DOMAIN lists' = DOMAIN lists
      /\ lists' \in [DOMAIN lists -> Playlist]
      /\ \A q \in DOMAIN lists : /\ lists'[q].owner = lists[q].owner
                                 /\ Range(lists'[q].rows) \subseteq tracks
  BY RowsReplaced
<1>2. /\ edit' \in [Editors -> Edits \cup {NoEdit}]
      /\ \A r \in Editors : edit'[r] = edit[r] \/ edit'[r] = NoEdit
  BY DEF ListInv, PlaylistsTypeOK
<1>3. NoEdit.op = "none"
  BY DEF NoEdit
<1>4. CatalogueTypeOK' /\ PlaylistsTypeOK'
  BY <1>1, <1>2 DEF ListInv, CatalogueTypeOK, PlaylistsTypeOK, catalogueVars
<1>5. \A p_1 \in DOMAIN lists' :
          lists'[p_1].owner \in accounts' /\ Range(lists'[p_1].rows) \subseteq tracks'
  BY <1>1 DEF ListInv, catalogueVars
<1>6. \A r \in Editors : edit'[r].op # "none" =>
          /\ edit'[r].list <= lastList'
          /\ edit'[r].list \in DOMAIN lists' =>
                \/ lists'[edit'[r].list].owner = edit'[r].user
                \/ edit'[r].op = "replace" /\ edit'[r].user \in Admins
  BY <1>1, <1>2, <1>3 DEF ListInv
<1>7. \A r \in Editors :
          edit'[r].op = "update" => edit'[r].next + Len(edit'[r].songs) <= MaxPosition + 1
  BY <1>2, <1>3 DEF ListInv
<1>8. DOMAIN lists' \subseteq 1..lastList'
  BY <1>1 DEF ListInv
<1> QED
  BY <1>4, <1>5, <1>6, <1>7, <1>8 DEF ListInv

\* A request is over without having changed a playlist.
LEMMA EditDropped ==
  ASSUME ListInv, NEW r \in Editors, edit' = [edit EXCEPT ![r] = NoEdit],
         UNCHANGED <<catalogueVars, lists, lastList, dialect>>
  PROVE  ListInv'
<1>1. /\ edit' \in [Editors -> Edits \cup {NoEdit}]
      /\ \A q \in Editors : edit'[q] = edit[q] \/ edit'[q] = NoEdit
  BY DEF ListInv, PlaylistsTypeOK
<1>2. NoEdit.op = "none"
  BY DEF NoEdit
<1>3. CatalogueTypeOK' /\ PlaylistsTypeOK'
  BY <1>1 DEF ListInv, CatalogueTypeOK, PlaylistsTypeOK, catalogueVars
<1> QED
  BY <1>1, <1>2, <1>3 DEF ListInv, catalogueVars

\* A request begins: what it has read is true.
LEMMA EditBegins ==
  ASSUME ListInv, NEW r \in Editors, NEW e \in Edits,
         edit' = [edit EXCEPT ![r] = e],
         e.list \in DOMAIN lists,
         \/ lists[e.list].owner = e.user
         \/ e.op = "replace" /\ e.user \in Admins,
         e.op = "update" => e.next + Len(e.songs) <= MaxPosition + 1,
         UNCHANGED <<catalogueVars, lists, lastList, dialect>>
  PROVE  ListInv'
<1>1. /\ edit' \in [Editors -> Edits \cup {NoEdit}]
      /\ \A q \in Editors : edit'[q] = IF q = r THEN e ELSE edit[q]
  BY DEF ListInv, PlaylistsTypeOK
<1>2. CatalogueTypeOK' /\ PlaylistsTypeOK'
  BY <1>1 DEF ListInv, CatalogueTypeOK, PlaylistsTypeOK, catalogueVars
<1>3. e.list <= lastList
  <2>1. e.list \in 1..lastList
    BY DEF ListInv
  <2>2. lastList \in Nat
    BY DEF ListInv, PlaylistsTypeOK
  <2> QED
    BY <2>1, <2>2
<1> HIDE DEF ListInv
<1>4. \A q \in Editors : edit'[q].op # "none" =>
          /\ edit'[q].list <= lastList
          /\ edit'[q].list \in DOMAIN lists =>
                \/ lists[edit'[q].list].owner = edit'[q].user
                \/ edit'[q].op = "replace" /\ edit'[q].user \in Admins
  <2>1. ASSUME NEW q \in Editors, edit'[q].op # "none"
        PROVE  /\ edit'[q].list <= lastList
               /\ edit'[q].list \in DOMAIN lists =>
                     \/ lists[edit'[q].list].owner = edit'[q].user
                     \/ edit'[q].op = "replace" /\ edit'[q].user \in Admins
    <3>1. CASE q = r
      BY <1>1, <1>3, <3>1
    <3>2. CASE q # r
      BY <1>1, <2>1, <3>2 DEF ListInv
    <3> QED
      BY <3>1, <3>2
  <2> QED
    BY <2>1
<1>5. \A q \in Editors :
          edit'[q].op = "update" => edit'[q].next + Len(edit'[q].songs) <= MaxPosition + 1
  BY <1>1 DEF ListInv
<1>6. /\ DOMAIN lists' \subseteq 1..lastList'
      /\ \A p \in DOMAIN lists' :
            lists'[p].owner \in accounts' /\ Range(lists'[p].rows) \subseteq tracks'
  BY DEF ListInv, catalogueVars
<1> QED
  BY <1>2, <1>4, <1>5, <1>6 DEF ListInv

\* A new list has an id never used before, and known tracks in rows without a gap.
LEMMA CreateKeepsLists ==
  ASSUME ListInv, NEW u \in Accounts, NEW songs \in Selections, CreatePlaylist(u, songs)
  PROVE  ListInv'
<1> DEFINE id == NewId
           new == [owner |-> u, rows |-> Enumerated(songs)]
<1>1. songs \in Seq(TrackIds) /\ Len(songs) <= MaxPosition + 1
  BY PlaylistsAssumption
<1>2. GoodRows(Enumerated(songs))
  BY <1>1, EnumeratedGood DEF CreatePlaylist
<1>3. new \in Playlist
  BY <1>2, PlaylistOf
<1>4. /\ id \in ListIds /\ id = lastList + 1 /\ lastList \in Nat /\ lastList' = id
      /\ lastList' \in 0..MaxLists /\ MaxLists \in Nat
  BY PlaylistsAssumption DEF CreatePlaylist, NewId, ListIds, ListInv, PlaylistsTypeOK
<1>5. /\ DOMAIN lists \subseteq 1..lastList /\ DOMAIN lists \subseteq ListIds
      /\ \A p \in DOMAIN lists : lists[p] \in Playlist
  BY DEF ListInv, PlaylistsTypeOK
<1>6. id \notin DOMAIN lists
  <2>1. \A p \in DOMAIN lists : p \in 1..lastList
    BY <1>5
  <2>2. id \notin 1..lastList
    BY <1>4
  <2> QED
    BY <2>1, <2>2
<1>7. /\ DOMAIN lists' = DOMAIN lists \cup {id}
      /\ lists'[id] = new
      /\ \A p \in DOMAIN lists : lists'[p] = lists[p]
      /\ lists' \in [DOMAIN lists' -> Playlist]
  <2>1. lists' = [p \in DOMAIN lists \cup {id} |-> IF p = id THEN new ELSE lists[p]]
    BY DEF CreatePlaylist
  <2> HIDE DEF id, new
  <2> QED
    BY <1>3, <1>5, <1>6, <2>1
<1>8. u \in accounts /\ UNCHANGED <<catalogueVars, dialect, edit>>
  BY DEF CreatePlaylist
<1>9. Range(Enumerated(songs)) \subseteq tracks
  BY <1>2 DEF GoodRows
<1>10. lists'[id].owner = u /\ lists'[id].rows = Enumerated(songs)
  BY <1>7
<1> HIDE DEF id, new
<1>11. CatalogueTypeOK' /\ PlaylistsTypeOK'
  BY <1>4, <1>5, <1>7, <1>8 DEF ListInv, CatalogueTypeOK, PlaylistsTypeOK, catalogueVars
<1>12. DOMAIN lists' \subseteq 1..lastList'
  <2>1. \A p \in DOMAIN lists : p \in 1..lastList
    BY <1>5
  <2> QED
    BY <1>4, <1>7, <2>1
<1>13. \A p \in DOMAIN lists' :
          lists'[p].owner \in accounts' /\ Range(lists'[p].rows) \subseteq tracks'
  BY <1>7, <1>8, <1>9, <1>10 DEF ListInv, catalogueVars
<1>14. \A r \in Editors : edit'[r].op # "none" =>
          /\ edit'[r].list <= lastList'
          /\ edit'[r].list \in DOMAIN lists' =>
                \/ lists'[edit'[r].list].owner = edit'[r].user
                \/ edit'[r].op = "replace" /\ edit'[r].user \in Admins
  <2>1. ASSUME NEW r \in Editors, edit[r].op # "none"
        PROVE  /\ edit[r].list <= lastList' /\ edit[r].list # id
               /\ edit[r].list \in DOMAIN lists =>
                     \/ lists[edit[r].list].owner = edit[r].user
                     \/ edit[r].op = "replace" /\ edit[r].user \in Admins
    <3>1. edit[r].list \in ListIds /\ edit[r].list <= lastList
      BY <2>1, EditKinds DEF ListInv
    <3>2. edit[r].list \in Nat
      BY <3>1, <1>4 DEF ListIds
    <3>3. edit[r].list <= lastList' /\ edit[r].list # id
      BY <1>4, <3>1, <3>2
    <3> QED
      BY <2>1, <3>3 DEF ListInv
  <2> QED
    BY <1>7, <1>8, <2>1
<1>15. \A r \in Editors :
          edit'[r].op = "update" => edit'[r].next + Len(edit'[r].songs) <= MaxPosition + 1
  BY <1>8 DEF ListInv
<1> QED
  BY <1>11, <1>12, <1>13, <1>14, <1>15 DEF ListInv

\* A replacement begins by remembering what it will write.
LEMMA ReplaceCheckKeepsLists ==
  ASSUME ListInv, NEW r \in Editors, NEW u \in Accounts, NEW p \in ListIds,
         NEW songs \in Selections, ReplaceCheck(r, u, p, songs)
  PROVE  ListInv'
<1> DEFINE e == [op |-> "replace", user |-> u, list |-> p, songs |-> songs]
<1>1. e \in Edits
  BY DEF Edits
<1>2. /\ edit' = [edit EXCEPT ![r] = e] /\ p \in DOMAIN lists
      /\ lists[p].owner = u \/ u \in Admins
      /\ UNCHANGED <<catalogueVars, lists, lastList, dialect>>
  BY DEF ReplaceCheck, MayReplace
<1>3. e.list = p /\ e.user = u /\ e.op = "replace"
  OBVIOUS
<1> HIDE DEF e
<1> QED
  BY <1>1, <1>2, <1>3, EditBegins

\* So does an update, with the next position it has read.
LEMMA UpdateReadKeepsLists ==
  ASSUME ListInv, NEW r \in Editors, NEW u \in Accounts, NEW p \in ListIds,
         NEW songs \in Selections, NEW remove \in Removals,
         UpdateRead(r, u, p, songs, remove)
  PROVE  ListInv'
<1> DEFINE next == IF songs = << >> THEN 0 ELSE NextPosition(lists[p].rows)
           e == [op |-> "update", user |-> u, list |-> p, songs |-> songs,
                 remove |-> remove, next |-> next]
<1>1. /\ edit' = [edit EXCEPT ![r] = e] /\ p \in DOMAIN lists
      /\ lists[p].owner = u
      /\ NextPosition(lists[p].rows) + Len(songs) <= MaxPosition + 1
      /\ UNCHANGED <<catalogueVars, lists, lastList, dialect>>
  BY DEF UpdateRead, MayUpdate
<1>2. /\ songs \in Seq(TrackIds) /\ Len(songs) <= MaxPosition + 1 /\ Len(songs) \in Nat
      /\ MaxPosition \in Nat
  BY PlaylistsAssumption, LenProperties
<1>3. NextPosition(lists[p].rows) \in Nat
  BY <1>1, ListHasGoodRows, NextPositionType
<1>4. next \in 0..MaxPosition + 1 /\ next + Len(songs) <= MaxPosition + 1
  BY <1>1, <1>2, <1>3
<1> HIDE DEF next
<1>5. e \in Edits
  BY <1>4 DEF Edits
<1>6. /\ e.list = p /\ e.user = u /\ e.op = "update" /\ e.next = next
      /\ e.songs = songs
  OBVIOUS
<1> HIDE DEF e
<1> QED
  BY <1>1, <1>4, <1>5, <1>6, EditBegins

\* A replacement changes nothing, or writes the songs it came with.
LEMMA ReplaceWrites ==
  ASSUME ListInv, NEW r \in Editors, ReplaceWrite(r)
  PROVE  \/ UNCHANGED lists
         \/ /\ edit[r].list \in DOMAIN lists /\ GoodRows(Enumerated(edit[r].songs))
            /\ lists' = [lists EXCEPT ![edit[r].list].rows = Enumerated(edit[r].songs)]
<1>1. edit[r].op = "replace"
  BY DEF ReplaceWrite
<1>2. /\ edit[r].list \in DOMAIN lists /\ Range(edit[r].songs) \subseteq tracks
      => GoodRows(Enumerated(edit[r].songs))
  BY <1>1, EditKinds, EnumeratedGood
<1> QED
  BY <1>2 DEF ReplaceWrite

\* The rows a replacement writes are those of tracks that are still there.
LEMMA ReplaceWriteKeepsLists ==
  ASSUME ListInv, NEW r \in Editors, ReplaceWrite(r)
  PROVE  ListInv'
<1>1. edit' = [edit EXCEPT ![r] = NoEdit] /\ UNCHANGED <<catalogueVars, lastList, dialect>>
  BY DEF ReplaceWrite
<1>2. CASE UNCHANGED lists
  BY <1>1, <1>2, EditDropped
<1>3. CASE /\ edit[r].list \in DOMAIN lists /\ GoodRows(Enumerated(edit[r].songs))
           /\ lists' = [lists EXCEPT ![edit[r].list].rows = Enumerated(edit[r].songs)]
  BY <1>1, <1>3, RowsStep
<1> QED
  BY <1>2, <1>3, ReplaceWrites

(* The position an update adds at: the one it has read before its first    *)
(* write, or the one it reads once the header is written.                  *)
Start(r) ==
    IF edit[r].op = "update" THEN edit[r].next
    ELSE NextPosition(lists[edit[r].list].rows)

\* An update changes nothing, or makes good rows of good ones, none of its
\* statements failing.
LEMMA UpdateWrites ==
  ASSUME ListInv, NEW r \in Editors, UpdateWrite(r) \/ HeaderWrite(r)
  PROVE  /\ edit' = [edit EXCEPT ![r] = NoEdit]
         /\ UNCHANGED <<catalogueVars, lastList, dialect>>
         /\ \/ UNCHANGED lists
            \/ /\ edit[r].list \in DOMAIN lists
               /\ Start(r) \in Nat /\ Start(r) + Len(edit[r].songs) <= MaxPosition + 1
               /\ LET rows == lists[edit[r].list].rows
                      new == Updated(rows, Start(r), edit[r].songs, edit[r].remove)
                  IN  /\ GoodRows(rows) /\ GoodRows(new)
                      /\ ~UpdateFails(rows, Start(r), edit[r].songs, edit[r].remove)
                      /\ lists' = [lists EXCEPT ![edit[r].list].rows = new]
<1> DEFINE p == edit[r].list
           rows == lists[p].rows
           n == Start(r)
           fails == UpdateFails(rows, n, edit[r].songs, edit[r].remove)
           new == Updated(rows, n, edit[r].songs, edit[r].remove)
<1>1. /\ edit' = [edit EXCEPT ![r] = NoEdit]
      /\ UNCHANGED <<catalogueVars, lastList, dialect>>
  BY DEF UpdateWrite, HeaderWrite
<1>2. edit[r].op \in {"update", "header"}
  BY DEF UpdateWrite, HeaderWrite
<1>3. IF p \in DOMAIN lists /\ ~fails
      THEN lists' = [lists EXCEPT ![p].rows = Updated(@, n, edit[r].songs, edit[r].remove)]
      ELSE lists' = lists
  BY DEF UpdateWrite, HeaderWrite, Start
<1>4. CASE ~(p \in DOMAIN lists /\ ~fails)
  BY <1>1, <1>3, <1>4
<1>5. CASE p \in DOMAIN lists /\ ~fails
  <2>1. lists' = [lists EXCEPT ![p].rows = new]
    BY <1>3, <1>5
  <2>2. GoodRows(rows)
    BY <1>5, ListHasGoodRows
  <2>3. n \in Nat /\ n + Len(edit[r].songs) <= MaxPosition + 1
    <3>1. CASE UpdateWrite(r)
      BY <3>1, EditKinds DEF UpdateWrite, Start
    <3>2. CASE HeaderWrite(r)
      <4>1. n = NextPosition(rows)
        BY <3>2 DEF HeaderWrite, Start
      <4>2. n \in Nat
        BY <2>2, <4>1, NextPositionType
      <4>3. n + Len(edit[r].songs) <= MaxPosition + 1
        BY <1>5, <3>2, <4>1 DEF HeaderWrite
      <4> QED
        BY <4>2, <4>3
    <3> QED
      BY <3>1, <3>2
  <2>4. GoodRows(new)
    BY <1>2, <1>5, <2>2, <2>3, EditKinds, UpdatedGood
  <2> QED
    BY <1>1, <1>5, <2>1, <2>2, <2>3, <2>4
<1> QED
  BY <1>4, <1>5

\* An update writes what it read, whatever became of the list meanwhile.
LEMMA UpdateWriteKeepsLists ==
  ASSUME ListInv, NEW r \in Editors, UpdateWrite(r) \/ HeaderWrite(r)
  PROVE  ListInv'
<1> DEFINE new == Updated(lists[edit[r].list].rows, Start(r), edit[r].songs,
                          edit[r].remove)
<1>1. edit' = [edit EXCEPT ![r] = NoEdit] /\ UNCHANGED <<catalogueVars, lastList, dialect>>
  BY UpdateWrites
<1>2. CASE UNCHANGED lists
  BY <1>1, <1>2, EditDropped
<1>3. CASE /\ edit[r].list \in DOMAIN lists /\ GoodRows(new)
           /\ lists' = [lists EXCEPT ![edit[r].list].rows = new]
  <2> HIDE DEF new
  <2> QED
    BY <1>1, <1>3, RowsStep
<1> QED
  BY <1>2, <1>3, UpdateWrites

\* An update of the header begins with the owner it has read.
LEMMA HeaderReadKeepsLists ==
  ASSUME ListInv, NEW r \in Editors, NEW u \in Accounts, NEW p \in ListIds,
         NEW songs \in Selections, NEW remove \in Removals,
         HeaderRead(r, u, p, songs, remove)
  PROVE  ListInv'
<1> DEFINE e == [op |-> "header", user |-> u, list |-> p, songs |-> songs,
                 remove |-> remove]
<1>1. e \in Edits
  BY DEF Edits
<1>2. /\ edit' = [edit EXCEPT ![r] = e] /\ p \in DOMAIN lists
      /\ lists[p].owner = u
      /\ UNCHANGED <<catalogueVars, lists, lastList, dialect>>
  BY DEF HeaderRead, MayUpdate
<1>3. e.list = p /\ e.user = u /\ e.op = "header"
  OBVIOUS
<1> HIDE DEF e
<1> QED
  BY <1>1, <1>2, <1>3, EditBegins

\* Playlists go, with all that is in them.
LEMMA ListsGo ==
  ASSUME ListInv, NEW S \in SUBSET DOMAIN lists, lists' = Restrict(lists, S),
         CatalogueTypeOK', UNCHANGED <<tracks, lastList, dialect, edit>>,
         \A p \in S : lists[p].owner \in accounts'
  PROVE  ListInv'
<1>1. DOMAIN lists' = S /\ \A p \in S : lists'[p] = lists[p] /\ p \in DOMAIN lists
  BY DEF Restrict
<1>2. lists' \in [S -> Playlist]
  <2>1. \A p \in DOMAIN lists : lists[p] \in Playlist
    BY DEF ListInv, PlaylistsTypeOK
  <2> QED
    BY <1>1, <2>1 DEF Restrict
<1>3. PlaylistsTypeOK'
  BY <1>1, <1>2 DEF ListInv, PlaylistsTypeOK
<1>4. /\ DOMAIN lists' \subseteq 1..lastList'
      /\ \A p \in DOMAIN lists' :
            lists'[p].owner \in accounts' /\ Range(lists'[p].rows) \subseteq tracks'
  BY <1>1 DEF ListInv
<1>5. \A r \in Editors : edit[r].op # "none" =>
          /\ edit[r].list <= lastList
          /\ edit[r].list \in DOMAIN lists' =>
                \/ lists'[edit[r].list].owner = edit[r].user
                \/ edit[r].op = "replace" /\ edit[r].user \in Admins
  BY <1>1 DEF ListInv
<1>6. \A r \in Editors :
          edit[r].op = "update" => edit[r].next + Len(edit[r].songs) <= MaxPosition + 1
  BY DEF ListInv
<1> QED
  BY <1>3, <1>4, <1>5, <1>6 DEF ListInv

\* A list that goes takes its rows along, and its id is not used again.
LEMMA DeleteKeepsLists ==
  ASSUME ListInv, NEW u \in Accounts, NEW p \in ListIds, DeletePlaylist(u, p)
  PROVE  ListInv'
<1> DEFINE S == {i \in DOMAIN lists : i # p \/ lists[i].owner # u}
<1>1. lists' = Restrict(lists, S) /\ UNCHANGED <<catalogueVars, lastList, dialect, edit>>
  BY DEF DeletePlaylist, delete_playlist
<1>2. CatalogueTypeOK' /\ \A q \in S : lists[q].owner \in accounts'
  BY <1>1 DEF ListInv, CatalogueTypeOK, catalogueVars
<1>3. S \in SUBSET DOMAIN lists
  OBVIOUS
<1> HIDE DEF S
<1> QED
  BY <1>1, <1>2, <1>3, ListsGo DEF catalogueVars

\* An account takes its lists along.
LEMMA AccountGoesKeepsLists ==
  ASSUME ListInv, NEW u \in Accounts, DeleteAccount(u)
  PROVE  ListInv'
<1> DEFINE S == {i \in DOMAIN lists : lists[i].owner # u}
<1>1. /\ lists' = Restrict(lists, S) /\ accounts' = accounts \ {u}
      /\ UNCHANGED <<tracks, handedOut, lastList, dialect, edit>>
  BY DEF DeleteAccount, ListsWithoutOwner
<1>2. CatalogueTypeOK' /\ \A q \in S : lists[q].owner \in accounts'
  BY <1>1 DEF ListInv, CatalogueTypeOK
<1>3. S \in SUBSET DOMAIN lists
  OBVIOUS
<1> HIDE DEF S
<1> QED
  BY <1>1, <1>2, <1>3, ListsGo

\* A new track is in no list yet.
LEMMA TrackComesKeepsLists ==
  ASSUME ListInv, NEW t \in TrackIds, InsertTrack(t), UNCHANGED listVars
  PROVE  ListInv'
<1>1. CatalogueTypeOK' /\ tracks \subseteq tracks' /\ accounts' = accounts
  BY DEF InsertTrack, ListInv, CatalogueTypeOK
<1>2. PlaylistsTypeOK'
  BY DEF ListInv, PlaylistsTypeOK, listVars
<1> QED
  BY <1>1, <1>2 DEF ListInv, listVars

\* A track that goes leaves every list.
LEMMA TrackGoesKeepsLists ==
  ASSUME ListInv, NEW t \in TrackIds, DeleteTrack(t)
  PROVE  ListInv'
<1> DEFINE left(rows) == Restrict(rows, {i \in DOMAIN rows : rows[i] # t})
<1>1. /\ tracks' = tracks \ {t}
      /\ UNCHANGED <<accounts, handedOut, lastList, dialect, edit>>
  BY DEF DeleteTrack
<1>2. ASSUME NEW p \in DOMAIN lists
      PROVE  /\ left(lists[p].rows) \in UNION {[P -> TrackIds] : P \in SUBSET Positions}
             /\ Range(left(lists[p].rows)) \subseteq tracks'
  <2> DEFINE rows == lists[p].rows
             P == {i \in DOMAIN rows : rows[i] # t}
  <2>1. GoodRows(rows)
    BY ListHasGoodRows
  <2> HIDE DEF rows
  <2>2. P \in SUBSET Positions /\ left(rows) = [i \in P |-> rows[i]]
    BY <2>1 DEF GoodRows, Restrict
  <2>3. left(rows) \in [P -> TrackIds]
    BY <2>1, <2>2 DEF GoodRows
  <2>4. Range(left(rows)) \subseteq tracks'
    <3>1. \A i \in P : rows[i] \in tracks /\ rows[i] # t
      BY <2>1 DEF GoodRows, Range
    <3> QED
      BY <1>1, <2>2, <3>1 DEF Range
  <2>5. left(rows) \in UNION {[Q -> TrackIds] : Q \in SUBSET Positions}
    BY <2>2, <2>3
  <2> QED
    BY <2>4, <2>5 DEF rows
<1>3. /\ DOMAIN lists' = DOMAIN lists
      /\ \A p \in DOMAIN lists : /\ lists'[p] = [lists[p] EXCEPT !.rows = left(@)]
                                 /\ lists[p] \in Playlist
  BY DEF DeleteTrack, ListsWithoutTrack, ListInv, PlaylistsTypeOK
<1>4. lists' = [p \in DOMAIN lists |-> lists'[p]]
  BY DEF DeleteTrack, ListsWithoutTrack
<1> HIDE DEF left
<1>5. \A p \in DOMAIN lists :
          lists'[p].owner = lists[p].owner /\ lists'[p].rows = left(lists[p].rows)
  BY <1>3 DEF Playlist
<1>6. ASSUME NEW p \in DOMAIN lists PROVE lists'[p] \in Playlist
  <2>1. PICK rows \in UNION {[P -> TrackIds] : P \in SUBSET Positions} :
             rows = left(lists[p].rows)
    BY <1>2
  <2>2. lists'[p] = [lists[p] EXCEPT !.rows = rows] /\ lists[p] \in Playlist
    BY <1>3, <2>1
  <2> DEFINE allRows == UNION {[P -> TrackIds] : P \in SUBSET Positions}
  <2>3. Playlist = [owner : Accounts, rows : allRows] /\ rows \in allRows
    BY DEF Playlist
  <2> HIDE DEF allRows
  <2> QED
    BY <2>2, <2>3
<1>7. lists' \in [DOMAIN lists' -> Playlist]
  BY <1>3, <1>4, <1>6
<1>8. CatalogueTypeOK' /\ PlaylistsTypeOK'
  BY <1>1, <1>3, <1>7 DEF ListInv, CatalogueTypeOK, PlaylistsTypeOK
<1>9. \A p \in DOMAIN lists' :
          lists'[p].owner \in accounts' /\ Range(lists'[p].rows) \subseteq tracks'
  BY <1>1, <1>2, <1>3, <1>5 DEF ListInv
<1>10. \A r \in Editors : edit[r].op # "none" =>
          /\ edit[r].list <= lastList
          /\ edit[r].list \in DOMAIN lists' =>
                \/ lists'[edit[r].list].owner = edit[r].user
                \/ edit[r].op = "replace" /\ edit[r].user \in Admins
  BY <1>3, <1>5 DEF ListInv
<1>11. /\ DOMAIN lists' \subseteq 1..lastList'
       /\ \A r \in Editors :
            edit'[r].op = "update" => edit'[r].next + Len(edit'[r].songs) <= MaxPosition + 1
  BY <1>1, <1>3 DEF ListInv
<1> QED
  BY <1>1, <1>8, <1>9, <1>10, <1>11 DEF ListInv

\* The step of the inductive invariant for playlists.
LEMMA ListStep ==
  ASSUME ListInv, [Next]_vars
  PROVE  ListInv'
<1>1. CASE UNCHANGED vars
  BY <1>1, ListsUntouched DEF vars
<1>2. CASE CatalogueNext
  BY <1>2, TrackComesKeepsLists, TrackGoesKeepsLists, AccountGoesKeepsLists DEF CatalogueNext
<1>3. CASE PlaylistsNext
  <2>1. ASSUME NEW u \in Accounts, NEW songs \in Selections, CreatePlaylist(u, songs)
        PROVE  ListInv'
    BY <2>1, CreateKeepsLists
  <2>2. ASSUME NEW u \in Accounts, NEW p \in ListIds, NEW songs \in Selections,
               NEW r \in Editors, ReplaceCheck(r, u, p, songs)
        PROVE  ListInv'
    BY <2>2, ReplaceCheckKeepsLists
  <2>3. ASSUME NEW u \in Accounts, NEW p \in ListIds, NEW songs \in Selections,
               NEW remove \in Removals, NEW r \in Editors,
               UpdateRead(r, u, p, songs, remove)
        PROVE  ListInv'
    BY <2>3, UpdateReadKeepsLists
  <2>4. ASSUME NEW u \in Accounts, NEW p \in ListIds, NEW songs \in Selections,
               NEW remove \in Removals, NEW r \in Editors,
               HeaderRead(r, u, p, songs, remove)
        PROVE  ListInv'
    BY <2>4, HeaderReadKeepsLists
  <2>5. ASSUME NEW u \in Accounts, NEW p \in ListIds, DeletePlaylist(u, p)
        PROVE  ListInv'
    BY <2>5, DeleteKeepsLists
  <2>6. ASSUME NEW r \in Editors, ReplaceWrite(r) \/ UpdateWrite(r) \/ HeaderWrite(r)
        PROVE  ListInv'
    BY <2>6, ReplaceWriteKeepsLists, UpdateWriteKeepsLists
  <2> QED
    BY <1>3, <2>1, <2>2, <2>3, <2>4, <2>5, <2>6 DEF PlaylistsNext
<1>4. CASE MarksNext /\ UNCHANGED listVars
  <2>1. UNCHANGED catalogueVars
    BY <1>4 DEF MarksNext, StarsNext, Star, Unstar, CleanupDanglingStarred, RatingsNext,
       SetRatingCheck, SetRatingWrite, BookmarksNext, CreateBookmarkCheck,
       CreateBookmarkWrite, DeleteBookmark, PlaysNext, ScrobbleCheck, ScrobbleWrite,
       ScrobbleAnswer, ScrobbleFails, StationsNext, CreateStation, ListStations, UpdateStation, DeleteStation
  <2> QED
    BY <1>4, <2>1, ListsUntouched
<1> QED
  BY <1>1, <1>2, <1>3, <1>4 DEF Next

-----------------------------------------------------------------------------
(* Steps on what users attach to tracks *)

\* What a request has checked, by its kind.
LEMMA CallKinds ==
  ASSUME MarkInv, NEW r \in Callers
  PROVE  /\ call[r].op \in {"none", "rate", "bookmark", "scrobble", "answer", "station"}
         /\ call[r].op \in {"rate", "bookmark"} => call[r].cell \in Cells
         /\ call[r].op \in {"scrobble", "answer"} =>
               /\ call[r].user \in Accounts /\ call[r].songs \in Batches
               /\ call[r].songs \in Seq(TrackIds) /\ Len(call[r].songs) <= MaxPlays
         /\ call[r].op = "station" => /\ call[r].id \in StationIds
                                      /\ call[r].shown = call[r].id
<1>1. call[r] \in Calls \cup {NoCall}
  BY DEF MarkInv, MarksTypeOK
<1>2. CASE call[r] = NoCall
  BY <1>2 DEF NoCall
<1>3. CASE call[r] \in [op : {"rate", "bookmark"}, cell : Cells]
  BY <1>3
<1>4. CASE call[r] \in [op : {"scrobble", "answer"}, user : Accounts, songs : Batches]
  BY <1>4, MarksAssumption
<1>5. CASE call[r] \in [op : {"station"}, id : StationIds, shown : StationIds]
  BY <1>5 DEF MarkInv, CallInv
<1> QED
  BY <1>1, <1>2, <1>3, <1>4, <1>5 DEF Calls

\* Nothing that happens to playlists matters to marks.
LEMMA MarksUntouched ==
  ASSUME MarkInv, UNCHANGED <<catalogueVars, markVars>>
  PROVE  MarkInv'
<1>1. UNCHANGED <<accounts, tracks, handedOut, plays, reported, unanswered, call>>
  BY DEF catalogueVars, markVars, answers
<1>2. \A c : Awaiting(c)' = Awaiting(c)
  BY <1>1 DEF Awaiting
<1>3. CountInv'
  BY <1>1, <1>2 DEF MarkInv, CountInv, PlaysMatchTheAnswers
<1>4. CallInv'
  BY <1>1 DEF MarkInv, CallInv
<1> QED
  BY <1>1, <1>3, <1>4 DEF MarkInv, CatalogueTypeOK, MarksTypeOK, markVars

\* A request is over, or begins with what is true.
LEMMA CallChanges ==
  ASSUME MarkInv, NEW r \in Callers, NEW c \in Calls \cup {NoCall},
         call' = [call EXCEPT ![r] = c], handedOut' = handedOut,
         c.op = "rate" => c.cell[2] \in handedOut,
         c.op = "answer" => \A i \in DOMAIN c.songs : c.songs[i] \in handedOut,
         c.op = "station" => c.shown = c.id
  PROVE  CallInv'
<1>1. CallInv
  BY DEF MarkInv
<1>2. /\ call' \in [Callers -> Calls \cup {NoCall}]
      /\ \A q \in Callers : call'[q] = IF q = r THEN c ELSE call[q]
  BY <1>1 DEF CallInv
<1>3. ASSUME NEW q \in Callers
      PROVE  /\ call'[q].op = "rate" => call'[q].cell[2] \in handedOut
             /\ call'[q].op = "answer" => \A i \in DOMAIN call'[q].songs :
                                            call'[q].songs[i] \in handedOut
             /\ call'[q].op = "station" => call'[q].shown = call'[q].id
  <2>1. CASE q = r
    BY <1>2, <2>1
  <2>2. CASE q # r
    BY <1>1, <1>2, <2>2 DEF CallInv
  <2> QED
    BY <2>1, <2>2
<1> QED
  BY <1>2, <1>3 DEF CallInv

\* A call that has ended leaves nothing of what it had read.
LEMMA CallEnds ==
  ASSUME MarkInv, NEW r \in Callers, call' = [call EXCEPT ![r] = NoCall],
         handedOut' = handedOut
  PROVE  CallInv'
<1>1. NoCall.op = "none" /\ NoCall \in Calls \cup {NoCall}
  BY DEF NoCall
<1> QED
  BY <1>1, CallChanges

(* What awaits an answer, in a table of requests, of all and of others     *)
(* than r.                                                                 *)
AwaitingIn(calls, c) ==
    {p \in Callers \X (1..MaxPlays) :
        /\ calls[p[1]].op = "answer" /\ calls[p[1]].user = c[1]
        /\ p[2] \in DOMAIN calls[p[1]].songs /\ calls[p[1]].songs[p[2]] = c[2]}
OthersIn(calls, c, r) == {p \in AwaitingIn(calls, c) : p[1] # r}

\* The two ways to say what awaits an answer are one.
LEMMA AwaitingNow ==
  /\ \A c : Awaiting(c) = AwaitingIn(call, c)
  /\ \A c : Awaiting(c)' = AwaitingIn(call', c)
BY DEF Awaiting, AwaitingIn

\* What others await stays as it is when r's request changes.
LEMMA OthersKept ==
  ASSUME NEW calls, NEW calls2, NEW r, \A q \in Callers : q # r => calls2[q] = calls[q],
         NEW c
  PROVE  OthersIn(calls2, c, r) = OthersIn(calls, c, r)
<1>1. ASSUME NEW p \in Callers \X (1..MaxPlays), p[1] # r
      PROVE  p \in AwaitingIn(calls2, c) <=> p \in AwaitingIn(calls, c)
  <2>1. p[1] \in Callers /\ calls2[p[1]] = calls[p[1]]
    BY <1>1
  <2> QED
    BY <2>1 DEF AwaitingIn
<1>2. /\ \A p \in AwaitingIn(calls, c) : p \in Callers \X (1..MaxPlays)
      /\ \A p \in AwaitingIn(calls2, c) : p \in Callers \X (1..MaxPlays)
  BY DEF AwaitingIn
<1> QED
  BY <1>1, <1>2 DEF OthersIn

\* A request that awaits no answer has no plays that do.
LEMMA NoneAwaited ==
  ASSUME NEW calls, NEW r, calls[r].op # "answer", NEW c
  PROVE  AwaitingIn(calls, c) = OthersIn(calls, c, r)
BY DEF AwaitingIn, OthersIn

\* The counts are as before if no play is stored or answered.
LEMMA CountsSame ==
  ASSUME MarkInv, UNCHANGED <<catalogueVars, plays, answers>>,
         \A c : AwaitingIn(call', c) = AwaitingIn(call, c)
  PROVE  CountInv'
<1>1. \A c : Awaiting(c)' = Awaiting(c)
  BY AwaitingNow
<1> QED
  BY <1>1 DEF MarkInv, CountInv, PlaysMatchTheAnswers, catalogueVars, answers

\* So they are when a request changes that awaits no answer, before or after.
LEMMA CountsKept ==
  ASSUME MarkInv, UNCHANGED <<catalogueVars, plays, answers>>,
         NEW r \in Callers, NEW e, call' = [call EXCEPT ![r] = e],
         call[r].op # "answer", e.op # "answer"
  PROVE  CountInv'
<1>1. \A q \in Callers : call'[q] = IF q = r THEN e ELSE call[q]
  BY DEF MarkInv, CallInv
<1>2. \A q \in Callers : q # r => call'[q] = call[q]
  BY <1>1
<1>3. ASSUME NEW c
      PROVE  AwaitingIn(call', c) = AwaitingIn(call, c)
  <2>1. OthersIn(call', c, r) = OthersIn(call, c, r)
    BY ONLY <1>2, OthersKept
  <2>2. call'[r].op # "answer"
    BY <1>1
  <2> QED
    BY <2>1, <2>2, NoneAwaited
<1> QED
  BY <1>3, CountsSame

\* A request that is over awaits nothing.
LEMMA NoCallOp == NoCall.op = "none"
BY DEF NoCall

\* Stars are given and taken, and cleaned up, within one statement.
LEMMA StarsKeepMarks ==
  ASSUME MarkInv, StarsNext
  PROVE  MarkInv'
<1>1. /\ stars' \subseteq Cells /\ \A c \in stars' : c \in stars \/ c[1] \in accounts
      /\ UNCHANGED <<catalogueVars, ratings, bookmarks, plays, answers, stations,
                     created, call>>
  BY DEF StarsNext, Star, Unstar, CleanupDanglingStarred, Dangling, star_item,
         unstar_item, MarkInv, MarksTypeOK
<1>2. CountInv'
  BY <1>1, CountsSame
<1> QED
  BY <1>1, <1>2 DEF MarkInv, MarksTypeOK, CatalogueTypeOK, CallInv, catalogueVars, answers

\* A rating is written for a track that has existed, though it may be gone.
LEMMA RatingsKeepMarks ==
  ASSUME MarkInv, RatingsNext
  PROVE  MarkInv'
<1>1. ASSUME NEW r \in Callers, SetRatingWrite(r)
      PROVE  MarkInv'
  <2>1. call[r].op = "rate" /\ call[r].cell \in Cells /\ call[r].cell[2] \in handedOut
    BY <1>1, CallKinds DEF SetRatingWrite, MarkInv, CallInv
  <2>2. /\ ratings' \subseteq Cells
        /\ \A c \in ratings' : \/ c \in ratings
                               \/ c[1] \in accounts /\ c[2] \in handedOut
    BY <1>1, <2>1 DEF SetRatingWrite, set_rating, delete_rating, MarkInv, MarksTypeOK
  <2>3. /\ call' = [call EXCEPT ![r] = NoCall]
        /\ UNCHANGED <<catalogueVars, stars, bookmarks, plays, answers, stations,
                       created>>
    BY <1>1 DEF SetRatingWrite
  <2>4. CallInv'
    BY <2>3, CallEnds DEF catalogueVars
  <2>5. CountInv'
    BY <2>1, <2>3, CountsKept, NoCallOp
  <2> QED
    BY <2>2, <2>3, <2>4, <2>5 DEF MarkInv, MarksTypeOK, CatalogueTypeOK, CallInv,
       catalogueVars, answers
<1>2. ASSUME NEW r \in Callers, NEW c \in Cells, SetRatingCheck(r, c)
      PROVE  MarkInv'
  <2> DEFINE e == [op |-> "rate", cell |-> c]
  <2>1. e \in Calls \cup {NoCall} /\ e.op = "rate" /\ e.cell = c
    BY DEF Calls
  <2>2. c[2] \in handedOut
    BY <1>2 DEF SetRatingCheck, Exists, MarkInv, CatalogueTypeOK
  <2>3. /\ call' = [call EXCEPT ![r] = e]
        /\ UNCHANGED <<catalogueVars, stars, ratings, bookmarks, plays, answers,
                       stations, created>>
    BY <1>2 DEF SetRatingCheck
  <2> HIDE DEF e
  <2>4. CallInv'
    BY <2>1, <2>2, <2>3, CallChanges DEF catalogueVars
  <2>5. CountInv'
    BY <1>2, <2>1, <2>3, CountsKept, NoCallOp DEF SetRatingCheck
  <2> QED
    BY <2>3, <2>4, <2>5 DEF MarkInv, MarksTypeOK, CatalogueTypeOK, CallInv,
       catalogueVars, answers
<1> QED
  BY <1>1, <1>2 DEF RatingsNext

\* Bookmarks are of tracks that are there, by accounts that are there.
LEMMA BookmarksKeepMarks ==
  ASSUME MarkInv, BookmarksNext
  PROVE  MarkInv'
<1>1. ASSUME NEW c \in Cells, DeleteBookmark(c)
      PROVE  MarkInv'
  <2>1. /\ bookmarks' \subseteq bookmarks
        /\ UNCHANGED <<catalogueVars, stars, ratings, plays, answers, stations,
                       created, call>>
    BY <1>1 DEF DeleteBookmark, delete_bookmark
  <2>2. CountInv'
    BY <2>1, CountsSame
  <2> QED
    BY <2>1, <2>2 DEF MarkInv, MarksTypeOK, CatalogueTypeOK, CallInv, catalogueVars,
       answers
<1>2. ASSUME NEW r \in Callers, CreateBookmarkWrite(r)
      PROVE  MarkInv'
  <2>1. call[r].op = "bookmark" /\ call[r].cell \in Cells
    BY <1>2, CallKinds DEF CreateBookmarkWrite
  <2>2. /\ bookmarks' \subseteq Cells
        /\ \A c \in bookmarks' : c \in bookmarks \/ (c[1] \in accounts /\ c[2] \in tracks)
    BY <1>2, <2>1 DEF CreateBookmarkWrite, upsert_bookmark, Referable, MarkInv,
                      MarksTypeOK
  <2>3. /\ call' = [call EXCEPT ![r] = NoCall]
        /\ UNCHANGED <<catalogueVars, stars, ratings, plays, answers, stations,
                       created>>
    BY <1>2 DEF CreateBookmarkWrite
  <2>4. CallInv'
    BY <2>3, CallEnds DEF catalogueVars
  <2>5. CountInv'
    BY <2>1, <2>3, CountsKept, NoCallOp
  <2> QED
    BY <2>2, <2>3, <2>4, <2>5 DEF MarkInv, MarksTypeOK, CatalogueTypeOK, CallInv,
       catalogueVars, answers
<1>3. ASSUME NEW r \in Callers, NEW c \in Cells, CreateBookmarkCheck(r, c)
      PROVE  MarkInv'
  <2> DEFINE e == [op |-> "bookmark", cell |-> c]
  <2>1. e \in Calls \cup {NoCall} /\ e.op = "bookmark"
    BY DEF Calls
  <2>2. /\ call' = [call EXCEPT ![r] = e]
        /\ UNCHANGED <<catalogueVars, stars, ratings, bookmarks, plays, answers,
                       stations, created>>
    BY <1>3 DEF CreateBookmarkCheck
  <2> HIDE DEF e
  <2>3. CallInv'
    BY <2>1, <2>2, CallChanges DEF catalogueVars
  <2>4. CountInv'
    BY <1>3, <2>1, <2>2, CountsKept, NoCallOp DEF CreateBookmarkCheck
  <2> QED
    BY <2>2, <2>3, <2>4 DEF MarkInv, MarksTypeOK, CatalogueTypeOK, CallInv,
       catalogueVars, answers
<1> QED
  BY <1>1, <1>2, <1>3 DEF BookmarksNext

\* A batch counts a track as often as it has it.
LEMMA TimesType ==
  ASSUME NEW songs \in Seq(TrackIds), NEW t
  PROVE  /\ Times(t, songs) \in Nat
         /\ Times(t, songs) > 0 => \E i \in DOMAIN songs : songs[i] = t
<1> DEFINE S == {i \in DOMAIN songs : songs[i] = t}
<1>1. Len(songs) \in Nat /\ DOMAIN songs = 1..Len(songs)
  BY LenProperties
<1>2. 1 \in Int /\ Len(songs) \in Int
  BY <1>1
<1>3. IsFiniteSet(DOMAIN songs)
  BY <1>1, <1>2, FS_Interval
<1>4. Cardinality(S) \in Nat
  BY <1>3, SubsetSmaller
<1>5. S = {} => Cardinality(S) = 0
  BY FS_EmptySet
<1> QED
  BY <1>4, <1>5 DEF Times

\* Counting a list of plays adds what is in it to the cells of its account.
LEMMA AddTo ==
  ASSUME NEW counts \in [Cells -> Nat], NEW u, NEW songs \in Seq(TrackIds)
  PROVE  /\ Add(counts, u, songs) \in [Cells -> Nat]
         /\ \A c \in Cells :
               /\ Add(counts, u, songs)[c] =
                     IF c[1] = u THEN counts[c] + Times(c[2], songs) ELSE counts[c]
               /\ Add(counts, u, songs)[c] # counts[c] =>
                     c[1] = u /\ \E i \in DOMAIN songs : songs[i] = c[2]
<1>1. \A t : Times(t, songs) \in Nat
             /\ (Times(t, songs) > 0 => \E i \in DOMAIN songs : songs[i] = t)
  BY TimesType
<1>2. \A c \in Cells : Add(counts, u, songs)[c] =
                          IF c[1] = u THEN counts[c] + Times(c[2], songs) ELSE counts[c]
  BY DEF Add
<1>3. ASSUME NEW c \in Cells, Add(counts, u, songs)[c] # counts[c]
      PROVE  c[1] = u /\ \E i \in DOMAIN songs : songs[i] = c[2]
  <2>1. c[1] = u /\ Times(c[2], songs) # 0
    <3>1. counts[c] \in Nat
      OBVIOUS
    <3> QED
      BY <1>2, <1>3, <3>1
  <2> QED
    BY <1>1, <2>1
<1> QED
  BY <1>1, <1>2, <1>3 DEF Add

\* What awaits an answer is finite.
LEMMA AwaitingFinite ==
  ASSUME NEW calls, NEW c
  PROVE  /\ IsFiniteSet(AwaitingIn(calls, c))
         /\ Cardinality(AwaitingIn(calls, c)) \in Nat
<1>1. IsFiniteSet(1..MaxPlays)
  <2>1. 1 \in Int /\ MaxPlays \in Int
    BY MarksAssumption
  <2> QED
    BY <2>1, FS_Interval
<1>2. IsFiniteSet(Callers \X (1..MaxPlays))
  BY <1>1, FS_Product, MarksAssumption
<1>3. AwaitingIn(calls, c) \in SUBSET (Callers \X (1..MaxPlays))
  BY DEF AwaitingIn
<1> QED
  BY <1>2, <1>3, FS_Subset, FS_CardinalityType

\* The plays of one request, beside those of all others.
LEMMA AwaitingGrows ==
  ASSUME NEW r, NEW I, IsFiniteSet(I), NEW others, IsFiniteSet(others),
         others \cap ({r} \X I) = {}
  PROVE  Cardinality(others \cup ({r} \X I)) = Cardinality(others) + Cardinality(I)
<1> DEFINE mine == {r} \X I
<1>1. /\ IsFiniteSet({r}) /\ Cardinality({r}) = 1
      /\ Cardinality(I) \in Nat /\ Cardinality(others) \in Nat
  BY FS_Singleton, FS_CardinalityType
<1>2. IsFiniteSet(mine) /\ Cardinality(mine) = 1 * Cardinality(I)
  BY <1>1, FS_Product
<1> HIDE DEF mine
<1>3. Cardinality(others \cup mine) =
         Cardinality(others) + Cardinality(mine) - Cardinality(others \cap mine)
  BY <1>2, FS_Union
<1>4. Cardinality(others \cap mine) = 0
  BY FS_EmptySet DEF mine
<1>5. Cardinality(others \cup mine) = Cardinality(others) + Cardinality(I)
  BY <1>1, <1>2, <1>3, <1>4
<1> QED
  BY <1>5 DEF mine

\* A request's plays await an answer while it does.
LEMMA AwaitingOf ==
  ASSUME NEW calls, NEW r \in Callers, NEW c, calls[r].op = "answer",
         NEW songs \in Seq(TrackIds), songs = calls[r].songs, Len(songs) <= MaxPlays
  PROVE  Cardinality(AwaitingIn(calls, c)) =
            Cardinality(OthersIn(calls, c, r)) +
              IF calls[r].user = c[1] THEN Times(c[2], songs) ELSE 0
<1> DEFINE I == {i \in DOMAIN songs : songs[i] = c[2]}
           others == OthersIn(calls, c, r)
<1>1. IsFiniteSet(others) /\ Cardinality(others) \in Nat
  <2>1. others \in SUBSET AwaitingIn(calls, c)
    BY DEF OthersIn
  <2> QED
    BY <2>1, AwaitingFinite, FS_Subset, FS_CardinalityType
<1>2. CASE calls[r].user = c[1]
  <2>1. \A i \in DOMAIN songs : i \in 1..MaxPlays
    <3>1. DOMAIN songs = 1..Len(songs) /\ Len(songs) \in Nat
      BY LenProperties
    <3> QED
      BY <3>1, MarksAssumption
  <2>2. ASSUME NEW p \in Callers \X (1..MaxPlays), p[1] = r
        PROVE  p \in AwaitingIn(calls, c) <=> p \in {r} \X I
    <3>1. p \in AwaitingIn(calls, c) <=> p[2] \in I
      BY <1>2, <2>2 DEF AwaitingIn
    <3>2. p \in {r} \X I <=> p[2] \in I
      BY <2>2
    <3> QED
      BY <3>1, <3>2
  <2>3. \A p \in {r} \X I : p \in Callers \X (1..MaxPlays) /\ p[1] = r
    BY <2>1
  <2>4. \A p \in AwaitingIn(calls, c) : p \in Callers \X (1..MaxPlays)
    BY DEF AwaitingIn
  <2>5. AwaitingIn(calls, c) = others \cup ({r} \X I)
    <3> HIDE DEF I
    <3> QED
      BY <2>2, <2>3, <2>4 DEF OthersIn
  <2>6. \A p \in others : p[1] # r
    BY DEF OthersIn
  <2> HIDE DEF others
  <2>7. Cardinality(others \cup ({r} \X I)) = Cardinality(others) + Times(c[2], songs)
    <3>1. IsFiniteSet(I) /\ Cardinality(I) = Times(c[2], songs)
      <4>1. I \in SUBSET (1..MaxPlays)
        BY <2>1
      <4>2. 1 \in Int /\ MaxPlays \in Int
        BY MarksAssumption
      <4>3. Cardinality(I) = Times(c[2], songs)
        BY DEF Times
      <4> QED
        BY <4>1, <4>2, <4>3, FS_Interval, FS_Subset
    <3>2. others \cap ({r} \X I) = {}
      BY <2>6
    <3> HIDE DEF I
    <3>3. Cardinality(others \cup ({r} \X I)) = Cardinality(others) + Cardinality(I)
      BY <1>1, <3>1, <3>2, AwaitingGrows, ZenonT(40)
    <3> QED
      BY <3>1, <3>3
  <2> QED
    BY <1>2, <2>5, <2>7 DEF others
<1>3. CASE calls[r].user # c[1]
  <2>1. AwaitingIn(calls, c) = others
    BY <1>3 DEF AwaitingIn, OthersIn
  <2> HIDE DEF others
  <2> QED
    BY <1>1, <1>3, <2>1 DEF others
<1> QED
  BY <1>2, <1>3

\* A batch is stored as a whole, awaits its answer and gets it or not.
LEMMA PlaysKeepMarks ==
  ASSUME MarkInv, PlaysNext
  PROVE  MarkInv'
<1>1. ASSUME NEW r \in Callers, ScrobbleWrite(r)
      PROVE  MarkInv'
  <2> DEFINE u == call[r].user
             songs == call[r].songs
             e == [op |-> "answer", user |-> u, songs |-> songs]
  <2>1. /\ u \in Accounts /\ songs \in Batches /\ songs \in Seq(TrackIds)
        /\ Len(songs) <= MaxPlays
    BY <1>1, CallKinds DEF ScrobbleWrite
  <2>2. /\ plays \in [Cells -> 0..MaxPlays] /\ plays \in [Cells -> Nat]
        /\ reported \in [Cells -> Nat] /\ unanswered \in [Cells -> Nat]
    BY MarksAssumption DEF MarkInv, MarksTypeOK
  <2>3. /\ call[r].op = "scrobble"
        /\ \A c \in Cells : plays'[c] <= MaxPlays
        /\ UNCHANGED <<catalogueVars, stars, ratings, bookmarks, answers, stations, created>>
    BY <1>1 DEF ScrobbleWrite
  <2>4. CASE ~Storable(u, songs)
    <3>1. plays' = plays /\ call' = [call EXCEPT ![r] = NoCall]
      BY <1>1, <2>4 DEF ScrobbleWrite, PlaysAfter
    <3>2. CallInv'
      BY <2>3, <3>1, CallEnds DEF catalogueVars
    <3>3. CountInv'
      BY <2>3, <3>1, CountsKept, NoCallOp
    <3> QED
      BY <2>3, <3>1, <3>2, <3>3 DEF MarkInv, MarksTypeOK, CatalogueTypeOK, CallInv,
         catalogueVars, answers
  <2>5. CASE Storable(u, songs)
    <3>1. /\ plays' = Add(plays, u, songs)
          /\ call' = [call EXCEPT ![r] = e]
      BY <1>1, <2>5 DEF ScrobbleWrite, PlaysAfter
    <3>2. e \in Calls \cup {NoCall} /\ e.op = "answer" /\ e.user = u /\ e.songs = songs
      BY <2>1 DEF Calls
    <3>3. \A i \in DOMAIN songs : u \in accounts /\ songs[i] \in tracks
      BY <2>5 DEF Storable, Referable
    <3> HIDE DEF e, u, songs
    <3>4. CallInv'
      <4>1. \A i \in DOMAIN e.songs : e.songs[i] \in handedOut
        BY <3>2, <3>3 DEF MarkInv, CatalogueTypeOK
      <4> QED
        BY <2>3, <3>1, <3>2, <4>1, CallChanges DEF catalogueVars
    <3>5. /\ plays' \in [Cells -> Nat]
          /\ \A c \in Cells :
                /\ plays'[c] = IF c[1] = u THEN plays[c] + Times(c[2], songs) ELSE plays[c]
                /\ plays'[c] # plays[c] =>
                      c[1] = u /\ \E i \in DOMAIN songs : songs[i] = c[2]
      <4>1. /\ Add(plays, u, songs) \in [Cells -> Nat]
            /\ \A c \in Cells :
                  /\ Add(plays, u, songs)[c] =
                        IF c[1] = u THEN plays[c] + Times(c[2], songs) ELSE plays[c]
                  /\ Add(plays, u, songs)[c] # plays[c] =>
                        c[1] = u /\ \E i \in DOMAIN songs : songs[i] = c[2]
        <5>1. \A counts \in [Cells -> Nat] :
                 /\ Add(counts, u, songs) \in [Cells -> Nat]
                 /\ \A c \in Cells :
                       /\ Add(counts, u, songs)[c] =
                             IF c[1] = u THEN counts[c] + Times(c[2], songs) ELSE counts[c]
                       /\ Add(counts, u, songs)[c] # counts[c] =>
                             c[1] = u /\ \E i \in DOMAIN songs : songs[i] = c[2]
          BY <2>1, AddTo
        <5> QED
          BY <2>2, <5>1
      <4> QED
        BY <3>1, <4>1
    <3>6. plays' \in [Cells -> 0..MaxPlays]
      <4>1. \A c \in Cells : plays'[c] \in 0..MaxPlays
        <5>1. \A c \in Cells : plays'[c] \in Nat /\ plays'[c] <= MaxPlays
          BY <2>3, <3>5
        <5> QED
          BY <5>1, MarksAssumption
      <4> QED
        BY <3>5, <4>1
    <3>7. \A c \in Cells : plays'[c] > 0 => c[1] \in accounts /\ c[2] \in tracks
      BY <3>3, <3>5 DEF MarkInv, CountInv
    <3>8. ASSUME NEW c \in accounts \X tracks
          PROVE  plays'[c] = reported'[c] + unanswered'[c] + Cardinality(Awaiting(c)')
      <4>1. c \in Cells
        BY DEF Cells, MarkInv, CatalogueTypeOK
      <4>2. plays[c] = reported[c] + unanswered[c] + Cardinality(Awaiting(c))
        BY DEF MarkInv, CountInv, PlaysMatchTheAnswers
      <4>3. AwaitingIn(call, c) = OthersIn(call, c, r)
        BY <2>3, NoneAwaited
      <4>4. call'[r] = e /\ \A q \in Callers : q # r => call'[q] = call[q]
        BY <3>1 DEF MarkInv, CallInv
      <4>5. OthersIn(call', c, r) = OthersIn(call, c, r)
        BY <4>4, OthersKept
      <4>6. Cardinality(AwaitingIn(call', c)) =
               Cardinality(OthersIn(call', c, r)) +
                 IF call'[r].user = c[1] THEN Times(c[2], songs) ELSE 0
        BY <2>1, <3>2, <4>4, AwaitingOf
      <4>7. Cardinality(Awaiting(c)') =
               Cardinality(Awaiting(c)) + IF u = c[1] THEN Times(c[2], songs) ELSE 0
        BY <3>2, <4>3, <4>4, <4>5, <4>6, AwaitingNow
      <4>8. /\ Cardinality(Awaiting(c)) \in Nat /\ Times(c[2], songs) \in Nat
            /\ reported[c] \in Nat /\ unanswered[c] \in Nat
        BY <2>1, <2>2, <4>1, AwaitingFinite, AwaitingNow, TimesType
      <4>9. plays'[c] = IF c[1] = u THEN plays[c] + Times(c[2], songs) ELSE plays[c]
        BY <3>5, <4>1
      <4>10. reported'[c] = reported[c] /\ unanswered'[c] = unanswered[c]
        BY <2>3 DEF answers
      <4> QED
        BY <4>2, <4>7, <4>8, <4>9, <4>10
    <3>9. CountInv'
      BY <2>3, <3>7, <3>8 DEF MarkInv, CountInv, PlaysMatchTheAnswers, catalogueVars, answers
    <3> QED
      BY <2>3, <3>4, <3>6, <3>9 DEF MarkInv, MarksTypeOK, CatalogueTypeOK, CallInv,
         catalogueVars, answers
  <2> QED
    BY <2>4, <2>5
<1>2. ASSUME NEW r \in Callers, NEW u \in Accounts, NEW songs \in Batches,
             ScrobbleCheck(r, u, songs)
      PROVE  MarkInv'
  <2> DEFINE e == [op |-> "scrobble", user |-> u, songs |-> songs]
  <2>1. e \in Calls \cup {NoCall} /\ e.op = "scrobble"
    BY DEF Calls
  <2>2. /\ call' = [call EXCEPT ![r] = e]
        /\ UNCHANGED <<catalogueVars, stars, ratings, bookmarks, plays, answers,
                       stations, created>>
    BY <1>2 DEF ScrobbleCheck
  <2> HIDE DEF e
  <2>3. CallInv'
    BY <2>1, <2>2, CallChanges DEF catalogueVars
  <2>4. CountInv'
    BY <1>2, <2>1, <2>2, CountsKept, NoCallOp DEF ScrobbleCheck
  <2> QED
    BY <2>2, <2>3, <2>4 DEF MarkInv, MarksTypeOK, CatalogueTypeOK, CallInv,
       catalogueVars, answers
<1>3. ASSUME NEW r \in Callers, ScrobbleAnswer(r) \/ ScrobbleFails(r)
      PROVE  MarkInv'
  <2> DEFINE u == call[r].user
             songs == call[r].songs
  <2>1. /\ call[r].op = "answer" /\ call' = [call EXCEPT ![r] = NoCall]
        /\ UNCHANGED <<catalogueVars, stars, ratings, bookmarks, plays, stations, created>>
        /\ \/ reported' = Add(reported, u, songs) /\ unanswered' = unanswered
           \/ reported' = reported /\ unanswered' = Add(unanswered, u, songs)
    BY <1>3 DEF ScrobbleAnswer, ScrobbleFails
  <2>2. /\ songs \in Seq(TrackIds) /\ Len(songs) <= MaxPlays
    BY <2>1, CallKinds
  <2>3. \A i \in DOMAIN songs : songs[i] \in handedOut
    BY <2>1 DEF MarkInv, CallInv
  <2>4. reported \in [Cells -> Nat] /\ unanswered \in [Cells -> Nat]
    BY DEF MarkInv, MarksTypeOK
  <2>5. CallInv'
    BY <2>1, CallEnds DEF catalogueVars
  <2> HIDE DEF u
  <2>6. /\ reported' \in [Cells -> Nat] /\ unanswered' \in [Cells -> Nat]
        /\ \A c \in Cells :
              /\ reported'[c] + unanswered'[c] =
                    reported[c] + unanswered[c] + IF c[1] = u THEN Times(c[2], songs) ELSE 0
              /\ reported'[c] # reported[c] \/ unanswered'[c] # unanswered[c] =>
                    \E i \in DOMAIN songs : songs[i] = c[2]
    <3> HIDE DEF songs
    <3>1. \A c \in Cells : /\ reported[c] \in Nat /\ unanswered[c] \in Nat
                           /\ Times(c[2], songs) \in Nat
      BY <2>2, <2>4, TimesType
    <3>2. CASE reported' = Add(reported, u, songs) /\ unanswered' = unanswered
      <4>1. /\ reported' \in [Cells -> Nat]
            /\ \A c \in Cells :
                  /\ reported'[c] = IF c[1] = u THEN reported[c] + Times(c[2], songs)
                                            ELSE reported[c]
                  /\ reported'[c] # reported[c] => \E i \in DOMAIN songs : songs[i] = c[2]
        BY <2>2, <2>4, <3>2, AddTo
      <4>2. ASSUME NEW c \in Cells
            PROVE  /\ reported'[c] + unanswered'[c] =
                         reported[c] + unanswered[c] + IF c[1] = u THEN Times(c[2], songs) ELSE 0
                   /\ reported'[c] # reported[c] \/ unanswered'[c] # unanswered[c] =>
                         \E i \in DOMAIN songs : songs[i] = c[2]
        <5>1. /\ reported'[c] = IF c[1] = u THEN reported[c] + Times(c[2], songs) ELSE reported[c]
              /\ reported'[c] # reported[c] => \E i \in DOMAIN songs : songs[i] = c[2]
              /\ unanswered'[c] = unanswered[c]
          BY <4>1, <3>2
        <5> QED
          BY <3>1, <5>1
      <4> QED
        BY <2>4, <3>2, <4>1, <4>2
    <3>3. CASE reported' = reported /\ unanswered' = Add(unanswered, u, songs)
      <4>1. /\ unanswered' \in [Cells -> Nat]
            /\ \A c \in Cells :
                  /\ unanswered'[c] = IF c[1] = u THEN unanswered[c] + Times(c[2], songs)
                                            ELSE unanswered[c]
                  /\ unanswered'[c] # unanswered[c] => \E i \in DOMAIN songs : songs[i] = c[2]
        BY <2>2, <2>4, <3>3, AddTo
      <4>2. ASSUME NEW c \in Cells
            PROVE  /\ reported'[c] + unanswered'[c] =
                         reported[c] + unanswered[c] + IF c[1] = u THEN Times(c[2], songs) ELSE 0
                   /\ reported'[c] # reported[c] \/ unanswered'[c] # unanswered[c] =>
                         \E i \in DOMAIN songs : songs[i] = c[2]
        <5>1. /\ unanswered'[c] = IF c[1] = u THEN unanswered[c] + Times(c[2], songs) ELSE unanswered[c]
              /\ unanswered'[c] # unanswered[c] => \E i \in DOMAIN songs : songs[i] = c[2]
              /\ reported'[c] = reported[c]
          BY <4>1, <3>3
        <5> QED
          BY <3>1, <5>1
      <4> QED
        BY <2>4, <3>3, <4>1, <4>2
    <3> QED
      BY <2>1, <3>2, <3>3
  <2>7. ASSUME NEW c \in accounts \X tracks
        PROVE  plays'[c] = reported'[c] + unanswered'[c] + Cardinality(Awaiting(c)')
    <3>1. c \in Cells
      BY DEF Cells, MarkInv, CatalogueTypeOK
    <3>2. plays[c] = reported[c] + unanswered[c] + Cardinality(Awaiting(c))
      BY DEF MarkInv, CountInv, PlaysMatchTheAnswers
    <3>3. call'[r].op # "answer" /\ \A q \in Callers : q # r => call'[q] = call[q]
      BY <2>1, NoCallOp DEF MarkInv, CallInv
    <3>4. AwaitingIn(call', c) = OthersIn(call', c, r)
      BY <3>3, NoneAwaited
    <3>5. OthersIn(call', c, r) = OthersIn(call, c, r)
      BY <3>3, OthersKept
    <3>6. Cardinality(AwaitingIn(call, c)) =
             Cardinality(OthersIn(call, c, r)) + IF u = c[1] THEN Times(c[2], songs) ELSE 0
      BY <2>1, <2>2, AwaitingOf DEF u
    <3>7. /\ Cardinality(Awaiting(c)') \in Nat /\ Times(c[2], songs) \in Nat
          /\ reported[c] \in Nat /\ unanswered[c] \in Nat
          /\ reported'[c] \in Nat /\ unanswered'[c] \in Nat
      <4>1. Cardinality(Awaiting(c)') \in Nat
        BY AwaitingFinite, AwaitingNow
      <4>2. Times(c[2], songs) \in Nat
        BY <2>2, TimesType
      <4> QED
        BY <2>4, <2>6, <3>1, <4>1, <4>2
    <3>8. Cardinality(Awaiting(c)) =
             Cardinality(Awaiting(c)') + IF u = c[1] THEN Times(c[2], songs) ELSE 0
      BY <3>4, <3>5, <3>6, AwaitingNow
    <3>9. reported'[c] + unanswered'[c] =
             reported[c] + unanswered[c] + IF c[1] = u THEN Times(c[2], songs) ELSE 0
      BY <2>6, <3>1
    <3>10. plays'[c] = plays[c]
      BY <2>1
    <3> QED
      BY <3>2, <3>7, <3>8, <3>9, <3>10
  <2>8. \A c \in Cells :
           /\ plays'[c] > 0 => c[1] \in accounts /\ c[2] \in tracks
           /\ c[2] \notin handedOut => reported'[c] = 0 /\ unanswered'[c] = 0
    BY <2>1, <2>3, <2>6 DEF MarkInv, CountInv
  <2>9. CountInv'
    BY <2>1, <2>7, <2>8 DEF CountInv, PlaysMatchTheAnswers, catalogueVars
  <2> QED
    BY <2>1, <2>5, <2>6, <2>9 DEF MarkInv, MarksTypeOK, CatalogueTypeOK, CallInv,
       catalogueVars
<1> QED
  BY <1>1, <1>2, <1>3 DEF PlaysNext

\* A station keeps the id it was created with, through every edit.
LEMMA StationsKeepMarks ==
  ASSUME MarkInv, StationsNext
  PROVE  MarkInv'
<1> DEFINE good(s) == /\ DOMAIN s \subseteq StationIds /\ s \in [DOMAIN s -> StationIds]
                      /\ \A i \in DOMAIN s : s[i] = i
<1>1. good(stations) /\ created \in 0..MaxStations /\ MaxStations \in Nat
  BY MarksAssumption DEF MarkInv, MarksTypeOK
<1>2. ASSUME good(stations'), created' \in 0..MaxStations,
             CallInv', CountInv',
             UNCHANGED <<catalogueVars, stars, ratings, bookmarks, plays, answers>>
      PROVE  MarkInv'
  BY <1>2 DEF MarkInv, MarksTypeOK, CatalogueTypeOK, CallInv, catalogueVars, answers
<1>3. ASSUME CreateStation
      PROVE  MarkInv'
  <2>1. created' = created + 1 /\ created < MaxStations
    BY <1>3 DEF CreateStation
  <2>2. created' \in 0..MaxStations /\ created' \in StationIds
    BY <1>1, <2>1 DEF StationIds
  <2>3. stations' = [i \in DOMAIN stations \cup {created'} |->
                       IF i \in DOMAIN stations THEN stations[i] ELSE created']
    BY <1>3, <2>1 DEF CreateStation, StationId
  <2>4. good(stations')
    BY <1>1, <2>2, <2>3
  <2>5. UNCHANGED <<catalogueVars, stars, ratings, bookmarks, plays, answers, call>>
    BY <1>3 DEF CreateStation
  <2>6. CallInv'
    BY <2>5 DEF MarkInv, CallInv, catalogueVars
  <2>7. CountInv'
    BY <2>5, CountsSame
  <2> HIDE DEF good
  <2> QED
    BY <1>2, <2>2, <2>4, <2>5, <2>6, <2>7
<1>4. ASSUME NEW r \in Callers, ListStations(r)
      PROVE  MarkInv'
  <2>1. PICK i \in DOMAIN stations :
            call' = [call EXCEPT ![r] = [op |-> "station", id |-> i, shown |-> stations[i]]]
    BY <1>4 DEF ListStations
  <2> DEFINE e == [op |-> "station", id |-> i, shown |-> stations[i]]
  <2>2. e \in Calls \cup {NoCall} /\ e.op = "station" /\ e.shown = e.id
    BY <1>1 DEF Calls
  <2> HIDE DEF e
  <2>3. call' = [call EXCEPT ![r] = e]
    BY <2>1 DEF e
  <2>4. UNCHANGED <<catalogueVars, stars, ratings, bookmarks, plays, answers,
                    stations, created>>
    BY <1>4 DEF ListStations
  <2>5. CallInv'
    BY <2>2, <2>3, <2>4, CallChanges DEF catalogueVars
  <2>6. good(stations') /\ created' \in 0..MaxStations
    BY <1>1, <2>4
  <2>7. CountInv'
    BY <1>4, <2>2, <2>3, <2>4, CountsKept, NoCallOp DEF ListStations
  <2> HIDE DEF good
  <2> QED
    BY <1>2, <2>4, <2>5, <2>6, <2>7
<1>5. ASSUME NEW r \in Callers, UpdateStation(r) \/ DeleteStation(r)
      PROVE  MarkInv'
  <2>1. /\ call' = [call EXCEPT ![r] = NoCall]
        /\ UNCHANGED <<catalogueVars, stars, ratings, bookmarks, plays, answers, created>>
        /\ \/ UNCHANGED stations
           \/ stations' = Restrict(stations, DOMAIN stations \ {call[r].id})
    BY <1>5 DEF UpdateStation, DeleteStation, delete_internet_radio
  <2>2. good(stations')
    BY <1>1, <2>1 DEF Restrict
  <2>3. CallInv'
    BY <2>1, CallEnds DEF catalogueVars
  <2>4. CountInv'
    <3>1. call[r].op = "station"
      BY <1>5 DEF UpdateStation, DeleteStation
    <3> QED
      BY <2>1, <3>1, CountsKept, NoCallOp
  <2> HIDE DEF good
  <2> QED
    BY <1>1, <1>2, <2>1, <2>2, <2>3, <2>4
<1> QED
  BY <1>3, <1>4, <1>5 DEF StationsNext

\* Tracks and accounts that go take their bookmarks and counts along.
LEMMA CatalogueKeepsMarks ==
  ASSUME MarkInv, CatalogueNext
  PROVE  MarkInv'
<1>1. ASSUME NEW t \in TrackIds, InsertTrack(t), UNCHANGED <<listVars, markVars>>
      PROVE  MarkInv'
  <2>1. /\ CatalogueTypeOK' /\ tracks \subseteq tracks' /\ handedOut \subseteq handedOut'
        /\ accounts' = accounts
    BY <1>1 DEF InsertTrack, MarkInv, CatalogueTypeOK
  <2>2. MarksTypeOK'
    BY <1>1 DEF MarkInv, MarksTypeOK, markVars, answers
  <2>3. CallInv'
    BY <1>1, <2>1 DEF MarkInv, CallInv, markVars
  <2>4. ASSUME NEW c \in accounts' \X tracks'
        PROVE  plays[c] = reported[c] + unanswered[c] + Cardinality(Awaiting(c))
    <3>1. CASE c[2] \in tracks
      BY <2>1, <3>1 DEF MarkInv, CountInv, PlaysMatchTheAnswers
    <3>2. CASE c[2] \notin tracks
      <4>1. c \in Cells /\ c[2] \notin handedOut
        BY <1>1, <2>1, <3>2 DEF InsertTrack, FreshTracks, Cells, MarkInv, CatalogueTypeOK
      <4>2. plays[c] = 0 /\ reported[c] = 0 /\ unanswered[c] = 0
        <5>1. plays[c] \in 0..MaxPlays
          BY <4>1 DEF MarkInv, MarksTypeOK
        <5> QED
          BY <3>2, <4>1, <5>1, MarksAssumption DEF MarkInv, CountInv
      <4>3. Awaiting(c) = {}
        BY <4>1 DEF Awaiting, MarkInv, CallInv
      <4> QED
        BY <4>2, <4>3, FS_EmptySet
    <3> QED
      BY <3>1, <3>2
  <2>5. CountInv'
    <3>1. \A c : Awaiting(c)' = Awaiting(c)
      BY <1>1 DEF Awaiting, markVars
    <3> QED
      BY <1>1, <2>1, <2>4, <3>1 DEF MarkInv, CountInv, PlaysMatchTheAnswers, markVars, answers
  <2> QED
    BY <1>1, <2>1, <2>2, <2>3, <2>5 DEF MarkInv, markVars
<1>2. \A n \in 0..MaxPlays : 0 \in 0..MaxPlays
  BY MarksAssumption
<1>3. ASSUME NEW t \in TrackIds, DeleteTrack(t)
      PROVE  MarkInv'
  <2>1. /\ tracks' = tracks \ {t}
        /\ bookmarks' = {c \in bookmarks : c[2] # t}
        /\ plays' = [c \in Cells |-> IF c[2] = t THEN 0 ELSE plays[c]]
        /\ UNCHANGED <<accounts, handedOut, stars, ratings, answers, stations, created,
                       call>>
    BY <1>3 DEF DeleteTrack
  <2>2. plays' \in [Cells -> 0..MaxPlays]
    BY <1>2, <2>1, MarksAssumption DEF MarkInv, MarksTypeOK
  <2>3. \A c \in Cells : plays'[c] > 0 => c[1] \in accounts' /\ c[2] \in tracks'
    BY <2>1 DEF MarkInv, CountInv
  <2>4. CatalogueTypeOK' /\ MarksTypeOK'
    BY <2>1, <2>2 DEF MarkInv, MarksTypeOK, CatalogueTypeOK, answers
  <2>5. \A c \in accounts' \X tracks' : c \in Cells /\ c \in accounts \X tracks
                                        /\ plays'[c] = plays[c]
    BY <2>1 DEF Cells, MarkInv, CatalogueTypeOK
  <2>6. CountInv'
    <3>1. \A c : Awaiting(c)' = Awaiting(c)
      BY <2>1 DEF Awaiting
    <3> QED
      BY <2>1, <2>3, <2>5, <3>1 DEF MarkInv, CountInv, PlaysMatchTheAnswers, answers
  <2>7. CallInv'
    BY <2>1 DEF MarkInv, CallInv
  <2> QED
    BY <2>1, <2>2, <2>4, <2>6, <2>7 DEF MarkInv
<1>4. ASSUME NEW u \in Accounts, DeleteAccount(u)
      PROVE  MarkInv'
  <2>1. /\ accounts' = accounts \ {u}
        /\ bookmarks' = {c \in bookmarks : c[1] # u}
        /\ stars' = {c \in stars : c[1] # u} /\ ratings' = {c \in ratings : c[1] # u}
        /\ plays' = [c \in Cells |-> IF c[1] = u THEN 0 ELSE plays[c]]
        /\ UNCHANGED <<tracks, handedOut, answers, stations, created, call>>
    BY <1>4 DEF DeleteAccount
  <2>2. plays' \in [Cells -> 0..MaxPlays]
    BY <1>2, <2>1, MarksAssumption DEF MarkInv, MarksTypeOK
  <2>3. \A c \in Cells : plays'[c] > 0 => c[1] \in accounts' /\ c[2] \in tracks'
    BY <2>1 DEF MarkInv, CountInv
  <2>4. CatalogueTypeOK' /\ MarksTypeOK'
    BY <2>1, <2>2 DEF MarkInv, MarksTypeOK, CatalogueTypeOK, answers
  <2>5. \A c \in accounts' \X tracks' : c \in Cells /\ c \in accounts \X tracks
                                        /\ plays'[c] = plays[c]
    BY <2>1 DEF Cells, MarkInv, CatalogueTypeOK
  <2>6. CountInv'
    <3>1. \A c : Awaiting(c)' = Awaiting(c)
      BY <2>1 DEF Awaiting
    <3> QED
      BY <2>1, <2>3, <2>5, <3>1 DEF MarkInv, CountInv, PlaysMatchTheAnswers, answers
  <2>7. CallInv'
    BY <2>1 DEF MarkInv, CallInv
  <2> QED
    BY <2>1, <2>2, <2>4, <2>6, <2>7 DEF MarkInv
<1> QED
  BY <1>1, <1>3, <1>4 DEF CatalogueNext

\* The step of the inductive invariant for marks.
LEMMA MarkStep ==
  ASSUME MarkInv, [Next]_vars
  PROVE  MarkInv'
<1>1. CASE UNCHANGED vars
  BY <1>1, MarksUntouched DEF vars
<1>2. CASE CatalogueNext
  BY <1>2, CatalogueKeepsMarks
<1>3. CASE PlaylistsNext /\ UNCHANGED markVars
  <2>1. UNCHANGED catalogueVars
    <3>1. \A u, songs : CreatePlaylist(u, songs) => UNCHANGED catalogueVars
      BY DEF CreatePlaylist
    <3>2. \A u, p, songs, r : ReplaceCheck(r, u, p, songs) => UNCHANGED catalogueVars
      BY DEF ReplaceCheck
    <3>3. \A u, p, songs, remove, r :
             UpdateRead(r, u, p, songs, remove) => UNCHANGED catalogueVars
      BY DEF UpdateRead
    <3>4. \A u, p, songs, remove, r :
             HeaderRead(r, u, p, songs, remove) => UNCHANGED catalogueVars
      BY DEF HeaderRead
    <3>5. \A u, p : DeletePlaylist(u, p) => UNCHANGED catalogueVars
      BY DEF DeletePlaylist
    <3>6. \A r : ReplaceWrite(r) \/ UpdateWrite(r) \/ HeaderWrite(r) =>
                   UNCHANGED catalogueVars
      BY DEF ReplaceWrite, UpdateWrite, HeaderWrite
    <3> QED
      BY <1>3, <3>1, <3>2, <3>3, <3>4, <3>5, <3>6 DEF PlaylistsNext
  <2> QED
    BY <1>3, <2>1, MarksUntouched
<1>4. CASE MarksNext
  BY <1>4, StarsKeepMarks, RatingsKeepMarks, BookmarksKeepMarks, PlaysKeepMarks,
     StationsKeepMarks DEF MarksNext
<1> QED
  BY <1>1, <1>2, <1>3, <1>4 DEF Next

-----------------------------------------------------------------------------
(* The theorems *)

\* An account list and a catalogue, and nothing marked or listed yet.
LEMMA InitIInv == Init => IInv
<1> SUFFICES ASSUME Init PROVE IInv
  OBVIOUS
<1>1. /\ accounts = Accounts /\ tracks = handedOut /\ tracks \subseteq TrackIds
      /\ dialect \in {"sqlite", "postgres"}
      /\ lists = << >> /\ lastList = 0 /\ edit = [r \in Editors |-> NoEdit]
  BY DEF Init, CatalogueInit, PlaylistsInit
<1>2. CatalogueTypeOK
  BY <1>1 DEF CatalogueTypeOK
<1>3. DOMAIN lists = {} /\ lists \in [{} -> Playlist]
  BY <1>1
<1>4. PlaylistsTypeOK
  BY <1>1, <1>3, PlaylistsAssumption DEF PlaylistsTypeOK
<1>5. NoEdit.op = "none" /\ NoCall.op = "none"
  BY DEF NoEdit, NoCall
<1>6. ListInv
  <2>1. \A r \in Editors : edit[r].op = "none"
    BY <1>1, <1>5
  <2> QED
    BY <1>2, <1>3, <1>4, <2>1 DEF ListInv
<1>7. /\ stars = {} /\ ratings = {} /\ bookmarks = {}
      /\ plays = [c \in Cells |-> 0]
      /\ reported = [c \in Cells |-> 0] /\ unanswered = [c \in Cells |-> 0]
      /\ stations = << >> /\ created = 0
      /\ call = [r \in Callers |-> NoCall]
  BY DEF Init, MarksInit
<1>8. DOMAIN stations = {} /\ stations \in [{} -> StationIds]
  BY <1>7
<1>9. MarksTypeOK
  BY <1>7, <1>8, MarksAssumption DEF MarksTypeOK
<1>10. MarkInv
  <2>1. \A r \in Callers : call[r].op = "none"
    BY <1>5, <1>7
  <2>2. CallInv
    BY <1>5, <1>7, <1>9, <2>1 DEF CallInv, MarksTypeOK
  <2>3. \A c : Awaiting(c) = {}
    BY <2>1 DEF Awaiting
  <2>4. CountInv
    <3>1. \A c \in Cells : plays[c] = 0 /\ reported[c] = 0 /\ unanswered[c] = 0
      BY <1>7
    <3>2. \A c \in accounts \X tracks : c \in Cells
      BY <1>1 DEF Cells
    <3> QED
      BY <2>3, <3>1, <3>2, FS_EmptySet DEF CountInv, PlaysMatchTheAnswers
  <2> QED
    BY <1>2, <1>7, <1>8, <1>9, <2>1, <2>2, <2>3, <2>4 DEF MarkInv
<1> QED
  BY <1>6, <1>10 DEF IInv

\* Whatever clients do to playlists and marks while scans and administrators
\* delete what these refer to, the inductive invariant holds.
THEOREM InductiveInvariant == Spec => []IInv
<1>1. IInv /\ [Next]_vars => IInv'
  BY ListStep, MarkStep DEF IInv
<1> QED
  BY InitIInv, <1>1, PTL DEF Spec

\* The variables of the three components always have their types.
THEOREM TypeCorrect == Spec => []TypeOK
<1>1. IInv => TypeOK
  BY DEF IInv, ListInv, MarkInv, TypeOK
<1> QED
  BY InductiveInvariant, <1>1, PTL

\* No row outlives the track or the account it refers to.
THEOREM RowsReferToRows == Spec => []NoDanglingRows
<1>1. IInv => NoDanglingRows
  <2> SUFFICES ASSUME IInv PROVE NoDanglingRows
    OBVIOUS
  <2>1. TypeOK
    BY DEF IInv, ListInv, MarkInv, TypeOK
  <2>2. \A p \in DOMAIN lists :
          lists[p].owner \in accounts /\ Range(lists[p].rows) \subseteq tracks
    BY DEF IInv, ListInv
  <2>3. /\ \A c \in bookmarks \cup {d \in Cells : plays[d] > 0} :
              c[1] \in accounts /\ c[2] \in tracks
        /\ \A c \in stars \cup ratings : c[1] \in accounts
    BY DEF IInv, MarkInv, CountInv
  <2> QED
    BY <2>1, <2>2, <2>3 DEF NoDanglingRows
<1> QED
  BY InductiveInvariant, <1>1, PTL

\* Every play answered ok is stored, and any other stored play is of a request
\* that committed and has not been answered, or not any more.
THEOREM PlaysAreAccountedFor == Spec => []PlaysMatchTheAnswers
<1>1. IInv => PlaysMatchTheAnswers
  BY DEF IInv, MarkInv, CountInv
<1> QED
  BY InductiveInvariant, <1>1, PTL

\* A new track has no rating, and an edit of a station meets the one that was
\* listed.
THEOREM NoIdChangesHands == Spec => IdsKeepTheirMeaning
<1>1. IInv => StationEditsHitWhatWasListed
  BY DEF IInv, MarkInv, CallInv, StationEditsHitWhatWasListed
<1>2. ASSUME IInv, [Next]_vars
      PROVE  \A t \in tracks' \ tracks : \A u \in Accounts : <<u, t>> \notin ratings'
  <2>1. ASSUME NEW t \in tracks' \ tracks
        PROVE  \A u \in Accounts : <<u, t>> \notin ratings'
    <3>1. PICK s \in TrackIds : InsertTrack(s) /\ UNCHANGED markVars
      <4>1. CASE UNCHANGED vars
        BY <2>1, <4>1 DEF vars, catalogueVars
      <4>2. CASE CatalogueNext
        <5>1. \A s \in TrackIds : DeleteTrack(s) => tracks' \subseteq tracks
          BY DEF DeleteTrack
        <5>2. \A u \in Accounts : DeleteAccount(u) => tracks' \subseteq tracks
          BY DEF DeleteAccount
        <5> QED
          BY <2>1, <4>2, <5>1, <5>2 DEF CatalogueNext
      <4>3. CASE PlaylistsNext
        <5>1. UNCHANGED tracks
          <6>1. \A u, songs : CreatePlaylist(u, songs) => UNCHANGED tracks
            BY DEF CreatePlaylist, catalogueVars
          <6>2. \A u, p, songs, r : ReplaceCheck(r, u, p, songs) => UNCHANGED tracks
            BY DEF ReplaceCheck, catalogueVars
          <6>3. \A u, p, songs, remove, r :
                   UpdateRead(r, u, p, songs, remove) => UNCHANGED tracks
            BY DEF UpdateRead, catalogueVars
          <6>4. \A u, p, songs, remove, r :
                   HeaderRead(r, u, p, songs, remove) => UNCHANGED tracks
            BY DEF HeaderRead, catalogueVars
          <6>5. \A u, p : DeletePlaylist(u, p) => UNCHANGED tracks
            BY DEF DeletePlaylist, catalogueVars
          <6>6. \A r : ReplaceWrite(r) \/ UpdateWrite(r) \/ HeaderWrite(r) =>
                         UNCHANGED tracks
            BY DEF ReplaceWrite, UpdateWrite, HeaderWrite, catalogueVars
          <6> QED
            BY <4>3, <6>1, <6>2, <6>3, <6>4, <6>5, <6>6 DEF PlaylistsNext
        <5> QED
          BY <2>1, <5>1
      <4>4. CASE MarksNext
        <5>1. UNCHANGED tracks
          BY <4>4 DEF MarksNext, StarsNext, Star, Unstar, CleanupDanglingStarred,
             RatingsNext, SetRatingCheck, SetRatingWrite, BookmarksNext,
             CreateBookmarkCheck, CreateBookmarkWrite, DeleteBookmark, PlaysNext,
             ScrobbleCheck, ScrobbleWrite, ScrobbleAnswer, ScrobbleFails, StationsNext,
             CreateStation, ListStations,
             UpdateStation, DeleteStation, catalogueVars
        <5> QED
          BY <2>1, <5>1
      <4> QED
        BY <1>2, <4>1, <4>2, <4>3, <4>4 DEF Next
    <3>2. t = s /\ t \notin handedOut /\ ratings' = ratings
      BY <2>1, <3>1 DEF InsertTrack, FreshTracks, markVars
    <3>3. \A c \in ratings : c[2] \in handedOut
      BY <1>2 DEF IInv, MarkInv
    <3>4. ASSUME NEW u \in Accounts, <<u, t>> \in ratings PROVE FALSE
      <4>1. <<u, t>>[2] \in handedOut
        BY <3>3, <3>4
      <4> QED
        BY <3>2, <4>1
    <3> QED
      BY <3>2, <3>4
  <2> QED
    BY <2>1
<1>3. Spec => NewTracksAreUnrated
  BY InductiveInvariant, <1>2, PTL DEF Spec, NewTracksAreUnrated
<1>4. Spec => []StationEditsHitWhatWasListed
  BY InductiveInvariant, <1>1, PTL
<1> QED
  BY <1>3, <1>4 DEF IdsKeepTheirMeaning

\* The request that is over after a step was written by it.
LEMMA WriteSteps ==
  ASSUME ListInv, [Next]_vars, NEW r \in Editors, Writes(r)
  PROVE  ReplaceWrite(r) \/ UpdateWrite(r) \/ HeaderWrite(r)
<1>1. edit[r] # NoEdit /\ edit'[r] = NoEdit /\ edit' # edit
  BY DEF Writes
<1>2. edit \in [Editors -> Edits \cup {NoEdit}]
  BY DEF ListInv, PlaylistsTypeOK
<1>3. CASE UNCHANGED vars
  BY <1>1, <1>3 DEF vars, listVars
<1>4. CASE CatalogueNext
  BY <1>1, <1>4 DEF CatalogueNext, DeleteTrack, DeleteAccount, listVars
<1>5. CASE PlaylistsNext
  <2>1. \A u, songs : CreatePlaylist(u, songs) => UNCHANGED edit
    BY DEF CreatePlaylist
  <2>2. ASSUME NEW u, NEW p, NEW songs, NEW s \in Editors, ReplaceCheck(s, u, p, songs)
        PROVE  FALSE
    <3> DEFINE e == [op |-> "replace", user |-> u, list |-> p, songs |-> songs]
    <3>1. edit' = [edit EXCEPT ![s] = e] /\ edit[s] = NoEdit
      BY <2>2 DEF ReplaceCheck
    <3> HIDE DEF e
    <3> QED
      BY <1>1, <1>2, <3>1
  <2>3. ASSUME NEW u, NEW p, NEW songs, NEW remove, NEW s \in Editors,
               UpdateRead(s, u, p, songs, remove)
        PROVE  FALSE
    <3> DEFINE e == [op |-> "update", user |-> u, list |-> p, songs |-> songs,
                     remove |-> remove,
                     next |-> IF songs = << >> THEN 0 ELSE NextPosition(lists[p].rows)]
    <3>1. edit' = [edit EXCEPT ![s] = e] /\ edit[s] = NoEdit
      BY <2>3 DEF UpdateRead
    <3> HIDE DEF e
    <3> QED
      BY <1>1, <1>2, <3>1
  <2>4. ASSUME NEW u, NEW p, NEW songs, NEW remove, NEW s \in Editors,
               HeaderRead(s, u, p, songs, remove)
        PROVE  FALSE
    <3> DEFINE e == [op |-> "header", user |-> u, list |-> p, songs |-> songs,
                     remove |-> remove]
    <3>1. edit' = [edit EXCEPT ![s] = e] /\ edit[s] = NoEdit
      BY <2>4 DEF HeaderRead
    <3> HIDE DEF e
    <3> QED
      BY <1>1, <1>2, <3>1
  <2>5. \A u, p : DeletePlaylist(u, p) => UNCHANGED edit
    BY DEF DeletePlaylist
  <2>6. ASSUME NEW s \in Editors, ReplaceWrite(s) \/ UpdateWrite(s) \/ HeaderWrite(s)
        PROVE  s = r
    <3>1. edit' = [edit EXCEPT ![s] = NoEdit]
      BY <2>6 DEF ReplaceWrite, UpdateWrite, HeaderWrite
    <3> QED
      BY <1>1, <1>2, <3>1
  <2> QED
    BY <1>1, <1>5, <2>1, <2>2, <2>3, <2>4, <2>5, <2>6 DEF PlaylistsNext
<1>6. CASE MarksNext /\ UNCHANGED listVars
  BY <1>1, <1>6 DEF listVars
<1> QED
  BY <1>3, <1>4, <1>5, <1>6 DEF Next

\* A write changes only the playlist that was asked for, and only when its
\* user may change it.
THEOREM EditsAreTheOwners == Spec => OnlyTheEntitledEdit
<1>1. ASSUME IInv, [Next]_vars
      PROVE  \A r \in Editors : \A p \in DOMAIN lists \cap DOMAIN lists' :
                Writes(r) /\ lists'[p] # lists[p] =>
                   \/ lists[p].owner = edit[r].user
                   \/ edit[r].op = "replace" /\ edit[r].user \in Admins
  <2>1. ASSUME NEW r \in Editors, NEW p \in DOMAIN lists \cap DOMAIN lists',
               Writes(r), lists'[p] # lists[p]
        PROVE  \/ lists[p].owner = edit[r].user
               \/ edit[r].op = "replace" /\ edit[r].user \in Admins
    <3>1. ListInv /\ (ReplaceWrite(r) \/ UpdateWrite(r) \/ HeaderWrite(r))
      BY <1>1, <2>1, WriteSteps DEF IInv
    <3>2. edit[r].op # "none"
      BY <2>1, <3>1, EditKinds DEF Writes
    <3>3. p = edit[r].list
      <4>1. ASSUME p # edit[r].list PROVE FALSE
        <5>1. \E rows : lists' = [lists EXCEPT ![edit[r].list].rows = rows]
          <6>1. lists' # lists
            BY <2>1
          <6>2. CASE ReplaceWrite(r)
            BY <3>1, <6>1, <6>2, ReplaceWrites
          <6>3. CASE UpdateWrite(r) \/ HeaderWrite(r)
            <7> DEFINE new == Updated(lists[edit[r].list].rows, Start(r),
                                      edit[r].songs, edit[r].remove)
            <7>1. lists' = [lists EXCEPT ![edit[r].list].rows = new]
              BY <3>1, <6>1, <6>3, UpdateWrites
            <7> HIDE DEF new
            <7> QED
              BY <7>1
          <6> QED
            BY <3>1, <6>2, <6>3
        <5>2. PICK rows : lists' = [lists EXCEPT ![edit[r].list].rows = rows]
          BY <5>1
        <5> QED
          BY <2>1, <4>1, <5>2
      <4> QED
        BY <4>1
    <3> QED
      BY <3>1, <3>2, <3>3 DEF ListInv
  <2> QED
    BY <2>1
<1> QED
  BY InductiveInvariant, <1>1, PTL DEF Spec, OnlyTheEntitledEdit

\* Added entries stand together among the old ones, which keep their order.
THEOREM AddingKeepsTheRest == Spec => AddsKeepEntries
<1>1. ASSUME IInv, [Next]_vars
      PROVE  \A r \in Editors :
                Updates(r) /\ edit[r].remove = {}
                => LET old == Visible(lists[edit[r].list].rows)
                       new == Visible(lists'[edit[r].list].rows)
                   IN  \E k \in 0..Len(old) : new = WithSongsAt(old, k, edit[r].songs)
  <2>1. ASSUME NEW r \in Editors, Updates(r), edit[r].remove = {}
        PROVE  \E k \in 0..Len(Visible(lists[edit[r].list].rows)) :
                  Visible(lists'[edit[r].list].rows) =
                     WithSongsAt(Visible(lists[edit[r].list].rows), k, edit[r].songs)
    <3> DEFINE p == edit[r].list
               songs == edit[r].songs
               n == Start(r)
               rows == lists[p].rows
               added == Inserted(rows, Appended(n, songs))
               new == Updated(rows, n, songs, edit[r].remove)
    <3>1. ListInv /\ (UpdateWrite(r) \/ HeaderWrite(r)) /\ lists' # lists
      BY <1>1, <2>1, WriteSteps DEF IInv, ReplaceWrite, Updates
    <3>2. /\ songs \in Seq(TrackIds) /\ n \in Nat
          /\ n + Len(songs) <= MaxPosition + 1
      BY <2>1, <3>1, EditKinds, UpdateWrites DEF Updates
    <3>3. /\ p \in DOMAIN lists /\ GoodRows(rows) /\ GoodRows(new)
          /\ ~UpdateFails(rows, n, songs, edit[r].remove)
          /\ lists' = [lists EXCEPT ![p].rows = new]
      BY <2>1, <3>1, UpdateWrites
    <3>4. new = added
      BY <2>1 DEF Updated
    <3>5. lists'[p].rows = added
      <4> HIDE DEF new, p
      <4>1. lists'[p].rows = new
        BY <3>1, <3>3, RowsReplaced
      <4> QED
        BY <3>4, <4>1
    <3>6. songs # << >> => ~InsertFails(rows, Appended(n, songs))
      BY <3>3 DEF UpdateFails
    <3> HIDE DEF songs, n, rows, new, p
    <3>7. DOMAIN rows \cap (n..n + Len(songs) - 1) = {}
      BY <3>2, <3>3, <3>6, AddedGood
    <3>8. FiniteInNat(DOMAIN rows) /\ rows \in [DOMAIN rows -> TrackIds]
      BY <3>3, PositionsFinite DEF GoodRows
    <3>9. /\ Rank(DOMAIN rows, n) \in 0..Len(Visible(rows))
          /\ Visible(added) = WithSongsAt(Visible(rows), Rank(DOMAIN rows, n), songs)
      BY <3>2, <3>7, <3>8, AddedVisible
    <3>10. \E k \in 0..Len(Visible(rows)) :
              Visible(lists'[p].rows) = WithSongsAt(Visible(rows), k, songs)
      BY <3>5, <3>9
    <3> QED
      BY <3>10 DEF songs, rows, p
  <2> QED
    BY <2>1
<1> QED
  BY InductiveInvariant, <1>1, PTL DEF Spec, AddsKeepEntries

\* After a removal indexes are positions, and the entries that are left, no
\* fewer than must be, have kept their order.
THEOREM RemovingClosesTheGaps == Spec => RemovalsCloseGaps
<1> DEFINE Closes(r) ==
             LET p == edit[r].list
                 old == Visible(lists[p].rows)
                 new == Visible(lists'[p].rows)
             IN  /\ DOMAIN lists'[p].rows = 0..Len(new) - 1
                 /\ \E k \in 0..Len(old) :
                       LET all == WithSongsAt(old, k, edit[r].songs) IN
                       \E I \in SUBSET DOMAIN all :
                          /\ Cardinality(DOMAIN all \ I) <= Cardinality(edit[r].remove)
                          /\ new = [i \in 1..Cardinality(I) |-> all[Nth(I, i)]]
<1>1. ASSUME IInv, [Next]_vars, NEW r \in Editors, Updates(r), edit[r].remove # {}
      PROVE  Closes(r)
  <2> DEFINE p == edit[r].list
             songs == edit[r].songs
             n == Start(r)
             R == edit[r].remove
             rows == lists[p].rows
             added == Inserted(rows, Appended(n, songs))
             new == Updated(rows, n, songs, R)
             old == Visible(rows)
             k == Rank(DOMAIN rows, n)
             all == WithSongsAt(old, k, songs)
             D == DOMAIN added
             I == Indexes(D, D \ R)
             left == Visible(Kept(added, R))
  <2>1. ListInv /\ (UpdateWrite(r) \/ HeaderWrite(r)) /\ lists' # lists
    BY <1>1, WriteSteps DEF IInv, ReplaceWrite, Updates
  <2>2. /\ songs \in Seq(TrackIds) /\ n \in Nat /\ n + Len(songs) <= MaxPosition + 1
        /\ R \in Removals /\ R # {}
    BY <1>1, <2>1, EditKinds, UpdateWrites DEF Updates
  <2>3. /\ p \in DOMAIN lists /\ GoodRows(rows) /\ GoodRows(new)
        /\ ~UpdateFails(rows, n, songs, R)
        /\ lists' = [lists EXCEPT ![p].rows = new]
    BY <1>1, <2>1, UpdateWrites
  <2>4. new = Renumbered(added, R)
    BY <2>2 DEF Updated
  <2>5. lists'[p].rows = new
    <3> HIDE DEF new, p
    <3> QED
      BY <2>1, <2>3, RowsReplaced
  <2>6. songs # << >> => ~InsertFails(rows, Appended(n, songs))
    BY <2>3 DEF UpdateFails
  <2> HIDE DEF p, songs, n, R, rows, new
  <2>7. GoodRows(added) /\ DOMAIN rows \cap (n..n + Len(songs) - 1) = {}
    BY <2>2, <2>3, <2>6, AddedGood
  <2>8. FiniteInNat(DOMAIN rows) /\ rows \in [DOMAIN rows -> TrackIds]
    BY <2>3, PositionsFinite DEF GoodRows
  <2>9. k \in 0..Len(old) /\ Visible(added) = all
    BY <2>2, <2>7, <2>8, AddedVisible
  <2> HIDE DEF added, k
  <2>10. FiniteInNat(D) /\ added \in [D -> TrackIds] /\ IsFiniteSet(R)
    BY <2>2, <2>7, PositionsFinite, PlaylistsAssumption DEF GoodRows
  <2>11. /\ left = Picked(Visible(added), I)
         /\ Cardinality((1..Cardinality(D)) \ I) <= Cardinality(R)
    BY <2>10, KeptVisible
  <2>12. /\ left \in Seq(TrackIds) /\ DOMAIN Renumbered(added, R) = 0..Len(left) - 1
         /\ Visible(Renumbered(added, R)) = left
    BY <2>7, RenumberedGood
  <2>13. DOMAIN all = 1..Cardinality(D)
    BY <2>9, <2>10, VisibleType
  <2> HIDE DEF D, left, all, old
  <2>14. I \in SUBSET DOMAIN all /\ Cardinality(DOMAIN all \ I) <= Cardinality(R)
    BY <2>11, <2>13 DEF Indexes
  <2> HIDE DEF I
  <2>15. left = [i \in 1..Cardinality(I) |-> all[Nth(I, i)]]
    BY <2>9, <2>11 DEF Picked
  <2>16. Visible(lists'[p].rows) = left /\ DOMAIN lists'[p].rows = 0..Len(left) - 1
    BY <2>4, <2>5, <2>12
  <2>17. \E m \in 0..Len(old) :
            \E J \in SUBSET DOMAIN WithSongsAt(old, m, songs) :
               /\ Cardinality(DOMAIN WithSongsAt(old, m, songs) \ J) <= Cardinality(R)
               /\ left = [i \in 1..Cardinality(J) |->
                             WithSongsAt(old, m, songs)[Nth(J, i)]]
    BY <2>9, <2>14, <2>15 DEF all
  <2>18. /\ DOMAIN lists'[p].rows = 0..Len(Visible(lists'[p].rows)) - 1
         /\ \E m \in 0..Len(old) :
               \E J \in SUBSET DOMAIN WithSongsAt(old, m, songs) :
                  /\ Cardinality(DOMAIN WithSongsAt(old, m, songs) \ J) <= Cardinality(R)
                  /\ Visible(lists'[p].rows) =
                        [i \in 1..Cardinality(J) |->
                            WithSongsAt(old, m, songs)[Nth(J, i)]]
    BY <2>16, <2>17
  <2> QED
    BY <2>18 DEF old, rows, songs, p, R
<1>2. IInv /\ [Next]_vars =>
         [\A r \in Editors :
            Updates(r) /\ edit[r].remove # {} => Closes(r)]_vars
  <2> HIDE DEF Closes
  <2> QED
    BY <1>1
<1> QED
  BY InductiveInvariant, <1>2, PTL DEF Spec, RemovalsCloseGaps
=============================================================================
