---------------------------- MODULE PageWalkProofs ----------------------------
(***************************************************************************)
(* For every collection, page size and limit, every record to stop at,     *)
(* every type wanted, and any number of faults: the nine walkers leave     *)
(* nothing out before a record they return, return nothing twice where     *)
(* they promise not to, and tell the truth about how the walk ended.       *)
(***************************************************************************)
EXTENDS PageWalk, FiniteSetTheorems, TLAPS

-----------------------------------------------------------------------------
(* stretches of the collection                                             *)

\* Two sequences, one behind the other.
LEMMA Joined ==
    ASSUME NEW s \in Seq(Nat), NEW t \in Seq(Nat)
    PROVE  /\ s \o t \in Seq(Nat)
           /\ Len(s \o t) = Len(s) + Len(t)
           /\ \A i \in 1..Len(s) : (s \o t)[i] = s[i]
           /\ \A i \in 1..Len(t) : (s \o t)[Len(s) + i] = t[i]
OBVIOUS

\* The set of a sequence's elements.
LEMMA Members ==
    ASSUME NEW s \in Seq(Nat)
    PROVE  /\ DOMAIN s = 1..Len(s) /\ Len(s) \in Nat
           /\ \A i \in 1..Len(s) : s[i] \in ToSet(s)
           /\ \A r \in ToSet(s) : r \in Nat /\ \E i \in 1..Len(s) : r = s[i]
BY DEF ToSet

\* What is returned before a page and what is taken from it.
LEMMA SetOfTwo ==
    ASSUME NEW s \in Seq(Nat), NEW t \in Seq(Nat)
    PROVE  ToSet(s \o t) = ToSet(s) \cup ToSet(t)
<1>1. \A i \in 1..Len(s \o t) : \/ i \in 1..Len(s) /\ (s \o t)[i] = s[i]
                                \/ i - Len(s) \in 1..Len(t) /\ (s \o t)[i] = t[i - Len(s)]
  OBVIOUS
<1>2. ASSUME NEW r \in ToSet(s \o t)
      PROVE  r \in ToSet(s) \cup ToSet(t)
  <2>1. PICK i \in 1..Len(s \o t) : r = (s \o t)[i]
    BY Joined, Members
  <2> QED BY <1>1, <2>1, Members
<1>3. ASSUME NEW r \in ToSet(s)
      PROVE  r \in ToSet(s \o t)
  <2>1. PICK i \in 1..Len(s) : r = s[i]
    BY Members
  <2>2. i \in 1..Len(s \o t) /\ r = (s \o t)[i]
    BY <2>1, Joined
  <2> QED BY <2>2, Joined, Members
<1>4. ASSUME NEW r \in ToSet(t)
      PROVE  r \in ToSet(s \o t)
  <2>1. PICK i \in 1..Len(t) : r = t[i]
    BY Members
  <2>2. Len(s) + i \in 1..Len(s \o t) /\ r = (s \o t)[Len(s) + i]
    BY <2>1, Joined
  <2> QED BY <2>2, Joined, Members
<1> QED BY <1>2, <1>3, <1>4

\* The records behind b, up to e.
LEMMA Stretch ==
    ASSUME NEW b \in Nat, NEW e \in Nat, b <= e
    PROVE  /\ Between(b, e) \in Seq((b + 1)..e) /\ Between(b, e) \in Seq(Nat)
           /\ Len(Between(b, e)) = e - b
           /\ DOMAIN Between(b, e) = 1..(e - b)
           /\ \A i \in 1..(e - b) : Between(b, e)[i] = b + i
           /\ ToSet(Between(b, e)) = (b + 1)..e
<1>1. /\ Between(b, e) \in [1..(e - b) -> (b + 1)..e]
      /\ \A i \in 1..(e - b) : Between(b, e)[i] = b + i
  BY DEF Between
<1>2. Between(b, e) \in Seq((b + 1)..e) /\ Len(Between(b, e)) = e - b
  BY <1>1
<1>3. Between(b, e) \in Seq(Nat)
  BY <1>1
<1>4. \A r \in (b + 1)..e : r - b \in 1..(e - b) /\ r = b + (r - b)
  OBVIOUS
<1>5. ToSet(Between(b, e)) = {Between(b, e)[i] : i \in 1..(e - b)}
  BY <1>1 DEF ToSet
<1>6. ToSet(Between(b, e)) = (b + 1)..e
  BY <1>1, <1>4, <1>5
<1> QED BY <1>1, <1>2, <1>3, <1>6

\* Sequences with the same elements are the same.
LEMMA SameSequence ==
    ASSUME NEW s \in Seq(Nat), NEW t \in Seq(Nat), Len(s) = Len(t),
           \A i \in 1..Len(s) : s[i] = t[i]
    PROVE  s = t
OBVIOUS

\* A stretch and the one behind it.
LEMMA StretchJoined ==
    ASSUME NEW a \in Nat, NEW b \in Nat, NEW e \in Nat, a <= b, b <= e
    PROVE  Between(a, b) \o Between(b, e) = Between(a, e)
<1> DEFINE s == Between(a, b)
           t == Between(b, e)
           u == Between(a, e)
<1>1. /\ s \in Seq(Nat) /\ t \in Seq(Nat) /\ Len(s) = b - a /\ Len(t) = e - b
      /\ \A i \in 1..(b - a) : s[i] = a + i
      /\ \A i \in 1..(e - b) : t[i] = b + i
  BY Stretch
<1>2. u \in Seq(Nat) /\ Len(u) = e - a /\ \A i \in 1..(e - a) : u[i] = a + i
  BY Stretch
<1> HIDE DEF s, t, u
<1>3. /\ s \o t \in Seq(Nat)
      /\ Len(s \o t) = Len(s) + Len(t)
      /\ \A i \in 1..Len(s) : (s \o t)[i] = s[i]
      /\ \A i \in 1..Len(t) : (s \o t)[Len(s) + i] = t[i]
  BY <1>1, Joined
<1>4. Len(s \o t) = e - a
  <2>1. (b - a) + (e - b) = e - a
    OBVIOUS
  <2> QED BY <2>1, <1>1, <1>3
<1>5. ASSUME NEW i \in 1..(e - a)
      PROVE  (s \o t)[i] = u[i]
  <2>1. CASE i \in 1..(b - a)
    BY <2>1, <1>1, <1>2, <1>3
  <2>2. CASE i - (b - a) \in 1..(e - b)
    <3>1. t[i - (b - a)] = u[i]
      BY <2>2, <1>1, <1>2
    <3>2. (s \o t)[(b - a) + (i - (b - a))] = t[i - (b - a)]
      BY <2>2, <1>1, <1>3
    <3>3. (b - a) + (i - (b - a)) = i
      OBVIOUS
    <3> QED BY <3>1, <3>2, <3>3
  <2>3. i \in 1..(b - a) \/ i - (b - a) \in 1..(e - b)
    OBVIOUS
  <2> QED BY <2>1, <2>2, <2>3
<1>6. s \o t = u
  BY <1>2, <1>3, <1>4, <1>5, SameSequence
<1> QED BY <1>6 DEF s, t, u

\* The beginning of a stretch.
LEMMA StretchCut ==
    ASSUME NEW b \in Nat, NEW e \in Nat, b <= e, NEW k \in 0..(e - b)
    PROVE  SubSeq(Between(b, e), 1, k) = Between(b, b + k)
<1> DEFINE s == Between(b, e)
           u == Between(b, b + k)
<1>1. /\ s \in Seq(Nat) /\ Len(s) = e - b
      /\ \A i \in 1..(e - b) : s[i] = b + i
  BY Stretch
<1>2. u \in Seq(Nat) /\ Len(u) = k /\ \A i \in 1..k : u[i] = b + i
  <2>1. b + k \in Nat /\ b <= b + k /\ (b + k) - b = k
    OBVIOUS
  <2> QED BY <2>1, Stretch
<1> HIDE DEF s, u
<1>3. SubSeq(s, 1, k) \in Seq(Nat) /\ Len(SubSeq(s, 1, k)) = k
  BY <1>1
<1>4. \A i \in 1..k : SubSeq(s, 1, k)[i] = u[i]
  BY <1>1, <1>2
<1>5. SubSeq(s, 1, k) = u
  BY <1>2, <1>3, <1>4, SameSequence
<1> QED BY <1>5 DEF s, u

\* How many records a stretch has.
LEMMA CountTo ==
    ASSUME NEW lo \in Int, NEW hi \in Int, lo <= hi
    PROVE  Cardinality((lo + 1)..hi) = hi - lo
<1>1. Cardinality((lo + 1)..hi) = IF lo + 1 > hi THEN 0 ELSE hi - (lo + 1) + 1
  BY FS_Interval
<1> QED BY <1>1

\* Those of a stretch that form a stretch themselves.
LEMMA ThoseStretch ==
    ASSUME NEW b \in Nat, NEW e \in Nat, NEW lo \in b..e, NEW hi \in lo..e, NEW S,
           S \cap (b + 1)..e = (lo + 1)..hi
    PROVE  Those(Between(b, e), S) = Between(lo, hi)
<1> DEFINE s == Between(b, e)
           d == lo - b
           chosen == {i \in DOMAIN s : s[i] \in S}
           UpTo(i) == {j \in chosen : j <= i}
           Place(n) == CHOOSE i \in chosen : Cardinality(UpTo(i)) = n
<1>1. DOMAIN s = 1..(e - b) /\ \A i \in 1..(e - b) : s[i] = b + i
  BY Stretch
<1>2. Those(s, S) = [n \in 1..Cardinality(chosen) |-> s[Place(n)]]
  BY DEF Those
<1>3. chosen = (d + 1)..(hi - b)
  BY <1>1
<1>4. d \in Int /\ d <= hi - b /\ hi - b \in Int /\ hi - b - d = hi - lo
  OBVIOUS
<1> HIDE DEF d, s
<1>5. \A i \in chosen : UpTo(i) = (d + 1)..i /\ i \in Int /\ d <= i
  BY <1>3, <1>4
<1> HIDE DEF chosen, UpTo
<1>6. Cardinality(chosen) = hi - lo
  BY <1>3, <1>4, CountTo
<1>7. \A i \in chosen : Cardinality(UpTo(i)) = i - d
  BY <1>4, <1>5, CountTo
<1>8. ASSUME NEW n \in 1..(hi - lo)
      PROVE  Place(n) = d + n
  <2>1. d + n \in chosen /\ Cardinality(UpTo(d + n)) = n
    BY <1>3, <1>4, <1>7
  <2>2. \A i \in chosen : Cardinality(UpTo(i)) = n => i = d + n
    BY <1>4, <1>5, <1>7
  <2> QED BY <2>1, <2>2
<1> HIDE DEF Place
<1>9. \A n \in 1..(hi - lo) : s[Place(n)] = lo + n
  BY <1>1, <1>8 DEF d
<1> QED BY <1>2, <1>6, <1>9 DEF Between, s

\* The n-th smallest of T.
Below(T, i) == {j \in T : j <= i}
Place(T, n) == CHOOSE i \in T : Cardinality(Below(T, i)) = n

\* The n-th smallest, for every n, are in ascending order and all there are.
LEMMA Places ==
    ASSUME NEW T \in SUBSET Nat, IsFiniteSet(T)
    PROVE  /\ Cardinality(T) \in Nat
           /\ \A n \in 1..Cardinality(T) : Place(T, n) \in T
           /\ \A m, n \in 1..Cardinality(T) : m < n => Place(T, m) < Place(T, n)
           /\ \A i \in T : \E n \in 1..Cardinality(T) : Place(T, n) = i
<1> DEFINE Rank(i) == Cardinality(Below(T, i))
           rank == [i \in T |-> Rank(i)]
           K == Cardinality(T)
<1>1. \A i \in T : Below(T, i) \in SUBSET T /\ i \in Below(T, i) /\ i \in Nat
  BY DEF Below
<1>2. ASSUME NEW i \in T
      PROVE  Rank(i) \in 1..K
  <2>1. IsFiniteSet(Below(T, i)) /\ Rank(i) <= K
    BY <1>1, FS_Subset
  <2>2. Rank(i) \in Nat /\ K \in Nat
    BY <2>1, FS_CardinalityType
  <2>3. Rank(i) # 0
    BY <2>1, <1>1, FS_EmptySet
  <2> QED BY <2>1, <2>2, <2>3
<1>3. ASSUME NEW i \in T, NEW j \in T, i < j
      PROVE  Rank(i) < Rank(j)
  <2>1. Below(T, i) \in SUBSET Below(T, j) /\ j \notin Below(T, i) /\ j \in Below(T, j)
    <3>1. \A k \in Nat : k <= i => k <= j
      BY <1>3, <1>1
    <3>2. ~(j <= i) /\ j <= j
      BY <1>3, <1>1
    <3> QED BY <3>1, <3>2 DEF Below
  <2>2. IsFiniteSet(Below(T, j))
    BY <1>1, FS_Subset
  <2>3. Rank(i) <= Rank(j) /\ Rank(i) # Rank(j)
    BY <2>1, <2>2, FS_Subset
  <2> QED BY <2>3, <1>2
<1>4. K \in Nat /\ IsFiniteSet(1..K) /\ Cardinality(1..K) = K
  <2>1. K \in Nat
    BY FS_CardinalityType
  <2>2. IsFiniteSet(1..K) /\ Cardinality(1..K) = IF 1 > K THEN 0 ELSE K - 1 + 1
    BY <2>1, FS_Interval
  <2> QED BY <2>1, <2>2
<1> HIDE DEF Rank, K
<1>5. \A i, j \in T : Rank(i) = Rank(j) => i = j
  <2>1. \A i, j \in T : i < j \/ j < i \/ i = j
    BY <1>1
  <2>2. \A i, j \in T : i < j => Rank(i) # Rank(j)
    BY <1>2, <1>3
  <2> QED BY <2>1, <2>2
<1>6. rank \in Injection(T, 1..K)
  BY <1>2, <1>5 DEF Injection, IsInjective
<1>7. rank \in Surjection(T, 1..K)
  BY <1>4, <1>6, FS_Injection DEF K
<1>8. \A n \in 1..K : \E i \in T : Rank(i) = n
  BY <1>7 DEF Surjection
<1>9. \A n \in 1..K : Place(T, n) \in T /\ Rank(Place(T, n)) = n
  BY <1>8 DEF Place, Rank
<1>10. \A i \in T : Place(T, Rank(i)) = i
  BY <1>2, <1>5, <1>9
<1>11. ASSUME NEW m \in 1..K, NEW n \in 1..K, m < n
       PROVE  Place(T, m) < Place(T, n)
  <2>1. Place(T, n) <= Place(T, m) => n <= m
    <3>1. CASE Place(T, n) = Place(T, m)
      BY <3>1, <1>9
    <3>2. CASE Place(T, n) < Place(T, m)
      <4>1. Rank(Place(T, n)) < Rank(Place(T, m))
        BY <3>2, <1>3, <1>9
      <4> QED BY <4>1, <1>4, <1>9
    <3>3. Place(T, n) \in Nat /\ Place(T, m) \in Nat
      BY <1>9
    <3> QED BY <3>1, <3>2, <3>3
  <2>2. Place(T, n) \in Nat /\ Place(T, m) \in Nat
    BY <1>9
  <2> QED BY <1>11, <2>1, <2>2
<1> QED BY <1>2, <1>4, <1>9, <1>10, <1>11 DEF K

\* What Those makes of any records.
LEMMA ThoseSifted ==
    ASSUME NEW s \in Seq(Nat), NEW S, \A i, j \in 1..Len(s) : i < j => s[i] < s[j]
    PROVE  /\ Those(s, S) \in Seq(Nat)
           /\ ToSet(Those(s, S)) = ToSet(s) \cap S
           /\ \A i, j \in 1..Len(Those(s, S)) : i < j => Those(s, S)[i] < Those(s, S)[j]
<1> DEFINE T == {i \in DOMAIN s : s[i] \in S}
           K == Cardinality(T)
           t == Those(s, S)
<1>1. T \in SUBSET Nat /\ T \in SUBSET (1..Len(s)) /\ Len(s) \in Nat
  OBVIOUS
<1>2. IsFiniteSet(T)
  BY <1>1, FS_Interval, FS_Subset
<1>3. /\ K \in Nat
      /\ \A n \in 1..K : Place(T, n) \in T
      /\ \A m, n \in 1..K : m < n => Place(T, m) < Place(T, n)
      /\ \A i \in T : \E n \in 1..K : Place(T, n) = i
  BY <1>1, <1>2, Places
<1>4. t = [n \in 1..K |-> s[Place(T, n)]]
  BY DEF Those, Place, Below
<1>5. \A i \in T : i \in 1..Len(s) /\ s[i] \in ToSet(s) \cap S /\ s[i] \in Nat
  BY DEF ToSet
<1>6. \A r \in ToSet(s) \cap S : \E i \in T : r = s[i]
  BY DEF ToSet
<1> HIDE DEF T, K, t
<1>7. t \in Seq(Nat) /\ Len(t) = K /\ \A n \in 1..K : t[n] = s[Place(T, n)]
  BY <1>3, <1>4, <1>5
<1>8. ToSet(t) = ToSet(s) \cap S
  <2>1. ASSUME NEW r \in ToSet(t)
        PROVE  r \in ToSet(s) \cap S
    <3>1. PICK n \in 1..K : r = t[n]
      BY <1>7, Members
    <3> QED BY <3>1, <1>3, <1>5, <1>7
  <2>2. ASSUME NEW r \in ToSet(s) \cap S
        PROVE  r \in ToSet(t)
    <3>1. PICK i \in T : r = s[i]
      BY <1>6
    <3>2. PICK n \in 1..K : Place(T, n) = i
      BY <1>3
    <3> QED BY <3>1, <3>2, <1>7, Members
  <2> QED BY <2>1, <2>2
<1>9. ASSUME NEW i \in 1..K, NEW j \in 1..K, i < j
      PROVE  t[i] < t[j]
  <2>1. Place(T, i) < Place(T, j) /\ Place(T, i) \in 1..Len(s) /\ Place(T, j) \in 1..Len(s)
    BY <1>3, <1>5, <1>9
  <2> QED BY <2>1, <1>7
<1> QED BY <1>7, <1>8, <1>9 DEF t

\* A beginning of the collection.
LEMMA FromStart ==
    ASSUME NEW n \in Nat
    PROVE  /\ Between(0, n) \in Seq(Nat) /\ Len(Between(0, n)) = n
           /\ DOMAIN Between(0, n) = 1..n /\ ToSet(Between(0, n)) = 1..n
           /\ \A i \in 1..n : Between(0, n)[i] = i
           /\ \A b \in 0..n : Between(0, b) \o Between(b, n) = Between(0, n)
<1> DEFINE s == Between(0, n)
<1>1. 0 \in Nat /\ 0 <= n /\ n - 0 = n /\ 0 + 1 = 1 /\ \A i \in 1..n : 0 + i = i
  OBVIOUS
<1>2. /\ s \in Seq(Nat) /\ Len(s) = n - 0 /\ DOMAIN s = 1..(n - 0) /\ ToSet(s) = (0 + 1)..n
      /\ \A i \in 1..(n - 0) : s[i] = 0 + i
  BY <1>1, Stretch
<1>3. ASSUME NEW b \in 0..n
      PROVE  Between(0, b) \o Between(b, n) = Between(0, n)
  <2>1. b \in Nat /\ 0 <= b /\ b <= n
    OBVIOUS
  <2> QED BY <1>1, <2>1, StretchJoined
<1> HIDE DEF s
<1>4. s \in Seq(Nat) /\ Len(s) = n /\ DOMAIN s = 1..n /\ ToSet(s) = 1..n /\ \A i \in 1..n : s[i] = i
  BY <1>1, <1>2
<1> QED BY <1>3, <1>4 DEF s

\* What 210 sorts in the end is sorted already.
LEMMA SortedStretch ==
    ASSUME NEW n \in Nat
    PROVE  Sorted(Between(0, n)) = Between(0, n)
<1> DEFINE s == Between(0, n)
           UpTo(i) == {j \in DOMAIN s : \/ s[j] < s[i]
                                        \/ s[j] = s[i] /\ j <= i}
           At(k) == CHOOSE i \in DOMAIN s : Cardinality(UpTo(i)) = k
<1>1. s \in Seq(Nat) /\ DOMAIN s = 1..n /\ \A i \in 1..n : s[i] = i
  BY FromStart
<1>2. Sorted(s) = [k \in DOMAIN s |-> s[At(k)]]
  BY DEF Sorted
<1> HIDE DEF s
<1>3. \A i \in 1..n : UpTo(i) = (0 + 1)..i
  BY <1>1
<1> HIDE DEF UpTo
<1>4. ASSUME NEW i \in 1..n
      PROVE  Cardinality(UpTo(i)) = i
  <2>1. i \in Int /\ 0 <= i /\ i - 0 = i
    OBVIOUS
  <2>2. Cardinality((0 + 1)..i) = i - 0
    BY <2>1, CountTo
  <2> QED BY <2>1, <2>2, <1>3
<1>5. \A k \in 1..n : At(k) = k
  BY <1>1, <1>4
<1> HIDE DEF At
<1>6. Sorted(s) = [k \in 1..n |-> s[k]]
  BY <1>1, <1>2, <1>5
<1>7. s = [k \in 1..n |-> s[k]]
  BY <1>1
<1> QED BY <1>6, <1>7 DEF s
-----------------------------------------------------------------------------
(* the invariant                                                           *)

Walking == status = "walking"

\* What a walk that goes on has not reached yet.
Reached ==
    /\ after <= head
    /\ manners # "honest" => faults > 0
    /\ walker \notin {187, 258} => pages = 0
    /\ Walking => /\ walker \in {187, 258} => pages < MaxPages
                  /\ walker \in {157, 121, 169, 30} => Len(kept) < MaxRecords
                  /\ walker = 66 => Len(kept) <= MaxRecords

\* What lies before the cursor was returned, or looked at by 121.
Covered == Walking => 1..after \subseteq IF walker = 121 THEN seen ELSE ToSet(kept)

\* 157 never returns a record twice, the others do not as long as the server
\* goes on after the cursor, and a server of getEvents does: what is returned
\* is a beginning of the collection, and it ends at the cursor.
Orderly == walker # 121 /\ (faults = 0 \/ walker \in {157} \cup Replayers)
Straight == Orderly => kept = Between(0, Len(kept))
InStep == Orderly /\ Walking => IF walker = 157 THEN after <= Len(kept) ELSE Len(kept) = after

\* What the walkers note for themselves.
Noted == /\ walker = 157 => seen = ToSet(kept)
         /\ faults = 0 /\ Walking => /\ walker = 187 => \A c \in seen : c < after
                                     /\ walker \in {121, 258} => last = after

\* 121 returns what it saw of the type.
Sifted == walker = 121 /\ Walking => /\ \E m \in 0..N : seen = 1..m
                                     /\ ToSet(kept) = Wanted \cap seen

IInv == /\ WalkTypeOK /\ Reached /\ Covered /\ Straight /\ InStep /\ Noted /\ Sifted
        /\ Unbroken /\ Truthful

USE WalkAssumption DEF WalkAssumption, walk, server, Walkers, EventReaders, Replayers, Manners

-----------------------------------------------------------------------------
(* one page                                                                *)

\* What is returned, as a sequence of numbers and as a set.
LEMMA KeptType ==
    ASSUME WalkTypeOK
    PROVE  kept \in Seq(Nat) /\ Len(kept) \in Nat /\ ToSet(kept) \subseteq 1..N
<1>1. kept \in Seq(1..N)
  BY DEF WalkTypeOK
<1> QED BY <1>1 DEF ToSet

\* The page after b: where it ends, and when it is empty or the last.
LEMMA PageFacts ==
    ASSUME WalkTypeOK, Reached, NEW b \in Beginnings
    PROVE  /\ b \in Nat /\ b <= after /\ after <= head /\ head <= N
           /\ after \in Nat /\ head \in Nat /\ N \in Nat
           /\ End(b) \in Nat /\ b <= End(b) /\ End(b) <= head
           /\ End(b) = b => b = head
           /\ End(b) - b < PageSize => End(b) = head
           /\ Page(b) = Between(b, End(b))
           /\ Page(b) = <<>> <=> End(b) = b
           /\ Orderly /\ walker # 157 => b = after
<1>1. /\ b \in 0..after /\ after \in 0..N /\ head \in 0..N /\ after <= head
      /\ b \in Nat
  BY DEF WalkTypeOK, Reached, Beginnings
<1>2. /\ End(b) \in Nat /\ b <= End(b) /\ End(b) <= head
      /\ End(b) = b => b = head
      /\ End(b) - b < PageSize => End(b) = head
  BY <1>1 DEF End
<1>3. Page(b) = Between(b, End(b))
  BY DEF Page
<1>4. Page(b) = <<>> <=> End(b) = b
  <2>1. Len(Between(b, End(b))) = End(b) - b /\ Between(b, End(b)) \in Seq(Nat)
    BY <1>1, <1>2, Stretch
  <2> QED BY <2>1, <1>1, <1>2, <1>3
<1>5. ASSUME Orderly, walker # 157
      PROVE  b = after
  <2>1. manners \notin {"same", "old"}
    BY <1>5 DEF WalkTypeOK, Reached, Orderly
  <2> QED BY <2>1 DEF Beginnings
<1> QED BY <1>1, <1>2, <1>3, <1>4, <1>5

\* A stretch of the collection holds its records.
LEMMA StretchType ==
    ASSUME NEW b \in Nat, NEW e \in Nat, b <= e, e <= N
    PROVE  Between(b, e) \in Seq(1..N)
BY DEF Between

\* A stretch of the page after b, behind what was returned before.
Takes(b, e) == b \in Beginnings /\ e \in b..End(b) /\ kept' = kept \o Between(b, e)

\* What was returned and a stretch behind the cursor or before it leave nothing out.
LEMMA Extended ==
    ASSUME WalkTypeOK, Reached, Covered, Straight, InStep, NoSkip, Walking, walker \notin {157, 121},
           NEW b, NEW e, Takes(b, e)
    PROVE  /\ kept' \in Seq(1..N) /\ kept' \in Seq(Nat)
           /\ Len(kept') = Len(kept) + (e - b)
           /\ ToSet(kept') = ToSet(kept) \cup (b + 1)..e
           /\ 1..e \subseteq ToSet(kept')
           /\ \A r \in ToSet(kept') : \A q \in 1..(r - 1) : q \in ToSet(kept')
           /\ Orderly => kept' = Between(0, e) /\ Len(kept') = e
<1>1. b \in Nat /\ e \in Nat /\ b <= e /\ e <= N /\ b <= after /\ after \in Nat
  BY PageFacts DEF Takes
<1>2. Between(b, e) \in Seq(1..N) /\ Between(b, e) \in Seq(Nat)
      /\ Len(Between(b, e)) = e - b /\ ToSet(Between(b, e)) = (b + 1)..e
  BY <1>1, Stretch, StretchType
<1>3. kept \in Seq(1..N) /\ kept \in Seq(Nat) /\ ToSet(kept) \subseteq 1..N
  BY KeptType DEF WalkTypeOK
<1>4. kept' \in Seq(1..N) /\ kept' \in Seq(Nat) /\ Len(kept') = Len(kept) + (e - b)
  <2> DEFINE t == Between(b, e)
  <2>1. t \in Seq(1..N) /\ t \in Seq(Nat) /\ Len(t) = e - b /\ kept' = kept \o t
    BY <1>2 DEF Takes
  <2> HIDE DEF t
  <2>2. Len(kept \o t) = Len(kept) + Len(t) /\ kept \o t \in Seq(Nat)
    BY <2>1, <1>3, Joined
  <2>3. kept \o t \in Seq(1..N)
    BY <2>1, <1>3
  <2> QED BY <2>1, <2>2, <2>3
<1>5. ToSet(kept') = ToSet(kept) \cup (b + 1)..e
  BY <1>2, <1>3, SetOfTwo DEF Takes
<1>6. 1..b \subseteq ToSet(kept)
  BY <1>1 DEF Covered
<1>7. 1..e \subseteq ToSet(kept')
  BY <1>1, <1>5, <1>6
<1>8. ASSUME NEW r \in ToSet(kept'), NEW q \in 1..(r - 1)
      PROVE  q \in ToSet(kept')
  <2>1. CASE r \in ToSet(kept)
    BY <2>1, <1>5 DEF NoSkip
  <2>2. CASE r \in (b + 1)..e
    BY <2>2, <1>1, <1>7
  <2> QED BY <1>5, <2>1, <2>2
<1>9. ASSUME Orderly
      PROVE  kept' = Between(0, e) /\ Len(kept') = e
  <2>1. b = after
    BY <1>9, PageFacts DEF Takes
  <2>2. kept = Between(0, b)
    BY <1>9, <2>1 DEF Straight, InStep
  <2>3. e \in Nat /\ b \in 0..e
    BY <1>1
  <2> QED BY <2>2, <2>3, FromStart DEF Takes
<1> QED BY <1>4, <1>5, <1>7, <1>8, <1>9

\* What the limit leaves of a stretch.
LEMMA RoomFor ==
    ASSUME WalkTypeOK, Len(kept) <= MaxRecords, NEW b \in Nat, NEW e \in Nat, b <= e
    PROVE  \E k \in b..e : /\ Room(Between(b, e)) = Between(b, k)
                           /\ k = e \/ Len(kept) + (k - b) = MaxRecords
                           /\ Len(kept) + (k - b) <= MaxRecords
<1>1. Len(Between(b, e)) = e - b /\ Len(kept) \in Nat /\ MaxRecords \in Nat
  BY Stretch, KeptType
<1>2. CASE e - b <= MaxRecords - Len(kept)
  <2>1. Room(Between(b, e)) = Between(b, e)
    BY <1>1, <1>2 DEF Room
  <2> QED BY <1>1, <1>2, <2>1
<1>3. CASE ~(e - b <= MaxRecords - Len(kept))
  <2> DEFINE k == b + (MaxRecords - Len(kept))
  <2>1. MaxRecords - Len(kept) \in 0..(e - b) /\ k \in b..e /\ Len(kept) + (k - b) = MaxRecords
    BY <1>1, <1>3
  <2>2. Room(Between(b, e)) = Between(b, k)
    BY <1>1, <1>3, <2>1, StretchCut DEF Room
  <2> QED BY <2>1, <2>2
<1> QED BY <1>2, <1>3

-----------------------------------------------------------------------------
(* the walkers that take pages as they come                                *)

\* An empty stretch adds nothing.
LEMMA Nothing ==
    ASSUME WalkTypeOK, NEW b \in Nat
    PROVE  kept \o Between(b, b) = kept
<1>1. Between(b, b) \in Seq(Nat) /\ Len(Between(b, b)) = 0
  BY Stretch
<1> QED BY <1>1, KeptType

\* A beginning of the collection repeats nothing.
LEMMA Ascending ==
    ASSUME NEW n \in Nat, NEW k, k = Between(0, n)
    PROVE  \A i \in 1..(Len(k) - 1) : k[i] < k[i + 1]
<1>1. \A i \in 1..(n - 1) : i \in 1..n /\ i + 1 \in 1..n /\ i < i + 1
  OBVIOUS
<1>2. Len(k) = n /\ \A i \in 1..n : k[i] = i
  BY FromStart
<1> QED BY <1>1, <1>2

\* A walker that takes a stretch of a page, and goes on to where it ends or not at all.
LEMMA PlainStep ==
    ASSUME IInv, Walking, walker \notin {157, 121}, UNCHANGED <<walker, stop, server>>,
           NEW b, NEW e, Takes(b, e), begin' = b, known' = head,
           after' \in {after, e}, Walking' => after' = e \/ e = b,
           pages' \in 0..MaxPages, last' \in 0..N, seen' \subseteq 1..N, status' \in Statuses,
           Reached', Noted', Truthful'
    PROVE  IInv'
<1>1. /\ b \in Nat /\ e \in Nat /\ b <= e /\ e <= head /\ head <= N /\ b <= after /\ after <= head
      /\ after \in Nat /\ (Orderly => b = after)
  BY PageFacts DEF IInv, Takes
<1>2. /\ kept' \in Seq(1..N) /\ ToSet(kept') = ToSet(kept) \cup (b + 1)..e /\ 1..e \subseteq ToSet(kept')
      /\ \A r \in ToSet(kept') : \A q \in 1..(r - 1) : q \in ToSet(kept')
      /\ Orderly => kept' = Between(0, e) /\ Len(kept') = e
  BY Extended DEF IInv, Unbroken
<1>3. Len(kept') \in Nat
  BY <1>2
<1>4. WalkTypeOK'
  BY <1>1, <1>2, <1>3 DEF IInv, WalkTypeOK
<1>5. Covered'
  BY <1>1, <1>2, <1>3 DEF IInv, Covered
<1>6. Orderly' <=> Orderly
  BY DEF Orderly
<1>7. Straight'
  BY <1>2, <1>3, <1>6 DEF Straight
<1>8. InStep'
  BY <1>1, <1>2, <1>3, <1>6 DEF InStep
<1>9. NoSkip'
  BY <1>2, <1>3 DEF NoSkip
<1>10. faults' = 0 => NoRepeat'
  BY <1>1, <1>2, <1>3, Ascending DEF NoRepeat, Orderly
<1>11. Sifted' /\ Unbroken'
  BY <1>9, <1>10 DEF Sifted, Unbroken
<1> QED BY <1>4, <1>5, <1>7, <1>8, <1>11 DEF IInv

\* What was returned when the walk is over.
LEMMA AllOfIt ==
    ASSUME NEW e \in Nat, 1..e \subseteq ToSet(kept'), known' <= e, known' \in Nat
    PROVE  Everything'
BY DEF Everything

\* 258 handles a page.
LEMMA HistoryStep ==
    ASSUME IInv, Walking, walker = 258, UNCHANGED <<walker, stop, server>>,
           NEW b \in Beginnings, begin' = b, known' = head, History(b)
    PROVE  IInv'
<1> DEFINE e == End(b)
<1>1. /\ b \in Nat /\ e \in Nat /\ b <= e /\ e <= head /\ head <= N /\ head \in Nat
      /\ e = b => b = head
      /\ Page(b) = Between(b, e) /\ (Page(b) = <<>> <=> e = b)
      /\ faults = 0 => b = after
  BY PageFacts DEF IInv, Orderly
<1>2. Takes(b, e)
  BY <1>1 DEF History, Takes
<1> HIDE DEF e
<1>3. 1..e \subseteq ToSet(kept')
  <2>1. WalkTypeOK /\ Reached /\ Covered /\ Straight /\ InStep /\ NoSkip /\ Walking /\ walker \notin {157, 121}
    BY DEF IInv, Unbroken
  <2> QED BY <1>2, <2>1, Extended
<1>4. pages \in 0..(MaxPages - 1) /\ last \in 0..N /\ seen \subseteq 1..N
  BY DEF IInv, WalkTypeOK, Reached, Walking
<1>5. pages' \in 0..MaxPages /\ seen' = seen
  BY <1>4 DEF History
<1>6. CASE Page(b) = <<>> \/ pages' >= MaxPages \/ Repeated(NextCursor(b))
  <2>1. status' = "returned" /\ after' = after /\ last' = last
    BY <1>6 DEF History, EndsWith
  <2>2. Page(b) = <<>> => Everything'
    BY <1>1, <1>3, AllOfIt
  <2>3. Repeated(NextCursor(b)) /\ faults = 0 => Page(b) = <<>>
    BY <1>1 DEF Repeated, NextCursor, IInv, Noted, e
  <2>4. Truthful'
    BY <1>5, <1>6, <2>1, <2>2, <2>3 DEF Truthful
  <2>5. Reached' /\ Noted'
    BY <2>1 DEF IInv, Reached, Noted, Walking
  <2> QED BY <1>2, <1>4, <1>5, <2>1, <2>4, <2>5, PlainStep DEF Statuses, Walking
<1>7. CASE ~(Page(b) = <<>> \/ pages' >= MaxPages \/ Repeated(NextCursor(b)))
  <2>1. status' = "walking" /\ after' = e /\ last' = e
    BY <1>7 DEF History, GoOn, NextCursor, e
  <2>2. Truthful' /\ Noted'
    BY <2>1 DEF Truthful, Noted
  <2>3. Reached'
    BY <1>1, <1>5, <1>7, <2>1 DEF IInv, Reached, Walking
  <2> QED BY <1>1, <1>2, <1>4, <1>5, <2>1, <2>2, <2>3, PlainStep DEF Statuses
<1> QED BY <1>6, <1>7

\* 187 handles a page.
LEMMA RpcStep ==
    ASSUME IInv, Walking, walker = 187, UNCHANGED <<walker, stop, server>>,
           NEW b \in Beginnings, begin' = b, known' = head, NEW e \in Reaches(b), NEW next \in Named(e),
           Rpc(b, e, next)
    PROVE  IInv'
<1>1. /\ b \in Nat /\ e \in Nat /\ b <= e /\ e <= head /\ head <= N /\ head \in Nat /\ after \in 0..N
      /\ e = b => b = head \/ manners = "windows"
      /\ faults = 0 => b = after
      /\ e \in b..End(b) /\ End(b) \in Nat
  BY PageFacts DEF IInv, Orderly, Reaches, WalkTypeOK
<1>2. next = e \/ (next = 0 /\ e = head)
  BY DEF Named
<1>3. pages \in 0..(MaxPages - 1) /\ last \in 0..N /\ seen \subseteq 1..N
  BY DEF IInv, WalkTypeOK, Reached, Walking
<1>4. pages' = pages + 1 /\ pages' \in 0..MaxPages /\ last' = last
  BY <1>3 DEF Rpc
<1>5. CASE after # 0 /\ after \in seen
  <2>1. status' = "repeated_cursor" /\ after' = after /\ seen' = seen /\ kept' = kept
    BY <1>5 DEF Rpc, EndsWith
  <2>2. Takes(b, b)
    BY <1>1, <2>1, Nothing DEF Takes, IInv
  <2>3. faults # 0
    BY <1>1, <1>5 DEF IInv, Noted
  <2>4. Truthful' /\ Reached' /\ Noted'
    BY <2>1, <2>3, <1>4 DEF Truthful, IInv, WalkTypeOK, Reached, Noted, Walking
  <2> QED BY <1>3, <1>4, <2>1, <2>2, <2>4, PlainStep DEF Statuses
<1>6. CASE ~(after # 0 /\ after \in seen)
  <2>1. seen' = seen \cup ({after} \ {0}) /\ kept' = kept \o Between(b, e)
    BY <1>6 DEF Rpc
  <2>2. seen' \subseteq 1..N
    BY <1>1, <1>3, <2>1
  <2>3. Takes(b, e)
    BY <1>1, <2>1 DEF Takes
  <2>4. 1..e \subseteq ToSet(kept')
    BY <2>3, Extended DEF IInv, Unbroken
  <2>5. CASE e = b
    <3>1. status' = "empty" /\ after' = after
      BY <1>6, <2>5 DEF Rpc, EndsWith
    <3>2. Truthful'
      BY <1>1, <2>4, <2>5, <3>1, AllOfIt DEF Truthful
    <3>3. Reached' /\ Noted'
      BY <3>1 DEF IInv, Reached, Noted, Walking
    <3> QED BY <1>3, <1>4, <2>2, <2>3, <3>1, <3>2, <3>3, PlainStep DEF Statuses, Walking
  <2>6. CASE e # b /\ next = 0
    <3>1. status' = "completed" /\ after' = after
      BY <1>6, <2>6 DEF Rpc, EndsWith
    <3>2. Truthful'
      BY <1>1, <1>2, <2>4, <2>6, <3>1, AllOfIt DEF Truthful
    <3>3. Reached' /\ Noted'
      BY <3>1 DEF IInv, Reached, Noted, Walking
    <3> QED BY <1>3, <1>4, <2>2, <2>3, <3>1, <3>2, <3>3, PlainStep DEF Statuses, Walking
  <2>7. CASE e # b /\ next # 0 /\ next = after
    <3>1. status' = "repeated_cursor" /\ after' = after
      BY <1>6, <2>7 DEF Rpc, EndsWith
    <3>2. faults \in Nat /\ faults # 0
      BY <1>1, <1>2, <2>7 DEF IInv, WalkTypeOK
    <3>3. Truthful'
      BY <3>1, <3>2 DEF Truthful
    <3>4. Reached' /\ Noted'
      BY <3>1 DEF IInv, Reached, Noted, Walking
    <3> QED BY <1>3, <1>4, <2>2, <2>3, <3>1, <3>3, <3>4, PlainStep DEF Statuses, Walking
  <2>8. CASE e # b /\ next # 0 /\ next # after /\ pages' >= MaxPages
    <3>1. status' = "max_pages_reached" /\ after' = e
      BY <1>2, <1>6, <2>8 DEF Rpc
    <3>2. e \in ToSet(kept')
      BY <1>1, <2>4, <2>8
    <3>3. Truthful'
      BY <1>4, <2>8, <3>1, <3>2 DEF Truthful
    <3>4. Reached' /\ Noted'
      BY <1>1, <3>1 DEF IInv, Reached, Noted, Walking
    <3> QED BY <1>3, <1>4, <2>2, <2>3, <3>1, <3>3, <3>4, PlainStep DEF Statuses, Walking
  <2>9. CASE e # b /\ next # 0 /\ next # after /\ ~(pages' >= MaxPages)
    <3>1. status' = "walking" /\ after' = e
      BY <1>2, <1>6, <2>9 DEF Rpc, GoOn
    <3>2. Truthful'
      BY <3>1 DEF Truthful
    <3>3. Reached'
      BY <1>1, <1>4, <2>9, <3>1 DEF IInv, Reached, Walking
    <3>4. Noted'
      <4>1. faults = 0 => after < e /\ \A c \in seen : c < after
        BY <1>1, <2>9 DEF IInv, Noted
      <4>2. \A c \in seen : c \in Nat
        BY <1>3
      <4> QED BY <1>1, <2>1, <3>1, <4>1, <4>2 DEF Noted
    <3> QED BY <1>3, <1>4, <2>2, <2>3, <3>1, <3>2, <3>3, <3>4, PlainStep DEF Statuses
  <2> QED BY <2>5, <2>6, <2>7, <2>8, <2>9
<1> QED BY <1>5, <1>6

\* 169 and 30 cut off what a page holds beyond the limit.
LEMMA LimitedStep ==
    ASSUME IInv, Walking, walker \in {169, 30}, UNCHANGED <<walker, stop, server>>,
           NEW b \in Beginnings, begin' = b, known' = head,
           (walker = 169 /\ Holders(b)) \/ (walker = 30 /\ Traverse(b))
    PROVE  IInv'
<1> DEFINE e == End(b)
<1>1. /\ b \in Nat /\ e \in Nat /\ b <= e /\ e <= head /\ head <= N /\ head \in Nat
      /\ e = b => b = head
      /\ Page(b) = Between(b, e) /\ (Page(b) = <<>> <=> e = b)
  BY PageFacts DEF IInv
<1>2. /\ kept' = kept \o Room(Page(b)) /\ pages' = pages /\ last' = last /\ seen' = seen
      /\ pages \in 0..MaxPages /\ last \in 0..N /\ seen \subseteq 1..N
  BY DEF Holders, Traverse, IInv, WalkTypeOK
<1>3. Len(kept) < MaxRecords /\ Len(kept) \in Nat
  BY KeptType DEF IInv, Reached, Walking
<1>4. PICK k \in b..e : /\ Room(Between(b, e)) = Between(b, k)
                        /\ k = e \/ Len(kept) + (k - b) = MaxRecords
                        /\ Len(kept) + (k - b) <= MaxRecords
  <2> HIDE DEF e
  <2>1. WalkTypeOK /\ Len(kept) <= MaxRecords
    BY <1>3 DEF IInv
  <2> QED BY <1>1, <2>1, RoomFor
<1>5. Takes(b, k)
  BY <1>1, <1>2, <1>4 DEF Takes
<1>6. 1..k \subseteq ToSet(kept') /\ Len(kept') = Len(kept) + (k - b)
  BY <1>5, Extended DEF IInv, Unbroken
<1> HIDE DEF e
<1>7. CASE Page(b) = <<>> \/ Len(kept') >= MaxRecords
  <2>1. /\ after' = after
        /\ status' \in {"completed", "truncated", "returned"}
        /\ status' = "completed" => Page(b) = <<>>
        /\ status' = "truncated" => Len(kept') >= MaxRecords
    BY <1>7 DEF Holders, Traverse, EndsWith
  <2>2. Page(b) = <<>> => Everything'
    BY <1>1, <1>4, <1>6, AllOfIt
  <2>3. Len(kept') >= MaxRecords => Len(kept') = MaxRecords
    BY <1>3, <1>4, <1>6
  <2>4. walker = 169 => status' # "returned"
    BY DEF Holders, EndsWith, GoOn
  <2>5. Truthful'
    BY <1>7, <2>1, <2>2, <2>3, <2>4 DEF Truthful
  <2>6. Reached' /\ Noted'
    BY <1>2, <2>1 DEF IInv, Reached, Noted, Walking
  <2> QED BY <1>2, <1>5, <2>1, <2>5, <2>6, PlainStep DEF Statuses, Walking
<1>8. CASE ~(Page(b) = <<>> \/ Len(kept') >= MaxRecords)
  <2>1. status' = "walking" /\ after' = e
    BY <1>8 DEF Holders, Traverse, GoOn, NextCursor, e
  <2>2. k = e
    BY <1>3, <1>4, <1>6, <1>8
  <2>3. Truthful' /\ Noted'
    BY <2>1 DEF Truthful, Noted
  <2>4. Reached'
    BY <1>1, <1>2, <1>3, <1>4, <1>6, <1>8, <2>1 DEF IInv, Reached, Walking
  <2> QED BY <1>2, <1>5, <2>1, <2>2, <2>3, <2>4, PlainStep DEF Statuses
<1> QED BY <1>7, <1>8

\* What 66 cuts off when there is one record more than the limit.
LEMMA CutJoined ==
    ASSUME WalkTypeOK, NEW b \in Nat, NEW e \in Nat, b <= e,
           NEW n \in Nat, Len(kept) <= n, n <= Len(kept) + (e - b)
    PROVE  SubSeq(kept \o Between(b, e), 1, n) = kept \o Between(b, b + (n - Len(kept)))
<1> DEFINE t == Between(b, e)
           k == b + (n - Len(kept))
           u == Between(b, k)
<1>1. kept \in Seq(Nat) /\ Len(kept) \in Nat
  BY KeptType
<1>2. k \in Nat /\ b <= k /\ k <= e /\ k - b = n - Len(kept) /\ n - Len(kept) \in Nat
  BY <1>1
<1>3. t \in Seq(Nat) /\ Len(t) = e - b /\ \A i \in 1..(e - b) : t[i] = b + i
  BY Stretch
<1> HIDE DEF k
<1>4. u \in Seq(Nat) /\ Len(u) = k - b /\ \A i \in 1..(k - b) : u[i] = b + i
  BY <1>2, Stretch
<1> HIDE DEF t, u
<1>5. /\ kept \o t \in Seq(Nat) /\ Len(kept \o t) = Len(kept) + (e - b)
      /\ \A i \in 1..Len(kept) : (kept \o t)[i] = kept[i]
      /\ \A i \in 1..Len(t) : (kept \o t)[Len(kept) + i] = t[i]
  <2>1. /\ kept \o t \in Seq(Nat) /\ Len(kept \o t) = Len(kept) + Len(t)
        /\ \A i \in 1..Len(kept) : (kept \o t)[i] = kept[i]
        /\ \A i \in 1..Len(t) : (kept \o t)[Len(kept) + i] = t[i]
    BY <1>1, <1>3, Joined
  <2> QED BY <2>1, <1>3
<1>6. /\ kept \o u \in Seq(Nat) /\ Len(kept \o u) = n
      /\ \A i \in 1..Len(kept) : (kept \o u)[i] = kept[i]
      /\ \A i \in 1..Len(u) : (kept \o u)[Len(kept) + i] = u[i]
  <2>1. Len(kept) + (n - Len(kept)) = n
    BY <1>1
  <2> QED BY <2>1, <1>1, <1>2, <1>4, Joined
<1> DEFINE v == SubSeq(kept \o t, 1, n)
<1>7. v \in Seq(Nat) /\ Len(v) = n /\ \A i \in 1..n : v[i] = (kept \o t)[i]
  <2> DEFINE w == kept \o t
  <2>1. w \in Seq(Nat) /\ n <= Len(w)
    BY <1>5
  <2> HIDE DEF w
  <2>2. SubSeq(w, 1, n) \in Seq(Nat) /\ Len(SubSeq(w, 1, n)) = n /\ \A i \in 1..n : SubSeq(w, 1, n)[i] = w[i]
    BY <2>1
  <2> QED BY <2>2 DEF w
<1> HIDE DEF v
<1>8. ASSUME NEW i \in 1..n
      PROVE  v[i] = (kept \o u)[i]
  <2>1. CASE i \in 1..Len(kept)
    BY <2>1, <1>5, <1>6, <1>7
  <2>2. CASE i - Len(kept) \in 1..(n - Len(kept))
    <3> DEFINE j == i - Len(kept)
    <3>1. j \in 1..(e - b) /\ j \in 1..(k - b) /\ Len(kept) + j = i
      BY <2>2, <1>1, <1>2
    <3> HIDE DEF j
    <3>2. (kept \o t)[Len(kept) + j] = b + j /\ (kept \o u)[Len(kept) + j] = b + j
      BY <3>1, <1>3, <1>4, <1>5, <1>6
    <3> QED BY <3>1, <3>2, <1>7
  <2>3. i \in 1..Len(kept) \/ i - Len(kept) \in 1..(n - Len(kept))
    BY <1>1
  <2> QED BY <2>1, <2>2, <2>3
<1>9. v = kept \o u
  BY <1>6, <1>7, <1>8, SameSequence
<1> QED BY <1>9 DEF v, t, u, k

\* 66 handles a page.
LEMMA EffectsStep ==
    ASSUME IInv, Walking, walker = 66, UNCHANGED <<walker, stop, server>>,
           NEW b \in Beginnings, begin' = b, known' = head, Effects(b)
    PROVE  IInv'
<1> DEFINE e == End(b)
<1>1. /\ b \in Nat /\ e \in Nat /\ b <= e /\ e <= head /\ head <= N /\ head \in Nat
      /\ e - b < PageSize => e = head
      /\ Page(b) = Between(b, e)
      /\ faults = 0 => b = after
  BY PageFacts DEF IInv, Orderly
<1>2. /\ pages' = pages /\ last' = last /\ seen' = seen
      /\ pages \in 0..MaxPages /\ last \in 0..N /\ seen \subseteq 1..N
  BY DEF Effects, IInv, WalkTypeOK
<1>3. Len(kept) <= MaxRecords /\ Len(kept) \in Nat /\ kept \in Seq(Nat)
  BY KeptType DEF IInv, Reached, Walking
<1>4. Len(Page(b)) = e - b /\ Len(kept \o Page(b)) = Len(kept) + (e - b)
  <2>1. Between(b, e) \in Seq(Nat) /\ Len(Between(b, e)) = e - b
    BY <1>1, Stretch
  <2> QED BY <2>1, <1>1, <1>3, Joined
<1> HIDE DEF e
<1>5. CASE Len(kept \o Page(b)) > MaxRecords
  <2> DEFINE k == b + (MaxRecords - Len(kept))
  <2>1. status' = "truncated" /\ after' = after /\ kept' = SubSeq(kept \o Page(b), 1, MaxRecords)
    BY <1>5 DEF Effects, EndsWith
  <2>2. k \in b..e /\ Len(kept) + (k - b) = MaxRecords
    BY <1>1, <1>3, <1>4, <1>5
  <2>3. kept' = kept \o Between(b, k)
    <3>1. WalkTypeOK /\ MaxRecords \in Nat /\ MaxRecords <= Len(kept) + (e - b)
      BY <1>4, <1>5 DEF IInv
    <3>2. SubSeq(kept \o Between(b, e), 1, MaxRecords) = kept \o Between(b, b + (MaxRecords - Len(kept)))
      BY <3>1, <1>1, <1>3, CutJoined
    <3> QED BY <3>2, <2>1, <1>1
  <2>4. Takes(b, k)
    BY <2>2, <2>3 DEF Takes, e
  <2> HIDE DEF k
  <2>5. Len(kept') = MaxRecords
    BY <2>2, <2>4, Extended DEF IInv, Unbroken
  <2>6. faults = 0 => known' > MaxRecords
    <3>1. faults = 0 => Len(kept) = after /\ after = b
      BY <1>1 DEF IInv, InStep, Orderly
    <3> QED BY <3>1, <1>1, <1>4, <1>5
  <2>7. Truthful' /\ Reached' /\ Noted'
    BY <1>2, <2>1, <2>5, <2>6 DEF Truthful, IInv, Reached, Noted, Walking
  <2> QED BY <1>2, <2>1, <2>4, <2>7, PlainStep DEF Statuses, Walking
<1>6. CASE ~(Len(kept \o Page(b)) > MaxRecords)
  <2>1. kept' = kept \o Page(b)
    BY <1>6 DEF Effects
  <2>2. Takes(b, e)
    BY <1>1, <2>1 DEF Takes, e
  <2>3. 1..e \subseteq ToSet(kept')
    BY <2>2, Extended DEF IInv, Unbroken
  <2>4. CASE Len(Page(b)) < PageSize
    <3>1. status' = "completed" /\ after' = after
      BY <1>6, <2>4 DEF Effects, EndsWith
    <3>2. Truthful'
      BY <1>1, <1>4, <2>3, <2>4, <3>1, AllOfIt DEF Truthful
    <3>3. Reached' /\ Noted'
      BY <1>2, <3>1 DEF IInv, Reached, Noted, Walking
    <3> QED BY <1>2, <2>2, <3>1, <3>2, <3>3, PlainStep DEF Statuses, Walking
  <2>5. CASE ~(Len(Page(b)) < PageSize)
    <3>1. status' = "walking" /\ after' = e
      BY <1>6, <2>5 DEF Effects, GoOn, NextCursor, e
    <3>2. Truthful' /\ Noted'
      BY <3>1 DEF Truthful, Noted
    <3>3. Reached'
      BY <1>1, <1>2, <1>3, <1>4, <1>6, <2>1, <3>1 DEF IInv, Reached, Walking
    <3> QED BY <1>2, <2>2, <3>1, <3>2, <3>3, PlainStep DEF Statuses
  <2> QED BY <2>4, <2>5
<1> QED BY <1>5, <1>6

\* 210 handles a page; its records are in order whenever it sorts them.
LEMMA ReplayStep ==
    ASSUME IInv, Walking, walker = 210, UNCHANGED <<walker, stop, server>>,
           NEW b \in Beginnings, begin' = b, known' = head, NEW e \in Reaches(b), Replay(b, e)
    PROVE  IInv'
<1>1. /\ b \in Nat /\ e \in Nat /\ b <= e /\ e <= head /\ head <= N /\ head \in Nat /\ e \in b..End(b)
      /\ b = after /\ Orderly
      /\ e - b < PageSize /\ faults = 0 => e = head
  BY PageFacts DEF IInv, Orderly, Reaches, Reached
<1>2. /\ pages' = pages /\ last' = last /\ seen' = seen
      /\ pages \in 0..MaxPages /\ last \in 0..N /\ seen \subseteq 1..N
  BY DEF Replay, IInv, WalkTypeOK
<1>3. kept \o Between(b, e) = Between(0, e)
  <2>1. kept = Between(0, b) /\ b \in 0..e
    BY <1>1 DEF IInv, Straight, InStep
  <2> QED BY <1>1, <2>1, FromStart
<1>4. kept' = kept \o Between(b, e)
  BY <1>1, <1>3, SortedStretch DEF Replay
<1>5. Takes(b, e)
  BY <1>1, <1>4 DEF Takes
<1>6. 1..e \subseteq ToSet(kept')
  BY <1>5, Extended DEF IInv, Unbroken
<1>7. CASE e - b < PageSize
  <2>1. status' = "returned" /\ after' = after
    BY <1>7 DEF Replay, EndsWith
  <2>2. Truthful'
    BY <1>1, <1>6, <1>7, <2>1, AllOfIt DEF Truthful
  <2>3. Reached' /\ Noted'
    BY <1>2, <2>1 DEF IInv, Reached, Noted, Walking
  <2> QED BY <1>2, <1>5, <2>1, <2>2, <2>3, PlainStep DEF Statuses, Walking
<1>8. CASE ~(e - b < PageSize)
  <2>1. status' = "walking" /\ after' = e
    BY <1>8 DEF Replay, GoOn
  <2>2. Truthful' /\ Noted' /\ Reached'
    BY <1>1, <1>2, <2>1 DEF Truthful, Noted, IInv, Reached, Walking
  <2> QED BY <1>2, <1>5, <2>1, <2>2, PlainStep DEF Statuses
<1> QED BY <1>7, <1>8

\* 209 handles a page, and stays where it is if the page is empty.
LEMMA WatchStep ==
    ASSUME IInv, Walking, walker = 209, UNCHANGED <<walker, stop, server>>,
           NEW b \in Beginnings, begin' = b, known' = head, NEW e \in Reaches(b), Watch(b, e)
    PROVE  IInv'
<1>1. /\ e \in b..End(b) /\ b = after /\ e \in Nat /\ e <= head
  BY PageFacts DEF IInv, Orderly, Reaches, Reached
<1>2. /\ pages' = pages /\ last' = last /\ seen' = seen
      /\ pages \in 0..MaxPages /\ last \in 0..N /\ seen \subseteq 1..N
  BY DEF Watch, IInv, WalkTypeOK
<1>3. Takes(b, e)
  BY <1>1 DEF Takes, Watch
<1>4. status' = "walking" /\ after' = e
  BY <1>1 DEF Watch, GoOn
<1>5. Truthful' /\ Noted' /\ Reached'
  BY <1>1, <1>2, <1>4 DEF Truthful, Noted, IInv, Reached, Walking
<1> QED BY <1>2, <1>3, <1>4, <1>5, PlainStep DEF Statuses

-----------------------------------------------------------------------------
(* the walkers that remember what they saw                                 *)

\* All empty stretches are the same.
LEMMA NoStretch ==
    ASSUME NEW b \in Nat, NEW c \in Nat
    PROVE  Between(b, b) = Between(c, c)
<1>1. /\ Between(b, b) \in Seq(Nat) /\ Len(Between(b, b)) = 0
      /\ Between(c, c) \in Seq(Nat) /\ Len(Between(c, c)) = 0
  <2>1. b <= b /\ b - b = 0 /\ c <= c /\ c - c = 0
    OBVIOUS
  <2>2. Between(b, b) \in Seq(Nat) /\ Len(Between(b, b)) = b - b
    BY <2>1, Stretch
  <2>3. Between(c, c) \in Seq(Nat) /\ Len(Between(c, c)) = c - c
    BY <2>1, Stretch
  <2> QED BY <2>1, <2>2, <2>3
<1> QED BY <1>1, SameSequence

\* Of a page, the part behind the m records that were seen is new.
Goes(b, m, h) == /\ h \in m..N /\ (h = m \/ h = End(b)) /\ End(b) <= h
                 /\ Fresh(Page(b)) = Between(m, h)
                 /\ ToSet(Page(b)) \cup 1..m = 1..h

\* Of the page after b the records behind the first m are new, where those were seen.
LEMMA FreshStretch ==
    ASSUME WalkTypeOK, Reached, NEW b \in Beginnings, NEW m \in 0..N, seen = 1..m, b <= m
    PROVE  \E h : Goes(b, m, h)
<1> DEFINE e == End(b)
           S == (1..N) \ seen
<1>1. /\ b \in Nat /\ e \in Nat /\ b <= e /\ e <= N /\ N \in Nat /\ m \in Nat
      /\ Page(b) = Between(b, e)
  BY PageFacts
<1> HIDE DEF e
<1>2. ToSet(Page(b)) = (b + 1)..e
  BY <1>1, Stretch
<1>3. CASE m <= e
  <2>1. S \cap (b + 1)..e = (m + 1)..e /\ m \in b..e /\ e \in m..e
    BY <1>1, <1>3
  <2>2. Those(Between(b, e), S) = Between(m, e)
    BY <1>1, <2>1, ThoseStretch
  <2>3. (b + 1)..e \cup 1..m = 1..e
    BY <1>1, <1>3
  <2> QED BY <1>1, <1>2, <1>3, <2>2, <2>3 DEF Goes, Fresh, e
<1>4. CASE ~(m <= e)
  <2>1. S \cap (b + 1)..e = (e + 1)..e /\ e \in b..e /\ e \in e..e
    BY <1>1, <1>4
  <2>2. Those(Between(b, e), S) = Between(e, e)
    BY <1>1, <2>1, ThoseStretch
  <2>3. Between(e, e) = Between(m, m)
    BY <1>1, NoStretch
  <2>4. (b + 1)..e \cup 1..m = 1..m
    BY <1>1, <1>4
  <2> QED BY <1>1, <1>2, <1>4, <2>2, <2>3, <2>4 DEF Goes, Fresh, e
<1> QED BY <1>3, <1>4

\* 157 takes what is new up to the limit, or to the record it stops at.
LEMMA StopStretch ==
    ASSUME NEW m \in Nat, NEW k \in Nat, m <= k, stop \in Nat
    PROVE  \E n \in m..k : /\ UpToStop(Between(m, k)) = Between(m, n)
                           /\ n = k \/ (n = stop /\ m < stop)
                           /\ stop \in (m + 1)..n => n = stop
<1>1. ToSet(Between(m, k)) = (m + 1)..k
  BY Stretch
<1>2. CASE stop \in (m + 1)..k
  <2>1. (1..stop) \cap (m + 1)..k = (m + 1)..stop /\ m \in m..k /\ stop \in m..k
    BY <1>2
  <2>2. Those(Between(m, k), 1..stop) = Between(m, stop)
    BY <2>1, ThoseStretch
  <2> QED BY <1>1, <1>2, <2>1, <2>2 DEF UpToStop
<1>3. CASE stop \notin (m + 1)..k
  BY <1>1, <1>3 DEF UpToStop
<1> QED BY <1>2, <1>3

\* 157 handles a page.
LEMMA CollectionStep ==
    ASSUME IInv, Walking, walker = 157, UNCHANGED <<walker, stop, server>>,
           NEW b \in Beginnings, begin' = b, known' = head, Collection(b)
    PROVE  IInv'
<1> DEFINE m == Len(kept)
           e == End(b)
           taken == UpToStop(Room(Fresh(Page(b))))
<1>1. /\ b \in Nat /\ e \in Nat /\ b <= e /\ e <= head /\ head <= N /\ head \in Nat
      /\ b <= after /\ after <= head /\ after \in Nat
      /\ e = b => b = head
      /\ Page(b) = <<>> <=> e = b
  BY PageFacts DEF IInv
<1>2. /\ m \in Nat /\ kept = Between(0, m) /\ after <= m /\ m < MaxRecords
  BY KeptType DEF IInv, Straight, InStep, Orderly, Reached
<1>3. ToSet(kept) = 1..m /\ seen = 1..m /\ m \in 0..N
  <2>1. ToSet(kept) = 1..m /\ ToSet(kept) \subseteq 1..N /\ seen = ToSet(kept)
    BY <1>2, FromStart, KeptType DEF IInv, Noted
  <2> QED BY <1>2, <2>1
<1>4. stop \in 0..N /\ stop \in Nat /\ pages \in 0..MaxPages /\ last \in 0..N /\ begin \in 0..after
  BY DEF IInv, WalkTypeOK
<1>5. PICK h : Goes(b, m, h)
  BY <1>1, <1>2, <1>3, FreshStretch DEF IInv
<1>6. h \in Nat /\ m <= h /\ h <= N /\ e <= h /\ Fresh(Page(b)) = Between(m, h)
  BY <1>2, <1>5 DEF Goes
<1> HIDE DEF m, e
<1>7. PICK k \in m..h : /\ Room(Between(m, h)) = Between(m, k)
                        /\ k = h \/ m + (k - m) = MaxRecords
                        /\ m + (k - m) <= MaxRecords
  <2>1. WalkTypeOK /\ Len(kept) <= MaxRecords
    BY <1>2 DEF IInv, m
  <2> QED BY <1>2, <1>6, <2>1, RoomFor DEF m
<1>8. k \in Nat /\ m <= k /\ k <= h /\ (k = h \/ k = MaxRecords) /\ k <= MaxRecords
  BY <1>2, <1>6, <1>7
<1>9. PICK n \in m..k : /\ UpToStop(Between(m, k)) = Between(m, n)
                        /\ n = k \/ (n = stop /\ m < stop)
                        /\ stop \in (m + 1)..n => n = stop
  BY <1>2, <1>4, <1>8, StopStretch
<1>10. n \in Nat /\ m <= n /\ n <= k /\ n <= N /\ n \in 0..N /\ m \in 0..n /\ n <= MaxRecords
  BY <1>2, <1>6, <1>8, <1>9
<1>11. taken = Between(m, n)
  BY <1>6, <1>7, <1>9
<1>12. ToSet(taken) = (m + 1)..n
  BY <1>2, <1>10, <1>11, Stretch
<1>13. kept' = Between(0, n) /\ Len(kept') = n /\ ToSet(kept') = 1..n /\ kept' \in Seq(1..N)
  <2>1. kept' = kept \o taken
    BY DEF Collection
  <2>2. 0 \in Nat /\ 0 <= n /\ Between(0, n) \in Seq(1..N)
    BY <1>10, StretchType
  <2>3. Between(0, m) \o Between(m, n) = Between(0, n)
    BY <1>10, FromStart
  <2>4. Len(Between(0, n)) = n /\ ToSet(Between(0, n)) = 1..n
    BY <1>10, FromStart
  <2> QED BY <1>2, <1>11, <2>1, <2>2, <2>3, <2>4
<1>14. seen' = 1..n
  <2>1. seen' = seen \cup ToSet(taken)
    BY DEF Collection
  <2> QED BY <1>2, <1>3, <1>10, <1>12, <2>1
<1>15. pages' = pages /\ last' = last
  BY DEF Collection
<1> HIDE DEF taken
<1>16. Straight' /\ Sifted' /\ NoSkip' /\ NoRepeat' /\ Unbroken'
  <2>1. NoRepeat'
    BY <1>10, <1>13, Ascending DEF NoRepeat
  <2>2. NoSkip'
    BY <1>10, <1>13 DEF NoSkip
  <2> QED BY <1>13, <2>1, <2>2 DEF Straight, Sifted, Unbroken
<1>17. CASE Page(b) = <<>>
  <2>1. status' = "completed" /\ after' = after
    BY <1>17 DEF Collection, EndsWith
  <2>2. Everything'
    BY <1>1, <1>2, <1>10, <1>13, <1>17, AllOfIt
  <2>3. Truthful'
    BY <2>1, <2>2 DEF Truthful
  <2>4. WalkTypeOK' /\ Reached' /\ Covered' /\ InStep' /\ Noted'
    BY <1>1, <1>4, <1>13, <1>14, <1>15, <1>10, <2>1
       DEF IInv, WalkTypeOK, Reached, Covered, InStep, Noted, Walking, Statuses
  <2> QED BY <1>16, <2>3, <2>4 DEF IInv
<1>18. CASE Page(b) # <<>> /\ stop \in ToSet(taken)
  <2>1. status' = "early_termination" /\ after' = after
    BY <1>18 DEF Collection, EndsWith, taken
  <2>2. n = stop
    BY <1>9, <1>12, <1>18
  <2>3. \A i \in 1..n : kept'[i] = i
    BY <1>10, <1>13, FromStart
  <2>4. Truthful'
    BY <1>10, <1>13, <2>1, <2>2, <2>3 DEF Truthful
  <2>5. WalkTypeOK' /\ Reached' /\ Covered' /\ InStep' /\ Noted'
    BY <1>1, <1>4, <1>13, <1>14, <1>15, <1>10, <2>1
       DEF IInv, WalkTypeOK, Reached, Covered, InStep, Noted, Walking, Statuses
  <2> QED BY <1>16, <2>4, <2>5 DEF IInv
<1>19. CASE Page(b) # <<>> /\ stop \notin ToSet(taken) /\ Len(kept') >= MaxRecords
  <2>1. status' = "max_records_reached" /\ after' = after
    BY <1>19 DEF Collection, EndsWith, taken
  <2>2. Truthful'
    BY <1>10, <1>13, <1>19, <2>1 DEF Truthful
  <2>3. WalkTypeOK' /\ Reached' /\ Covered' /\ InStep' /\ Noted'
    BY <1>1, <1>4, <1>13, <1>14, <1>15, <1>10, <2>1
       DEF IInv, WalkTypeOK, Reached, Covered, InStep, Noted, Walking, Statuses
  <2> QED BY <1>16, <2>2, <2>3 DEF IInv
<1>20. CASE Page(b) # <<>> /\ stop \notin ToSet(taken) /\ ~(Len(kept') >= MaxRecords)
  <2>1. status' = "walking" /\ after' = e
    BY <1>20 DEF Collection, GoOn, NextCursor, taken, e
  <2>2. e <= n
    <3>1. n = k
      BY <1>2, <1>4, <1>9, <1>10, <1>12, <1>20
    <3> QED BY <1>6, <1>8, <1>10, <1>13, <1>20, <3>1
  <2>3. Truthful'
    BY <2>1 DEF Truthful
  <2>4. WalkTypeOK' /\ Reached' /\ Covered' /\ InStep' /\ Noted'
    BY <1>1, <1>4, <1>13, <1>14, <1>15, <1>10, <1>20, <2>1, <2>2
       DEF IInv, WalkTypeOK, Reached, Covered, InStep, Noted, Walking, Statuses
  <2> QED BY <1>16, <2>3, <2>4 DEF IInv
<1> QED BY <1>17, <1>18, <1>19, <1>20

\* What the limit leaves of any records.
LEMMA RoomOf ==
    ASSUME WalkTypeOK, Len(kept) <= MaxRecords, NEW w \in Seq(Nat)
    PROVE  \E c \in 0..Len(w) : /\ Room(w) \in Seq(Nat) /\ Len(Room(w)) = c
                                /\ \A i \in 1..c : Room(w)[i] = w[i]
                                /\ c = Len(w) \/ Len(kept) + c = MaxRecords
                                /\ Len(kept) + c <= MaxRecords
<1>1. Len(w) \in Nat /\ Len(kept) \in Nat /\ MaxRecords \in Nat
  BY KeptType
<1>2. CASE Len(w) <= MaxRecords - Len(kept)
  BY <1>1, <1>2 DEF Room
<1>3. CASE ~(Len(w) <= MaxRecords - Len(kept))
  <2> DEFINE c == MaxRecords - Len(kept)
  <2>1. c \in 0..Len(w) /\ Len(kept) + c = MaxRecords
    BY <1>1, <1>3
  <2>2. Room(w) = SubSeq(w, 1, c)
    BY <1>3 DEF Room
  <2> HIDE DEF c
  <2>3. SubSeq(w, 1, c) \in Seq(Nat) /\ Len(SubSeq(w, 1, c)) = c
        /\ \A i \in 1..c : SubSeq(w, 1, c)[i] = w[i]
    BY <2>1
  <2>4. /\ Room(w) \in Seq(Nat) /\ Len(Room(w)) = c
        /\ \A i \in 1..c : Room(w)[i] = w[i]
    BY <2>2, <2>3, Zenon
  <2>5. c = Len(w) \/ Len(kept) + c = MaxRecords
    BY <2>1
  <2>6. Len(kept) + c <= MaxRecords
    BY <1>1, <2>1
  <2> QED BY <2>1, <2>4, <2>5, <2>6, Zenon
<1> QED BY <1>2, <1>3

\* 121 handles a page.
LEMMA OperationsStep ==
    ASSUME IInv, Walking, walker = 121, UNCHANGED <<walker, stop, server>>,
           NEW b \in Beginnings, begin' = b, known' = head, Operations(b)
    PROVE  IInv'
<1> DEFINE e == End(b)
           w == Those(Fresh(Page(b)), Wanted)
           t == Room(w)
<1>1. /\ b \in Nat /\ e \in Nat /\ b <= e /\ e <= head /\ head <= N /\ head \in Nat
      /\ b <= after /\ after <= head /\ after \in Nat
      /\ e = b => b = head
      /\ Page(b) = <<>> <=> e = b
  BY PageFacts DEF IInv
<1>2. PICK m \in 0..N : seen = 1..m
  BY DEF IInv, Sifted
<1>3. /\ after <= m /\ m \in Nat /\ ToSet(kept) = Wanted \cap 1..m
      /\ Len(kept) < MaxRecords /\ kept \in Seq(Nat) /\ Len(kept) \in Nat
      /\ \A i \in 1..(Len(kept) - 1) : kept[i] < kept[i + 1]
  <2>1. after <= m
    BY <1>1, <1>2 DEF IInv, Covered
  <2>2. ToSet(kept) = Wanted \cap 1..m
    BY <1>2 DEF IInv, Sifted
  <2>3. Len(kept) < MaxRecords
    BY DEF IInv, Reached, Walking
  <2>4. \A i \in 1..(Len(kept) - 1) : kept[i] < kept[i + 1]
    BY DEF IInv, Unbroken, NoRepeat
  <2> QED BY <2>1, <2>2, <2>3, <2>4, KeptType DEF IInv
<1>4. PICK h : Goes(b, m, h)
  BY <1>1, <1>2, <1>3, FreshStretch DEF IInv
<1>5. /\ h \in Nat /\ m <= h /\ h <= N /\ e <= h
      /\ Fresh(Page(b)) = Between(m, h) /\ ToSet(Page(b)) \cup 1..m = 1..h
  BY <1>3, <1>4 DEF Goes
<1> HIDE DEF e
<1>6. /\ w \in Seq(Nat) /\ ToSet(w) = ((m + 1)..h) \cap Wanted
      /\ \A i, j \in 1..Len(w) : i < j => w[i] < w[j]
  <2> DEFINE s == Between(m, h)
  <2>1. s \in Seq(Nat) /\ Len(s) = h - m /\ ToSet(s) = (m + 1)..h
        /\ \A i \in 1..(h - m) : s[i] = m + i
    BY <1>3, <1>5, Stretch
  <2> HIDE DEF s
  <2>2. \A i, j \in 1..Len(s) : i < j => s[i] < s[j]
    BY <1>3, <1>5, <2>1
  <2>3. /\ Those(s, Wanted) \in Seq(Nat) /\ ToSet(Those(s, Wanted)) = ToSet(s) \cap Wanted
        /\ \A i, j \in 1..Len(Those(s, Wanted)) : i < j => Those(s, Wanted)[i] < Those(s, Wanted)[j]
    BY <2>1, <2>2, ThoseSifted
  <2> QED BY <1>5, <2>1, <2>3 DEF s
<1> HIDE DEF w
<1>7. PICK c \in 0..Len(w) : /\ t \in Seq(Nat) /\ Len(t) = c
                             /\ \A i \in 1..c : t[i] = w[i]
                             /\ c = Len(w) \/ Len(kept) + c = MaxRecords
                             /\ Len(kept) + c <= MaxRecords
  <2>1. WalkTypeOK /\ Len(kept) <= MaxRecords
    BY <1>3 DEF IInv
  <2> QED BY <1>6, <2>1, RoomOf
<1>8. /\ kept' = kept \o t /\ seen' = 1..h /\ pages' = pages
  BY <1>2, <1>5 DEF Operations, w
<1> HIDE DEF t
<1>9. \A i \in 1..c : t[i] = w[i] /\ i \in 1..Len(w) /\ t[i] \in (m + 1)..h /\ t[i] \in Wanted
  BY <1>6, <1>7, Members
<1>10. ToSet(t) \subseteq ((m + 1)..h) \cap Wanted
  <2>1. \A r \in ToSet(t) : \E i \in 1..c : r = t[i]
    BY <1>7, Members
  <2> QED BY <1>9, <2>1
<1>11. c = Len(w) => ToSet(t) = ((m + 1)..h) \cap Wanted
  <2>1. ASSUME c = Len(w), NEW r \in ToSet(w)
        PROVE  r \in ToSet(t)
    <3>1. PICK i \in 1..Len(w) : r = w[i]
      BY <1>6, Members
    <3>2. i \in 1..c /\ r = t[i]
      BY <1>7, <2>1, <3>1
    <3> QED BY <1>7, <3>2, Members
  <2> QED BY <1>6, <1>10, <2>1
<1>12. /\ kept' \in Seq(Nat) /\ Len(kept') = Len(kept) + c /\ ToSet(kept') = ToSet(kept) \cup ToSet(t)
       /\ \A i \in 1..Len(kept) : kept'[i] = kept[i]
       /\ \A i \in 1..c : kept'[Len(kept) + i] = t[i]
  BY <1>3, <1>7, <1>8, Joined, SetOfTwo
<1>13. kept' \in Seq(1..N)
  <2>1. kept \in Seq(1..N)
    BY DEF IInv, WalkTypeOK
  <2>2. \A i \in 1..c : t[i] \in 1..N
    BY <1>3, <1>5, <1>9
  <2>3. t \in Seq(1..N)
    BY <1>7, <2>2
  <2> QED BY <1>8, <2>1, <2>3
<1>14. NoRepeat'
  <2>1. ASSUME NEW i \in 1..(Len(kept') - 1)
        PROVE  kept'[i] < kept'[i + 1]
    <3>1. CASE i < Len(kept)
      <4>1. i \in 1..(Len(kept) - 1) /\ i \in 1..Len(kept) /\ i + 1 \in 1..Len(kept)
        BY <3>1, <1>3
      <4>2. kept'[i] = kept[i] /\ kept'[i + 1] = kept[i + 1]
        BY <4>1, <1>12
      <4> QED BY <4>1, <4>2, <1>3
    <3>2. CASE i = Len(kept)
      <4>1. 1 \in 1..c /\ kept'[i] = kept[i] /\ kept'[i + 1] = t[1]
        BY <3>2, <1>3, <1>12, <1>7
      <4>2. kept[i] \in 1..m
        BY <3>2, <1>3, Members
      <4> QED BY <4>1, <4>2, <1>3, <1>9
    <3>3. CASE i > Len(kept)
      <4> DEFINE j == i - Len(kept)
      <4>1. j \in 1..c /\ j + 1 \in 1..c /\ i = Len(kept) + j /\ i + 1 = Len(kept) + (j + 1) /\ j < j + 1
        BY <3>3, <1>3, <1>12, <1>7
      <4> HIDE DEF j
      <4>2. kept'[i] = w[j] /\ kept'[i + 1] = w[j + 1] /\ w[j] < w[j + 1]
        BY <4>1, <1>6, <1>9, <1>12
      <4> QED BY <4>2
    <3>4. i \in Int /\ Len(kept) \in Int
      BY <1>3
    <3> QED BY <3>1, <3>2, <3>3, <3>4
  <2> QED BY <2>1 DEF NoRepeat
<1>15. NoSkip'
  <2>1. ASSUME NEW r \in ToSet(kept'), NEW q \in 1..(r - 1), q \in Wanted
        PROVE  q \in ToSet(kept')
    <3>1. CASE r \in ToSet(kept)
      BY <3>1, <2>1, <1>3, <1>12
    <3>2. CASE r \in ToSet(t) /\ q <= m
      BY <3>2, <2>1, <1>3, <1>10, <1>12
    <3>3. CASE r \in ToSet(t) /\ ~(q <= m)
      <4>1. PICK i \in 1..c : r = t[i]
        BY <3>3, <1>7, Members
      <4>2. r \in (m + 1)..h /\ r = w[i] /\ i \in 1..Len(w)
        BY <4>1, <1>9
      <4>3. q \in ((m + 1)..h) \cap Wanted
        BY <3>3, <4>2, <2>1, <1>3, <1>5
      <4>4. PICK j \in 1..Len(w) : q = w[j]
        BY <4>3, <1>6, Members
      <4>5. ~(i < j) /\ i # j
        <5>1. q < r /\ q \in Int /\ r \in Int
          BY <4>2, <2>1, <1>3, <1>5
        <5>2. i < j => w[i] < w[j]
          BY <4>2, <4>4, <1>6
        <5> QED BY <5>1, <5>2, <4>2, <4>4
      <4>6. j \in 1..c /\ q = t[j]
        BY <4>1, <4>4, <4>5, <1>7
      <4> QED BY <4>6, <1>7, <1>12, Members
    <3> QED BY <3>1, <3>2, <3>3, <1>12
  <2> QED BY <2>1 DEF NoSkip
<1>16. Unbroken' /\ Straight' /\ InStep'
  BY <1>14, <1>15 DEF Unbroken, Straight, InStep, Orderly
<1>17. /\ stop \in 0..N /\ pages \in 0..MaxPages /\ last \in 0..N /\ faults \in 0..MaxFaults /\ pages = 0
       /\ manners \in Manners /\ head \in 0..N
       /\ faults = 0 => last = after /\ manners = "honest"
  BY DEF IInv, WalkTypeOK, Reached, Noted
<1>18. faults = 0 => b = after
  BY <1>17 DEF Beginnings
<1>19. h \in 0..N /\ seen' \subseteq 1..N
  BY <1>5, <1>8
<1>20. CASE Page(b) = <<>> \/ Len(kept') >= MaxRecords \/ Repeated(NextCursor(b))
  <2>1. status' = "returned" /\ after' = after /\ last' = last
    BY <1>8, <1>20 DEF Operations, EndsWith
  <2>2. Page(b) = <<>> => Everything'
    <3>1. Page(b) = <<>> => head <= m
      BY <1>1, <1>3
    <3> QED BY <3>1, <1>1, <1>3, <1>12 DEF Everything
  <2>3. Repeated(NextCursor(b)) /\ faults = 0 => Page(b) = <<>>
    BY <1>1, <1>17, <1>18 DEF Repeated, NextCursor, e
  <2>4. Len(kept') >= MaxRecords => Len(kept') = MaxRecords
    BY <1>3, <1>7, <1>12
  <2>5. Truthful'
    BY <1>20, <2>1, <2>2, <2>3, <2>4 DEF Truthful
  <2>6. WalkTypeOK' /\ Reached' /\ Covered' /\ Noted' /\ Sifted'
    BY <1>1, <1>8, <1>13, <1>17, <1>19, <2>1
       DEF WalkTypeOK, Reached, Covered, Noted, Sifted, Walking, Statuses
  <2> QED BY <1>16, <2>5, <2>6 DEF IInv
<1>21. CASE ~(Page(b) = <<>> \/ Len(kept') >= MaxRecords \/ Repeated(NextCursor(b)))
  <2>1. status' = "walking" /\ after' = e /\ last' = e
    BY <1>8, <1>21 DEF Operations, GoOn, NextCursor, e
  <2>2. ToSet(kept') = Wanted \cap 1..h
    <3>1. c = Len(w)
      BY <1>3, <1>7, <1>12, <1>21
    <3>2. ToSet(kept') = (Wanted \cap 1..m) \cup (((m + 1)..h) \cap Wanted)
      BY <3>1, <1>3, <1>11, <1>12
    <3> QED BY <3>2, <1>3, <1>5
  <2>3. Truthful' /\ Noted'
    BY <2>1 DEF Truthful, Noted
  <2>4. WalkTypeOK' /\ Covered'
    BY <1>1, <1>5, <1>8, <1>13, <1>17, <1>19, <2>1
       DEF WalkTypeOK, Covered, Walking, Statuses
  <2>5. Reached'
    BY <1>1, <1>3, <1>7, <1>8, <1>12, <1>17, <1>21, <2>1 DEF IInv, Reached, Walking
  <2>6. Sifted'
    BY <1>8, <1>19, <2>2 DEF Sifted
  <2> QED BY <1>16, <2>3, <2>4, <2>5, <2>6 DEF IInv
<1> QED BY <1>20, <1>21

-----------------------------------------------------------------------------
(* every step                                                              *)

\* Every walker with its page.
LEMMA AnswerStep ==
    ASSUME IInv, Answer
    PROVE  IInv'
<1>1. PICK b \in Beginnings :
        /\ begin' = b /\ known' = head
        /\ \/ walker = 157 /\ Collection(b)
           \/ walker = 187 /\ \E e \in Reaches(b) : \E next \in Named(e) : Rpc(b, e, next)
           \/ walker = 121 /\ Operations(b)
           \/ walker = 258 /\ History(b)
           \/ walker = 169 /\ Holders(b)
           \/ walker = 30 /\ Traverse(b)
           \/ walker = 66 /\ Effects(b)
           \/ walker = 210 /\ \E e \in Reaches(b) : Replay(b, e)
           \/ walker = 209 /\ \E e \in Reaches(b) : Watch(b, e)
  BY DEF Answer
<1>2. Walking /\ UNCHANGED <<walker, stop, server>>
  BY DEF Answer, Walking
<1>3. CASE walker = 157 /\ Collection(b)
  BY <1>1, <1>2, <1>3, CollectionStep
<1>4. CASE walker = 187 /\ \E e \in Reaches(b) : \E next \in Named(e) : Rpc(b, e, next)
  BY <1>1, <1>2, <1>4, RpcStep
<1>5. CASE walker = 121 /\ Operations(b)
  BY <1>1, <1>2, <1>5, OperationsStep
<1>6. CASE walker = 258 /\ History(b)
  BY <1>1, <1>2, <1>6, HistoryStep
<1>7. CASE (walker = 169 /\ Holders(b)) \/ (walker = 30 /\ Traverse(b))
  BY <1>1, <1>2, <1>7, LimitedStep
<1>8. CASE walker = 66 /\ Effects(b)
  BY <1>1, <1>2, <1>8, EffectsStep
<1>9. CASE walker = 210 /\ \E e \in Reaches(b) : Replay(b, e)
  BY <1>1, <1>2, <1>9, ReplayStep
<1>10. CASE walker = 209 /\ \E e \in Reaches(b) : Watch(b, e)
  BY <1>1, <1>2, <1>10, WatchStep
<1> QED BY <1>1, <1>3, <1>4, <1>5, <1>6, <1>7, <1>8, <1>9, <1>10

\* A walk goes on, or ends, without a page.
LEMMA PagelessStep ==
    ASSUME IInv, Walking, Grow \/ Behave \/ RequestFails \/ Refuse \/ Interrupt
    PROVE  IInv'
<1>1. UNCHANGED <<walker, stop, after, begin, known, pages, last, seen, kept>>
  BY DEF Grow, Behave, RequestFails, Refuse, Interrupt, EndsWith
<1>2. /\ head' \in head..N /\ faults' \in faults..MaxFaults /\ manners' \in Manners
      /\ faults' = faults => manners' = manners
      /\ manners' # "honest" => faults' > 0
      /\ status' \in Statuses
  <2>1. head \in 0..N /\ faults \in 0..MaxFaults /\ manners \in Manners /\ status \in Statuses
        /\ (manners # "honest" => faults > 0) /\ N \in Nat /\ MaxFaults \in Nat
    BY DEF IInv, WalkTypeOK, Reached
  <2>2. CASE Grow
    BY <2>1, <2>2 DEF Grow
  <2>3. CASE Behave
    BY <2>1, <2>3 DEF Behave
  <2>4. CASE RequestFails
    BY <2>1, <2>4 DEF RequestFails, EndsWith, ErrorStatus, Statuses
  <2>5. CASE Refuse
    BY <2>1, <2>5 DEF Refuse, EndsWith, ErrorStatus, Statuses
  <2>6. CASE Interrupt
    BY <2>1, <2>6 DEF Interrupt, EndsWith, Statuses
  <2> QED BY <2>2, <2>3, <2>4, <2>5, <2>6
<1>3. head \in 0..N /\ faults \in 0..MaxFaults /\ N \in Nat
  BY DEF IInv, WalkTypeOK
<1>4. Orderly' => Orderly
  BY <1>1, <1>2, <1>3 DEF Orderly
<1>5. WalkTypeOK'
  BY <1>1, <1>2, <1>3 DEF IInv, WalkTypeOK
<1>6. Reached' /\ Covered' /\ Sifted'
  BY <1>1, <1>2, <1>3 DEF IInv, WalkTypeOK, Reached, Covered, Sifted, Walking
<1>7. Straight' /\ InStep'
  BY <1>1, <1>4 DEF IInv, Straight, InStep, Walking
<1>8. Noted' /\ Unbroken'
  BY <1>1, <1>2, <1>3 DEF IInv, Noted, Unbroken, NoSkip, NoRepeat, Walking
<1>9. Truthful'
  <2>1. CASE Grow \/ Behave
    BY <2>1 DEF Grow, Behave, Truthful
  <2>2. CASE RequestFails
    <3>1. faults' # 0 /\ faults' > 0 /\ status' \in {"walking", "returned", "error", "failed"}
      BY <1>3, <2>2 DEF RequestFails, EndsWith, ErrorStatus
    <3> QED BY <3>1 DEF Truthful
  <2>3. CASE Refuse
    <3>1. walker \in Replayers /\ manners = "strict" /\ faults' = faults
      BY <2>3 DEF Refuse, Refused
    <3>2. faults' > 0
      BY <3>1 DEF IInv, Reached
    <3>3. status' \in {"walking", "failed"}
      BY <2>3, <3>1 DEF Refuse, EndsWith, ErrorStatus
    <3> QED BY <3>2, <3>3 DEF Truthful
  <2>4. CASE Interrupt
    <3>1. status' = "stopped" /\ kept = Between(0, after)
      BY <2>4 DEF Interrupt, EndsWith, IInv, Straight, InStep, Orderly
    <3> QED BY <3>1, <1>1 DEF Truthful
  <2> QED BY <2>1, <2>2, <2>3, <2>4
<1> QED BY <1>5, <1>6, <1>7, <1>8, <1>9 DEF IInv

\* The invariant holds in the beginning and after every step.
LEMMA Invariant == WalkSpec => []IInv
<1>1. WalkInit => IInv
  <2> SUFFICES ASSUME WalkInit PROVE IInv
    OBVIOUS
  <2>1. kept = <<>> /\ Len(kept) = 0 /\ ToSet(kept) = {} /\ kept = Between(0, 0)
    <3>1. Between(0, 0) \in Seq(Nat) /\ Len(Between(0, 0)) = 0
      BY FromStart
    <3> QED BY <3>1 DEF WalkInit, ToSet
  <2>2. WalkTypeOK
    BY DEF WalkInit, WalkTypeOK, Statuses
  <2>3. Reached /\ Covered /\ Straight /\ InStep /\ Noted
    BY <2>1 DEF WalkInit, Reached, Covered, Straight, InStep, Noted
  <2>4. Sifted
    <3>1. seen = 1..0 /\ 0 \in 0..N
      BY DEF WalkInit
    <3> QED BY <2>1, <3>1 DEF Sifted, WalkInit
  <2>5. Unbroken /\ Truthful
    BY <2>1 DEF WalkInit, Unbroken, NoSkip, NoRepeat, Truthful
  <2> QED BY <2>2, <2>3, <2>4, <2>5 DEF IInv
<1>2. IInv /\ [WalkNext]_walk => IInv'
  <2> SUFFICES ASSUME IInv, [WalkNext]_walk PROVE IInv'
    OBVIOUS
  <2>1. CASE Answer
    BY <2>1, AnswerStep
  <2>2. CASE Grow \/ Behave \/ RequestFails \/ Refuse \/ Interrupt
    <3>1. Walking
      BY <2>2 DEF Walking, Grow, Behave, RequestFails, Refuse, Interrupt
    <3> QED BY <2>2, <3>1, PagelessStep
  <2>3. CASE UNCHANGED walk
    BY <2>3 DEF IInv, WalkTypeOK, Reached, Covered, Straight, InStep, Noted, Sifted, Unbroken,
       Truthful, Orderly, Walking, NoSkip, NoRepeat, Everything
  <2> QED BY <2>1, <2>2, <2>3 DEF WalkNext
<1> QED BY <1>1, <1>2, PTL DEF WalkSpec

-----------------------------------------------------------------------------

\* Every variable has its type: the walkers stay within their limits, and no
\* cursor leads beyond the collection.
THEOREM TypeCorrect == WalkSpec => []WalkTypeOK
BY Invariant, PTL DEF IInv

\* Nothing is left out before a record that is returned, whatever the server
\* does; none is returned twice by 157 and 121, nor by the others as long as
\* the server goes on after the cursor.
THEOREM NothingSkipped == WalkSpec => []Unbroken
BY Invariant, PTL DEF IInv

\* What the caller is told of the walk is true of what he gets.
THEOREM ToldTrue == WalkSpec => []Truthful
BY Invariant, PTL DEF IInv
=============================================================================
