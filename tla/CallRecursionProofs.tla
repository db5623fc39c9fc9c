-------------------------- MODULE CallRecursionProofs --------------------------
(***************************************************************************)
(* Proofs about analyzeRecursion: the components that tarjanScc finds are  *)
(* the classes of functions that call each other, and the shortest cycle   *)
(* and the cycles listed for each recursive one are those it has.          *)
(*                                                                         *)
(* First tarjanScc: TarjanInv is its inductive invariant.  The component   *)
(* at hand is then a set of functions that reach each other without        *)
(* leaving it (AtHand), from which the two loops over its members follow:  *)
(* SearchInv is the invariant of the breadth-first search, CircuitInv that *)
(* of the enumeration, and RecursionInv joins the three.                   *)
(***************************************************************************)
EXTENDS CallRecursion, FiniteSetTheorems, SequenceTheorems, TLAPS

\* What a sequence holds once an element is added or taken at either end.
LEMMA HoldsAppended ==
    ASSUME NEW S, NEW s \in Seq(S), NEW e \in S
    PROVE  ToSet(Append(s, e)) = ToSet(s) \cup {e}
<1> DEFINE t == Append(s, e)
<1>1. /\ Len(s) \in Nat /\ DOMAIN s = 1..Len(s) /\ t \in Seq(S) /\ Len(t) = Len(s) + 1
      /\ \A i \in 1..Len(s) : t[i] = s[i]
      /\ t[Len(s) + 1] = e
  BY AppendProperties, LenProperties
<1>2. DOMAIN t = 1..(Len(s) + 1)
  BY <1>1, LenProperties
<1> HIDE DEF t
<1>3. ToSet(t) \subseteq ToSet(s) \cup {e}
  BY <1>1, <1>2 DEF ToSet
<1>4. ToSet(s) \subseteq ToSet(t)
  <2>1. \A i \in 1..Len(s) : i \in 1..(Len(s) + 1)
    BY <1>1
  <2> QED
    BY <1>1, <1>2, <2>1 DEF ToSet
<1>5. e \in ToSet(t)
  <2>1. Len(s) + 1 \in 1..(Len(s) + 1)
    BY <1>1
  <2> QED
    BY <1>1, <1>2, <2>1 DEF ToSet
<1> QED
  BY <1>3, <1>4, <1>5 DEF t

LEMMA HoldsTail ==
    ASSUME NEW S, NEW s \in Seq(S), s # <<>>
    PROVE  /\ Head(s) \in S /\ Tail(s) \in Seq(S)
           /\ ToSet(s) = {Head(s)} \cup ToSet(Tail(s))
<1> DEFINE t == Tail(s)
<1>1. /\ Len(s) \in Nat /\ Len(s) # 0 /\ DOMAIN s = 1..Len(s)
      /\ t \in Seq(S) /\ Len(t) = Len(s) - 1 /\ DOMAIN t = 1..(Len(s) - 1)
      /\ Head(s) = s[1] /\ Head(s) \in S
      /\ \A i \in 1..Len(t) : t[i] = s[i + 1]
  BY HeadTailProperties, LenProperties, EmptySeq
<1> HIDE DEF t
<1>2. ToSet(s) \subseteq {s[1]} \cup ToSet(t)
  <2>1. \A i \in 1..Len(s) : i = 1 \/ (i - 1 \in 1..(Len(s) - 1) /\ s[i] = t[i - 1])
    BY <1>1
  <2> QED
    BY <1>1, <2>1 DEF ToSet
<1>3. s[1] \in ToSet(s)
  <2>1. 1 \in 1..Len(s)
    BY <1>1
  <2> QED
    BY <1>1, <2>1 DEF ToSet
<1>4. ToSet(t) \subseteq ToSet(s)
  <2>1. \A i \in 1..(Len(s) - 1) : i + 1 \in 1..Len(s) /\ t[i] = s[i + 1]
    BY <1>1
  <2> QED
    BY <1>1, <2>1 DEF ToSet
<1> QED
  BY <1>1, <1>2, <1>3, <1>4 DEF t

LEMMA HoldsFront ==
    ASSUME NEW S, NEW s \in Seq(S), s # <<>>
    PROVE  /\ Len(s) \in Nat \ {0} /\ Last(s) = s[Len(s)] /\ Last(s) \in S
           /\ Front(s) \in Seq(S) /\ Len(Front(s)) = Len(s) - 1
           /\ \A i \in 1..(Len(s) - 1) : Front(s)[i] = s[i]
           /\ ToSet(s) = ToSet(Front(s)) \cup {Last(s)}
<1> DEFINE t == Front(s)
           n == Len(s)
<1>1. n \in Nat /\ n # 0 /\ DOMAIN s = 1..n /\ \A i \in 1..n : s[i] \in S
  BY LenProperties, EmptySeq, ElementOfSeq
<1>2. /\ t \in Seq(S) /\ Len(t) = n - 1
      /\ \A i \in 1..(n - 1) : t[i] = s[i]
  <2>1. 1 \in Int /\ n - 1 \in Int /\ (\A i \in 1..(n - 1) : s[i] \in S)
    BY <1>1
  <2> HIDE DEF n
  <2>2. /\ SubSeq(s, 1, n - 1) \in Seq(S)
        /\ Len(SubSeq(s, 1, n - 1)) = IF 1 <= n - 1 THEN (n - 1) - 1 + 1 ELSE 0
        /\ \A i \in 1..((n - 1) - 1 + 1) : SubSeq(s, 1, n - 1)[i] = s[1 + i - 1]
    BY <2>1, SubSeqProperties
  <2>3. t = SubSeq(s, 1, n - 1)
    BY DEF Front, n
  <2>4. Len(t) = n - 1
    BY <1>1, <2>2, <2>3
  <2>5. \A i \in 1..(n - 1) : t[i] = s[i]
    BY <1>1, <2>2, <2>3
  <2> QED
    BY <2>2, <2>3, <2>4, <2>5
<1>3. DOMAIN t = 1..(n - 1)
  BY <1>2, LenProperties
<1>4. Last(s) = s[n] /\ n \in 1..n
  BY <1>1 DEF Last
<1> HIDE DEF t, n
<1>5. \A i \in 1..n : i = n \/ i \in 1..(n - 1)
  BY <1>1
<1>6. \A i \in 1..(n - 1) : i \in 1..n
  BY <1>1
<1>7. ToSet(s) = ToSet(t) \cup {s[n]}
  BY <1>1, <1>2, <1>3, <1>4, <1>5, <1>6 DEF ToSet
<1> QED
  BY <1>1, <1>2, <1>4, <1>7 DEF t, n

\* A sequence in the order of the numbers g gives to what it holds.
Rises(g, s) == \A i, j \in 1..Len(s) : i < j => g[s[i]] < g[s[j]]

LEMMA RisesAppended ==
    ASSUME NEW S, NEW s \in Seq(S), NEW w \in S, NEW g, NEW h, Rises(g, s),
           \A v \in ToSet(s) : h[v] = g[v] /\ g[v] < h[w]
    PROVE  Rises(h, Append(s, w))
<1> DEFINE t == Append(s, w)
<1>1. /\ Len(s) \in Nat /\ DOMAIN s = 1..Len(s) /\ Len(t) = Len(s) + 1
      /\ \A i \in 1..Len(s) : t[i] = s[i]
      /\ t[Len(s) + 1] = w
  BY AppendProperties, LenProperties
<1>2. \A i \in 1..Len(s) : s[i] \in ToSet(s)
  BY <1>1 DEF ToSet
<1> HIDE DEF t
<1>3. ASSUME NEW i \in 1..Len(t), NEW j \in 1..Len(t), i < j
      PROVE  h[t[i]] < h[t[j]]
  <2>1. i \in 1..Len(s) /\ (j = Len(s) + 1 \/ j \in 1..Len(s))
    BY <1>1, <1>3
  <2>2. CASE j = Len(s) + 1
    BY <1>1, <1>2, <2>1, <2>2
  <2>3. CASE j \in 1..Len(s)
    BY <1>1, <1>2, <1>3, <2>1, <2>3 DEF Rises
  <2> QED
    BY <2>1, <2>2, <2>3
<1> QED
  BY <1>3 DEF Rises, t

LEMMA RisesFront ==
    ASSUME NEW S, NEW s \in Seq(S), s # <<>>, NEW g, Rises(g, s)
    PROVE  /\ Rises(g, Front(s))
           /\ \A v \in ToSet(Front(s)) : g[v] < g[Last(s)]
<1> DEFINE t == Front(s)
           n == Len(s)
<1>1. /\ n \in Nat \ {0} /\ Last(s) = s[n] /\ t \in Seq(S) /\ Len(t) = n - 1
      /\ \A i \in 1..(n - 1) : t[i] = s[i]
  BY HoldsFront
<1>2. DOMAIN t = 1..(n - 1)
  BY <1>1, LenProperties
<1>3. \A i, j \in 1..n : i < j => g[s[i]] < g[s[j]]
  BY DEF Rises
<1> HIDE DEF t, n
<1>4. \A i \in 1..(n - 1) : i \in 1..n /\ i < n /\ n \in 1..n
  BY <1>1
<1>5. Rises(g, t)
  BY <1>1, <1>3, <1>4 DEF Rises
<1>6. \A v \in ToSet(t) : g[v] < g[Last(s)]
  BY <1>1, <1>2, <1>3, <1>4 DEF ToSet
<1> QED
  BY <1>5, <1>6 DEF t

LEMMA RisesCut ==
    ASSUME NEW S, NEW s \in Seq(S), NEW g \in [S -> Int], Rises(g, s), NEW b \in 1..Len(s)
    PROVE  /\ SubSeq(s, 1, b - 1) \in Seq(S) /\ Rises(g, SubSeq(s, 1, b - 1))
           /\ ToSet(SubSeq(s, 1, b - 1)) = {v \in ToSet(s) : g[v] < g[s[b]]}
           /\ ToSet(SubSeq(s, b, Len(s))) = {v \in ToSet(s) : g[s[b]] <= g[v]}
<1> DEFINE n == Len(s)
           t == SubSeq(s, 1, b - 1)
           u == SubSeq(s, b, n)
<1>1. n \in Nat /\ DOMAIN s = 1..n /\ \A i \in 1..n : s[i] \in S
  BY LenProperties, ElementOfSeq
<1>2. b \in Int /\ 1 <= b /\ b <= n
  BY <1>1
<1>3. \A i, j \in 1..n : i < j => g[s[i]] < g[s[j]]
  BY DEF Rises
<1>4. t \in Seq(S) /\ Len(t) = b - 1 /\ \A i \in 1..(b - 1) : t[i] = s[i]
  <2>1. \A i \in 1..(b - 1) : s[i] \in S
    BY <1>1, <1>2
  <2>2. /\ SubSeq(s, 1, b - 1) \in Seq(S)
        /\ Len(SubSeq(s, 1, b - 1)) = IF 1 <= b - 1 THEN (b - 1) - 1 + 1 ELSE 0
        /\ \A i \in 1..((b - 1) - 1 + 1) : SubSeq(s, 1, b - 1)[i] = s[1 + i - 1]
    BY <1>2, <2>1, SubSeqProperties
  <2> QED
    BY <1>2, <2>2
<1>5. u \in Seq(S) /\ Len(u) = n - b + 1 /\ \A i \in 1..(n - b + 1) : u[i] = s[b + i - 1]
  <2>1. \A i \in b..n : s[i] \in S
    BY <1>1, <1>2
  <2> HIDE DEF n
  <2>2. /\ SubSeq(s, b, n) \in Seq(S)
        /\ Len(SubSeq(s, b, n)) = IF b <= n THEN n - b + 1 ELSE 0
        /\ \A i \in 1..(n - b + 1) : SubSeq(s, b, n)[i] = s[b + i - 1]
    BY <1>1, <1>2, <2>1, SubSeqProperties
  <2> QED
    BY <1>1, <1>2, <2>2
<1>6. DOMAIN t = 1..(b - 1) /\ DOMAIN u = 1..(n - b + 1)
  BY <1>4, <1>5, LenProperties
<1> HIDE DEF n, t, u
<1>7. \A i, j \in 1..n : g[s[i]] \in Int /\ (i < j <=> g[s[i]] < g[s[j]])
  <2> SUFFICES ASSUME NEW i \in 1..n, NEW j \in 1..n
               PROVE  g[s[i]] \in Int /\ (i < j <=> g[s[i]] < g[s[j]])
    OBVIOUS
  <2>1. g[s[i]] \in Int /\ g[s[j]] \in Int
    BY <1>1
  <2>2. i < j \/ i = j \/ j < i
    OBVIOUS
  <2> QED
    BY <1>3, <2>1, <2>2
<1>8. Rises(g, t)
  <2>1. \A i \in 1..(b - 1) : i \in 1..n
    BY <1>1, <1>2
  <2>2. ASSUME NEW i \in 1..(b - 1), NEW j \in 1..(b - 1), i < j PROVE g[t[i]] < g[t[j]]
    <3>1. g[s[i]] < g[s[j]]
      BY <1>3, <2>1, <2>2
    <3> QED
      BY <1>4, <3>1
  <2> QED
    BY <1>4, <2>2 DEF Rises
<1>9. ToSet(t) = {v \in ToSet(s) : g[v] < g[s[b]]}
  <2>1. ToSet(t) = {s[i] : i \in 1..(b - 1)}
    BY <1>4, <1>6 DEF ToSet
  <2>2. \A i \in 1..n : i \in 1..(b - 1) <=> g[s[i]] < g[s[b]]
    BY <1>1, <1>2, <1>7
  <2>3. \A i \in 1..(b - 1) : i \in 1..n
    BY <1>1, <1>2
  <2> QED
    BY <1>1, <2>1, <2>2, <2>3 DEF ToSet
<1>10. ToSet(u) = {v \in ToSet(s) : g[s[b]] <= g[v]}
  <2>1. ToSet(u) = {s[b + i - 1] : i \in 1..(n - b + 1)}
    BY <1>5, <1>6 DEF ToSet
  <2>2. \A i \in 1..(n - b + 1) : b + i - 1 \in b..n
    BY <1>1, <1>2
  <2>3. \A i \in b..n : i - b + 1 \in 1..(n - b + 1) /\ b + (i - b + 1) - 1 = i
    BY <1>1, <1>2
  <2>4. ToSet(u) = {s[i] : i \in b..n}
    BY <2>1, <2>2, <2>3
  <2>5. \A i \in 1..n : i \in b..n <=> g[s[b]] <= g[s[i]]
    BY <1>1, <1>2, <1>7
  <2>6. \A i \in b..n : i \in 1..n
    BY <1>1, <1>2
  <2> QED
    BY <1>1, <2>4, <2>5, <2>6 DEF ToSet
<1> QED
  BY <1>4, <1>8, <1>9, <1>10 DEF t, u, n

\* What calls what, directly or through others.
LeadsTo(v, w) == v = w \/ Calling(v, w)

LEMMA CalledFunctions == \A v \in Functions : Called(v) \subseteq Functions
BY DEF Called

LEMMA CallingCalled == \A v \in Functions : \A w \in Called(v) : Calling(v, w)
BY DEF Calling

LEMMA CallingTransitive ==
    ASSUME NEW u \in Functions, NEW v \in Functions, NEW w \in Functions, Calling(u, v), Calling(v, w)
    PROVE  Calling(u, w)
<1> SUFFICES ASSUME NEW S \in SUBSET Functions, Called(u) \subseteq S,
                    \A x \in S : Called(x) \subseteq S
             PROVE  w \in S
  BY DEF Calling
<1>1. v \in S
  BY DEF Calling
<1>2. Called(v) \subseteq S
  BY <1>1
<1> QED
  BY <1>2 DEF Calling

LEMMA LeadsToFacts ==
    /\ \A v \in Functions : LeadsTo(v, v)
    /\ \A v \in Functions : \A w \in Called(v) : w \in Functions /\ LeadsTo(v, w)
    /\ \A u, v, w \in Functions : LeadsTo(u, v) /\ LeadsTo(v, w) => LeadsTo(u, w)
BY CalledFunctions, CallingCalled, CallingTransitive DEF LeadsTo

\* A chain of calls begins with a call.
LEMMA CallingThrough ==
    ASSUME NEW v \in Functions, NEW w \in Functions, Calling(v, w)
    PROVE  \E u \in Called(v) : LeadsTo(u, w)
<1> DEFINE S == {x \in Functions : \E u \in Called(v) : LeadsTo(u, x)}
<1>1. S \in SUBSET Functions
  OBVIOUS
<1>2. Called(v) \subseteq S
  BY CalledFunctions, LeadsToFacts
<1>3. ASSUME NEW x \in S, NEW y \in Called(x) PROVE y \in S
  <2>1. PICK u \in Called(v) : LeadsTo(u, x)
    OBVIOUS
  <2>2. u \in Functions /\ y \in Functions /\ LeadsTo(x, y)
    BY CalledFunctions, LeadsToFacts
  <2>3. LeadsTo(u, y)
    BY <2>1, <2>2, LeadsToFacts
  <2> QED
    BY <2>2, <2>3
<1> HIDE DEF S
<1>4. w \in S
  BY <1>1, <1>2, <1>3 DEF Calling
<1> QED
  BY <1>4 DEF S

LEMMA SameCalls ==
    ASSUME UNCHANGED calls
    PROVE  /\ Functions' = Functions
           /\ \A v : Called(v)' = Called(v)
           /\ \A v, w : Calling(v, w)' = Calling(v, w)
           /\ \A v, w : LeadsTo(v, w)' = LeadsTo(v, w)
BY DEF Functions, Called, Calling, LeadsTo

-----------------------------------------------------------------------------
(* the inductive invariant                                                 *)

IsOpen(v) == v \in ToSet(opened)
InFrame(v) == v \in ToSet(frames)
Known(v) == index[v] # Unset
Emitted(v) == \E i \in 1..Len(sccs) : v \in sccs[i]
Tried(v) == Called(v) \ ToSet(ahead[v + 1])

TarjanTypeOK == /\ calls \in Seq(Seq(Nat)) /\ ahead \in Seq(Seq(Nat)) /\ Len(ahead) = Len(calls)
                /\ counter \in Nat
                /\ index \in [Functions -> Nat \cup {Unset}]
                /\ lowlink \in [Functions -> Nat \cup {Unset}]
                /\ opened \in Seq(Functions) /\ frames \in Seq(Functions)
                /\ sccs \in Seq(SUBSET Functions)

\* A function is numbered once it is entered, and from then on it is on the
\* stack or in a component.
Entered == \A v \in Functions : /\ Known(v) <=> IsOpen(v) \/ Emitted(v)
                                /\ Known(v) => index[v] < counter

EmittedOnce == /\ \A v \in Functions : ~(IsOpen(v) /\ Emitted(v))
               /\ \A i \in 1..Len(sccs) : sccs[i] # {}
               /\ \A i, j \in 1..Len(sccs) : i # j => sccs[i] \cap sccs[j] = {}

\* The stack and the frames are in the order of the numbers.
StacksRise == Rises(index, opened) /\ Rises(index, frames) /\ ToSet(frames) \subseteq ToSet(opened)

\* A function has seen its calls when it returns, and entered those it saw.
CallsTried == \A v \in Functions :
    /\ ToSet(ahead[v + 1]) \subseteq ToSet(calls[v + 1])
    /\ ~Known(v) => ahead[v + 1] = calls[v + 1]
    /\ Known(v) /\ ~InFrame(v) => ahead[v + 1] = <<>>
    /\ Known(v) => \A w \in Tried(v) : Known(w)

\* lowlink is the number of an open function that is called from v.
LowlinkReached == \A v \in Functions : IsOpen(v) =>
    /\ lowlink[v] <= index[v]
    /\ \E u \in Functions : IsOpen(u) /\ lowlink[v] = index[u] /\ LeadsTo(v, u)

\* An open function leads to those above it and back to a frame below it.
OpenUpwards == \A x, y \in Functions :
    IsOpen(x) /\ IsOpen(y) /\ index[x] <= index[y] => LeadsTo(x, y)
OpenBack == \A x \in Functions : IsOpen(x) =>
    \E f \in Functions : InFrame(f) /\ index[f] <= index[x] /\ LeadsTo(x, f)

\* f is the last frame from which x was entered.
Below(f, x) == /\ index[f] <= index[x]
               /\ \A g \in Functions : InFrame(g) /\ index[g] <= index[x] => index[g] <= index[f]

\* No call that was seen below a frame leads further down than its lowlink.
LowlinkCovers == \A f, x \in Functions : InFrame(f) /\ IsOpen(x) /\ Below(f, x) =>
    \A w \in Tried(x) : IsOpen(w) => lowlink[f] <= index[w]

\* A component calls itself and earlier ones, and its members each other.
SccsClosed == \A i \in 1..Len(sccs) : \A v \in sccs[i] :
    /\ \A w \in Called(v) : \E j \in 1..i : w \in sccs[j]
    /\ \A w \in sccs[i] : LeadsTo(v, w)

TarjanInv == /\ TarjanTypeOK /\ Entered /\ EmittedOnce /\ StacksRise /\ CallsTried
             /\ LowlinkReached /\ OpenUpwards /\ OpenBack /\ LowlinkCovers /\ SccsClosed

-----------------------------------------------------------------------------
(* the steps                                                               *)

\* The parts of the invariant, each seen through IsOpen, InFrame and Known.
LEMMA TarjanFacts ==
    ASSUME TarjanInv
    PROVE  /\ Len(calls) \in Nat /\ Len(ahead) = Len(calls)
           /\ \A v \in Functions : v + 1 \in 1..Len(ahead)
           /\ \A v \in Functions : ahead[v + 1] \in Seq(Nat)
           /\ \A v : IsOpen(v) => v \in Functions
           /\ \A v : InFrame(v) => IsOpen(v)
           /\ \A v \in Functions : Known(v) <=> index[v] \in Nat
           /\ \A v \in Functions : index[v] \in Int /\ lowlink[v] \in Int
           /\ DOMAIN sccs = 1..Len(sccs) /\ Len(sccs) \in Nat
<1>1. /\ Len(calls) \in Nat /\ Len(ahead) = Len(calls) /\ ahead \in Seq(Seq(Nat))
      /\ opened \in Seq(Functions) /\ sccs \in Seq(SUBSET Functions)
      /\ index \in [Functions -> Nat \cup {Unset}] /\ lowlink \in [Functions -> Nat \cup {Unset}]
  BY LenProperties DEF TarjanInv, TarjanTypeOK
<1>2. \A v \in Functions : v + 1 \in 1..Len(ahead)
  BY <1>1 DEF Functions
<1>3. \A v \in Functions : ahead[v + 1] \in Seq(Nat)
  BY <1>1, <1>2, ElementOfSeq
<1>4. \A v : IsOpen(v) => v \in Functions
  BY <1>1, LenProperties, ElementOfSeq DEF IsOpen, ToSet
<1>5. \A v : InFrame(v) => IsOpen(v)
  BY DEF TarjanInv, StacksRise, InFrame, IsOpen
<1>6. \A v \in Functions : Known(v) <=> index[v] \in Nat
  BY <1>1 DEF Known, Unset
<1>7. \A v \in Functions : index[v] \in Int /\ lowlink[v] \in Int
  BY <1>1 DEF Unset
<1>8. DOMAIN sccs = 1..Len(sccs) /\ Len(sccs) \in Nat
  BY <1>1, LenProperties
<1> QED
  BY <1>1, <1>2, <1>3, <1>4, <1>5, <1>6, <1>7, <1>8

\* strongConnect is entered for w, which every open function leads to; at most
\* w is new among the calls that were seen.
LEMMA EnterInv ==
    ASSUME TarjanInv, NEW w \in Functions, ~Known(w), Enter(w),
           ahead' \in Seq(Seq(Nat)), Len(ahead') = Len(ahead),
           \A v \in Functions : /\ ~InFrame(v) => ahead'[v + 1] = ahead[v + 1]
                                /\ ToSet(ahead'[v + 1]) \subseteq ToSet(ahead[v + 1])
                                /\ Tried(v)' \subseteq Tried(v) \cup {w},
           \A x \in Functions : IsOpen(x) => LeadsTo(x, w)
    PROVE  TarjanInv'
<1>1. /\ UNCHANGED <<calls, sccs>> /\ counter \in Nat /\ counter' = counter + 1
      /\ Functions' = Functions
      /\ \A v : Called(v)' = Called(v)
      /\ \A v, x : LeadsTo(v, x)' = LeadsTo(v, x)
      /\ calls \in Seq(Seq(Nat)) /\ sccs \in Seq(SUBSET Functions)
      /\ index \in [Functions -> Nat \cup {Unset}] /\ lowlink \in [Functions -> Nat \cup {Unset}]
      /\ opened \in Seq(Functions) /\ frames \in Seq(Functions)
  BY SameCalls DEF Enter, TarjanInv, TarjanTypeOK
<1>2. /\ \A v : IsOpen(v) => v \in Functions
      /\ \A v : InFrame(v) => IsOpen(v)
      /\ \A v \in Functions : Known(v) <=> index[v] \in Nat
      /\ \A v \in Functions : index[v] \in Int /\ lowlink[v] \in Int
  BY TarjanFacts
<1>3. /\ index' \in [Functions -> Nat \cup {Unset}] /\ lowlink' \in [Functions -> Nat \cup {Unset}]
      /\ index'[w] = counter /\ lowlink'[w] = counter
      /\ \A v \in Functions \ {w} : index'[v] = index[v] /\ lowlink'[v] = lowlink[v]
  BY <1>1 DEF Enter
<1>4. /\ opened' = Append(opened, w) /\ frames' = Append(frames, w)
      /\ opened' \in Seq(Functions) /\ frames' \in Seq(Functions)
      /\ ToSet(opened') = ToSet(opened) \cup {w} /\ ToSet(frames') = ToSet(frames) \cup {w}
  BY <1>1, AppendProperties, HoldsAppended DEF Enter
<1>5. /\ \A v : IsOpen(v)' <=> IsOpen(v) \/ v = w
      /\ \A v : InFrame(v)' <=> InFrame(v) \/ v = w
      /\ \A v : Emitted(v)' <=> Emitted(v)
  BY <1>1, <1>4 DEF IsOpen, InFrame, Emitted
<1>6. /\ \A v \in Functions : Known(v) <=> IsOpen(v) \/ Emitted(v)
      /\ \A v \in Functions : Known(v) => index[v] < counter
      /\ \A v \in Functions : ~(IsOpen(v) /\ Emitted(v))
      /\ ~IsOpen(w) /\ ~InFrame(w) /\ ~Emitted(w)
  BY <1>2 DEF TarjanInv, Entered, EmittedOnce
<1>7. \A v \in Functions : Known(v)' <=> Known(v) \/ v = w
  BY <1>1, <1>3 DEF Known, Unset
<1>8. \A v : IsOpen(v) => /\ v \in Functions \ {w} /\ index[v] \in Nat /\ index[v] < counter
                          /\ index'[v] = index[v] /\ lowlink'[v] = lowlink[v]
  BY <1>2, <1>3, <1>6
<1>9. TarjanTypeOK'
  BY <1>1, <1>3, <1>4 DEF TarjanInv, TarjanTypeOK
<1>10. Entered'
  <2> SUFFICES ASSUME NEW v \in Functions
               PROVE  /\ Known(v)' <=> IsOpen(v)' \/ Emitted(v)'
                      /\ Known(v)' => index'[v] < counter'
    BY <1>1 DEF Entered
  <2>1. Known(v)' <=> IsOpen(v)' \/ Emitted(v)'
    BY <1>5, <1>6, <1>7
  <2>2. CASE v = w
    BY <1>1, <1>3, <2>1, <2>2
  <2>3. ASSUME v # w, Known(v)' PROVE index'[v] < counter'
    <3>1. Known(v) /\ index[v] < counter /\ index[v] \in Int /\ index'[v] = index[v]
      BY <1>2, <1>3, <1>6, <1>7, <2>3
    <3> QED
      BY <1>1, <3>1
  <2> QED
    BY <2>1, <2>2, <2>3
<1>11. EmittedOnce'
  BY <1>1, <1>5, <1>6 DEF TarjanInv, EmittedOnce
<1>12. StacksRise'
  <2>1. \A v \in ToSet(opened) : index'[v] = index[v] /\ index[v] < index'[w]
    BY <1>3, <1>8 DEF IsOpen
  <2>2. ToSet(frames) \subseteq ToSet(opened) /\ Rises(index, opened) /\ Rises(index, frames)
    BY DEF TarjanInv, StacksRise
  <2>3. \A v \in ToSet(frames) : index'[v] = index[v] /\ index[v] < index'[w]
    BY <2>1, <2>2
  <2>4. Rises(index', Append(opened, w))
    BY <1>1, <2>1, <2>2, RisesAppended
  <2>5. Rises(index', Append(frames, w))
    BY <1>1, <2>2, <2>3, RisesAppended
  <2> QED
    BY <1>4, <2>2, <2>4, <2>5 DEF StacksRise, Rises
<1>13. CallsTried'
  <2> SUFFICES ASSUME NEW v \in Functions
               PROVE  /\ ToSet(ahead'[v + 1]) \subseteq ToSet(calls[v + 1])
                      /\ ~Known(v)' => ahead'[v + 1] = calls[v + 1]
                      /\ Known(v)' /\ ~InFrame(v)' => ahead'[v + 1] = <<>>
                      /\ Known(v)' => \A x \in Tried(v)' : Known(x)'
    BY <1>1 DEF CallsTried
  <2>1. /\ ToSet(ahead[v + 1]) \subseteq ToSet(calls[v + 1])
        /\ ~Known(v) => ahead[v + 1] = calls[v + 1]
        /\ Known(v) /\ ~InFrame(v) => ahead[v + 1] = <<>>
        /\ Known(v) => \A x \in Tried(v) : Known(x)
    BY DEF TarjanInv, CallsTried
  <2>2. ToSet(ahead'[v + 1]) \subseteq ToSet(calls[v + 1])
    BY <2>1
  <2>3. ASSUME ~Known(v)' PROVE ahead'[v + 1] = calls[v + 1]
    <3>1. ~Known(v) /\ ~InFrame(v)
      BY <1>2, <1>6, <1>7, <2>3
    <3> QED
      BY <2>1, <3>1
  <2>4. ASSUME Known(v)', ~InFrame(v)' PROVE ahead'[v + 1] = <<>>
    <3>1. Known(v) /\ ~InFrame(v)
      BY <1>5, <1>7, <2>4
    <3> QED
      BY <2>1, <3>1
  <2>5. ASSUME Known(v)', NEW x \in Tried(v)' PROVE Known(x)'
    <3>1. x \in Functions /\ (x \in Tried(v) \/ x = w)
      BY <1>1, CalledFunctions DEF Tried
    <3>2. CASE v = w
      <4>1. Tried(v) = {}
        BY <2>1, <3>2 DEF Tried, Called
      <4> QED
        BY <1>7, <3>1, <4>1
    <3>3. CASE v # w
      <4>1. Known(v)
        BY <1>7, <2>5, <3>3
      <4> QED
        BY <1>7, <2>1, <3>1, <4>1
    <3> QED
      BY <3>2, <3>3
  <2> QED
    BY <2>2, <2>3, <2>4, <2>5
<1>14. LowlinkReached'
  <2> SUFFICES ASSUME NEW v \in Functions, IsOpen(v)'
               PROVE  /\ lowlink'[v] <= index'[v]
                      /\ \E u \in Functions : IsOpen(u)' /\ lowlink'[v] = index'[u] /\ LeadsTo(v, u)
    BY <1>1 DEF LowlinkReached
  <2>1. CASE v = w
    BY <1>1, <1>3, <1>5, <2>1, LeadsToFacts
  <2>2. CASE IsOpen(v)
    <3>1. PICK u \in Functions : IsOpen(u) /\ lowlink[v] = index[u] /\ LeadsTo(v, u)
      BY <2>2 DEF TarjanInv, LowlinkReached
    <3>2. lowlink[v] <= index[v]
      BY <2>2 DEF TarjanInv, LowlinkReached
    <3>3. IsOpen(u)' /\ lowlink'[v] = index'[u]
      BY <1>5, <1>8, <2>2, <3>1
    <3> QED
      BY <1>8, <2>2, <3>1, <3>2, <3>3
  <2> QED
    BY <1>5, <2>1, <2>2
<1>15. OpenUpwards'
  <2> SUFFICES ASSUME NEW x \in Functions, NEW y \in Functions,
                      IsOpen(x)', IsOpen(y)', index'[x] <= index'[y]
               PROVE  LeadsTo(x, y)
    BY <1>1 DEF OpenUpwards
  <2>1. CASE IsOpen(x) /\ IsOpen(y)
    BY <1>8, <2>1 DEF TarjanInv, OpenUpwards
  <2>2. CASE IsOpen(x) /\ y = w
    BY <2>2
  <2>3. CASE x = w /\ y = w
    BY <2>3, LeadsToFacts
  <2>4. CASE x = w /\ IsOpen(y)
    BY <1>1, <1>3, <1>8, <2>4
  <2> QED
    BY <1>5, <2>1, <2>2, <2>3, <2>4
<1>16. OpenBack'
  <2> SUFFICES ASSUME NEW x \in Functions, IsOpen(x)'
               PROVE  \E f \in Functions : InFrame(f)' /\ index'[f] <= index'[x] /\ LeadsTo(x, f)
    BY <1>1 DEF OpenBack
  <2>1. CASE x = w
    <3>1. InFrame(w)' /\ index'[w] <= index'[w] /\ LeadsTo(w, w)
      BY <1>1, <1>3, <1>5, LeadsToFacts
    <3> QED
      BY <2>1, <3>1
  <2>2. CASE IsOpen(x)
    <3>1. PICK f \in Functions : InFrame(f) /\ index[f] <= index[x] /\ LeadsTo(x, f)
      BY <2>2 DEF TarjanInv, OpenBack
    <3> QED
      BY <1>2, <1>5, <1>8, <2>2, <3>1
  <2> QED
    BY <1>5, <2>1, <2>2
<1>17. LowlinkCovers'
  <2> SUFFICES ASSUME NEW f \in Functions, NEW x \in Functions, InFrame(f)', IsOpen(x)', Below(f, x)',
                      NEW y \in Tried(x)', IsOpen(y)'
               PROVE  lowlink'[f] <= index'[y]
    BY <1>1 DEF LowlinkCovers
  <2>1. /\ index'[f] <= index'[x]
        /\ \A g \in Functions : InFrame(g)' /\ index'[g] <= index'[x] => index'[g] <= index'[f]
    BY <1>1 DEF Below
  <2>2. y \in Tried(x) \/ y = w
    OBVIOUS
  <2>3. CASE x = w
    <3>1. Tried(x) = {}
      BY <2>3 DEF TarjanInv, CallsTried, Tried, Called
    <3>2. y = w
      BY <2>2, <3>1
    <3>3. f \in Functions /\ lowlink'[f] <= counter
      <4>1. CASE f = w
        BY <1>1, <1>3, <4>1
      <4>2. CASE f # w
        <5>1. IsOpen(f)
          BY <1>2, <1>5, <4>2
        <5>2. lowlink[f] <= index[f] /\ index[f] < counter /\ lowlink[f] \in Int
          BY <1>2, <1>8, <5>1 DEF TarjanInv, LowlinkReached
        <5> QED
          BY <1>1, <1>2, <1>8, <5>1, <5>2
      <4> QED
        BY <4>1, <4>2
    <3> QED
      BY <1>3, <3>2, <3>3
  <2>4. CASE x # w
    <3>1. IsOpen(x) /\ f # w
      BY <1>1, <1>3, <1>5, <1>8, <2>1, <2>4
    <3>2. InFrame(f) /\ IsOpen(f)
      BY <1>2, <1>5, <3>1
    <3>3. Below(f, x)
      BY <1>2, <1>5, <1>8, <2>1, <3>1, <3>2 DEF Below
    <3>4. CASE y \in Tried(x) /\ y # w
      <4>1. IsOpen(y)
        BY <1>5, <3>4
      <4>2. lowlink[f] <= index[y]
        BY <3>1, <3>2, <3>3, <3>4, <4>1 DEF TarjanInv, LowlinkCovers
      <4> QED
        BY <1>8, <3>2, <4>1, <4>2
    <3>5. CASE y = w
      <4>1. lowlink[f] <= index[f] /\ index[f] < counter /\ lowlink[f] \in Int /\ lowlink'[f] = lowlink[f]
        BY <1>2, <1>8, <3>2 DEF TarjanInv, LowlinkReached
      <4> QED
        BY <1>1, <1>3, <1>8, <3>2, <3>5, <4>1
    <3> QED
      BY <2>2, <3>4, <3>5
  <2> QED
    BY <2>3, <2>4
<1>18. SccsClosed'
  BY <1>1 DEF TarjanInv, SccsClosed
<1> QED
  BY <1>9, <1>10, <1>11, <1>12, <1>13, <1>14, <1>15, <1>16, <1>17, <1>18 DEF TarjanInv

\* The innermost frame is the highest.
LEMMA CallerFacts ==
    ASSUME TarjanInv, frames # <<>>
    PROVE  /\ Caller \in Functions /\ InFrame(Caller) /\ IsOpen(Caller)
           /\ Known(Caller) /\ index[Caller] \in Nat /\ Caller + 1 \in 1..Len(ahead)
           /\ \A g \in Functions : InFrame(g) => index[g] <= index[Caller]
           /\ ahead[Caller + 1] \in Seq(Nat)
<1>1. frames \in Seq(Functions) /\ Rises(index, frames)
  BY DEF TarjanInv, TarjanTypeOK, StacksRise
<1>2. Caller \in Functions /\ ToSet(frames) = ToSet(Front(frames)) \cup {Caller}
  BY <1>1, HoldsFront DEF Caller
<1>3. InFrame(Caller) /\ IsOpen(Caller)
  BY <1>2, TarjanFacts DEF InFrame
<1>4. Known(Caller) /\ index[Caller] \in Nat
  BY <1>2, <1>3, TarjanFacts DEF TarjanInv, Entered
<1>5. ASSUME NEW g \in Functions, InFrame(g) PROVE index[g] <= index[Caller]
  <2>1. CASE g = Caller
    BY <1>4, <2>1
  <2>2. CASE g # Caller
    <3>1. g \in ToSet(Front(frames))
      BY <1>2, <1>5, <2>2 DEF InFrame
    <3>2. index[g] < index[Caller]
      BY <1>1, <3>1, RisesFront DEF Caller
    <3> QED
      BY <1>4, <3>2, TarjanFacts
  <2> QED
    BY <2>1, <2>2
<1> QED
  BY <1>2, <1>3, <1>4, <1>5, TarjanFacts

LEMMA TakeCallFacts ==
    ASSUME TarjanInv, NEW w, TakeCall(w), UNCHANGED calls
    PROVE  /\ w \in ToSet(calls[Caller + 1])
           /\ ahead' \in Seq(Seq(Nat)) /\ Len(ahead') = Len(ahead)
           /\ \A v \in Functions : /\ ~InFrame(v) => ahead'[v + 1] = ahead[v + 1]
                                   /\ ToSet(ahead'[v + 1]) \subseteq ToSet(ahead[v + 1])
                                   /\ v # Caller => Tried(v)' = Tried(v)
           /\ \A v \in Functions : v = Caller => Tried(v)' \subseteq Tried(v) \cup ({w} \cap Functions)
<1> DEFINE s == ahead[Caller + 1]
<1>1. /\ frames # <<>> /\ s # <<>> /\ w = Head(s)
      /\ ahead' = [ahead EXCEPT ![Caller + 1] = Tail(s)]
  BY DEF TakeCall
<1>2. /\ Caller \in Functions /\ InFrame(Caller) /\ Caller + 1 \in 1..Len(ahead)
      /\ s \in Seq(Nat) /\ ahead \in Seq(Seq(Nat))
  BY <1>1, CallerFacts DEF TarjanInv, TarjanTypeOK
<1>3. Tail(s) \in Seq(Nat) /\ ToSet(s) = {w} \cup ToSet(Tail(s))
  BY <1>1, <1>2, HoldsTail
<1>4. ToSet(s) \subseteq ToSet(calls[Caller + 1])
  BY <1>2 DEF TarjanInv, CallsTried
<1> HIDE DEF s
<1>5. /\ ahead' \in Seq(Seq(Nat)) /\ Len(ahead') = Len(ahead)
      /\ \A j \in 1..Len(ahead) : ahead'[j] = IF j = Caller + 1 THEN Tail(s) ELSE ahead[j]
  BY <1>1, <1>2, <1>3, ExceptSeq
<1>6. \A v \in Functions : v \in Int /\ v + 1 \in 1..Len(ahead)
  BY TarjanFacts DEF Functions
<1>7. ahead'[Caller + 1] = Tail(s)
  BY <1>2, <1>5
<1>8. ASSUME NEW v \in Functions, v # Caller PROVE ahead'[v + 1] = ahead[v + 1]
  <2>1. v + 1 # Caller + 1
    BY <1>2, <1>6, <1>8
  <2> QED
    BY <1>5, <1>6, <2>1
<1>9. /\ \A v : Called(v)' = Called(v)
      /\ \A v \in Functions : v # Caller => Tried(v)' = Tried(v)
  BY <1>8, SameCalls DEF Tried
<1>10. ASSUME NEW v \in Functions, v = Caller
       PROVE  Tried(v)' \subseteq Tried(v) \cup ({w} \cap Functions)
  <2>1. Tried(v)' = Called(v) \ ToSet(Tail(s))
    BY <1>7, <1>9, <1>10 DEF Tried
  <2>2. Tried(v) = Called(v) \ ToSet(s) /\ Called(v) \subseteq Functions
    BY <1>10, CalledFunctions DEF Tried, s
  <2> QED
    BY <1>3, <2>1, <2>2
<1>11. \A v \in Functions : /\ ~InFrame(v) => ahead'[v + 1] = ahead[v + 1]
                            /\ ToSet(ahead'[v + 1]) \subseteq ToSet(ahead[v + 1])
  <2> SUFFICES ASSUME NEW v \in Functions
               PROVE  /\ ~InFrame(v) => ahead'[v + 1] = ahead[v + 1]
                      /\ ToSet(ahead'[v + 1]) \subseteq ToSet(ahead[v + 1])
    OBVIOUS
  <2>1. CASE v = Caller
    BY <1>2, <1>3, <1>7, <2>1 DEF s
  <2>2. CASE v # Caller
    BY <1>8, <2>2
  <2> QED
    BY <2>1, <2>2
<1>12. w \in ToSet(calls[Caller + 1])
  BY <1>3, <1>4
<1> QED
  BY <1>5, <1>9, <1>10, <1>11, <1>12

LEMMA ConnectInv == TarjanInv /\ Connect => TarjanInv'
<1> SUFFICES ASSUME TarjanInv, Connect PROVE TarjanInv'
  OBVIOUS
<1>1. PICK w \in Functions : ~Known(w) /\ Enter(w)
  BY DEF Connect, Known
<1>2. UNCHANGED <<calls, ahead>> /\ frames = <<>>
  BY <1>1 DEF Connect, Enter
<1>3. \A x \in Functions : ~IsOpen(x)
  <2>1. \A f : ~InFrame(f)
    BY <1>2 DEF InFrame, ToSet
  <2> QED
    BY <2>1 DEF TarjanInv, OpenBack
<1>4. \A v : Tried(v)' = Tried(v)
  BY <1>2, SameCalls DEF Tried
<1>5. ahead \in Seq(Seq(Nat))
  BY DEF TarjanInv, TarjanTypeOK
<1> QED
  BY <1>1, <1>2, <1>3, <1>4, <1>5, EnterInv

LEMMA FollowNewInv == TarjanInv /\ FollowNew => TarjanInv'
<1> SUFFICES ASSUME TarjanInv, FollowNew PROVE TarjanInv'
  OBVIOUS
<1>1. PICK w \in Functions : TakeCall(w) /\ ~Known(w) /\ Enter(w)
  BY DEF FollowNew, Known
<1>2. UNCHANGED calls /\ frames # <<>>
  BY <1>1 DEF Enter, TakeCall
<1>3. /\ Caller \in Functions /\ InFrame(Caller) /\ IsOpen(Caller)
      /\ \A g \in Functions : InFrame(g) => index[g] <= index[Caller]
  BY <1>2, CallerFacts
<1>4. w \in Called(Caller)
  BY <1>1, <1>2, TakeCallFacts DEF Called
<1>5. ASSUME NEW x \in Functions, IsOpen(x) PROVE LeadsTo(x, w)
  <2>1. PICK f \in Functions : InFrame(f) /\ LeadsTo(x, f)
    BY <1>5 DEF TarjanInv, OpenBack
  <2>2. IsOpen(f) /\ index[f] <= index[Caller]
    BY <1>3, <2>1, TarjanFacts
  <2>3. LeadsTo(f, Caller)
    BY <1>3, <2>2 DEF TarjanInv, OpenUpwards
  <2>4. LeadsTo(Caller, w)
    BY <1>3, <1>4, LeadsToFacts
  <2> QED
    BY <1>3, <2>1, <2>3, <2>4, LeadsToFacts
<1>6. \A v \in Functions : /\ ~InFrame(v) => ahead'[v + 1] = ahead[v + 1]
                           /\ ToSet(ahead'[v + 1]) \subseteq ToSet(ahead[v + 1])
                           /\ v # Caller => Tried(v)' = Tried(v)
  BY <1>1, <1>2, TakeCallFacts
<1>7. \A v \in Functions : v = Caller => Tried(v)' \subseteq Tried(v) \cup ({w} \cap Functions)
  BY <1>1, <1>2, TakeCallFacts
<1>8. \A v \in Functions : Tried(v)' \subseteq Tried(v) \cup {w}
  BY <1>6, <1>7
<1>9. ahead' \in Seq(Seq(Nat)) /\ Len(ahead') = Len(ahead)
  BY <1>1, <1>2, TakeCallFacts
<1> QED
  BY <1>1, <1>5, <1>6, <1>8, <1>9, EnterInv

\* No two functions on the stack have the same number.
LEMMA IndexApart ==
    ASSUME TarjanInv, NEW x, NEW y, IsOpen(x), IsOpen(y), index[x] = index[y]
    PROVE  x = y
<1>1. opened \in Seq(Functions) /\ Rises(index, opened)
  BY DEF TarjanInv, TarjanTypeOK, StacksRise
<1>2. DOMAIN opened = 1..Len(opened) /\ Len(opened) \in Nat
  BY <1>1, LenProperties
<1>3. PICK i \in 1..Len(opened), j \in 1..Len(opened) : x = opened[i] /\ y = opened[j]
  BY <1>2 DEF IsOpen, ToSet
<1>4. index[x] \in Int
  BY TarjanFacts
<1>5. ~(i < j) /\ ~(j < i)
  BY <1>1, <1>3, <1>4 DEF Rises
<1> QED
  BY <1>2, <1>3, <1>5

LEMMA OpenLowlink ==
    ASSUME TarjanInv, NEW v \in Functions, IsOpen(v)
    PROVE  lowlink[v] \in Nat
<1>1. PICK u \in Functions : IsOpen(u) /\ lowlink[v] = index[u]
  BY DEF TarjanInv, LowlinkReached
<1>2. index[u] \in Nat
  BY <1>1, TarjanFacts DEF TarjanInv, Entered
<1> QED
  BY <1>1, <1>2

\* The innermost frame has looked at its call of w: its lowlink is not above w
\* if w is open.
LEMMA FollowInv ==
    ASSUME TarjanInv, NEW w, TakeCall(w), w \in Functions => Known(w),
           UNCHANGED <<calls, index, counter, opened, frames, sccs>>,
           NEW l \in Nat, lowlink' = [lowlink EXCEPT ![Caller] = l],
           l <= lowlink[Caller], IsOpen(w) => l <= index[w],
           l = lowlink[Caller] \/ (IsOpen(w) /\ l = index[w])
    PROVE  TarjanInv'
<1>1. /\ UNCHANGED <<calls, index, counter, opened, frames, sccs>>
      /\ Functions' = Functions
      /\ \A v : Called(v)' = Called(v)
      /\ \A v, x : LeadsTo(v, x)' = LeadsTo(v, x)
      /\ \A v : IsOpen(v)' <=> IsOpen(v)
      /\ \A v : InFrame(v)' <=> InFrame(v)
      /\ \A v : Emitted(v)' <=> Emitted(v)
      /\ \A v : Known(v)' <=> Known(v)
  BY SameCalls DEF IsOpen, InFrame, Emitted, Known
<1>2. /\ frames # <<>> /\ Caller \in Functions /\ InFrame(Caller) /\ IsOpen(Caller) /\ Known(Caller)
      /\ \A g \in Functions : InFrame(g) => index[g] <= index[Caller]
  BY CallerFacts DEF TakeCall
<1>3. /\ w \in ToSet(calls[Caller + 1])
      /\ ahead' \in Seq(Seq(Nat)) /\ Len(ahead') = Len(ahead)
      /\ \A v \in Functions : /\ ~InFrame(v) => ahead'[v + 1] = ahead[v + 1]
                              /\ ToSet(ahead'[v + 1]) \subseteq ToSet(ahead[v + 1])
                              /\ v # Caller => Tried(v)' = Tried(v)
      /\ \A v \in Functions : v = Caller => Tried(v)' \subseteq Tried(v) \cup ({w} \cap Functions)
  BY TakeCallFacts
<1>4. /\ lowlink' \in [Functions -> Nat \cup {Unset}] /\ lowlink'[Caller] = l
      /\ \A v \in Functions \ {Caller} : lowlink'[v] = lowlink[v]
  BY <1>2 DEF TarjanInv, TarjanTypeOK
<1>5. /\ \A v : IsOpen(v) => v \in Functions
      /\ \A v \in Functions : index[v] \in Int /\ lowlink[v] \in Int
  BY TarjanFacts
<1>6. TarjanTypeOK'
  BY <1>1, <1>3, <1>4 DEF TarjanInv, TarjanTypeOK
<1>7. Entered'
  BY <1>1 DEF TarjanInv, Entered
<1>8. EmittedOnce'
  BY <1>1 DEF TarjanInv, EmittedOnce
<1>9. StacksRise'
  BY <1>1 DEF TarjanInv, StacksRise, Rises
<1>10. CallsTried'
  <2> SUFFICES ASSUME NEW v \in Functions
               PROVE  /\ ToSet(ahead'[v + 1]) \subseteq ToSet(calls[v + 1])
                      /\ ~Known(v) => ahead'[v + 1] = calls[v + 1]
                      /\ Known(v) /\ ~InFrame(v) => ahead'[v + 1] = <<>>
                      /\ Known(v) => \A x \in Tried(v)' : Known(x)
    BY <1>1 DEF CallsTried
  <2>1. /\ ToSet(ahead[v + 1]) \subseteq ToSet(calls[v + 1])
        /\ ~Known(v) => ahead[v + 1] = calls[v + 1]
        /\ Known(v) /\ ~InFrame(v) => ahead[v + 1] = <<>>
        /\ Known(v) => \A x \in Tried(v) : Known(x)
    BY DEF TarjanInv, CallsTried
  <2>2. ToSet(ahead'[v + 1]) \subseteq ToSet(calls[v + 1])
    BY <1>3, <2>1
  <2>3. InFrame(v) => Known(v)
    BY TarjanFacts DEF TarjanInv, Entered
  <2>4. ~InFrame(v) => ahead'[v + 1] = ahead[v + 1]
    BY <1>3
  <2>5. Tried(v)' \subseteq Tried(v) \cup ({w} \cap Functions)
    BY <1>3
  <2>6. Known(v) => \A x \in Tried(v)' : Known(x)
    BY <2>1, <2>5
  <2> QED
    BY <2>1, <2>2, <2>3, <2>4, <2>6
<1>11. LowlinkReached'
  <2> SUFFICES ASSUME NEW v \in Functions, IsOpen(v)
               PROVE  /\ lowlink'[v] <= index[v]
                      /\ \E u \in Functions : IsOpen(u) /\ lowlink'[v] = index[u] /\ LeadsTo(v, u)
    BY <1>1 DEF LowlinkReached
  <2>1. /\ lowlink[v] <= index[v]
        /\ \E u \in Functions : IsOpen(u) /\ lowlink[v] = index[u] /\ LeadsTo(v, u)
    BY DEF TarjanInv, LowlinkReached
  <2>2. CASE lowlink'[v] = lowlink[v]
    BY <2>1, <2>2
  <2>3. CASE v = Caller /\ IsOpen(w) /\ l = index[w]
    <3>1. w \in Functions /\ w \in Called(v)
      BY <1>3, <1>5, <2>3 DEF Called
    <3>2. LeadsTo(v, w)
      BY <3>1, LeadsToFacts
    <3>3. lowlink'[v] = index[w] /\ l <= lowlink[v]
      BY <1>4, <2>3
    <3>4. lowlink'[v] <= index[v]
      BY <1>4, <1>5, <2>1, <2>3, <3>3
    <3> QED
      BY <2>3, <3>1, <3>2, <3>3, <3>4
  <2> QED
    BY <1>4, <2>2, <2>3
<1>12. OpenUpwards'
  BY <1>1 DEF TarjanInv, OpenUpwards
<1>13. OpenBack'
  BY <1>1 DEF TarjanInv, OpenBack
<1>14. LowlinkCovers'
  <2> SUFFICES ASSUME NEW f \in Functions, NEW x \in Functions, InFrame(f), IsOpen(x), Below(f, x)',
                      NEW y \in Tried(x)', IsOpen(y)
               PROVE  lowlink'[f] <= index[y]
    BY <1>1 DEF LowlinkCovers
  <2>1. Below(f, x)
    BY <1>1 DEF Below
  <2>2. lowlink'[f] <= lowlink[f] /\ lowlink'[f] \in Int /\ lowlink[f] \in Int /\ index[y] \in Int
    BY <1>4, <1>5
  <2>3. CASE y \in Tried(x)
    <3>1. lowlink[f] <= index[y]
      BY <2>1, <2>3 DEF TarjanInv, LowlinkCovers
    <3> QED
      BY <2>2, <3>1
  <2>4. CASE y \notin Tried(x)
    <3>1. x = Caller /\ y = w
      BY <1>3, <2>4
    <3>2. index[f] = index[Caller]
      BY <1>2, <1>5, <2>1, <3>1 DEF Below
    <3>3. f = Caller
      BY <1>2, <3>2, TarjanFacts, IndexApart
    <3> QED
      BY <1>4, <3>1, <3>3
  <2> QED
    BY <2>3, <2>4
<1>15. SccsClosed'
  BY <1>1 DEF TarjanInv, SccsClosed
<1> QED
  BY <1>6, <1>7, <1>8, <1>9, <1>10, <1>11, <1>12, <1>13, <1>14, <1>15 DEF TarjanInv

LEMMA FollowOpenInv == TarjanInv /\ FollowOpen => TarjanInv'
<1> SUFFICES ASSUME TarjanInv, FollowOpen PROVE TarjanInv'
  OBVIOUS
<1>1. PICK w : IsOpen(w) /\ TakeCall(w) /\ Lower(Caller, index[w])
  BY DEF FollowOpen, IsOpen
<1>2. UNCHANGED <<calls, index, counter, opened, frames, sccs>> /\ frames # <<>>
  BY <1>1 DEF FollowOpen, TakeCall
<1>3. Caller \in Functions /\ IsOpen(Caller) /\ w \in Functions
  BY <1>1, <1>2, CallerFacts, TarjanFacts
<1>4. Known(w) /\ index[w] \in Nat
  BY <1>1, <1>3, TarjanFacts DEF TarjanInv, Entered
<1>5. lowlink[Caller] \in Nat
  BY <1>3, OpenLowlink
<1> DEFINE l == Lesser(lowlink[Caller], index[w])
<1>6. /\ l \in Nat /\ l <= lowlink[Caller] /\ l <= index[w]
      /\ l = lowlink[Caller] \/ l = index[w]
  BY <1>4, <1>5 DEF Lesser
<1>7. lowlink' = [lowlink EXCEPT ![Caller] = l]
  BY <1>1 DEF Lower
<1> HIDE DEF l
<1> QED
  BY <1>1, <1>2, <1>4, <1>6, <1>7, FollowInv

LEMMA FollowElseInv == TarjanInv /\ FollowElse => TarjanInv'
<1> SUFFICES ASSUME TarjanInv, FollowElse PROVE TarjanInv'
  OBVIOUS
<1>1. PICK w : TakeCall(w) /\ ~IsOpen(w) /\ (w \in Functions => Known(w))
  BY DEF FollowElse, IsOpen, Known
<1>2. UNCHANGED <<calls, index, lowlink, counter, opened, frames, sccs>> /\ frames # <<>>
  BY <1>1 DEF FollowElse, TakeCall, numbering
<1>3. Caller \in Functions /\ IsOpen(Caller) /\ lowlink \in [Functions -> Nat \cup {Unset}]
  BY <1>2, CallerFacts DEF TarjanInv, TarjanTypeOK
<1> DEFINE l == lowlink[Caller]
<1>4. l \in Nat /\ l <= lowlink[Caller] /\ l = lowlink[Caller]
  BY <1>3, OpenLowlink
<1>5. lowlink' = [lowlink EXCEPT ![Caller] = l]
  BY <1>2, <1>3
<1> HIDE DEF l
<1> QED
  BY <1>1, <1>2, <1>4, <1>5, FollowInv

\* What the return of the innermost frame leaves: the frames below it, the
\* highest of which is its caller and takes over its lowlink.
LEMMA ReturnFacts ==
    ASSUME TarjanInv, Return
    PROVE  /\ UNCHANGED <<calls, index, counter, ahead>>
           /\ frames' \in Seq(Functions) /\ Rises(index, frames')
           /\ \A v : InFrame(v)' <=> InFrame(v) /\ v # Caller
           /\ lowlink' \in [Functions -> Nat \cup {Unset}]
           /\ \A v \in Functions : lowlink'[v] = lowlink[v] \/ lowlink'[v] = lowlink[Caller]
           /\ \A v \in Functions : IsOpen(v) => lowlink'[v] <= lowlink[v]
           /\ \A v \in Functions : ~InFrame(v)' => lowlink'[v] = lowlink[v]
           /\ \A v \in Functions : InFrame(v)' /\ (\A g \in Functions : InFrame(g)' => index[g] <= index[v])
                  => lowlink'[v] <= lowlink[Caller]
           /\ \A v \in Functions : lowlink'[v] # lowlink[v] => InFrame(v)' /\ LeadsTo(v, Caller)
<1>1. /\ frames # <<>> /\ frames' = Front(frames) /\ UNCHANGED <<calls, index, counter, ahead>>
      /\ IF Len(frames) = 1 THEN UNCHANGED lowlink
         ELSE Lower(Last(Front(frames)), lowlink[Caller])
  BY DEF Return
<1>2. /\ frames \in Seq(Functions) /\ Rises(index, frames)
      /\ lowlink \in [Functions -> Nat \cup {Unset}]
  BY DEF TarjanInv, TarjanTypeOK, StacksRise
<1> DEFINE s == Front(frames)
<1>3. /\ Len(frames) \in Nat \ {0} /\ s \in Seq(Functions) /\ Len(s) = Len(frames) - 1
      /\ ToSet(frames) = ToSet(s) \cup {Caller}
      /\ Rises(index, s) /\ \A v \in ToSet(s) : index[v] < index[Caller]
  BY <1>1, <1>2, HoldsFront, RisesFront DEF Caller
<1>4. Caller \in Functions /\ IsOpen(Caller) /\ lowlink[Caller] \in Nat /\ index[Caller] \in Nat
  BY <1>1, CallerFacts, OpenLowlink
<1>5. \A v : InFrame(v)' <=> v \in ToSet(s)
  BY <1>1 DEF InFrame
<1>6. \A v : InFrame(v)' <=> InFrame(v) /\ v # Caller
  BY <1>3, <1>4, <1>5 DEF InFrame
<1> HIDE DEF s
<1>7. CASE Len(frames) = 1
  <2>1. s = <<>>
    BY <1>3, <1>7, EmptySeq
  <2>2. \A v : ~InFrame(v)'
    BY <1>5, <2>1 DEF ToSet
  <2>3. lowlink' = lowlink
    BY <1>1, <1>7
  <2>4. \A v \in Functions : lowlink[v] \in Int
    BY TarjanFacts
  <2> QED
    BY <1>1, <1>2, <1>3, <1>6, <2>2, <2>3, <2>4 DEF s
<1>8. CASE Len(frames) # 1
  <2> DEFINE p == Last(s)
             l == Lesser(lowlink[p], lowlink[Caller])
  <2>1. s # <<>>
    BY <1>3, <1>8, EmptySeq
  <2>2. p \in Functions /\ p \in ToSet(s) /\ ToSet(s) = ToSet(Front(s)) \cup {p}
    <3>1. Last(s) \in Functions /\ ToSet(s) = ToSet(Front(s)) \cup {Last(s)}
      BY <1>3, <2>1, HoldsFront
    <3> QED
      BY <3>1
  <2>3. \A v \in ToSet(Front(s)) : index[v] < index[p]
    BY <1>3, <2>1, RisesFront
  <2>4. InFrame(p) /\ IsOpen(p) /\ index[p] < index[Caller]
    BY <1>3, <1>5, <1>6, <2>2, TarjanFacts
  <2>5. lowlink[p] \in Nat
    BY <2>2, <2>4, OpenLowlink
  <2>6. lowlink' = [lowlink EXCEPT ![p] = l]
    BY <1>1, <1>8 DEF Lower, s
  <2>7. l \in Nat /\ l <= lowlink[p] /\ l <= lowlink[Caller] /\ (l = lowlink[p] \/ l = lowlink[Caller])
    BY <1>4, <2>5 DEF Lesser
  <2>8. LeadsTo(p, Caller)
    BY <1>4, <2>2, <2>4, TarjanFacts DEF TarjanInv, OpenUpwards
  <2> HIDE DEF p, l
  <2>9. /\ lowlink' \in [Functions -> Nat \cup {Unset}] /\ lowlink'[p] = l
        /\ \A v \in Functions \ {p} : lowlink'[v] = lowlink[v]
    BY <1>2, <2>2, <2>6, <2>7
  <2>10. \A v \in Functions : lowlink[v] \in Int
    BY TarjanFacts
  <2>11. \A v \in Functions : lowlink'[v] = lowlink[v] \/ lowlink'[v] = lowlink[Caller]
    BY <2>7, <2>9
  <2>12. \A v \in Functions : IsOpen(v) => lowlink'[v] <= lowlink[v]
    BY <2>7, <2>9, <2>10
  <2>13. \A v \in Functions : ~InFrame(v)' => lowlink'[v] = lowlink[v]
    BY <1>5, <2>2, <2>9
  <2>14. ASSUME NEW v \in Functions, InFrame(v)', \A g \in Functions : InFrame(g)' => index[g] <= index[v]
         PROVE  lowlink'[v] <= lowlink[Caller]
    <3>1. v \in ToSet(s) /\ index[p] <= index[v]
      BY <1>5, <2>2, <2>14
    <3>2. index[v] \in Int /\ index[p] \in Int
      BY <2>2, TarjanFacts
    <3>3. v = p
      BY <2>2, <2>3, <3>1, <3>2
    <3> QED
      BY <2>7, <2>9, <3>3
  <2>15. \A v \in Functions : lowlink'[v] # lowlink[v] => InFrame(v)' /\ LeadsTo(v, Caller)
    BY <1>5, <2>2, <2>8, <2>9
  <2> QED
    BY <1>1, <1>3, <1>6, <2>9, <2>11, <2>12, <2>13, <2>14, <2>15 DEF s
<1> QED
  BY <1>7, <1>8

\* Frames other than the innermost leave the rest of the invariant as it is.
LEMMA ReturnTries ==
    ASSUME TarjanInv, Return
    PROVE  /\ CallsTried'
           /\ \A v : Tried(v)' = Tried(v)
           /\ \A v : Called(v)' = Called(v)
           /\ \A v, x : LeadsTo(v, x)' = LeadsTo(v, x)
           /\ \A v : Known(v)' <=> Known(v)
           /\ Functions' = Functions
<1>1. /\ UNCHANGED <<calls, index, ahead>>
      /\ \A v : InFrame(v)' <=> InFrame(v) /\ v # Caller
  BY ReturnFacts
<1>2. frames # <<>> /\ ahead[Caller + 1] = <<>>
  BY DEF Return
<1>3. /\ Functions' = Functions
      /\ \A v : Called(v)' = Called(v)
      /\ \A v : Tried(v)' = Tried(v)
      /\ \A v : Known(v)' <=> Known(v)
      /\ \A v, x : LeadsTo(v, x)' = LeadsTo(v, x)
  BY <1>1, SameCalls DEF Tried, Known
<1>4. CallsTried'
  BY <1>1, <1>2, <1>3 DEF TarjanInv, CallsTried
<1> QED
  BY <1>3, <1>4

\* A function below the innermost frame is below its caller once it returns.
LEMMA ReturnBelow ==
    ASSUME TarjanInv, Return, NEW f \in Functions, NEW x \in Functions, InFrame(f)', Below(f, x)'
    PROVE  \/ Below(f, x)
           \/ /\ Below(Caller, x) /\ index[Caller] <= index[x]
              /\ \A g \in Functions : InFrame(g)' => index[g] <= index[f]
<1>1. /\ UNCHANGED <<calls, index>> /\ frames # <<>>
      /\ \A v : InFrame(v)' <=> InFrame(v) /\ v # Caller
  BY ReturnFacts DEF Return
<1>2. /\ Caller \in Functions /\ InFrame(Caller)
      /\ \A g \in Functions : InFrame(g) => index[g] <= index[Caller]
  BY <1>1, CallerFacts
<1>3. \A v \in Functions : index[v] \in Int
  BY TarjanFacts
<1>4. /\ index[f] <= index[x]
      /\ \A g \in Functions : InFrame(g)' /\ index[g] <= index[x] => index[g] <= index[f]
  BY <1>1, SameCalls DEF Below
<1>5. CASE index[Caller] <= index[x]
  <2>1. Below(Caller, x)
    BY <1>2, <1>5 DEF Below
  <2>2. \A g \in Functions : InFrame(g)' => index[g] <= index[x]
    BY <1>1, <1>2, <1>3, <1>5
  <2> QED
    BY <1>4, <1>5, <2>1, <2>2
<1>6. CASE ~(index[Caller] <= index[x])
  BY <1>1, <1>4, <1>6 DEF Below
<1> QED
  BY <1>5, <1>6

LEMMA StayOpenInv == TarjanInv /\ StayOpen => TarjanInv'
<1> SUFFICES ASSUME TarjanInv, StayOpen PROVE TarjanInv'
  OBVIOUS
<1>1. /\ Return /\ frames # <<>>
      /\ UNCHANGED <<opened, sccs>> /\ lowlink[Caller] # index[Caller]
  BY DEF StayOpen, Return
<1>2. /\ UNCHANGED <<calls, index, counter, ahead, opened, sccs>>
      /\ frames' \in Seq(Functions) /\ Rises(index, frames')
      /\ \A v : InFrame(v)' <=> InFrame(v) /\ v # Caller
      /\ lowlink' \in [Functions -> Nat \cup {Unset}]
      /\ \A v \in Functions : lowlink'[v] = lowlink[v] \/ lowlink'[v] = lowlink[Caller]
      /\ \A v \in Functions : IsOpen(v) => lowlink'[v] <= lowlink[v]
      /\ \A v \in Functions : InFrame(v)' /\ (\A g \in Functions : InFrame(g)' => index[g] <= index[v])
             => lowlink'[v] <= lowlink[Caller]
      /\ \A v \in Functions : lowlink'[v] # lowlink[v] => InFrame(v)' /\ LeadsTo(v, Caller)
  BY <1>1, ReturnFacts
<1>3. /\ CallsTried' /\ Functions' = Functions
      /\ \A v : Tried(v)' = Tried(v)
      /\ \A v : Called(v)' = Called(v)
      /\ \A v, x : LeadsTo(v, x)' = LeadsTo(v, x)
      /\ \A v : Known(v)' <=> Known(v)
  BY <1>1, ReturnTries
<1>4. /\ \A v : IsOpen(v)' <=> IsOpen(v)
      /\ \A v : Emitted(v)' <=> Emitted(v)
  BY <1>2 DEF IsOpen, Emitted
<1>5. /\ Caller \in Functions /\ InFrame(Caller) /\ IsOpen(Caller)
      /\ \A g \in Functions : InFrame(g) => index[g] <= index[Caller]
  BY <1>1, CallerFacts
<1>6. /\ \A v : IsOpen(v) => v \in Functions
      /\ \A v : InFrame(v) => IsOpen(v)
      /\ \A v \in Functions : index[v] \in Int /\ lowlink[v] \in Int
  BY TarjanFacts
<1>7. PICK u \in Functions : IsOpen(u) /\ lowlink[Caller] = index[u] /\ LeadsTo(Caller, u)
  BY <1>5 DEF TarjanInv, LowlinkReached
<1>8. index[u] < index[Caller]
  <2>1. lowlink[Caller] <= index[Caller]
    BY <1>5 DEF TarjanInv, LowlinkReached
  <2> QED
    BY <1>1, <1>5, <1>6, <1>7, <2>1
<1>9. TarjanTypeOK'
  BY <1>2, <1>3 DEF TarjanInv, TarjanTypeOK
<1>10. Entered'
  BY <1>2, <1>3, <1>4 DEF TarjanInv, Entered
<1>11. EmittedOnce'
  BY <1>2, <1>3, <1>4 DEF TarjanInv, EmittedOnce
<1>12. StacksRise'
  <2>1. ToSet(frames') \subseteq ToSet(opened)
    BY <1>2, <1>6 DEF InFrame, IsOpen
  <2>2. Rises(index, opened)
    BY DEF TarjanInv, StacksRise
  <2> QED
    BY <1>2, <2>1, <2>2 DEF StacksRise, Rises
<1>13. LowlinkReached'
  <2> SUFFICES ASSUME NEW v \in Functions, IsOpen(v)
               PROVE  /\ lowlink'[v] <= index[v]
                      /\ \E x \in Functions : IsOpen(x) /\ lowlink'[v] = index[x] /\ LeadsTo(v, x)
    BY <1>2, <1>3, <1>4 DEF LowlinkReached
  <2>1. /\ lowlink[v] <= index[v]
        /\ \E x \in Functions : IsOpen(x) /\ lowlink[v] = index[x] /\ LeadsTo(v, x)
    BY DEF TarjanInv, LowlinkReached
  <2>2. CASE lowlink'[v] = lowlink[v]
    BY <2>1, <2>2
  <2>3. CASE lowlink'[v] # lowlink[v]
    <3>1. lowlink'[v] = index[u] /\ LeadsTo(v, Caller)
      BY <1>2, <1>7, <2>3
    <3>2. LeadsTo(v, u)
      BY <1>5, <1>7, <3>1, LeadsToFacts
    <3>3. lowlink'[v] <= lowlink[v]
      BY <1>2
    <3>4. lowlink'[v] <= index[v]
      BY <1>6, <2>1, <3>1, <3>3
    <3> QED
      BY <1>7, <3>1, <3>2, <3>4
  <2> QED
    BY <2>2, <2>3
<1>14. OpenUpwards'
  BY <1>2, <1>3, <1>4 DEF TarjanInv, OpenUpwards
<1>15. OpenBack'
  <2> SUFFICES ASSUME NEW x \in Functions, IsOpen(x)
               PROVE  \E f \in Functions : InFrame(f)' /\ index[f] <= index[x] /\ LeadsTo(x, f)
    BY <1>2, <1>3, <1>4 DEF OpenBack
  <2>1. PICK f \in Functions : InFrame(f) /\ index[f] <= index[x] /\ LeadsTo(x, f)
    BY DEF TarjanInv, OpenBack
  <2>2. CASE f # Caller
    BY <1>2, <2>1, <2>2
  <2>3. CASE f = Caller
    <3>1. PICK g \in Functions : InFrame(g) /\ index[g] <= index[u] /\ LeadsTo(u, g)
      BY <1>7 DEF TarjanInv, OpenBack
    <3>2. index[g] < index[Caller] /\ index[g] <= index[x]
      BY <1>6, <1>8, <2>1, <2>3, <3>1
    <3>3. InFrame(g)'
      BY <1>2, <1>6, <3>1, <3>2
    <3>4. LeadsTo(x, u)
      BY <1>7, <2>1, <2>3, LeadsToFacts
    <3>5. LeadsTo(x, g)
      BY <3>1, <3>4, LeadsToFacts
    <3> QED
      BY <3>2, <3>3, <3>5
  <2> QED
    BY <2>2, <2>3
<1>16. LowlinkCovers'
  <2> SUFFICES ASSUME NEW f \in Functions, NEW x \in Functions, InFrame(f)', IsOpen(x), Below(f, x)',
                      NEW y \in Tried(x), IsOpen(y)
               PROVE  lowlink'[f] <= index[y]
    BY <1>2, <1>3, <1>4 DEF LowlinkCovers
  <2>1. InFrame(f) /\ IsOpen(f) /\ y \in Functions
    BY <1>2, <1>6
  <2>2. lowlink'[f] <= lowlink[f] /\ lowlink'[f] \in Int
    BY <1>2, <1>5, <1>6, <2>1
  <2>3. CASE Below(f, x)
    <3>1. lowlink[f] <= index[y]
      BY <2>1, <2>3 DEF TarjanInv, LowlinkCovers
    <3> QED
      BY <1>6, <2>1, <2>2, <3>1
  <2>4. CASE Below(Caller, x) /\ \A g \in Functions : InFrame(g)' => index[g] <= index[f]
    <3>1. lowlink[Caller] <= index[y]
      BY <1>5, <2>4 DEF TarjanInv, LowlinkCovers
    <3>2. lowlink'[f] <= lowlink[Caller]
      BY <1>2, <2>4
    <3> QED
      BY <1>5, <1>6, <2>1, <2>2, <3>1, <3>2
  <2> QED
    BY <1>1, <2>3, <2>4, ReturnBelow
<1>17. SccsClosed'
  BY <1>2, <1>3 DEF TarjanInv, SccsClosed
<1> QED
  BY <1>3, <1>9, <1>10, <1>11, <1>12, <1>13, <1>14, <1>15, <1>16, <1>17 DEF TarjanInv

\* The stack above the innermost frame v and v itself, once v's lowlink is its
\* own number, lead to each other and call nothing below them.
LEMMA ComponentFacts ==
    ASSUME TarjanInv, frames # <<>>, ahead[Caller + 1] = <<>>, lowlink[Caller] = index[Caller],
           NEW v \in Functions, IsOpen(v), index[Caller] <= index[v]
    PROVE  /\ \A w \in Functions : IsOpen(w) /\ index[Caller] <= index[w] => LeadsTo(v, w)
           /\ \A w \in Called(v) : Emitted(w) \/ (IsOpen(w) /\ index[Caller] <= index[w])
<1>1. /\ Caller \in Functions /\ InFrame(Caller) /\ IsOpen(Caller)
      /\ \A g \in Functions : InFrame(g) => index[g] <= index[Caller]
  BY CallerFacts
<1>2. /\ \A x : InFrame(x) => IsOpen(x)
      /\ \A x \in Functions : index[x] \in Int /\ lowlink[x] \in Int
  BY TarjanFacts
<1>3. LeadsTo(v, Caller)
  <2>1. PICK f \in Functions : InFrame(f) /\ LeadsTo(v, f)
    BY DEF TarjanInv, OpenBack
  <2>2. LeadsTo(f, Caller)
    BY <1>1, <1>2, <2>1 DEF TarjanInv, OpenUpwards
  <2> QED
    BY <1>1, <2>1, <2>2, LeadsToFacts
<1>4. ASSUME NEW w \in Functions, IsOpen(w), index[Caller] <= index[w] PROVE LeadsTo(v, w)
  <2>1. LeadsTo(Caller, w)
    BY <1>1, <1>4 DEF TarjanInv, OpenUpwards
  <2> QED
    BY <1>1, <1>3, <2>1, LeadsToFacts
<1>5. ahead[v + 1] = <<>> /\ Known(v)
  <2>1. Known(v)
    BY DEF TarjanInv, Entered
  <2>2. CASE InFrame(v)
    <3>1. index[v] = index[Caller]
      BY <1>1, <1>2, <2>2
    <3>2. v = Caller
      BY <1>1, <3>1, IndexApart
    <3> QED
      BY <2>1, <3>2
  <2>3. CASE ~InFrame(v)
    BY <2>1, <2>3 DEF TarjanInv, CallsTried
  <2> QED
    BY <2>2, <2>3
<1>6. ASSUME NEW w \in Called(v) PROVE Emitted(w) \/ (IsOpen(w) /\ index[Caller] <= index[w])
  <2>1. w \in Tried(v) /\ w \in Functions
    BY <1>5, CalledFunctions DEF Tried, ToSet
  <2>2. IsOpen(w) \/ Emitted(w)
    BY <1>5, <2>1 DEF TarjanInv, CallsTried, Entered
  <2>3. Below(Caller, v)
    BY <1>1 DEF Below
  <2>4. IsOpen(w) => lowlink[Caller] <= index[w]
    BY <1>1, <2>1, <2>3 DEF TarjanInv, LowlinkCovers
  <2> QED
    BY <2>2, <2>4
<1> QED
  BY <1>4, <1>6

LEMMA PopComponentInv == TarjanInv /\ PopComponent => TarjanInv'
<1> SUFFICES ASSUME TarjanInv, PopComponent PROVE TarjanInv'
  OBVIOUS
<1> DEFINE C == {x \in Functions : IsOpen(x) /\ index[Caller] <= index[x]}
           n == Len(sccs)
<1>1. /\ Return /\ frames # <<>> /\ ahead[Caller + 1] = <<>> /\ lowlink[Caller] = index[Caller]
  BY DEF PopComponent, Return
<1>2. /\ UNCHANGED <<calls, index, counter, ahead>>
      /\ frames' \in Seq(Functions) /\ Rises(index, frames')
      /\ \A v : InFrame(v)' <=> InFrame(v) /\ v # Caller
      /\ lowlink' \in [Functions -> Nat \cup {Unset}]
      /\ \A v \in Functions : lowlink'[v] = lowlink[v] \/ lowlink'[v] = lowlink[Caller]
      /\ \A v \in Functions : IsOpen(v) => lowlink'[v] <= lowlink[v]
  BY <1>1, ReturnFacts
<1>3. /\ CallsTried' /\ Functions' = Functions
      /\ \A v : Tried(v)' = Tried(v)
      /\ \A v : Called(v)' = Called(v)
      /\ \A v, x : LeadsTo(v, x)' = LeadsTo(v, x)
      /\ \A v : Known(v)' <=> Known(v)
  BY <1>1, ReturnTries
<1>4. /\ Caller \in Functions /\ InFrame(Caller) /\ IsOpen(Caller)
      /\ \A g \in Functions : InFrame(g) => index[g] <= index[Caller]
  BY <1>1, CallerFacts
<1>5. /\ \A v : IsOpen(v) => v \in Functions
      /\ \A v : InFrame(v) => IsOpen(v)
      /\ \A v \in Functions : index[v] \in Int /\ lowlink[v] \in Int
      /\ n \in Nat /\ DOMAIN sccs = 1..n
  BY TarjanFacts
<1>6. /\ opened' \in Seq(Functions) /\ Rises(index, opened')
      /\ \A v : IsOpen(v)' <=> IsOpen(v) /\ index[v] < index[Caller]
      /\ sccs' = Append(sccs, C)
  <2> DEFINE b == CHOOSE i \in 1..Len(opened) : opened[i] = Caller
  <2>1. /\ opened \in Seq(Functions) /\ Rises(index, opened) /\ index \in [Functions -> Int]
        /\ DOMAIN opened = 1..Len(opened)
    BY LenProperties DEF TarjanInv, TarjanTypeOK, StacksRise, Unset
  <2>2. \E i \in 1..Len(opened) : opened[i] = Caller
    BY <1>4, <2>1 DEF IsOpen, ToSet
  <2>3. b \in 1..Len(opened) /\ opened[b] = Caller
    BY <2>2
  <2>4. /\ opened' = SubSeq(opened, 1, b - 1)
        /\ sccs' = Append(sccs, ToSet(SubSeq(opened, b, Len(opened))))
    BY DEF PopComponent
  <2> HIDE DEF b
  <2>5. /\ SubSeq(opened, 1, b - 1) \in Seq(Functions) /\ Rises(index, SubSeq(opened, 1, b - 1))
        /\ ToSet(SubSeq(opened, 1, b - 1)) = {v \in ToSet(opened) : index[v] < index[Caller]}
        /\ ToSet(SubSeq(opened, b, Len(opened))) = {v \in ToSet(opened) : index[Caller] <= index[v]}
    <3>0. /\ opened \in Seq(Functions) /\ Rises(index, opened) /\ index \in [Functions -> Int]
          /\ b \in 1..Len(opened)
      BY <2>1, <2>3
    <3>1. /\ SubSeq(opened, 1, b - 1) \in Seq(Functions) /\ Rises(index, SubSeq(opened, 1, b - 1))
          /\ ToSet(SubSeq(opened, 1, b - 1)) = {v \in ToSet(opened) : index[v] < index[opened[b]]}
          /\ ToSet(SubSeq(opened, b, Len(opened))) = {v \in ToSet(opened) : index[opened[b]] <= index[v]}
      BY <3>0, RisesCut, SMTT(20)
    <3> QED
      BY <2>3, <3>1
  <2>6. ToSet(SubSeq(opened, b, Len(opened))) = C
    BY <1>5, <2>5 DEF IsOpen
  <2>7. \A v : IsOpen(v)' <=> IsOpen(v) /\ index[v] < index[Caller]
    BY <2>4, <2>5 DEF IsOpen
  <2> QED
    BY <2>4, <2>5, <2>6, <2>7
<1>7. \A v : IsOpen(v) => v \in C \/ IsOpen(v)'
  BY <1>4, <1>5, <1>6
<1>8. \A v : ~(v \in C /\ IsOpen(v)')
  BY <1>4, <1>5, <1>6
<1>9. /\ C \in SUBSET Functions /\ \A v \in C : IsOpen(v) /\ index[Caller] <= index[v]
  OBVIOUS
<1>10. /\ \A v \in C : \A w \in C : LeadsTo(v, w)
       /\ \A v \in C : \A w \in Called(v) : Emitted(w) \/ w \in C
  <2> SUFFICES ASSUME NEW v \in C
               PROVE  /\ \A w \in C : LeadsTo(v, w)
                      /\ \A w \in Called(v) : Emitted(w) \/ w \in C
    OBVIOUS
  <2>1. v \in Functions /\ IsOpen(v) /\ index[Caller] <= index[v]
    OBVIOUS
  <2> QED
    BY <1>1, <1>5, <2>1, ComponentFacts
<1> HIDE DEF C
<1>11. /\ sccs' \in Seq(SUBSET Functions) /\ Len(sccs') = n + 1
       /\ \A i \in 1..n : sccs'[i] = sccs[i]
       /\ sccs'[n + 1] = C
  <2>1. sccs \in Seq(SUBSET Functions)
    BY DEF TarjanInv, TarjanTypeOK
  <2> QED
    BY <1>6, <1>9, <2>1, AppendProperties
<1> HIDE DEF n
<1>12. \A i \in 1..(n + 1) : i \in 1..n \/ i = n + 1
  BY <1>5
<1>13. \A i \in 1..n : i \in 1..(n + 1) /\ i # n + 1
  BY <1>5
<1>14. \A v : Emitted(v)' <=> Emitted(v) \/ v \in C
  <2>1. \A v : Emitted(v) <=> \E i \in 1..n : v \in sccs[i]
    BY DEF Emitted, n
  <2>2. \A v : Emitted(v)' <=> \E i \in 1..(n + 1) : v \in sccs'[i]
    BY <1>11 DEF Emitted
  <2>3. n + 1 \in 1..(n + 1)
    BY <1>5
  <2> QED
    BY <1>11, <1>12, <1>13, <2>1, <2>2, <2>3
<1>15. TarjanTypeOK'
  BY <1>2, <1>3, <1>6, <1>11 DEF TarjanInv, TarjanTypeOK
<1>16. Entered'
  BY <1>2, <1>3, <1>6, <1>7, <1>9, <1>14 DEF TarjanInv, Entered
<1>17. EmittedOnce'
  <2>1. \A v \in Functions : ~(IsOpen(v)' /\ Emitted(v)')
    BY <1>6, <1>8, <1>14 DEF TarjanInv, EmittedOnce
  <2>2. \A i \in 1..n : sccs[i] \cap C = {}
    <3>1. \A i \in 1..n : \A v \in sccs[i] : Emitted(v)
      BY DEF Emitted, n
    <3>2. \A v \in C : v \in Functions /\ ~Emitted(v)
      BY <1>9 DEF TarjanInv, EmittedOnce
    <3> QED
      BY <3>1, <3>2
  <2>3. \A i, j \in 1..n : i # j => sccs[i] \cap sccs[j] = {}
    BY DEF TarjanInv, EmittedOnce, n
  <2>4. \A i, j \in 1..(n + 1) : i # j => sccs'[i] \cap sccs'[j] = {}
    <3> SUFFICES ASSUME NEW i \in 1..(n + 1), NEW j \in 1..(n + 1), i # j
                 PROVE  sccs'[i] \cap sccs'[j] = {}
      OBVIOUS
    <3>1. CASE i \in 1..n /\ j \in 1..n
      BY <1>11, <2>3, <3>1
    <3>2. CASE i \in 1..n /\ j = n + 1
      BY <1>11, <2>2, <3>2
    <3>3. CASE i = n + 1 /\ j \in 1..n
      BY <1>11, <2>2, <3>3
    <3> QED
      BY <1>12, <3>1, <3>2, <3>3
  <2>5. ASSUME NEW i \in 1..(n + 1) PROVE sccs'[i] # {}
    <3>1. \A j \in 1..n : sccs[j] # {}
      BY DEF TarjanInv, EmittedOnce, n
    <3>2. C # {}
      BY <1>4, <1>5 DEF C
    <3> QED
      BY <1>11, <1>12, <3>1, <3>2
  <2> QED
    BY <1>3, <1>11, <2>1, <2>4, <2>5 DEF EmittedOnce
<1>18. StacksRise'
  <2>1. \A v : InFrame(v)' => IsOpen(v)'
    <3> SUFFICES ASSUME NEW v, InFrame(v)' PROVE IsOpen(v)'
      OBVIOUS
    <3>1. InFrame(v) /\ IsOpen(v) /\ v \in Functions /\ v # Caller
      BY <1>2, <1>5
    <3>2. index[v] <= index[Caller] /\ index[v] # index[Caller]
      BY <1>4, <3>1, IndexApart
    <3> QED
      BY <1>4, <1>5, <1>6, <3>1, <3>2
  <2>2. ToSet(frames') \subseteq ToSet(opened')
    BY <2>1 DEF InFrame, IsOpen
  <2> QED
    BY <1>2, <1>6, <2>2 DEF StacksRise, Rises
<1>19. \A v \in Functions : IsOpen(v)' => lowlink'[v] = lowlink[v]
  <2> SUFFICES ASSUME NEW v \in Functions, IsOpen(v)' PROVE lowlink'[v] = lowlink[v]
    OBVIOUS
  <2>1. lowlink[v] <= index[v] /\ index[v] < index[Caller]
    BY <1>6 DEF TarjanInv, LowlinkReached
  <2>2. lowlink'[v] <= lowlink[v]
    BY <1>2, <1>6
  <2> QED
    BY <1>1, <1>2, <1>4, <1>5, <2>1, <2>2
<1>20. LowlinkReached'
  <2> SUFFICES ASSUME NEW v \in Functions, IsOpen(v)'
               PROVE  /\ lowlink[v] <= index[v]
                      /\ \E u \in Functions : IsOpen(u)' /\ lowlink[v] = index[u] /\ LeadsTo(v, u)
    BY <1>2, <1>3, <1>19 DEF LowlinkReached
  <2>1. lowlink[v] <= index[v] /\ index[v] < index[Caller]
    BY <1>6 DEF TarjanInv, LowlinkReached
  <2>2. PICK u \in Functions : IsOpen(u) /\ lowlink[v] = index[u] /\ LeadsTo(v, u)
    BY <1>6 DEF TarjanInv, LowlinkReached
  <2>3. index[u] < index[Caller]
    BY <1>4, <1>5, <2>1, <2>2
  <2>4. IsOpen(u)'
    BY <1>6, <2>2, <2>3
  <2> QED
    BY <2>1, <2>2, <2>4
<1>21. OpenUpwards'
  BY <1>2, <1>3, <1>6 DEF TarjanInv, OpenUpwards
<1>22. OpenBack'
  <2> SUFFICES ASSUME NEW x \in Functions, IsOpen(x)'
               PROVE  \E f \in Functions : InFrame(f)' /\ index[f] <= index[x] /\ LeadsTo(x, f)
    BY <1>2, <1>3 DEF OpenBack
  <2>1. IsOpen(x) /\ index[x] < index[Caller]
    BY <1>6
  <2>2. PICK f \in Functions : InFrame(f) /\ index[f] <= index[x] /\ LeadsTo(x, f)
    BY <2>1 DEF TarjanInv, OpenBack
  <2>3. f # Caller
    BY <1>4, <1>5, <2>1, <2>2
  <2> QED
    BY <1>2, <2>2, <2>3
<1>23. LowlinkCovers'
  <2> SUFFICES ASSUME NEW f \in Functions, NEW x \in Functions, InFrame(f)', IsOpen(x)', Below(f, x)',
                      NEW y \in Tried(x), IsOpen(y)'
               PROVE  lowlink'[f] <= index[y]
    BY <1>2, <1>3 DEF LowlinkCovers
  <2>1. InFrame(f) /\ IsOpen(f) /\ IsOpen(x) /\ IsOpen(y) /\ y \in Functions /\ index[x] < index[Caller]
    BY <1>2, <1>5, <1>6
  <2>2. Below(f, x)
    BY <1>1, <1>4, <1>5, <2>1, ReturnBelow
  <2>3. lowlink[f] <= index[y]
    BY <2>1, <2>2 DEF TarjanInv, LowlinkCovers
  <2>4. lowlink'[f] <= lowlink[f] /\ lowlink'[f] \in Int
    BY <1>2, <1>4, <1>5, <2>1
  <2> QED
    BY <1>5, <2>1, <2>3, <2>4
<1>24. SccsClosed'
  <2> SUFFICES ASSUME NEW i \in 1..(n + 1), NEW v \in sccs'[i]
               PROVE  /\ \A w \in Called(v) : \E j \in 1..i : w \in sccs'[j]
                      /\ \A w \in sccs'[i] : LeadsTo(v, w)
    BY <1>3, <1>11 DEF SccsClosed
  <2>1. CASE i \in 1..n
    <3>1. /\ sccs'[i] = sccs[i]
          /\ \A w \in Called(v) : \E j \in 1..i : w \in sccs[j]
          /\ \A w \in sccs[i] : LeadsTo(v, w)
      BY <1>11, <2>1 DEF TarjanInv, SccsClosed, n
    <3>2. \A j \in 1..i : j \in 1..n
      BY <1>5, <2>1
    <3> QED
      BY <1>11, <3>1, <3>2
  <2>2. CASE i = n + 1
    <3>1. v \in C
      BY <1>11, <2>2
    <3>2. \A w \in Called(v) : Emitted(w) \/ w \in C
      BY <1>10, <3>1
    <3>3. ASSUME NEW w \in Called(v) PROVE \E j \in 1..i : w \in sccs'[j]
      <4>1. CASE Emitted(w)
        <5>1. PICK j \in 1..n : w \in sccs[j]
          BY <4>1 DEF Emitted, n
        <5> QED
          BY <1>11, <1>13, <2>2, <5>1
      <4>2. CASE w \in C
        <5>1. n + 1 \in 1..(n + 1)
          BY <1>5
        <5> QED
          BY <1>11, <2>2, <4>2, <5>1
      <4> QED
        BY <3>2, <4>1, <4>2
    <3> QED
      BY <1>10, <1>11, <2>2, <3>1, <3>3
  <2> QED
    BY <1>12, <2>1, <2>2
<1> QED
  BY <1>3, <1>15, <1>16, <1>17, <1>18, <1>20, <1>21, <1>22, <1>23, <1>24 DEF TarjanInv

LEMMA TarjanInitInv == TarjanInit => TarjanInv
<1> SUFFICES ASSUME TarjanInit PROVE TarjanInv
  OBVIOUS
<1>1. /\ calls \in Seq(Seq(Nat)) /\ ahead = calls /\ counter = 0
      /\ opened = <<>> /\ frames = <<>> /\ sccs = <<>>
      /\ index = NoIndex(calls) /\ lowlink = NoIndex(calls)
  <2>1. {s \in Seq(Nat) : IsInjective(s)} \subseteq Seq(Nat)
    OBVIOUS
  <2>2. calls \in Seq(Seq(Nat))
    BY <2>1, SeqMonotonic DEF TarjanInit, Unseen
  <2> QED
    BY <2>2 DEF TarjanInit, Unseen
<1>2. /\ index \in [Functions -> Nat \cup {Unset}] /\ lowlink \in [Functions -> Nat \cup {Unset}]
      /\ \A v \in Functions : ~Known(v)
  BY <1>1 DEF NoIndex, Functions, Known
<1>3. /\ opened \in Seq(Functions) /\ frames \in Seq(Functions) /\ sccs \in Seq(SUBSET Functions)
      /\ Len(opened) = 0 /\ Len(frames) = 0 /\ Len(sccs) = 0
  BY <1>1, EmptySeq
<1>4. 1..0 = {}
  OBVIOUS
<1>5. /\ \A v : ~IsOpen(v)
      /\ \A v : ~InFrame(v)
      /\ \A v : ~Emitted(v)
  BY <1>1, <1>3, <1>4 DEF IsOpen, InFrame, Emitted, ToSet
<1>6. TarjanTypeOK
  BY <1>1, <1>2, <1>3 DEF TarjanTypeOK
<1>7. Entered /\ LowlinkReached /\ OpenUpwards /\ OpenBack /\ LowlinkCovers
  BY <1>2, <1>5 DEF Entered, LowlinkReached, OpenUpwards, OpenBack, LowlinkCovers
<1>8. EmittedOnce /\ SccsClosed
  BY <1>3, <1>4, <1>5 DEF EmittedOnce, SccsClosed
<1>9. StacksRise
  BY <1>1, <1>3, <1>4 DEF StacksRise, Rises, ToSet
<1>10. CallsTried
  BY <1>1, <1>2 DEF CallsTried
<1> QED
  BY <1>6, <1>7, <1>8, <1>9, <1>10 DEF TarjanInv

LEMMA TarjanStutterInv == TarjanInv /\ UNCHANGED <<calls, tarjan>> => TarjanInv'
<1> SUFFICES ASSUME TarjanInv, UNCHANGED <<calls, tarjan>> PROVE TarjanInv'
  OBVIOUS
<1>1. UNCHANGED <<calls, index, lowlink, counter, opened, frames, ahead, sccs>>
  BY DEF tarjan, numbering
<1>2. /\ Functions' = Functions
      /\ \A v : Called(v)' = Called(v)
      /\ \A v, x : LeadsTo(v, x)' = LeadsTo(v, x)
      /\ \A v : IsOpen(v)' <=> IsOpen(v)
      /\ \A v : InFrame(v)' <=> InFrame(v)
      /\ \A v : Emitted(v)' <=> Emitted(v)
      /\ \A v : Known(v)' <=> Known(v)
      /\ \A v : Tried(v)' = Tried(v)
      /\ \A f, x : Below(f, x)' <=> Below(f, x)
  BY <1>1, SameCalls DEF IsOpen, InFrame, Emitted, Known, Tried, Below
<1>3. TarjanTypeOK' /\ Entered' /\ EmittedOnce'
  BY <1>1, <1>2 DEF TarjanInv, TarjanTypeOK, Entered, EmittedOnce
<1>4. StacksRise' /\ CallsTried' /\ LowlinkReached'
  BY <1>1, <1>2 DEF TarjanInv, StacksRise, Rises, CallsTried, LowlinkReached
<1>5. OpenUpwards' /\ OpenBack' /\ LowlinkCovers' /\ SccsClosed'
  BY <1>1, <1>2 DEF TarjanInv, OpenUpwards, OpenBack, LowlinkCovers, SccsClosed
<1> QED
  BY <1>3, <1>4, <1>5 DEF TarjanInv

LEMMA TarjanNextInv == TarjanInv /\ [TarjanNext]_<<calls, tarjan, stage>> => TarjanInv'
<1>1. TarjanInv /\ TarjanNext => TarjanInv'
  BY ConnectInv, FollowNewInv, FollowOpenInv, FollowElseInv, PopComponentInv, StayOpenInv DEF TarjanNext
<1> QED
  BY <1>1, TarjanStutterInv

LEMMA TarjanInvariance == TarjanSpec => []TarjanInv
<1> QED
  BY TarjanInitInv, TarjanNextInv, PTL DEF TarjanSpec

\* A set of functions with more or fewer members than one, if not empty, has
\* another member beside each.
LEMMA Beside ==
    ASSUME NEW M, M \subseteq Functions, Len(calls) \in Nat, NEW v \in M, Cardinality(M) # 1
    PROVE  \E w \in M : w # v
<1> SUFFICES ASSUME \A w \in M : w = v PROVE FALSE
  OBVIOUS
<1>1. M = {v}
  OBVIOUS
<1> QED
  BY <1>1, FS_Singleton

\* A component is recursive unless it is one function that does not call itself.
LEMMA RecursiveFacts ==
    ASSUME NEW M
    PROVE  ClassifyScc(M) # "non_recursive" <=> Cardinality(M) # 1 \/ \E v \in M : v \in Called(v)
BY DEF ClassifyScc

\* When all functions are numbered and no frame is left, what was emitted are
\* the classes of functions that call each other.
Finished == frames = <<>> /\ \A v \in Functions : Known(v)

LEMMA FinishedClasses == TarjanInv /\ Finished => Classes
<1> SUFFICES ASSUME TarjanInv, Finished PROVE Classes
  OBVIOUS
<1> DEFINE n == Len(sccs)
<1>1. n \in Nat /\ DOMAIN sccs = 1..n /\ Len(calls) \in Nat
  BY TarjanFacts
<1>2. \A v \in Functions : \E i \in 1..n : v \in sccs[i]
  <2>1. \A f : ~InFrame(f)
    BY DEF Finished, InFrame, ToSet
  <2>2. \A v \in Functions : Known(v) /\ ~IsOpen(v)
    BY <2>1 DEF Finished, TarjanInv, OpenBack
  <2> QED
    BY <2>2 DEF TarjanInv, Entered, Emitted
<1>3. \A i, j \in 1..n : i # j => sccs[i] \cap sccs[j] = {}
  BY DEF TarjanInv, EmittedOnce
<1>4. \A i \in 1..n : sccs[i] \subseteq Functions
  BY ElementOfSeq DEF TarjanInv, TarjanTypeOK
<1>5. /\ \A i \in 1..n : \A v \in sccs[i] : \A w \in Called(v) : \E j \in 1..i : w \in sccs[j]
      /\ \A i \in 1..n : \A v \in sccs[i] : \A w \in sccs[i] : LeadsTo(v, w)
  BY DEF TarjanInv, SccsClosed
<1> HIDE DEF n
<1>6. ASSUME NEW v \in Functions
      PROVE  Cardinality({i \in DOMAIN sccs : v \in sccs[i]}) = 1
  <2>1. PICK i \in 1..n : v \in sccs[i]
    BY <1>2
  <2>2. {j \in DOMAIN sccs : v \in sccs[j]} = {i}
    BY <1>1, <1>3, <2>1
  <2> QED
    BY <2>2, FS_Singleton
<1>7. ASSUME NEW i \in 1..n, NEW v \in sccs[i], NEW w \in Functions, Calling(v, w)
      PROVE  \E j \in 1..i : w \in sccs[j]
  <2> DEFINE S == {x \in Functions : \E j \in 1..i : x \in sccs[j]}
  <2>1. S \in SUBSET Functions
    OBVIOUS
  <2>2. v \in Functions /\ Called(v) \subseteq S
    BY <1>4, <1>5, CalledFunctions
  <2>3. ASSUME NEW x \in S PROVE Called(x) \subseteq S
    <3>1. PICK j \in 1..i : x \in sccs[j]
      OBVIOUS
    <3>2. j \in 1..n /\ \A k \in 1..j : k \in 1..i
      BY <1>1
    <3>3. \A y \in Called(x) : \E k \in 1..j : y \in sccs[k]
      BY <1>5, <3>1, <3>2
    <3>4. \A y \in Called(x) : y \in Functions
      BY CalledFunctions
    <3> QED
      BY <3>2, <3>3, <3>4
  <2> HIDE DEF S
  <2>4. w \in S
    BY <1>7, <2>1, <2>2, <2>3 DEF Calling
  <2> QED
    BY <2>4 DEF S
<1>8. ASSUME NEW i \in 1..n, NEW v \in sccs[i], NEW w \in Functions
      PROVE  w \in sccs[i] <=> w = v \/ (Calling(v, w) /\ Calling(w, v))
  <2>1. ASSUME w \in sccs[i], w # v PROVE Calling(v, w) /\ Calling(w, v)
    BY <1>5, <2>1 DEF LeadsTo
  <2>2. ASSUME Calling(v, w), Calling(w, v) PROVE w \in sccs[i]
    <3>1. PICK j \in 1..i : w \in sccs[j]
      BY <1>7, <2>2
    <3>2. j \in 1..n /\ v \in Functions
      BY <1>1, <1>4
    <3>3. PICK k \in 1..j : v \in sccs[k]
      BY <1>7, <2>2, <3>1, <3>2
    <3>4. k \in 1..n
      BY <1>1, <3>2
    <3>5. k = i
      BY <1>3, <3>3, <3>4
    <3>6. j = i
      BY <3>5
    <3> QED
      BY <3>1, <3>6
  <2> QED
    BY <2>1, <2>2
<1>9. UNION Recursive = {v \in Functions : Calling(v, v)}
  <2>1. ToSet(sccs) = {sccs[i] : i \in 1..n}
    BY <1>1 DEF ToSet
  <2>2. ASSUME NEW i \in 1..n, NEW v \in sccs[i]
        PROVE  ClassifyScc(sccs[i]) # "non_recursive" <=> Calling(v, v)
    <3>1. v \in Functions
      BY <1>4
    <3>2. CASE Cardinality(sccs[i]) # 1
      <4>1. PICK w \in sccs[i] : w # v
        BY <1>1, <1>4, <3>2, Beside
      <4>2. w \in Functions /\ Calling(v, w) /\ Calling(w, v)
        BY <1>4, <1>8, <4>1
      <4>3. Calling(v, v)
        BY <3>1, <4>2, CallingTransitive
      <4> QED
        BY <3>2, <4>3, RecursiveFacts
    <3>3. CASE Cardinality(sccs[i]) = 1
      <4>1. sccs[i] = {v}
        <5>1. PICK x : sccs[i] = {x}
          <6>1. IsFiniteSet(sccs[i])
            <7>1. IsFiniteSet(Functions)
              BY <1>1, FS_Interval DEF Functions
            <7> QED
              BY <1>4, <7>1, FS_Subset
          <6> QED
            BY <3>3, <6>1, FS_Singleton
        <5> QED
          BY <5>1
      <4>2. ASSUME v \in Called(v) PROVE Calling(v, v)
        BY <3>1, <4>2, CallingCalled
      <4>3. ASSUME Calling(v, v) PROVE v \in Called(v)
        <5>1. PICK u \in Called(v) : LeadsTo(u, v)
          BY <3>1, <4>3, CallingThrough
        <5>2. u \in Functions /\ Calling(v, u)
          BY <3>1, <5>1, CalledFunctions, CallingCalled
        <5>3. u = v \/ Calling(u, v)
          BY <5>1 DEF LeadsTo
        <5>4. u \in sccs[i]
          BY <1>8, <5>2, <5>3
        <5> QED
          BY <4>1, <5>1, <5>4
      <4> QED
        BY <3>3, <4>1, <4>2, <4>3, RecursiveFacts
    <3> QED
      BY <3>2, <3>3
  <2>3. Recursive = {M \in ToSet(sccs) : ClassifyScc(M) # "non_recursive"}
    BY DEF Recursive
  <2>4. \A v \in UNION Recursive : v \in Functions /\ Calling(v, v)
    BY <1>4, <2>1, <2>2, <2>3
  <2>5. ASSUME NEW v \in Functions, Calling(v, v) PROVE v \in UNION Recursive
    <3>1. PICK i \in 1..n : v \in sccs[i]
      BY <1>2
    <3> QED
      BY <2>1, <2>2, <2>3, <2>5, <3>1
  <2> QED
    BY <2>4, <2>5
<1> QED
  BY <1>1, <1>6, <1>7, <1>8, <1>9 DEF Classes

LEMMA ConnectedFinished == Connected => Finished
BY DEF Connected, Finished, Known

LEMMA ConnectedExact == TarjanInv => ComponentsExact
BY ConnectedFinished, FinishedClasses DEF ComponentsExact

\* For every call graph, however its functions call each other and themselves
\* and whatever calls lead nowhere, tarjanScc keeps its numbers and stacks in
\* their types.
THEOREM ComponentsTyped == TarjanSpec => []TarjanTypeOK
<1>1. TarjanInv => TarjanTypeOK
  BY DEF TarjanInv
<1> QED
  BY <1>1, TarjanInvariance, PTL

\* For every call graph the components are the classes of functions that call
\* each other, each emitted once and after those it calls, and those that
\* analyzeRecursion reports as recursive hold exactly the functions that a
\* chain of calls leads back to.
THEOREM Components == TarjanSpec => []ComponentsExact
<1> QED
  BY ConnectedExact, TarjanInvariance, PTL

-----------------------------------------------------------------------------
(* the component at hand                                                   *)

\* A set of members that is closed under the calls within the component, and
\* holds what some member calls, holds them all.
MutualIn(M) == \A v, w \in M : \A S \in SUBSET M :
    Called(v) \cap M \subseteq S /\ (\A u \in S : Called(u) \cap M \subseteq S) => w \in S

CallsListed == calls \in Seq(Seq(Nat)) /\ \A v \in Functions : IsInjective(calls[v + 1])

AtHand == /\ CallsListed
          /\ members # {} /\ members \subseteq Functions /\ MutualIn(members)

LEMMA HandFacts ==
    ASSUME AtHand
    PROVE  /\ Len(calls) \in Nat /\ members \subseteq Nat /\ members \subseteq Functions
           /\ IsFiniteSet(members) /\ Cardinality(members) \in 1..Len(calls)
           /\ \A v \in Functions : v + 1 \in 1..Len(calls) /\ calls[v + 1] \in Seq(Nat)
<1>1. /\ calls \in Seq(Seq(Nat)) /\ Len(calls) \in Nat
      /\ members # {} /\ members \subseteq Functions /\ Functions = 0..(Len(calls) - 1)
  BY LenProperties DEF AtHand, CallsListed, Functions
<1>2. \A v \in Functions : v + 1 \in 1..Len(calls) /\ calls[v + 1] \in Seq(Nat)
  <2>1. \A v \in Functions : v + 1 \in 1..Len(calls)
    BY <1>1
  <2> QED
    BY <1>1, <2>1, ElementOfSeq
<1>3. IsFiniteSet(Functions) /\ Cardinality(Functions) = Len(calls)
  <2>1. 0 \in Int /\ Len(calls) - 1 \in Int
    BY <1>1
  <2>2. /\ IsFiniteSet(0..(Len(calls) - 1))
        /\ Cardinality(0..(Len(calls) - 1))
              = IF 0 > Len(calls) - 1 THEN 0 ELSE Len(calls) - 1 - 0 + 1
    BY <2>1, FS_Interval
  <2> QED
    BY <1>1, <2>2
<1>4. /\ IsFiniteSet(members) /\ Cardinality(members) \in Nat
      /\ Cardinality(members) <= Cardinality(Functions)
  BY <1>1, <1>3, FS_Subset, FS_CardinalityType
<1>5. Cardinality(members) # 0
  BY <1>1, <1>4, FS_EmptySet
<1> QED
  BY <1>1, <1>2, <1>3, <1>4, <1>5

LEMMA HandKept ==
    ASSUME UNCHANGED <<calls, members>>
    PROVE  /\ Functions' = Functions
           /\ \A v : Called(v)' = Called(v)
           /\ \A v : IntraCalls(v)' = IntraCalls(v)
           /\ SimpleCycles' = SimpleCycles
           /\ AtHand => AtHand'
<1>1. Functions' = Functions
  BY DEF Functions
<1>2. \A v : Called(v)' = Called(v)
  BY <1>1 DEF Called
<1>3. \A v : IntraCalls(v)' = IntraCalls(v)
  BY <1>2 DEF IntraCalls
<1>4. SimpleCycles' = SimpleCycles
  BY <1>2 DEF SimpleCycles
<1>5. AtHand => AtHand'
  BY <1>1, <1>2 DEF AtHand, CallsListed, MutualIn
<1> QED
  BY <1>1, <1>2, <1>3, <1>4, <1>5

\* A path through members that are all different is no longer than there are
\* members.
LEMMA PathBound ==
    ASSUME AtHand, NEW n \in Nat, NEW p \in [1..n -> members],
           \A i, j \in 1..n : p[i] = p[j] => i = j
    PROVE  n <= Cardinality(members)
<1>1. IsFiniteSet(members)
  BY HandFacts
<1>2. p \in Injection(1..n, members)
  BY DEF Injection, IsInjective
<1>3. Cardinality(1..n) <= Cardinality(members)
  BY <1>1, <1>2, FS_Injection
<1>4. Cardinality(1..n) = n
  <2>1. Cardinality(1..n) = IF 1 > n THEN 0 ELSE n - 1 + 1
    BY FS_Interval
  <2> QED
    BY <2>1
<1> QED
  BY <1>3, <1>4

\* The call by which cycle p goes on after its first j functions.
Following(p, j) == IF j < Len(p) THEN p[j + 1] ELSE p[1]

LEMMA CycleFacts ==
    ASSUME AtHand, NEW p \in SimpleCycles
    PROVE  /\ p \in Seq(members) /\ Len(p) \in Nat /\ DOMAIN p = 1..Len(p)
           /\ 1 <= Len(p) /\ Len(p) <= Cardinality(members)
           /\ \A i \in 1..Len(p) : p[i] \in members
           /\ \A i, j \in 1..Len(p) : p[i] = p[j] => i = j
           /\ \A j \in 1..Len(p) : Following(p, j) \in IntraCalls(p[j])
<1>1. PICK k \in 1..Cardinality(members) : p \in [1..k -> members]
  BY DEF SimpleCycles
<1>2. k \in Nat /\ k >= 1 /\ k <= Cardinality(members)
  BY <1>1, HandFacts
<1>3. p \in Seq(members)
  BY <1>1, <1>2, SeqDef
<1>4. Len(p) \in Nat /\ DOMAIN p = 1..Len(p)
  BY <1>3, LenProperties
<1>5. Len(p) = k
  BY <1>1, <1>2, <1>4
<1>6. \A i \in 1..Len(p) : p[i] \in members
  BY <1>1, <1>5
<1>7. \A i, j \in 1..Len(p) : p[i] = p[j] => i = j
  BY <1>4 DEF SimpleCycles, IsInjective
<1>8. ASSUME NEW j \in 1..Len(p) PROVE Following(p, j) \in IntraCalls(p[j])
  <2>1. CASE j < Len(p)
    <3>1. j \in 1..(Len(p) - 1) /\ j + 1 \in 1..Len(p)
      BY <1>4, <2>1
    <3> QED
      BY <1>6, <2>1, <3>1 DEF SimpleCycles, Following, IntraCalls
  <2>2. CASE ~(j < Len(p))
    <3>1. j = Len(p) /\ 1 \in 1..Len(p)
      BY <1>2, <1>4, <1>5, <2>2
    <3> QED
      BY <1>6, <2>2, <3>1 DEF SimpleCycles, Following, IntraCalls
  <2> QED
    BY <2>1, <2>2
<1> QED
  BY <1>2, <1>3, <1>4, <1>5, <1>6, <1>7, <1>8

LEMMA CycleMade ==
    ASSUME AtHand, NEW p \in Seq(members), p # <<>>,
           \A i, j \in 1..Len(p) : p[i] = p[j] => i = j,
           \A i \in 1..(Len(p) - 1) : p[i + 1] \in Called(p[i]),
           p[1] \in Called(p[Len(p)])
    PROVE  p \in SimpleCycles
<1>1. /\ Len(p) \in Nat /\ Len(p) # 0 /\ DOMAIN p = 1..Len(p)
      /\ p \in [1..Len(p) -> members]
  BY LenProperties, EmptySeq
<1>2. Len(p) <= Cardinality(members) /\ Cardinality(members) \in Nat
  <2>1. Len(p) <= Cardinality(members)
    BY <1>1, PathBound
  <2>2. Cardinality(members) \in Nat
    BY HandFacts
  <2> QED
    BY <2>1, <2>2
<1>3. Len(p) \in 1..Cardinality(members)
  BY <1>1, <1>2
<1>4. IsInjective(p)
  BY <1>1 DEF IsInjective
<1> QED
  BY <1>1, <1>3, <1>4 DEF SimpleCycles

\* A nonempty set of numbers has a least one: induction, for sets.
LEMMA Least ==
    ASSUME NEW S, S \subseteq Nat, S # {}
    PROVE  \E m \in S : \A n \in S : m <= n
<1>1. PICK m \in S : \A n \in S : <<n, m>> \notin OpToRel(<, Nat)
  BY NatLessThanWellFounded, WFMin
<1>2. \A n \in S : ~(n < m)
  BY <1>1 DEF OpToRel
<1> QED
  BY <1>2

\* Induction from a to b, for a set of numbers.
LEMMA Induct ==
    ASSUME NEW a \in Nat, NEW b \in Nat, NEW T, a \in T,
           \A k \in a..(b - 1) : k \in T => k + 1 \in T
    PROVE  a..b \subseteq T
<1> DEFINE Bad == (a..b) \ T
<1> SUFFICES ASSUME Bad # {} PROVE FALSE
  OBVIOUS
<1>1. Bad \subseteq Nat
  OBVIOUS
<1>2. PICK m \in Bad : \A k \in Bad : m <= k
  <2> HIDE DEF Bad
  <2> QED
    BY <1>1, Least
<1>3. m - 1 \in a..(b - 1) /\ m - 1 \notin Bad /\ (m - 1) + 1 = m
  BY <1>2
<1> QED
  BY <1>3

\* A list that holds nothing twice does not hold its head again.
LEMMA TailLacksHead ==
    ASSUME NEW S, NEW s \in Seq(S), s # <<>>, IsInjective(s)
    PROVE  /\ Head(s) \in S /\ Tail(s) \in Seq(S) /\ IsInjective(Tail(s))
           /\ ToSet(Tail(s)) = ToSet(s) \ {Head(s)} /\ Head(s) \in ToSet(s)
<1> DEFINE t == Tail(s)
<1>1. /\ Len(s) \in Nat /\ Len(s) # 0 /\ DOMAIN s = 1..Len(s)
      /\ t \in Seq(S) /\ Len(t) = Len(s) - 1 /\ DOMAIN t = 1..(Len(s) - 1)
      /\ Head(s) = s[1] /\ Head(s) \in S
      /\ \A i \in 1..Len(t) : t[i] = s[i + 1]
  BY HeadTailProperties, LenProperties, EmptySeq
<1>2. ToSet(s) = {Head(s)} \cup ToSet(t)
  BY HoldsTail
<1> HIDE DEF t
<1>3. \A i, j \in 1..Len(s) : s[i] = s[j] => i = j
  BY <1>1 DEF IsInjective
<1>4. \A i \in 1..(Len(s) - 1) : i + 1 \in 1..Len(s) /\ t[i] = s[i + 1] /\ i + 1 # 1
  BY <1>1
<1>5. IsInjective(t)
  <2> SUFFICES ASSUME NEW i \in 1..(Len(s) - 1), NEW j \in 1..(Len(s) - 1), t[i] = t[j] PROVE i = j
    BY <1>1 DEF IsInjective
  <2>1. i + 1 = j + 1
    BY <1>3, <1>4
  <2> QED
    BY <2>1
<1>6. s[1] \notin ToSet(t)
  <2>1. 1 \in 1..Len(s)
    BY <1>1
  <2> QED
    BY <1>1, <1>3, <1>4, <2>1 DEF ToSet
<1> QED
  BY <1>1, <1>2, <1>5, <1>6 DEF t

-----------------------------------------------------------------------------
(* the inductive invariant of shortestCycleInScc                           *)

Discovered(v) == dist[v] # Unset

HasLength == \E p \in SimpleCycles : shortest = Len(p)

\* No cycle of this start is shorter.
SearchedFrom(s) == HasLength /\ \A p \in SimpleCycles : p[1] = s => shortest <= Len(p)

\* The distance is the length of a path through functions that are all different.
Distance(x) == \E p \in [1..(dist[x] + 1) -> members] :
    /\ p[1] = start /\ p[dist[x] + 1] = x
    /\ \A i \in 1..(dist[x] + 1) : dist[p[i]] = i - 1
    /\ \A i \in 1..dist[x] : p[i + 1] \in Called(p[i])

\* The queue is in the order of the distances, none of which is further away
\* than one call.
QueueRises == /\ \A i, j \in 1..Len(queue) : i < j => dist[queue[i]] <= dist[queue[j]]
              /\ \A x \in members : Discovered(x) =>
                    \A i \in 1..Len(queue) : dist[x] <= dist[queue[i]] + 1
FromLeads == edges # <<>> =>
    /\ from \in members /\ Discovered(from) /\ ToSet(edges) \subseteq ToSet(calls[from + 1])
    /\ \A x \in members : Discovered(x) => dist[x] <= dist[from] + 1
    /\ \A i \in 1..Len(queue) : dist[from] <= dist[queue[i]]

\* A call of x was looked at.
Followed(x, w) == IF w = start THEN shortest <= dist[x] + 1
                  ELSE Discovered(w) /\ dist[w] <= dist[x] + 1

\* What is discovered is in the queue, or was not worth it, or its calls were
\* looked at, but for those left of the latest.
Covered == \A x \in members : Discovered(x) /\ x \notin ToSet(queue) =>
    \/ dist[x] >= shortest
    \/ \A w \in IntraCalls(x) : (x = from /\ w \in ToSet(edges)) \/ Followed(x, w)

SearchTypeOK == /\ shortest \in Nat /\ waiting \subseteq members
                /\ queue \in Seq(members) /\ edges \in Seq(Nat)
                /\ shortest = Len(calls) + 1 \/ HasLength

Reached == /\ start \in members \ waiting
           /\ dist \in [Functions -> Nat \cup {Unset}] /\ dist[start] = 0
           /\ \A x \in members : Discovered(x) => Distance(x)
           /\ \A x \in ToSet(queue) : Discovered(x)

Breadth == Reached /\ QueueRises /\ FromLeads /\ Covered

EarlierSearched == \A s \in members \ waiting : s # start => SearchedFrom(s)

SearchInv == /\ SearchTypeOK /\ EarlierSearched
             /\ IF waiting = members THEN queue = <<>> /\ edges = <<>> ELSE Breadth

\* Along the path of its distance a function is reached through no function
\* twice; a call of the start closes the path to a cycle.
LEMMA DistanceFacts ==
    ASSUME AtHand, Reached, NEW x \in members, Discovered(x)
    PROVE  /\ dist[x] \in Nat /\ dist[x] + 1 <= Len(calls)
           /\ start \in Called(x) => \E p \in SimpleCycles : Len(p) = dist[x] + 1
<1>1. /\ start \in members /\ x \in Functions /\ Len(calls) \in Nat
      /\ Cardinality(members) \in Nat /\ Cardinality(members) <= Len(calls)
  BY HandFacts DEF Reached
<1>2. dist[x] \in Nat
  BY <1>1 DEF Reached, Discovered
<1>3. PICK p \in [1..(dist[x] + 1) -> members] :
         /\ p[1] = start /\ p[dist[x] + 1] = x
         /\ \A i \in 1..(dist[x] + 1) : dist[p[i]] = i - 1
         /\ \A i \in 1..dist[x] : p[i + 1] \in Called(p[i])
  BY DEF Reached, Distance
<1> DEFINE n == dist[x] + 1
<1>4. n \in Nat /\ n >= 1 /\ n - 1 = dist[x]
  BY <1>2
<1> HIDE DEF n
<1>5. /\ p \in [1..n -> members] /\ p[1] = start /\ p[n] = x
      /\ \A i \in 1..n : dist[p[i]] = i - 1
      /\ \A i \in 1..(n - 1) : p[i + 1] \in Called(p[i])
  BY <1>3, <1>4 DEF n
<1>6. \A i, j \in 1..n : p[i] = p[j] => i = j
  <2> SUFFICES ASSUME NEW i \in 1..n, NEW j \in 1..n, p[i] = p[j] PROVE i = j
    OBVIOUS
  <2>1. i - 1 = j - 1
    BY <1>5
  <2> QED
    BY <1>4, <2>1
<1>7. n <= Cardinality(members)
  BY <1>4, <1>5, <1>6, PathBound
<1>8. ASSUME start \in Called(x) PROVE \E q \in SimpleCycles : Len(q) = n
  <2>1. p \in Seq(members)
    BY <1>4, <1>5, SeqDef
  <2>2. Len(p) = n /\ p # <<>>
    <3>1. Len(p) \in Nat /\ 1..n = 1..Len(p)
      BY <1>5, <2>1, LenProperties
    <3>2. Len(p) = n
      BY <1>4, <3>1
    <3> QED
      BY <1>4, <3>2, EmptySeq
  <2>3. p \in SimpleCycles
    BY <1>5, <1>6, <1>8, <2>1, <2>2, CycleMade
  <2> QED
    BY <2>2, <2>3
<1> QED
  BY <1>1, <1>2, <1>4, <1>7, <1>8 DEF n

\* When the queue is empty the search from the start has found its shortest
\* cycle, if it is the shortest of all so far.
LEMMA SearchEnded ==
    ASSUME AtHand, SearchInv, waiting # members, queue = <<>>, edges = <<>>
    PROVE  SearchedFrom(start)
<1>1. SearchTypeOK /\ Reached /\ Covered
  BY DEF SearchInv, Breadth
<1>2. /\ start \in members /\ Discovered(start) /\ dist[start] = 0 /\ shortest \in Nat
      /\ members \subseteq Functions /\ Len(calls) \in Nat
  BY <1>1, HandFacts DEF Reached, SearchTypeOK, Discovered, Unset
<1>3. \A x \in members : Discovered(x) => dist[x] \in Nat /\ dist[x] + 1 <= Len(calls)
  BY <1>1, DistanceFacts
<1>4. ASSUME NEW x \in members, Discovered(x), dist[x] < shortest, NEW w \in IntraCalls(x)
      PROVE  Followed(x, w)
  <2>1. x \notin ToSet(queue) /\ w \notin ToSet(edges)
    BY EmptySeq DEF ToSet
  <2>2. ~(dist[x] >= shortest)
    BY <1>2, <1>3, <1>4
  <2> QED
    BY <1>1, <1>4, <2>1, <2>2 DEF Covered
<1>5. HasLength
  <2> SUFFICES ASSUME shortest = Len(calls) + 1 PROVE FALSE
    BY <1>1 DEF SearchTypeOK
  <2> DEFINE S == {x \in members : Discovered(x) /\ x # start}
  <2>1. ASSUME NEW x \in members, Discovered(x) PROVE IntraCalls(x) \subseteq S
    <3> SUFFICES ASSUME NEW w \in IntraCalls(x) PROVE w \in S
      OBVIOUS
    <3>1. dist[x] \in Nat /\ dist[x] + 1 < shortest
      BY <1>2, <1>3, <2>1
    <3>2. Followed(x, w) /\ w \in members
      BY <1>2, <1>4, <2>1, <3>1 DEF IntraCalls
    <3> QED
      BY <1>2, <3>1, <3>2 DEF Followed
  <2>2. S \in SUBSET members /\ Called(start) \cap members \subseteq S
        /\ \A u \in S : Called(u) \cap members \subseteq S
    BY <1>2, <2>1 DEF IntraCalls
  <2>3. start \notin S
    OBVIOUS
  <2> HIDE DEF S
  <2> QED
    BY <1>2, <2>2, <2>3 DEF AtHand, MutualIn
<1>6. ASSUME NEW p \in SimpleCycles, p[1] = start PROVE shortest <= Len(p)
  <2> SUFFICES ASSUME Len(p) < shortest PROVE FALSE
    BY <1>2, CycleFacts
  <2>1. /\ Len(p) \in Nat /\ 1 <= Len(p)
        /\ \A i \in 1..Len(p) : p[i] \in members
        /\ \A i, j \in 1..Len(p) : p[i] = p[j] => i = j
        /\ \A j \in 1..Len(p) : Following(p, j) \in IntraCalls(p[j])
    BY CycleFacts
  <2> DEFINE T == {j \in 1..Len(p) : Discovered(p[j]) /\ dist[p[j]] <= j - 1}
             n == Len(p)
  <2>2. 1 \in T
    BY <1>2, <1>6, <2>1
  <2>3. ASSUME NEW j \in T PROVE Followed(p[j], Following(p, j)) /\ dist[p[j]] \in Nat /\ dist[p[j]] <= j - 1
    <3>1. j \in 1..Len(p) /\ p[j] \in members /\ Discovered(p[j]) /\ dist[p[j]] <= j - 1
      BY <2>1
    <3>2. dist[p[j]] \in Nat
      BY <1>3, <3>1
    <3>3. dist[p[j]] < shortest
      BY <1>2, <2>1, <3>1, <3>2
    <3>4. Following(p, j) \in IntraCalls(p[j])
      BY <2>1, <3>1
    <3> QED
      BY <1>4, <3>1, <3>2, <3>3, <3>4
  <2>4. ASSUME NEW j \in 1..(n - 1), j \in T PROVE j + 1 \in T
    <3>1. j + 1 \in 1..Len(p) /\ 1 \in 1..Len(p) /\ j < Len(p)
      BY <2>1
    <3>2. p[j + 1] # start
      BY <1>6, <2>1, <3>1
    <3>3. Followed(p[j], p[j + 1]) /\ dist[p[j]] \in Nat /\ dist[p[j]] <= j - 1
      BY <2>3, <2>4, <3>1 DEF Following
    <3>4. Discovered(p[j + 1]) /\ dist[p[j + 1]] <= dist[p[j]] + 1
      BY <3>2, <3>3 DEF Followed
    <3>5. dist[p[j + 1]] \in Nat
      BY <1>3, <2>1, <3>1, <3>4
    <3> QED
      BY <3>1, <3>3, <3>4, <3>5
  <2>5. n \in T
    <3> HIDE DEF T
    <3>1. 1..n \subseteq T
      BY <2>1, <2>2, <2>4, Induct
    <3> QED
      BY <2>1, <3>1
  <2>6. Followed(p[n], start) /\ dist[p[n]] \in Nat /\ dist[p[n]] <= n - 1
    BY <1>6, <2>3, <2>5 DEF Following
  <2>7. shortest <= dist[p[n]] + 1
    BY <2>6 DEF Followed
  <2> QED
    BY <1>2, <2>1, <2>6, <2>7
<1> QED
  BY <1>5, <1>6 DEF SearchedFrom

LEMMA BeginSearchInv == AtHand /\ SearchInv /\ BeginSearch /\ UNCHANGED calls => SearchInv'
<1> SUFFICES ASSUME AtHand, SearchInv, BeginSearch, UNCHANGED calls PROVE SearchInv'
  OBVIOUS
<1>1. PICK s \in members :
         /\ s \in waiting /\ start' = s /\ waiting' = waiting \ {s}
         /\ dist' = [v \in Functions |-> IF v = s THEN 0 ELSE Unset]
         /\ queue' = <<s>>
  BY DEF BeginSearch, IsNextStart
<1>2. queue = <<>> /\ edges = <<>> /\ UNCHANGED <<calls, members, shortest, edges>>
  BY DEF BeginSearch, component
<1>3. /\ Functions' = Functions /\ SimpleCycles' = SimpleCycles
      /\ \A v : Called(v)' = Called(v)
      /\ \A v : IntraCalls(v)' = IntraCalls(v)
      /\ members \subseteq Functions
  BY <1>2, HandKept, HandFacts
<1>4. waiting \subseteq members /\ SearchTypeOK
  BY DEF SearchInv, SearchTypeOK
<1>5. queue' \in Seq(members) /\ Len(queue') = 1 /\ queue'[1] = s /\ ToSet(queue') = {s}
  BY <1>1 DEF ToSet
<1>6. SearchTypeOK'
  BY <1>1, <1>2, <1>3, <1>4, <1>5 DEF SearchTypeOK, HasLength
<1>7. \A v \in members : SearchedFrom(v)' <=> SearchedFrom(v)
  BY <1>2, <1>3 DEF SearchedFrom, HasLength
<1>8. EarlierSearched'
  <2> SUFFICES ASSUME NEW v \in members, v \notin waiting', v # s PROVE SearchedFrom(v)
    BY <1>1, <1>2, <1>7 DEF EarlierSearched
  <2>1. v \notin waiting /\ waiting # members
    BY <1>1
  <2>2. CASE v = start
    BY <1>2, <2>1, <2>2, SearchEnded
  <2>3. CASE v # start
    BY <2>1, <2>3 DEF SearchInv, EarlierSearched
  <2> QED
    BY <2>2, <2>3
<1>9. \A v \in members : Discovered(v)' <=> v = s
  BY <1>1, <1>3 DEF Discovered, Unset
<1>10. dist'[s] = 0
  BY <1>1, <1>3
<1>11. Reached'
  <2>1. Distance(s)'
    <3> DEFINE p == [i \in 1..1 |-> s]
    <3>1. p \in [1..1 -> members] /\ p[1] = s
      OBVIOUS
    <3>2. 0 + 1 = 1 /\ 1..0 = {}
      OBVIOUS
    <3> HIDE DEF p
    <3>3. \A i \in 1..1 : dist'[p[i]] = i - 1
      BY <1>10, <3>1
    <3> QED
      BY <1>1, <1>2, <1>3, <1>10, <3>1, <3>2, <3>3 DEF Distance
  <2>2. \A x \in members' : Discovered(x)' => Distance(x)'
    BY <1>2, <1>9, <2>1
  <2>3. dist' \in [Functions -> Nat \cup {Unset}]
    BY <1>1
  <2> QED
    BY <1>1, <1>2, <1>3, <1>5, <1>9, <1>10, <2>2, <2>3 DEF Reached
<1>12. QueueRises'
  BY <1>1, <1>2, <1>5, <1>9, <1>10 DEF QueueRises
<1>13. FromLeads'
  BY <1>2 DEF FromLeads
<1>14. Covered'
  BY <1>2, <1>5, <1>9 DEF Covered
<1>15. waiting' # members'
  BY <1>1, <1>2
<1> QED
  BY <1>6, <1>8, <1>11, <1>12, <1>13, <1>14, <1>15 DEF SearchInv, Breadth

LEMMA DequeueInv == AtHand /\ SearchInv /\ Dequeue /\ UNCHANGED calls => SearchInv'
<1> SUFFICES ASSUME AtHand, SearchInv, Dequeue, UNCHANGED calls PROVE SearchInv'
  OBVIOUS
<1>1. /\ edges = <<>> /\ queue # <<>> /\ from' = Head(queue) /\ queue' = Tail(queue)
      /\ edges' = calls[from' + 1]
      /\ UNCHANGED <<calls, members, waiting, start, shortest, dist>>
  BY DEF Dequeue, component, starts
<1>2. /\ Functions' = Functions /\ SimpleCycles' = SimpleCycles
      /\ \A v : Called(v)' = Called(v)
      /\ \A v : IntraCalls(v)' = IntraCalls(v)
      /\ members \subseteq Functions
      /\ \A v \in Functions : calls[v + 1] \in Seq(Nat)
  BY <1>1, HandKept, HandFacts
<1>3. SearchTypeOK /\ EarlierSearched /\ Reached /\ QueueRises /\ Covered /\ waiting # members
  BY <1>1 DEF SearchInv, Breadth
<1>4. /\ from' \in members /\ queue' \in Seq(members) /\ from' = queue[1]
      /\ Len(queue) \in Nat /\ Len(queue') = Len(queue) - 1 /\ Len(queue) >= 1
      /\ ToSet(queue) = {from'} \cup ToSet(queue')
      /\ \A i \in 1..Len(queue') : queue'[i] = queue[i + 1] /\ i + 1 \in 1..Len(queue) /\ 1 < i + 1
  <2>1. queue \in Seq(members)
    BY <1>3 DEF SearchTypeOK
  <2>2. /\ Len(queue) \in Nat \ {0} /\ Head(queue) = queue[1] /\ Head(queue) \in members
        /\ Tail(queue) \in Seq(members) /\ Len(Tail(queue)) = Len(queue) - 1
        /\ \A i \in 1..Len(Tail(queue)) : Tail(queue)[i] = queue[i + 1]
    BY <1>1, <2>1, HeadTailProperties, EmptySeq
  <2>3. ToSet(queue) = {Head(queue)} \cup ToSet(Tail(queue))
    BY <1>1, <2>1, HoldsTail
  <2> QED
    BY <1>1, <2>2, <2>3
<1>5. SearchTypeOK'
  BY <1>1, <1>2, <1>3, <1>4 DEF SearchTypeOK, HasLength
<1>6. EarlierSearched'
  BY <1>1, <1>2, <1>3 DEF EarlierSearched, SearchedFrom, HasLength
<1>7. Reached'
  <2>1. \A x : Discovered(x)' <=> Discovered(x)
    BY <1>1 DEF Discovered
  <2>2. \A x : Distance(x)' <=> Distance(x)
    BY <1>1, <1>2 DEF Distance
  <2> QED
    BY <1>1, <1>2, <1>3, <1>4, <2>1, <2>2 DEF Reached
<1>8. 1 \in 1..Len(queue)
  BY <1>4
<1>9. QueueRises'
  <2>1. \A i, j \in 1..Len(queue') : i < j => dist[queue'[i]] <= dist[queue'[j]]
    <3> SUFFICES ASSUME NEW i \in 1..Len(queue'), NEW j \in 1..Len(queue'), i < j
                 PROVE  dist[queue'[i]] <= dist[queue'[j]]
      OBVIOUS
    <3>1. /\ i + 1 \in 1..Len(queue) /\ j + 1 \in 1..Len(queue) /\ i + 1 < j + 1
          /\ queue'[i] = queue[i + 1] /\ queue'[j] = queue[j + 1]
      BY <1>4
    <3> QED
      BY <1>3, <3>1 DEF QueueRises
  <2>2. \A x \in members : Discovered(x) => \A i \in 1..Len(queue') : dist[x] <= dist[queue'[i]] + 1
    BY <1>3, <1>4 DEF QueueRises
  <2> QED
    BY <1>1, <2>1, <2>2 DEF QueueRises, Discovered
<1>10. FromLeads'
  <2>1. Discovered(from')
    BY <1>3, <1>4 DEF Reached
  <2>2. \A x \in members : Discovered(x) => dist[x] <= dist[from'] + 1
    BY <1>3, <1>4, <1>8 DEF QueueRises
  <2>3. \A i \in 1..Len(queue') : dist[from'] <= dist[queue'[i]]
    BY <1>3, <1>4, <1>8 DEF QueueRises
  <2> QED
    BY <1>1, <1>4, <2>1, <2>2, <2>3 DEF FromLeads, Discovered
<1>11. Covered'
  <2> SUFFICES ASSUME NEW x \in members, Discovered(x), x \notin ToSet(queue'), ~(dist[x] >= shortest),
                      NEW w \in IntraCalls(x)
               PROVE  (x = from' /\ w \in ToSet(edges')) \/ Followed(x, w)
    BY <1>1, <1>2 DEF Covered, Followed, Discovered
  <2>1. CASE x = from'
    BY <1>1, <1>2, <2>1 DEF IntraCalls, Called
  <2>2. CASE x # from'
    <3>1. x \notin ToSet(queue)
      BY <1>4, <2>2
    <3>2. w \notin ToSet(edges)
      BY <1>1, EmptySeq DEF ToSet
    <3> QED
      BY <1>3, <3>1, <3>2 DEF Covered
  <2> QED
    BY <2>1, <2>2
<1> QED
  BY <1>1, <1>3, <1>5, <1>6, <1>7, <1>9, <1>10, <1>11 DEF SearchInv, Breadth

\* What a step that looks at the next call, of v, has to show.
LEMMA NextEdgeFacts ==
    ASSUME AtHand, SearchInv, NEW v, NextEdge(v), UNCHANGED calls
    PROVE  /\ UNCHANGED <<calls, members, waiting, start, from>>
           /\ Functions' = Functions /\ SimpleCycles' = SimpleCycles
           /\ \A x : Called(x)' = Called(x)
           /\ \A x : IntraCalls(x)' = IntraCalls(x)
           /\ members \subseteq Functions /\ Len(calls) \in Nat
           /\ SearchTypeOK /\ EarlierSearched /\ Reached /\ QueueRises /\ Covered
           /\ waiting # members
           /\ from \in members /\ Discovered(from) /\ from + 1 \in 1..Len(calls)
           /\ \A x \in members : Discovered(x) => dist[x] \in Nat
           /\ \A x \in members : Discovered(x) => dist[x] <= dist[from] + 1
           /\ \A i \in 1..Len(queue) : dist[from] <= dist[queue[i]]
           /\ edges' \in Seq(Nat) /\ ToSet(edges) = {v} \cup ToSet(edges')
           /\ ToSet(edges) \subseteq ToSet(calls[from + 1])
           /\ v \in Functions => v \in Called(from)
           /\ DOMAIN queue = 1..Len(queue) /\ Len(queue) \in Nat
<1>1. /\ edges # <<>> /\ v = Head(edges) /\ edges' = Tail(edges)
      /\ UNCHANGED <<members, waiting, start, from>>
  BY DEF NextEdge, component, starts
<1>2. /\ Functions' = Functions /\ SimpleCycles' = SimpleCycles
      /\ \A x : Called(x)' = Called(x)
      /\ \A x : IntraCalls(x)' = IntraCalls(x)
      /\ members \subseteq Functions /\ Len(calls) \in Nat
  BY <1>1, HandKept, HandFacts
<1>3. SearchTypeOK /\ EarlierSearched /\ Reached /\ QueueRises /\ Covered /\ waiting # members /\ FromLeads
  BY <1>1 DEF SearchInv, Breadth
<1>4. edges' \in Seq(Nat) /\ ToSet(edges) = {v} \cup ToSet(edges')
  BY <1>1, <1>3, HoldsTail DEF SearchTypeOK
<1>5. /\ from \in members /\ Discovered(from) /\ ToSet(edges) \subseteq ToSet(calls[from + 1])
      /\ \A x \in members : Discovered(x) => dist[x] <= dist[from] + 1
      /\ \A i \in 1..Len(queue) : dist[from] <= dist[queue[i]]
  BY <1>1, <1>3 DEF FromLeads
<1>6. \A x \in members : Discovered(x) => dist[x] \in Nat
  BY <1>3, DistanceFacts
<1>7. v \in Functions => v \in Called(from)
  BY <1>4, <1>5 DEF Called
<1>8. DOMAIN queue = 1..Len(queue) /\ Len(queue) \in Nat
  BY <1>3, LenProperties DEF SearchTypeOK
<1>9. from + 1 \in 1..Len(calls)
  BY <1>2, <1>5, HandFacts
<1> QED
  BY <1>1, <1>2, <1>3, <1>4, <1>5, <1>6, <1>7, <1>8, <1>9

\* Calls stay followed, and of the latest function one more is.
LEMMA CoveredOn ==
    ASSUME AtHand, SearchInv, NEW v, NextEdge(v), UNCHANGED calls, shortest' \in Nat, shortest' <= shortest,
           \A x \in members : Discovered(x) => dist'[x] = dist[x],
           \A x \in members : Discovered(x)' => \/ Discovered(x)
                                                \/ x \in ToSet(queue') \/ dist'[x] >= shortest',
           ToSet(queue) \subseteq ToSet(queue'),
           v \in members => IF v = start THEN shortest' <= dist[from] + 1
                            ELSE dist'[v] # Unset /\ dist'[v] <= dist[from] + 1
    PROVE  Covered'
<1>1. /\ UNCHANGED <<calls, members, start, from>> /\ Covered /\ shortest \in Nat
      /\ from \in members /\ Discovered(from)
      /\ ToSet(edges) = {v} \cup ToSet(edges')
      /\ \A x : IntraCalls(x)' = IntraCalls(x)
      /\ \A x \in members : Discovered(x) => dist[x] \in Nat
  BY NextEdgeFacts DEF SearchTypeOK
<1> SUFFICES ASSUME NEW x \in members, Discovered(x)', x \notin ToSet(queue'), ~(dist'[x] >= shortest'),
                    NEW w \in IntraCalls(x)
             PROVE  (x = from /\ w \in ToSet(edges')) \/ Followed(x, w)'
  BY <1>1 DEF Covered
<1>2. Discovered(x) /\ x \notin ToSet(queue) /\ dist'[x] = dist[x]
  OBVIOUS
<1>3. ~(dist[x] >= shortest)
  BY <1>1, <1>2
<1>4. w \in members
  BY DEF IntraCalls
<1>5. (x = from /\ w \in ToSet(edges)) \/ Followed(x, w)
  BY <1>1, <1>2, <1>3 DEF Covered
<1>6. ASSUME Followed(x, w) PROVE Followed(x, w)'
  <2>1. CASE w = start
    BY <1>1, <1>2, <1>6, <2>1 DEF Followed
  <2>2. CASE w # start
    BY <1>1, <1>2, <1>4, <1>6, <2>2 DEF Followed, Discovered
  <2> QED
    BY <2>1, <2>2
<1>7. ASSUME x = from, w = v PROVE Followed(x, w)'
  BY <1>1, <1>2, <1>4, <1>7 DEF Followed, Discovered
<1> QED
  BY <1>1, <1>5, <1>6, <1>7

LEMMA LookAtStartInv == AtHand /\ SearchInv /\ LookAtStart /\ UNCHANGED calls => SearchInv'
<1> SUFFICES ASSUME AtHand, SearchInv, LookAtStart, UNCHANGED calls PROVE SearchInv'
  OBVIOUS
<1>1. /\ NextEdge(start) /\ UNCHANGED <<dist, queue>>
      /\ shortest' = Lesser(shortest, dist[from] + 1)
  BY DEF LookAtStart
<1>2. /\ UNCHANGED <<calls, members, waiting, start, from>>
      /\ Functions' = Functions /\ SimpleCycles' = SimpleCycles
      /\ \A x : Called(x)' = Called(x)
      /\ members \subseteq Functions /\ Len(calls) \in Nat
      /\ SearchTypeOK /\ EarlierSearched /\ Reached /\ QueueRises /\ waiting # members
      /\ from \in members /\ Discovered(from)
      /\ \A x \in members : Discovered(x) => dist[x] \in Nat
      /\ \A x \in members : Discovered(x) => dist[x] <= dist[from] + 1
      /\ \A i \in 1..Len(queue) : dist[from] <= dist[queue[i]]
      /\ edges' \in Seq(Nat) /\ ToSet(edges) = {start} \cup ToSet(edges')
      /\ ToSet(edges) \subseteq ToSet(calls[from + 1])
      /\ start \in Functions => start \in Called(from)
  BY <1>1, NextEdgeFacts
<1>3. start \in members /\ shortest \in Nat
  BY <1>2 DEF Reached, SearchTypeOK
<1>4. /\ shortest' \in Nat /\ shortest' <= shortest /\ shortest' <= dist[from] + 1
      /\ shortest' = shortest \/ shortest' = dist[from] + 1
  BY <1>1, <1>2, <1>3 DEF Lesser
<1>5. /\ HasLength => HasLength'
      /\ shortest' # shortest => HasLength'
  <2>1. \E p \in SimpleCycles : Len(p) = dist[from] + 1
    BY <1>2, <1>3, DistanceFacts
  <2> QED
    BY <1>2, <1>4, <2>1 DEF HasLength
<1>6. SearchTypeOK'
  BY <1>1, <1>2, <1>4, <1>5 DEF SearchTypeOK
<1>7. EarlierSearched'
  <2> SUFFICES ASSUME NEW s \in members \ waiting, s # start
               PROVE  HasLength' /\ \A p \in SimpleCycles : p[1] = s => shortest' <= Len(p)
    BY <1>2 DEF EarlierSearched, SearchedFrom
  <2>1. HasLength /\ \A p \in SimpleCycles : p[1] = s => shortest <= Len(p)
    BY <1>2 DEF EarlierSearched, SearchedFrom
  <2>2. \A p \in SimpleCycles : Len(p) \in Nat
    BY CycleFacts
  <2> QED
    BY <1>3, <1>4, <1>5, <2>1, <2>2
<1>8. Reached' /\ QueueRises'
  <2>1. \A x : Discovered(x)' <=> Discovered(x)
    BY <1>1 DEF Discovered
  <2>2. \A x : Distance(x)' <=> Distance(x)
    BY <1>1, <1>2 DEF Distance
  <2> QED
    BY <1>1, <1>2, <2>1, <2>2 DEF Reached, QueueRises
<1>9. FromLeads'
  BY <1>1, <1>2 DEF FromLeads, Discovered
<1>10. Covered'
  BY <1>1, <1>2, <1>3, <1>4, CoveredOn DEF Discovered
<1> QED
  BY <1>2, <1>6, <1>7, <1>8, <1>9, <1>10 DEF SearchInv, Breadth

LEMMA LookElseInv == AtHand /\ SearchInv /\ LookElse /\ UNCHANGED calls => SearchInv'
<1> SUFFICES ASSUME AtHand, SearchInv, LookElse, UNCHANGED calls PROVE SearchInv'
  OBVIOUS
<1> DEFINE v == Head(edges)
<1>1. /\ NextEdge(v) /\ UNCHANGED <<shortest, dist, queue>>
      /\ v \in members => v # start /\ dist[v] # Unset
  BY DEF LookElse
<1> HIDE DEF v
<1>2. /\ UNCHANGED <<calls, members, waiting, start, from>>
      /\ Functions' = Functions /\ SimpleCycles' = SimpleCycles
      /\ \A x : Called(x)' = Called(x)
      /\ SearchTypeOK /\ EarlierSearched /\ Reached /\ QueueRises /\ waiting # members
      /\ from \in members /\ Discovered(from)
      /\ \A x \in members : Discovered(x) => dist[x] <= dist[from] + 1
      /\ \A i \in 1..Len(queue) : dist[from] <= dist[queue[i]]
      /\ edges' \in Seq(Nat) /\ ToSet(edges) = {v} \cup ToSet(edges')
      /\ ToSet(edges) \subseteq ToSet(calls[from + 1])
  BY <1>1, NextEdgeFacts
<1>3. SearchTypeOK'
  BY <1>1, <1>2 DEF SearchTypeOK, HasLength
<1>4. EarlierSearched'
  BY <1>1, <1>2 DEF EarlierSearched, SearchedFrom, HasLength
<1>5. Reached' /\ QueueRises'
  <2>1. \A x : Discovered(x)' <=> Discovered(x)
    BY <1>1 DEF Discovered
  <2>2. \A x : Distance(x)' <=> Distance(x)
    BY <1>1, <1>2 DEF Distance
  <2> QED
    BY <1>1, <1>2, <2>1, <2>2 DEF Reached, QueueRises
<1>6. FromLeads'
  BY <1>1, <1>2 DEF FromLeads, Discovered
<1>7. Covered'
  <2>1. shortest' \in Nat /\ shortest' <= shortest
    BY <1>1, <1>2 DEF SearchTypeOK
  <2> QED
    BY <1>1, <1>2, <2>1, CoveredOn DEF Discovered
<1> QED
  BY <1>2, <1>3, <1>4, <1>5, <1>6, <1>7 DEF SearchInv, Breadth

LEMMA DiscoverInv == AtHand /\ SearchInv /\ Discover /\ UNCHANGED calls => SearchInv'
<1> SUFFICES ASSUME AtHand, SearchInv, Discover, UNCHANGED calls PROVE SearchInv'
  OBVIOUS
<1> DEFINE d == dist[from] + 1
<1>1. PICK v \in members :
         /\ NextEdge(v) /\ v # start /\ dist[v] = Unset
         /\ dist' = [dist EXCEPT ![v] = d]
         /\ queue' = IF Promising(d) THEN Append(queue, v) ELSE queue
  BY DEF Discover
<1>2. shortest' = shortest
  BY DEF Discover
<1>3. /\ UNCHANGED <<calls, members, waiting, start, from>>
      /\ Functions' = Functions /\ SimpleCycles' = SimpleCycles
      /\ \A x : Called(x)' = Called(x)
      /\ members \subseteq Functions /\ Len(calls) \in Nat
  BY <1>1, NextEdgeFacts
<1>4. /\ SearchTypeOK /\ EarlierSearched /\ Reached /\ QueueRises /\ waiting # members
      /\ from \in members /\ Discovered(from)
      /\ \A x \in members : Discovered(x) => dist[x] \in Nat
      /\ \A x \in members : Discovered(x) => dist[x] <= dist[from] + 1
      /\ \A i \in 1..Len(queue) : dist[from] <= dist[queue[i]]
  BY <1>1, NextEdgeFacts
<1>5. /\ edges' \in Seq(Nat) /\ ToSet(edges) = {v} \cup ToSet(edges')
      /\ ToSet(edges) \subseteq ToSet(calls[from + 1])
      /\ v \in Functions /\ v \in Called(from)
      /\ DOMAIN queue = 1..Len(queue) /\ Len(queue) \in Nat
  BY <1>1, NextEdgeFacts
<1>6. /\ d \in Nat /\ dist[from] \in Nat /\ v # from
      /\ start \in members /\ dist \in [Functions -> Nat \cup {Unset}]
      /\ queue \in Seq(members) /\ shortest \in Nat
  BY <1>1, <1>4 DEF Reached, SearchTypeOK, Discovered
<1> HIDE DEF d
<1>7. /\ dist' \in [Functions -> Nat \cup {Unset}]
      /\ dist'[v] = d
      /\ \A x \in members : x # v => dist'[x] = dist[x]
      /\ \A x \in members : Discovered(x)' <=> Discovered(x) \/ x = v
      /\ \A x \in members : Discovered(x) => x # v
  BY <1>1, <1>3, <1>5, <1>6 DEF Discovered, Unset
<1>8. \A i \in 1..Len(queue) : queue[i] \in members /\ Discovered(queue[i])
  BY <1>4, <1>5, <1>6, ElementOfSeq DEF Reached, ToSet
<1>9. /\ queue' \in Seq(members) /\ Len(queue') \in Nat
      /\ ToSet(queue) \subseteq ToSet(queue') /\ ToSet(queue') \subseteq ToSet(queue) \cup {v}
      /\ v \in ToSet(queue') \/ d >= shortest
      /\ \A i \in 1..Len(queue') : \/ i \in 1..Len(queue) /\ queue'[i] = queue[i]
                                   \/ i > Len(queue) /\ queue'[i] = v
  <2>1. /\ Append(queue, v) \in Seq(members) /\ Len(Append(queue, v)) = Len(queue) + 1
        /\ \A i \in 1..Len(queue) : Append(queue, v)[i] = queue[i]
        /\ Append(queue, v)[Len(queue) + 1] = v
        /\ ToSet(Append(queue, v)) = ToSet(queue) \cup {v}
    BY <1>6, AppendProperties, HoldsAppended
  <2>2. CASE Promising(d)
    <3>1. queue' = Append(queue, v)
      BY <1>1, <2>2
    <3>2. \A i \in 1..(Len(queue) + 1) : i \in 1..Len(queue) \/ i = Len(queue) + 1
      BY <1>5
    <3>3. Len(queue) + 1 \in Nat /\ Len(queue) + 1 > Len(queue)
      BY <1>5
    <3> QED
      BY <2>1, <3>1, <3>2, <3>3
  <2>3. CASE ~Promising(d)
    <3>1. queue' = queue
      BY <1>1, <2>3
    <3>2. d >= shortest
      BY <1>6, <2>3 DEF Promising
    <3> QED
      BY <1>5, <1>6, <3>1, <3>2
  <2> QED
    BY <2>2, <2>3
<1>10. SearchTypeOK'
  BY <1>2, <1>3, <1>4, <1>5, <1>9 DEF SearchTypeOK, HasLength
<1>11. EarlierSearched'
  BY <1>2, <1>3, <1>4 DEF EarlierSearched, SearchedFrom, HasLength
<1>12. ASSUME NEW x \in members, Discovered(x) PROVE Distance(x)'
  <2>1. dist[x] \in Nat /\ x # v /\ dist'[x] = dist[x]
    BY <1>4, <1>7, <1>12
  <2>2. PICK p \in [1..(dist[x] + 1) -> members] :
           /\ p[1] = start /\ p[dist[x] + 1] = x
           /\ \A i \in 1..(dist[x] + 1) : dist[p[i]] = i - 1
           /\ \A i \in 1..dist[x] : p[i + 1] \in Called(p[i])
    BY <1>4, <1>12 DEF Reached, Distance
  <2>3. \A i \in 1..(dist[x] + 1) : dist'[p[i]] = i - 1
    <3> SUFFICES ASSUME NEW i \in 1..(dist[x] + 1) PROVE dist'[p[i]] = i - 1
      OBVIOUS
    <3>1. p[i] \in members /\ dist[p[i]] = i - 1
      BY <2>2
    <3>2. i - 1 # Unset
      BY <2>1 DEF Unset
    <3>3. p[i] # v
      BY <1>1, <3>1, <3>2
    <3> QED
      BY <1>7, <3>1, <3>3
  <2> QED
    BY <1>3, <2>1, <2>2, <2>3 DEF Distance
<1>13. Distance(v)'
  <2>1. PICK p \in [1..d -> members] :
           /\ p[1] = start /\ p[d] = from
           /\ \A i \in 1..d : dist[p[i]] = i - 1
           /\ \A i \in 1..(d - 1) : p[i + 1] \in Called(p[i])
    <3>1. d = dist[from] + 1 /\ d - 1 = dist[from]
      BY <1>6 DEF d
    <3> QED
      BY <1>4, <3>1 DEF Reached, Distance
  <2> DEFINE q == [i \in 1..(d + 1) |-> IF i = d + 1 THEN v ELSE p[i]]
  <2>2. d >= 1
    BY <1>6 DEF d
  <2>3. /\ q \in [1..(d + 1) -> members] /\ q[d + 1] = v
        /\ \A i \in 1..d : q[i] = p[i]
    <3>1. \A i \in 1..(d + 1) : i = d + 1 \/ i \in 1..d
      BY <1>6
    <3>2. \A i \in 1..d : i \in 1..(d + 1) /\ i # d + 1
      BY <1>6
    <3>3. d + 1 \in 1..(d + 1)
      BY <1>6
    <3> QED
      BY <2>1, <3>1, <3>2, <3>3
  <2> HIDE DEF q
  <2>4. q[1] = start
    BY <1>6, <2>1, <2>2, <2>3
  <2>5. ASSUME NEW i \in 1..(d + 1) PROVE dist'[q[i]] = i - 1
    <3>1. CASE i = d + 1
      BY <1>6, <1>7, <2>3, <3>1
    <3>2. CASE i # d + 1
      <4>1. i \in 1..d
        BY <1>6, <3>2
      <4>2. q[i] = p[i] /\ p[i] \in members /\ dist[p[i]] = i - 1 /\ i - 1 # Unset
        BY <2>1, <2>3, <4>1 DEF Unset
      <4>3. p[i] # v
        BY <1>1, <4>2
      <4> QED
        BY <1>7, <4>2, <4>3
    <3> QED
      BY <3>1, <3>2
  <2>6. ASSUME NEW i \in 1..d PROVE q[i + 1] \in Called(q[i])
    <3>1. CASE i = d
      BY <1>5, <2>1, <2>3, <3>1
    <3>2. CASE i # d
      <4>1. i \in 1..(d - 1) /\ i + 1 \in 1..d
        BY <1>6, <3>2
      <4> QED
        BY <2>1, <2>3, <4>1
    <3> QED
      BY <3>1, <3>2
  <2> QED
    BY <1>3, <1>7, <2>3, <2>4, <2>5, <2>6 DEF Distance
<1>14. Reached'
  <2>1. dist'[start] = 0
    BY <1>1, <1>4, <1>6, <1>7 DEF Reached
  <2>2. \A x \in ToSet(queue') : x \in members /\ Discovered(x)'
    <3>1. \A x \in ToSet(queue) : x \in members /\ Discovered(x)
      BY <1>5, <1>8 DEF ToSet
    <3> QED
      BY <1>7, <1>9, <3>1
  <2>3. \A x \in members : Discovered(x)' => Distance(x)'
    BY <1>7, <1>12, <1>13
  <2> QED
    BY <1>3, <1>4, <1>6, <1>7, <2>1, <2>2, <2>3 DEF Reached
<1>15. \A x \in members : dist'[x] # Unset => dist'[x] \in Nat /\ dist'[x] <= d
  BY <1>4, <1>6, <1>7 DEF d, Discovered
<1>16. \A i \in 1..Len(queue') : /\ queue'[i] \in members /\ dist'[queue'[i]] \in Nat
                                 /\ dist[from] <= dist'[queue'[i]]
                                 /\ i \notin 1..Len(queue) => dist'[queue'[i]] = d
  <2> SUFFICES ASSUME NEW i \in 1..Len(queue')
               PROVE  /\ queue'[i] \in members /\ dist'[queue'[i]] \in Nat
                      /\ dist[from] <= dist'[queue'[i]]
                      /\ i \notin 1..Len(queue) => dist'[queue'[i]] = d
    OBVIOUS
  <2>1. CASE i \in 1..Len(queue) /\ queue'[i] = queue[i]
    BY <1>4, <1>7, <1>8, <2>1
  <2>2. CASE queue'[i] = v
    <3>1. queue'[i] \in members /\ dist'[queue'[i]] = d /\ dist[from] <= d
      BY <1>6, <1>7, <2>2 DEF d
    <3> QED
      BY <1>6, <3>1
  <2> QED
    BY <1>9, <2>1, <2>2
<1>17. QueueRises'
  <2>1. ASSUME NEW i \in 1..Len(queue'), NEW j \in 1..Len(queue'), i < j
        PROVE  dist'[queue'[i]] <= dist'[queue'[j]]
    <3>1. CASE j \in 1..Len(queue)
      <4>1. i \in 1..Len(queue)
        BY <1>5, <2>1, <3>1
      <4>2. queue'[i] = queue[i] /\ queue'[j] = queue[j]
        BY <1>5, <1>9, <3>1, <4>1
      <4>3. dist[queue[i]] <= dist[queue[j]]
        BY <1>4, <2>1, <3>1, <4>1 DEF QueueRises
      <4> QED
        BY <1>7, <1>8, <3>1, <4>1, <4>2, <4>3
    <3>2. CASE j \notin 1..Len(queue)
      <4>1. dist'[queue'[j]] = d /\ queue'[i] \in members /\ dist'[queue'[i]] # Unset
        BY <1>16, <3>2 DEF Unset
      <4> QED
        BY <1>15, <4>1
    <3> QED
      BY <3>1, <3>2
  <2>2. ASSUME NEW x \in members, Discovered(x)', NEW i \in 1..Len(queue')
        PROVE  dist'[x] <= dist'[queue'[i]] + 1
    <3>1. dist'[x] \in Nat /\ dist'[x] <= d
      BY <1>15, <2>2 DEF Discovered
    <3>2. dist'[queue'[i]] \in Nat /\ dist[from] <= dist'[queue'[i]]
      BY <1>16
    <3> QED
      BY <1>6, <3>1, <3>2 DEF d
  <2> QED
    BY <1>3, <2>1, <2>2 DEF QueueRises
<1>18. FromLeads'
  <2>1. Discovered(from)' /\ dist'[from] = dist[from]
    BY <1>3, <1>4, <1>6, <1>7 DEF Discovered, Unset
  <2>2. ToSet(edges') \subseteq ToSet(calls'[from' + 1])
    BY <1>3, <1>5
  <2> QED
    BY <1>3, <1>4, <1>15, <1>16, <2>1, <2>2 DEF FromLeads, Discovered, d
<1>19. Covered'
  <2>1. \A x \in members : Discovered(x) => dist'[x] = dist[x]
    BY <1>7
  <2>2. \A x \in members : Discovered(x)' => \/ Discovered(x)
                                             \/ x \in ToSet(queue') \/ dist'[x] >= shortest'
    BY <1>2, <1>7, <1>9
  <2>3. IF v = start THEN shortest' <= dist[from] + 1
        ELSE dist'[v] # Unset /\ dist'[v] <= dist[from] + 1
    BY <1>1, <1>6, <1>7 DEF Unset, d
  <2>4. shortest' \in Nat /\ shortest' <= shortest
    BY <1>2, <1>6
  <2> QED
    BY <1>1, <1>9, <2>1, <2>2, <2>3, <2>4, CoveredOn
<1> QED
  BY <1>3, <1>4, <1>10, <1>11, <1>14, <1>17, <1>18, <1>19 DEF SearchInv, Breadth

\* The searches from all members are over.
LEMMA SearchedAll ==
    ASSUME AtHand, SearchInv, queue = <<>>, edges = <<>>, waiting = {}
    PROVE  ShortestExact
<1>1. members # {} /\ waiting # members
  BY DEF AtHand
<1>2. SearchedFrom(start)
  BY <1>1, SearchEnded
<1>3. \A s \in members : s # start => SearchedFrom(s)
  BY DEF SearchInv, EarlierSearched
<1>4. \A p \in SimpleCycles : p[1] \in members
  <2> SUFFICES ASSUME NEW p \in SimpleCycles PROVE p[1] \in members
    OBVIOUS
  <2>1. Len(p) \in Nat /\ 1 <= Len(p) /\ \A i \in 1..Len(p) : p[i] \in members
    BY CycleFacts
  <2>2. 1 \in 1..Len(p)
    BY <2>1
  <2> QED
    BY <2>1, <2>2
<1>5. \A p \in SimpleCycles : shortest <= Len(p)
  <2> SUFFICES ASSUME NEW p \in SimpleCycles PROVE shortest <= Len(p)
    OBVIOUS
  <2>1. SearchedFrom(p[1])
    BY <1>2, <1>3, <1>4
  <2> QED
    BY <2>1 DEF SearchedFrom
<1> QED
  BY <1>2, <1>5 DEF SearchedFrom, HasLength, ShortestExact

-----------------------------------------------------------------------------
(* the inductive invariant of enumerateCyclesInScc                         *)

CircuitTypeOK == /\ maxCycles \in Nat /\ waiting \subseteq members
                 /\ cycles \in Seq(SimpleCycles)
                 /\ path \in Seq(members)
                 /\ rest \in [Functions -> Seq(Nat)]
                 /\ \A v \in Functions : IsInjective(rest[v]) /\ ToSet(rest[v]) \subseteq ToSet(calls[v + 1])
                 /\ found \subseteq members /\ blocked \subseteq members
                 /\ blockMap \in [Functions -> SUBSET members]

\* The path is one of calls, the latest of which were taken.
Chained == /\ IsInjective(path)
           /\ path # <<>> => path[1] = start /\ start \notin waiting
           /\ \A i \in 1..(Len(path) - 1) :
                 path[i + 1] \in Called(path[i]) /\ path[i + 1] \notin ToSet(rest[path[i]])

\* Cycle p leaves the path after j functions by a call not looked at so far.
LeavesAt(p, j) == /\ j <= Len(p) /\ \A i \in 1..j : p[i] = path[i]
                  /\ Following(p, j) \in ToSet(rest[path[j]])

\* Cycle p is still ahead: its start is, or a call that goes on with it.
Ahead(p) == p[1] \in waiting \/ \E j \in 1..Len(path) : LeavesAt(p, j)

Listed == /\ IsInjective(cycles)
          /\ \A p \in ToSet(cycles) : ~Ahead(p)
          /\ ~Limited => \A p \in SimpleCycles : Ahead(p) \/ p \in ToSet(cycles)

\* Over the limit every cycle costs a function of the path.
Spent == Limited => Len(cycles) + Len(path) < maxCycles + Cardinality(members)

Blocking == IF path = <<>> THEN blocked = {} ELSE ToSet(path) \subseteq blocked

\* From a blocked function that is not on the path no call leads back, and it
\* waits for all that it calls.
Stuck == \A x \in blocked \ ToSet(path) : \A w \in IntraCalls(x) :
             w \in blocked /\ w # start /\ x \in blockMap[w]
Waited == \A x \in members \ blocked : blockMap[x] = {}

\* Nothing on the path waits for what is behind it.
ApartAt(i) == \E Z \in SUBSET members :
    /\ path[i] \in Z /\ \A x \in Z : blockMap[x] \subseteq Z
    /\ \A j \in 1..(i - 1) : path[j] \notin Z
Apart == \A i \in 1..Len(path) : ApartAt(i)

\* While neither a function nor one behind it has found a cycle, what it called
\* is blocked.
Barren(i) == \A j \in i..Len(path) : path[j] \notin found
Fruitless == \A i \in 1..Len(path) : Barren(i) =>
    \A w \in IntraCalls(path[i]) : w \in ToSet(rest[path[i]]) \/ (w \in blocked /\ w # start)

Unlimited == Blocking /\ Stuck /\ Waited /\ Apart /\ Fruitless

CircuitInv == /\ CircuitTypeOK /\ Chained /\ Listed /\ Spent
              /\ ~Limited => Unlimited

LEMMA PathFacts ==
    ASSUME AtHand, CircuitTypeOK, Chained, path # <<>>
    PROVE  /\ Len(path) \in Nat /\ Len(path) >= 1 /\ Len(path) <= Cardinality(members)
           /\ ToSet(path) = {path[i] : i \in 1..Len(path)}
           /\ \A i \in 1..Len(path) : path[i] \in members
           /\ \A i, j \in 1..Len(path) : path[i] = path[j] => i = j
           /\ Inner = path[Len(path)] /\ Inner \in members /\ Inner \in Functions
           /\ path[1] = start /\ start \in members /\ start \notin waiting
           /\ Front(path) \in Seq(members) /\ Len(Front(path)) = Len(path) - 1
           /\ \A i \in 1..(Len(path) - 1) : Front(path)[i] = path[i]
           /\ ToSet(Front(path)) = ToSet(path) \ {Inner} /\ Inner \in ToSet(path)
<1> DEFINE n == Len(path)
<1>1. path \in Seq(members) /\ IsInjective(path) /\ path[1] = start /\ start \notin waiting
  BY DEF CircuitTypeOK, Chained
<1>2. /\ n \in Nat /\ n >= 1 /\ DOMAIN path = 1..n
      /\ \A i \in 1..n : path[i] \in members
      /\ path \in [1..n -> members]
  BY <1>1, LenProperties, EmptySeq, ElementOfSeq
<1>3. \A i, j \in 1..n : path[i] = path[j] => i = j
  BY <1>1, <1>2 DEF IsInjective
<1>4. n <= Cardinality(members)
  BY <1>2, <1>3, PathBound
<1>5. /\ Last(path) = path[n]
      /\ Front(path) \in Seq(members) /\ Len(Front(path)) = n - 1
      /\ \A i \in 1..(n - 1) : Front(path)[i] = path[i]
      /\ ToSet(path) = ToSet(Front(path)) \cup {Last(path)}
  BY <1>1, HoldsFront
<1>6. DOMAIN Front(path) = 1..(n - 1)
  BY <1>5, LenProperties
<1>7. path[n] \notin ToSet(Front(path))
  <2> SUFFICES ASSUME path[n] \in ToSet(Front(path)) PROVE FALSE
    OBVIOUS
  <2>1. PICK i \in 1..(n - 1) : path[n] = path[i]
    BY <1>5, <1>6 DEF ToSet
  <2>2. n \in 1..n /\ i \in 1..n
    BY <1>2
  <2>3. n = i
    BY <1>3, <2>1, <2>2
  <2> QED
    BY <1>2, <2>3
<1>8. path[1] \in members /\ path[n] \in members /\ members \subseteq Functions
  BY <1>2, HandFacts
<1>9. ToSet(path) = {path[i] : i \in 1..n}
  BY <1>2 DEF ToSet
<1> HIDE DEF n
<1>10. ToSet(Front(path)) = ToSet(path) \ {path[n]}
  BY <1>5, <1>7
<1> QED
  BY <1>1, <1>2, <1>3, <1>4, <1>5, <1>7, <1>8, <1>9, <1>10 DEF Inner, Caller, n

\* The next call of the innermost circuit.
LEMMA TakenFacts ==
    ASSUME AtHand, CircuitTypeOK, Chained, NEW w, TakeEdge(w)
    PROVE  /\ path # <<>> /\ w \in ToSet(rest[Inner]) /\ Tail(rest[Inner]) \in Seq(Nat)
           /\ ToSet(Tail(rest[Inner])) = ToSet(rest[Inner]) \ {w}
           /\ IsInjective(Tail(rest[Inner]))
           /\ ToSet(Tail(rest[Inner])) \subseteq ToSet(calls[Inner + 1])
           /\ w \in Functions => w \in Called(Inner)
           /\ UNCHANGED <<members, waiting, start, maxCycles>>
<1>1. /\ path # <<>> /\ rest[Inner] # <<>> /\ w = Head(rest[Inner])
      /\ UNCHANGED <<members, waiting, start, maxCycles>>
  BY DEF TakeEdge, component, starts
<1>2. Inner \in Functions
  BY <1>1, PathFacts
<1>3. /\ rest[Inner] \in Seq(Nat) /\ IsInjective(rest[Inner])
      /\ ToSet(rest[Inner]) \subseteq ToSet(calls[Inner + 1])
  BY <1>2 DEF CircuitTypeOK
<1>4. /\ Tail(rest[Inner]) \in Seq(Nat) /\ IsInjective(Tail(rest[Inner]))
      /\ ToSet(Tail(rest[Inner])) = ToSet(rest[Inner]) \ {w} /\ w \in ToSet(rest[Inner])
  BY <1>1, <1>3, TailLacksHead
<1>5. w \in Functions => w \in Called(Inner)
  BY <1>3, <1>4 DEF Called
<1> QED
  BY <1>1, <1>3, <1>4, <1>5

\* No simple cycle goes on from the whole path to a blocked function.
LEMMA DeadEnd ==
    ASSUME AtHand, CircuitTypeOK, Chained, Stuck, path # <<>>,
           NEW p \in SimpleCycles, \A i \in 1..Len(path) : p[i] = path[i],
           Len(path) < Len(p), p[Len(path) + 1] \in blocked
    PROVE  FALSE
<1> DEFINE n == Len(path)
           m == Len(p)
<1>1. /\ n \in Nat /\ n >= 1 /\ ToSet(path) = {path[i] : i \in 1..n} /\ path[1] = start
  BY PathFacts
<1>2. /\ m \in Nat
      /\ \A i, j \in 1..m : p[i] = p[j] => i = j
      /\ \A j \in 1..m : Following(p, j) \in IntraCalls(p[j])
  BY CycleFacts
<1> DEFINE T == {k \in (n + 1)..m : p[k] \in blocked}
<1>3. n + 1 \in T /\ n < m
  BY <1>1, <1>2
<1> HIDE DEF n
<1>4. ASSUME NEW k \in (n + 1)..m PROVE p[k] \notin ToSet(path)
  <2> SUFFICES ASSUME p[k] \in ToSet(path) PROVE FALSE
    OBVIOUS
  <2>1. PICK i \in 1..n : p[k] = path[i]
    BY <1>1
  <2>2. p[k] = p[i]
    BY <2>1 DEF n
  <2>3. k = i
    BY <1>1, <1>2, <1>3, <2>2
  <2> QED
    BY <1>1, <2>3
<1>5. ASSUME NEW k \in T
      PROVE  Following(p, k) \in blocked /\ Following(p, k) # start
  <2>1. p[k] \in blocked \ ToSet(path)
    BY <1>4
  <2>2. Following(p, k) \in IntraCalls(p[k])
    BY <1>1, <1>2
  <2> QED
    BY <2>1, <2>2 DEF Stuck
<1>6. ASSUME NEW k \in (n + 1)..(m - 1), k \in T PROVE k + 1 \in T
  <2>1. k + 1 \in (n + 1)..m /\ k < m
    BY <1>1, <1>2
  <2> QED
    BY <1>5, <1>6, <2>1 DEF Following
<1>7. m \in T
  <2>1. n + 1 \in Nat /\ m \in (n + 1)..m
    BY <1>1, <1>2, <1>3
  <2> HIDE DEF T, m
  <2>2. (n + 1)..m \subseteq T
    BY <1>2, <1>3, <1>6, <2>1, Induct
  <2> QED
    BY <2>1, <2>2
<1>8. Following(p, m) = start
  BY <1>1, <1>2 DEF Following, n
<1> QED
  BY <1>5, <1>7, <1>8

\* A path that is cut short, or some of whose calls were looked at, has no more
\* cycles ahead.
LEMMA Shrinks ==
    ASSUME AtHand, CircuitTypeOK, Chained, path # <<>>, UNCHANGED <<calls, members, waiting, start>>,
           path' \in Seq(members), Len(path') <= Len(path), \A i \in 1..Len(path') : path'[i] = path[i],
           \A i \in 1..Len(path') : ToSet(rest'[path[i]]) \subseteq ToSet(rest[path[i]])
    PROVE  /\ Chained'
           /\ \A p : Ahead(p)' => Ahead(p)
<1> DEFINE n == Len(path)
           k == Len(path')
<1>1. /\ n \in Nat
      /\ \A i, j \in 1..n : path[i] = path[j] => i = j
      /\ path[1] = start /\ start \notin waiting
  BY PathFacts
<1>2. k \in Nat /\ k <= n /\ DOMAIN path' = 1..k /\ (path' # <<>> => k >= 1)
  BY LenProperties, EmptySeq
<1>3. \A v : Called(v)' = Called(v)
  BY HandKept
<1>4. /\ \A i \in 1..k : path'[i] = path[i] /\ i \in 1..n
      /\ \A i \in 1..k : ToSet(rest'[path[i]]) \subseteq ToSet(rest[path[i]])
  BY <1>1, <1>2
<1>5. \A i \in 1..(n - 1) : path[i + 1] \in Called(path[i]) /\ path[i + 1] \notin ToSet(rest[path[i]])
  BY DEF Chained
<1> HIDE DEF n, k
<1>6. IsInjective(path')
  BY <1>1, <1>2, <1>4 DEF IsInjective
<1>7. path' # <<>> => path'[1] = start /\ start \notin waiting
  BY <1>1, <1>2, <1>4
<1>8. ASSUME NEW i \in 1..(k - 1)
      PROVE  path'[i + 1] \in Called(path'[i]) /\ path'[i + 1] \notin ToSet(rest'[path'[i]])
  <2>1. i \in 1..k /\ i + 1 \in 1..k /\ i \in 1..(n - 1)
    BY <1>1, <1>2
  <2> QED
    BY <1>4, <1>5, <2>1
<1>9. Chained'
  BY <1>3, <1>6, <1>7, <1>8 DEF Chained, k
<1>10. ASSUME NEW p, Ahead(p)' PROVE Ahead(p)
  <2>1. CASE p[1] \in waiting
    BY <2>1 DEF Ahead
  <2>2. CASE p[1] \notin waiting
    <3>1. PICK j \in 1..k : LeavesAt(p, j)'
      BY <1>10, <2>2 DEF Ahead, k
    <3>2. /\ j <= Len(p) /\ \A i \in 1..j : p[i] = path'[i]
          /\ Following(p, j) \in ToSet(rest'[path'[j]])
      BY <3>1 DEF LeavesAt, Following
    <3>3. \A i \in 1..j : i \in 1..k
      BY <1>2
    <3>4. LeavesAt(p, j) /\ j \in 1..n
      BY <1>4, <3>2, <3>3 DEF LeavesAt
    <3> QED
      BY <3>4 DEF Ahead, n
  <2> QED
    BY <2>1, <2>2
<1> QED
  BY <1>9, <1>10

\* The innermost circuit has one call less to look at.
LEMMA RestTaken ==
    ASSUME AtHand, CircuitTypeOK, Chained, NEW w, TakeEdge(w), rest' = [rest EXCEPT ![Inner] = Tail(@)]
    PROVE  /\ rest' \in [Functions -> Seq(Nat)]
           /\ \A v \in Functions : IsInjective(rest'[v]) /\ ToSet(rest'[v]) \subseteq ToSet(calls[v + 1])
           /\ \A v \in Functions : ToSet(rest'[v]) \subseteq ToSet(rest[v])
           /\ ToSet(rest'[Inner]) = ToSet(rest[Inner]) \ {w}
           /\ \A v \in Functions : v # Inner => rest'[v] = rest[v]
<1>1. /\ path # <<>> /\ Tail(rest[Inner]) \in Seq(Nat) /\ IsInjective(Tail(rest[Inner]))
      /\ ToSet(Tail(rest[Inner])) = ToSet(rest[Inner]) \ {w}
      /\ ToSet(Tail(rest[Inner])) \subseteq ToSet(calls[Inner + 1])
  BY TakenFacts
<1>2. /\ Inner \in Functions /\ rest \in [Functions -> Seq(Nat)]
      /\ \A v \in Functions : IsInjective(rest[v]) /\ ToSet(rest[v]) \subseteq ToSet(calls[v + 1])
  BY <1>1, PathFacts DEF CircuitTypeOK
<1>3. /\ rest' \in [Functions -> Seq(Nat)] /\ rest'[Inner] = Tail(rest[Inner])
      /\ \A v \in Functions : v # Inner => rest'[v] = rest[v]
  BY <1>1, <1>2
<1>4. \A v \in Functions : IsInjective(rest'[v]) /\ ToSet(rest'[v]) \subseteq ToSet(calls[v + 1])
                           /\ ToSet(rest'[v]) \subseteq ToSet(rest[v])
  <2> SUFFICES ASSUME NEW v \in Functions
               PROVE  IsInjective(rest'[v]) /\ ToSet(rest'[v]) \subseteq ToSet(calls[v + 1])
                      /\ ToSet(rest'[v]) \subseteq ToSet(rest[v])
    OBVIOUS
  <2>1. CASE v = Inner
    BY <1>1, <1>3, <2>1
  <2>2. CASE v # Inner
    BY <1>2, <1>3, <2>2
  <2> QED
    BY <2>1, <2>2
<1> QED
  BY <1>1, <1>3, <1>4

\* What is ahead stays ahead, but for the cycles that go on with the call that
\* was taken.
LEMMA StillAhead ==
    ASSUME AtHand, CircuitTypeOK, Chained, NEW w, TakeEdge(w), rest' = [rest EXCEPT ![Inner] = Tail(@)],
           UNCHANGED <<calls, path>>, NEW p, Ahead(p)
    PROVE  \/ Ahead(p)'
           \/ /\ Len(path) <= Len(p) /\ \A i \in 1..Len(path) : p[i] = path[i]
              /\ Following(p, Len(path)) = w
<1> DEFINE n == Len(path)
<1>1. /\ UNCHANGED <<waiting>> /\ path # <<>>
      /\ ToSet(rest'[Inner]) = ToSet(rest[Inner]) \ {w}
      /\ \A v \in Functions : v # Inner => rest'[v] = rest[v]
  BY TakenFacts, RestTaken
<1>2. /\ Inner = path[n] /\ n \in Nat
      /\ \A i \in 1..n : path[i] \in members
      /\ members \subseteq Functions
  BY <1>1, PathFacts, HandFacts
<1>3. CASE p[1] \in waiting
  BY <1>1, <1>3 DEF Ahead
<1>4. CASE p[1] \notin waiting
  <2>1. PICK j \in 1..n : LeavesAt(p, j)
    BY <1>4 DEF Ahead
  <2>2. /\ j <= Len(p) /\ \A i \in 1..j : p[i] = path[i]
        /\ Following(p, j) \in ToSet(rest[path[j]])
    BY <2>1 DEF LeavesAt
  <2>3. ASSUME Following(p, j) \in ToSet(rest'[path[j]]) PROVE Ahead(p)'
    <3>1. LeavesAt(p, j)'
      BY <2>2, <2>3 DEF LeavesAt, Following
    <3> QED
      BY <3>1 DEF Ahead
  <2>4. CASE path[j] # Inner
    BY <1>1, <1>2, <2>2, <2>3, <2>4
  <2>5. CASE path[j] = Inner
    <3>1. j = n
      BY <1>1, <1>2, <2>5, PathFacts
    <3> QED
      BY <1>1, <2>2, <2>3, <2>5, <3>1
  <2> QED
    BY <2>4, <2>5
<1> QED
  BY <1>3, <1>4

LEMMA DeclineInv == AtHand /\ CircuitInv /\ Decline /\ UNCHANGED calls => CircuitInv'
<1> SUFFICES ASSUME AtHand, CircuitInv, Decline, UNCHANGED calls PROVE CircuitInv'
  OBVIOUS
<1> DEFINE w == Head(rest[Inner])
           n == Len(path)
<1>1. /\ TakeEdge(w) /\ rest' = [rest EXCEPT ![Inner] = Tail(@)]
      /\ UNCHANGED <<cycles, path, found, blocked, blockMap>>
      /\ w \in members => w # start /\ (w \in blocked \/ Limited)
  BY DEF Decline
<1> HIDE DEF w
<1>2. CircuitTypeOK /\ Chained /\ Listed /\ Spent /\ (~Limited => Unlimited)
  BY DEF CircuitInv
<1>3. /\ UNCHANGED <<members, waiting, start, maxCycles>> /\ path # <<>>
      /\ w \in ToSet(rest[Inner])
  BY <1>1, <1>2, TakenFacts
<1>4. /\ rest' \in [Functions -> Seq(Nat)]
      /\ \A v \in Functions : IsInjective(rest'[v]) /\ ToSet(rest'[v]) \subseteq ToSet(calls[v + 1])
      /\ \A v \in Functions : ToSet(rest'[v]) \subseteq ToSet(rest[v])
      /\ ToSet(rest'[Inner]) = ToSet(rest[Inner]) \ {w}
      /\ \A v \in Functions : v # Inner => rest'[v] = rest[v]
  BY <1>1, <1>2, RestTaken
<1>5. /\ Functions' = Functions /\ SimpleCycles' = SimpleCycles
      /\ \A v : IntraCalls(v)' = IntraCalls(v)
  BY <1>3, HandKept
<1>6. /\ n \in Nat /\ n >= 1 /\ Inner = path[n]
      /\ \A i \in 1..n : path[i] \in members /\ path[i] \in Functions
      /\ \A i, j \in 1..n : path[i] = path[j] => i = j
      /\ path \in Seq(members) /\ path[1] = start
  BY <1>2, <1>3, PathFacts, HandFacts DEF CircuitTypeOK
<1>7. Chained' /\ \A p : Ahead(p)' => Ahead(p)
  <2>1. /\ path' \in Seq(members) /\ Len(path') <= Len(path)
        /\ \A i \in 1..Len(path') : path'[i] = path[i]
        /\ \A i \in 1..Len(path') : ToSet(rest'[path[i]]) \subseteq ToSet(rest[path[i]])
    BY <1>1, <1>4, <1>6
  <2> QED
    BY <1>2, <1>3, <2>1, Shrinks
<1>8. CircuitTypeOK'
  BY <1>1, <1>2, <1>3, <1>4, <1>5 DEF CircuitTypeOK
<1>9. Spent' /\ (Limited' <=> Limited)
  BY <1>1, <1>2, <1>3 DEF Spent, Limited
<1>10. ASSUME ~Limited, NEW p \in SimpleCycles, Ahead(p) PROVE Ahead(p)'
  <2> SUFFICES ASSUME n <= Len(p), \A i \in 1..n : p[i] = path[i], Following(p, n) = w PROVE FALSE
    BY <1>1, <1>2, <1>10, StillAhead
  <2>1. /\ Len(p) \in Nat /\ Following(p, n) \in members
        /\ \A i, j \in 1..Len(p) : p[i] = p[j] => i = j
    <3>1. n \in 1..Len(p)
      BY <1>6, CycleFacts
    <3> QED
      BY <3>1, CycleFacts DEF IntraCalls
  <2>2. w # start /\ w \in blocked
    BY <1>1, <1>10, <2>1
  <2>3. n < Len(p) /\ p[n + 1] = w
    <3>1. p[1] = start
      BY <1>6
    <3> QED
      BY <1>6, <2>1, <2>2, <3>1 DEF Following
  <2> QED
    BY <1>2, <1>3, <1>10, <2>2, <2>3, DeadEnd DEF Unlimited
<1>11. Listed'
  <2>1. /\ IsInjective(cycles) /\ \A p \in ToSet(cycles) : ~Ahead(p)
        /\ ~Limited => \A p \in SimpleCycles : Ahead(p) \/ p \in ToSet(cycles)
    BY <1>2 DEF Listed
  <2>2. \A p \in ToSet(cycles') : ~Ahead(p)'
    BY <1>1, <1>7, <2>1
  <2> QED
    BY <1>1, <1>5, <1>9, <1>10, <2>1, <2>2 DEF Listed
<1>12. ASSUME ~Limited PROVE Unlimited'
  <2>1. Blocking /\ Stuck /\ Waited /\ Apart /\ Fruitless
    BY <1>2, <1>12 DEF Unlimited
  <2>2. Blocking' /\ Stuck' /\ Waited'
    BY <1>1, <1>3, <1>5, <2>1 DEF Blocking, Stuck, Waited
  <2>3. Apart'
    BY <1>1, <1>3, <2>1 DEF Apart, ApartAt
  <2>4. Fruitless'
    <3> SUFFICES ASSUME NEW i \in 1..n, Barren(i)', NEW x \in IntraCalls(path[i]),
                        x \notin ToSet(rest'[path[i]])
                 PROVE  x \in blocked /\ x # start
      BY <1>1, <1>3, <1>5 DEF Fruitless
    <3>1. x \in ToSet(rest[path[i]]) \/ (x \in blocked /\ x # start)
      BY <1>1, <2>1 DEF Fruitless, Barren
    <3>2. CASE x \in ToSet(rest[path[i]])
      <4>1. path[i] = Inner /\ x = w
        BY <1>4, <1>6, <3>2
      <4>2. w \in members
        BY <4>1 DEF IntraCalls
      <4> QED
        BY <1>1, <1>12, <4>1, <4>2
    <3> QED
      BY <3>1, <3>2
  <2> QED
    BY <2>2, <2>3, <2>4 DEF Unlimited
<1> QED
  BY <1>7, <1>8, <1>9, <1>11, <1>12 DEF CircuitInv

\* A circuit of w begins, with all the calls of w to look at.
LEMMA DeepenFacts ==
    ASSUME AtHand, CircuitInv, NEW w \in members, ~Limited, TakeEdge(w), w # start, w \notin blocked,
           path' = Append(path, w),
           rest' = [rest EXCEPT ![Inner] = Tail(@), ![w] = calls[w + 1]]
    PROVE  /\ path # <<>> /\ w \notin ToSet(path) /\ path' \in Seq(members)
           /\ Len(path') = Len(path) + 1 /\ path'[Len(path) + 1] = w
           /\ \A i \in 1..Len(path) : path'[i] = path[i] /\ path[i] # w
           /\ ToSet(path') = ToSet(path) \cup {w}
           /\ rest' \in [Functions -> Seq(Nat)]
           /\ \A v \in Functions : IsInjective(rest'[v]) /\ ToSet(rest'[v]) \subseteq ToSet(calls[v + 1])
           /\ rest'[w] = calls[w + 1]
           /\ ToSet(rest'[Inner]) = ToSet(rest[Inner]) \ {w}
           /\ \A v \in Functions : v # Inner /\ v # w => rest'[v] = rest[v]
           /\ \A v \in Functions : v # w => ToSet(rest'[v]) \subseteq ToSet(rest[v])
<1>1. CircuitTypeOK /\ Chained /\ Blocking
  BY DEF CircuitInv, Unlimited
<1>2. /\ path # <<>> /\ Tail(rest[Inner]) \in Seq(Nat) /\ IsInjective(Tail(rest[Inner]))
      /\ ToSet(Tail(rest[Inner])) = ToSet(rest[Inner]) \ {w}
      /\ ToSet(Tail(rest[Inner])) \subseteq ToSet(calls[Inner + 1])
  BY <1>1, TakenFacts
<1>3. /\ Inner \in Functions /\ Inner \in ToSet(path) /\ path \in Seq(members)
      /\ ToSet(path) = {path[i] : i \in 1..Len(path)}
      /\ rest \in [Functions -> Seq(Nat)]
      /\ \A v \in Functions : IsInjective(rest[v]) /\ ToSet(rest[v]) \subseteq ToSet(calls[v + 1])
  BY <1>1, <1>2, PathFacts DEF CircuitTypeOK
<1>4. w \notin ToSet(path) /\ w # Inner
  BY <1>1, <1>2, <1>3 DEF Blocking
<1>5. /\ w \in Functions /\ calls[w + 1] \in Seq(Nat) /\ IsInjective(calls[w + 1])
  BY HandFacts DEF AtHand, CallsListed
<1>6. /\ path' \in Seq(members) /\ Len(path') = Len(path) + 1 /\ path'[Len(path) + 1] = w
      /\ \A i \in 1..Len(path) : path'[i] = path[i]
      /\ ToSet(path') = ToSet(path) \cup {w}
  BY <1>3, AppendProperties, HoldsAppended
<1>7. /\ rest' \in [Functions -> Seq(Nat)]
      /\ rest'[w] = calls[w + 1] /\ rest'[Inner] = Tail(rest[Inner])
      /\ \A v \in Functions : v # Inner /\ v # w => rest'[v] = rest[v]
  BY <1>2, <1>3, <1>4, <1>5
<1>8. ASSUME NEW v \in Functions
      PROVE  /\ IsInjective(rest'[v]) /\ ToSet(rest'[v]) \subseteq ToSet(calls[v + 1])
             /\ v # w => ToSet(rest'[v]) \subseteq ToSet(rest[v])
  <2>1. CASE v = w
    BY <1>5, <1>7, <2>1
  <2>2. CASE v = Inner
    BY <1>2, <1>4, <1>7, <2>2
  <2>3. CASE v # w /\ v # Inner
    BY <1>3, <1>7, <2>3
  <2> QED
    BY <2>1, <2>2, <2>3
<1>9. /\ \A i \in 1..Len(path) : path'[i] = path[i] /\ path[i] # w
      /\ ToSet(rest'[Inner]) = ToSet(rest[Inner]) \ {w}
  <2>1. \A i \in 1..Len(path) : path[i] # w
    BY <1>3, <1>4
  <2>2. ToSet(rest'[Inner]) = ToSet(rest[Inner]) \ {w}
    BY <1>2, <1>7
  <2> QED
    BY <1>6, <2>1, <2>2
<1> QED
  BY <1>2, <1>4, <1>6, <1>7, <1>8, <1>9

LEMMA DeepenInv == AtHand /\ CircuitInv /\ Deepen /\ UNCHANGED calls => CircuitInv'
<1> SUFFICES ASSUME AtHand, CircuitInv, Deepen, UNCHANGED calls PROVE CircuitInv'
  OBVIOUS
<1>0. PICK n : n = Len(path)
  OBVIOUS
<1>1. PICK w \in members :
         /\ TakeEdge(w) /\ w # start /\ w \notin blocked
         /\ path' = Append(path, w)
         /\ rest' = [rest EXCEPT ![Inner] = Tail(@), ![w] = calls[w + 1]]
         /\ found' = found \ {w}
         /\ blocked' = blocked \cup {w}
  BY DEF Deepen
<1>2. ~Limited /\ UNCHANGED <<cycles, blockMap>>
  BY DEF Deepen
<1>3. /\ CircuitTypeOK /\ Chained /\ Listed /\ Spent
      /\ Blocking /\ Stuck /\ Waited /\ Apart /\ Fruitless
  BY <1>2 DEF CircuitInv, Unlimited
<1>4. /\ path # <<>> /\ w \notin ToSet(path) /\ path' \in Seq(members)
      /\ Len(path') = n + 1 /\ path'[n + 1] = w
      /\ \A i \in 1..n : path'[i] = path[i] /\ path[i] # w
      /\ ToSet(path') = ToSet(path) \cup {w}
      /\ rest' \in [Functions -> Seq(Nat)]
      /\ \A v \in Functions : IsInjective(rest'[v]) /\ ToSet(rest'[v]) \subseteq ToSet(calls[v + 1])
      /\ rest'[w] = calls[w + 1]
      /\ ToSet(rest'[Inner]) = ToSet(rest[Inner]) \ {w}
      /\ \A v \in Functions : v # Inner /\ v # w => rest'[v] = rest[v]
      /\ \A v \in Functions : v # w => ToSet(rest'[v]) \subseteq ToSet(rest[v])
  BY <1>0, <1>1, <1>2, DeepenFacts
<1>5. /\ n \in Nat /\ n >= 1 /\ Inner = path[n] /\ path[1] = start /\ start \notin waiting
      /\ \A i \in 1..n : path[i] \in members /\ path[i] \in Functions
      /\ \A i, j \in 1..n : path[i] = path[j] => i = j
      /\ ToSet(path) = {path[i] : i \in 1..n}
  BY <1>0, <1>3, <1>4, PathFacts, HandFacts
<1>6. /\ UNCHANGED <<members, waiting, start, maxCycles>>
      /\ w \in Functions /\ w \in ToSet(rest[Inner]) /\ w \in Called(Inner)
  BY <1>1, <1>3, TakenFacts, HandFacts
<1>7. /\ Functions' = Functions /\ SimpleCycles' = SimpleCycles
      /\ \A v : Called(v)' = Called(v)
      /\ \A v : IntraCalls(v)' = IntraCalls(v)
  BY <1>6, HandKept
<1>8. \A i \in 1..(n + 1) : i \in 1..n \/ i = n + 1
  BY <1>5
<1>9. \A i \in 1..n : i \in 1..(n + 1) /\ i # n + 1
  BY <1>5
<1>10. CircuitTypeOK'
  BY <1>1, <1>2, <1>3, <1>4, <1>6, <1>7 DEF CircuitTypeOK
<1>11. Chained'
  <2>1. IsInjective(path')
    <3>1. DOMAIN path' = 1..(n + 1)
      BY <1>4, LenProperties
    <3>2. ASSUME NEW i \in 1..n, NEW j \in 1..(n + 1), path'[i] = path'[j] PROVE i = j
      <4>1. path'[j] # w
        BY <1>4, <3>2
      <4>2. j \in 1..n
        BY <1>4, <1>8, <4>1
      <4> QED
        BY <1>4, <1>5, <3>2, <4>2
    <3> QED
      BY <1>4, <1>8, <3>1, <3>2 DEF IsInjective
  <2>2. path'[1] = start
    BY <1>4, <1>5
  <2>3. ASSUME NEW i \in 1..n
        PROVE  path'[i + 1] \in Called(path'[i]) /\ path'[i + 1] \notin ToSet(rest'[path'[i]])
    <3>1. CASE i = n
      BY <1>4, <1>5, <1>6, <3>1
    <3>2. CASE i # n
      <4>1. i \in 1..(n - 1) /\ i + 1 \in 1..n
        BY <1>5, <3>2
      <4>2. path[i + 1] \in Called(path[i]) /\ path[i + 1] \notin ToSet(rest[path[i]])
        BY <1>0, <1>3, <4>1 DEF Chained
      <4>3. path'[i + 1] = path[i + 1] /\ path'[i] = path[i] /\ path[i] # w /\ path[i] \in Functions
        BY <1>4, <1>5, <4>1
      <4> QED
        BY <1>4, <4>2, <4>3
    <3> QED
      BY <3>1, <3>2
  <2>4. Len(path') - 1 = n
    BY <1>4, <1>5
  <2> QED
    BY <1>5, <1>6, <1>7, <2>1, <2>2, <2>3, <2>4 DEF Chained
<1>12. ASSUME NEW p \in SimpleCycles PROVE Ahead(p)' <=> Ahead(p)
  <2>1. /\ Len(p) \in Nat /\ Len(p) >= 1
        /\ \A j \in 1..Len(p) : Following(p, j) \in IntraCalls(p[j])
    BY CycleFacts
  <2>2. ASSUME NEW j \in 1..n, LeavesAt(p, j) PROVE Ahead(p)'
    <3>1. /\ j <= Len(p) /\ \A i \in 1..j : p[i] = path[i]
          /\ Following(p, j) \in ToSet(rest[path[j]])
      BY <2>2 DEF LeavesAt
    <3>2. \A i \in 1..j : i \in 1..n
      BY <1>5
    <3>3. \A i \in 1..j : p[i] = path'[i]
      BY <1>4, <3>1, <3>2
    <3>4. ASSUME Following(p, j) \in ToSet(rest'[path[j]]) PROVE Ahead(p)'
      <4>1. LeavesAt(p, j)'
        BY <1>4, <3>1, <3>3, <3>4 DEF LeavesAt, Following
      <4> QED
        BY <1>4, <1>9, <4>1 DEF Ahead
    <3>5. CASE path[j] # Inner
      BY <1>4, <1>5, <3>1, <3>4, <3>5
    <3>6. CASE path[j] = Inner
      <4>1. j = n
        BY <1>5, <3>6
      <4>2. CASE Following(p, j) # w
        BY <1>4, <3>1, <3>4, <3>6, <4>2
      <4>3. CASE Following(p, j) = w
        <5>1. p[1] = start
          BY <1>5, <3>1
        <5>2. n < Len(p) /\ p[n + 1] = w
          BY <1>1, <2>1, <4>1, <4>3, <5>1 DEF Following
        <5>3. n + 1 <= Len(p) /\ n + 1 \in 1..Len(p)
          BY <1>5, <2>1, <5>2
        <5>4. \A i \in 1..(n + 1) : p[i] = path'[i]
          BY <1>4, <1>8, <3>3, <4>1, <5>2
        <5>5. Following(p, n + 1) \in ToSet(rest'[path'[n + 1]])
          BY <1>4, <2>1, <5>2, <5>3 DEF IntraCalls, Called
        <5>6. LeavesAt(p, n + 1)'
          BY <1>0, <1>4, <5>3, <5>4, <5>5 DEF LeavesAt, Following
        <5>7. n + 1 \in 1..Len(path')
          BY <1>4, <1>5
        <5> QED
          BY <5>6, <5>7 DEF Ahead
      <4> QED
        BY <4>2, <4>3
    <3> QED
      BY <3>5, <3>6
  <2>3. ASSUME NEW j \in 1..(n + 1), LeavesAt(p, j)' PROVE Ahead(p)
    <3>1. /\ j <= Len(p) /\ \A i \in 1..j : p[i] = path'[i]
          /\ Following(p, j) \in ToSet(rest'[path'[j]])
      BY <2>3 DEF LeavesAt, Following
    <3>2. CASE j \in 1..n
      <4>1. \A i \in 1..j : i \in 1..n
        BY <1>5, <3>2
      <4>2. LeavesAt(p, j)
        BY <1>4, <1>5, <3>1, <3>2, <4>1 DEF LeavesAt
      <4> QED
        BY <1>0, <3>2, <4>2 DEF Ahead
    <3>3. CASE j = n + 1
      <4>1. n < Len(p) /\ n <= Len(p)
        BY <1>5, <2>1, <3>1, <3>3
      <4>2. \A i \in 1..n : p[i] = path[i]
        BY <1>4, <1>9, <3>1, <3>3
      <4>3. n + 1 \in 1..(n + 1)
        BY <1>5
      <4>4. Following(p, n) = w
        BY <1>4, <3>1, <3>3, <4>1, <4>3 DEF Following
      <4>5. LeavesAt(p, n) /\ n \in 1..n
        BY <1>5, <1>6, <4>1, <4>2, <4>4 DEF LeavesAt
      <4> QED
        BY <1>0, <4>5 DEF Ahead
    <3> QED
      BY <1>8, <3>2, <3>3
  <2>4. Ahead(p) <=> p[1] \in waiting \/ \E j \in 1..n : LeavesAt(p, j)
    BY <1>0 DEF Ahead
  <2>5. Ahead(p)' <=> p[1] \in waiting \/ \E j \in 1..(n + 1) : LeavesAt(p, j)'
    BY <1>4, <1>6 DEF Ahead
  <2> QED
    BY <2>2, <2>3, <2>4, <2>5
<1>13. Limited' <=> Limited
  BY <1>2, <1>6 DEF Limited
<1>14. Listed'
  <2>1. \A p \in ToSet(cycles) : p \in SimpleCycles
    <3>1. cycles \in Seq(SimpleCycles)
      BY <1>3 DEF CircuitTypeOK
    <3>2. cycles \in [1..Len(cycles) -> SimpleCycles] /\ DOMAIN cycles = 1..Len(cycles)
      BY <3>1, LenProperties
    <3> QED
      BY <3>2 DEF ToSet
  <2> QED
    BY <1>2, <1>3, <1>7, <1>12, <1>13, <2>1 DEF Listed
<1>15. Spent'
  BY <1>2, <1>13 DEF Spent
<1>16. Blocking'
  <2>1. path' # <<>>
    BY <1>4, <1>5, EmptySeq
  <2> QED
    BY <1>1, <1>3, <1>4, <2>1 DEF Blocking
<1>17. Stuck' /\ Waited'
  BY <1>1, <1>2, <1>3, <1>4, <1>6, <1>7 DEF Stuck, Waited
<1>18. Apart'
  <2> SUFFICES ASSUME NEW i \in 1..(n + 1) PROVE ApartAt(i)'
    BY <1>4 DEF Apart
  <2>1. \A j \in 1..(i - 1) : j \in 1..n
    BY <1>5
  <2>2. CASE i \in 1..n
    <3>1. PICK Z \in SUBSET members :
             /\ path[i] \in Z /\ \A x \in Z : blockMap[x] \subseteq Z
             /\ \A j \in 1..(i - 1) : path[j] \notin Z
      BY <1>0, <1>3, <2>2 DEF Apart, ApartAt
    <3> QED
      BY <1>2, <1>4, <1>6, <2>1, <2>2, <3>1 DEF ApartAt
  <2>3. CASE i = n + 1
    <3>1. blockMap[w] = {}
      BY <1>1, <1>3 DEF Waited
    <3>2. {w} \in SUBSET members /\ w \in {w} /\ (\A x \in {w} : blockMap[x] \subseteq {w})
          /\ \A j \in 1..(i - 1) : path'[j] \notin {w}
      BY <1>4, <2>1, <3>1
    <3> QED
      BY <1>2, <1>4, <1>6, <2>3, <3>2 DEF ApartAt
  <2> QED
    BY <1>8, <2>2, <2>3
<1>19. Fruitless'
  <2> SUFFICES ASSUME NEW i \in 1..(n + 1), Barren(i)', NEW x \in IntraCalls(path'[i]),
                      x \notin ToSet(rest'[path'[i]])
               PROVE  x \in blocked' /\ x # start
    BY <1>4, <1>6, <1>7 DEF Fruitless
  <2>1. CASE i = n + 1
    BY <1>4, <2>1 DEF IntraCalls, Called
  <2>2. CASE i \in 1..n
    <3>1. path'[i] = path[i] /\ path[i] # w /\ path[i] \in Functions
      BY <1>4, <1>5, <2>2
    <3>2. Barren(i)
      <4>1. \A j \in i..n : j \in 1..n /\ j \in i..(n + 1)
        BY <1>5, <2>2
      <4>2. \A j \in i..(n + 1) : path'[j] \notin found'
        BY <1>4 DEF Barren
      <4> QED
        BY <1>0, <1>1, <1>4, <4>1, <4>2 DEF Barren
    <3>3. x \in ToSet(rest[path[i]]) \/ (x \in blocked /\ x # start)
      BY <1>0, <1>3, <2>2, <3>1, <3>2 DEF Fruitless
    <3>4. ASSUME x \in ToSet(rest[path[i]]) PROVE x = w
      <4>1. x \notin ToSet(rest'[path[i]])
        BY <3>1
      <4>2. path[i] = Inner
        BY <1>4, <3>1, <3>4, <4>1
      <4> QED
        BY <1>4, <3>4, <4>1, <4>2
    <3> QED
      BY <1>1, <3>3, <3>4
  <2> QED
    BY <1>8, <2>1, <2>2
<1> QED
  BY <1>10, <1>11, <1>14, <1>15, <1>16, <1>17, <1>18, <1>19 DEF CircuitInv, Unlimited

LEMMA InjectiveAppended ==
    ASSUME NEW S, NEW s \in Seq(S), NEW e \in S, IsInjective(s), e \notin ToSet(s)
    PROVE  IsInjective(Append(s, e))
<1> DEFINE t == Append(s, e)
<1>1. /\ Len(s) \in Nat /\ DOMAIN s = 1..Len(s) /\ DOMAIN t = 1..(Len(s) + 1)
      /\ \A i \in 1..Len(s) : t[i] = s[i] /\ s[i] # e
      /\ t[Len(s) + 1] = e
  BY AppendProperties, LenProperties DEF ToSet
<1>2. \A i \in 1..(Len(s) + 1) : i \in 1..Len(s) \/ i = Len(s) + 1
  BY <1>1
<1> HIDE DEF t
<1>3. ASSUME NEW i \in 1..Len(s), NEW j \in 1..Len(s), t[i] = t[j] PROVE i = j
  BY <1>1, <1>3 DEF IsInjective
<1>4. ASSUME NEW i \in 1..(Len(s) + 1), NEW j \in 1..(Len(s) + 1), t[i] = t[j] PROVE i = j
  BY <1>1, <1>2, <1>3, <1>4
<1>5. IsInjective(t)
  BY <1>1, <1>4 DEF IsInjective
<1> QED
  BY <1>5 DEF t

\* The innermost circuit returns.
LEMMA LeaveFacts ==
    ASSUME AtHand, CircuitTypeOK, Chained, path # <<>>, NEW success \in BOOLEAN, Leave(success),
           UNCHANGED <<calls, members, waiting, start>>,
           \A v \in Functions : v # Inner => rest'[v] = rest[v]
    PROVE  /\ path' \in Seq(members) /\ Len(path') = Len(path) - 1
           /\ \A i \in 1..(Len(path) - 1) : /\ path'[i] = path[i] /\ path[i] \in Functions
                                            /\ path[i] # Inner /\ i \in 1..Len(path)
           /\ ToSet(path') = ToSet(path) \ {Inner} /\ (path' = <<>> <=> Len(path) = 1)
           /\ found' \subseteq members /\ found \subseteq found'
           /\ success /\ Len(path) > 1 => path[Len(path) - 1] \in found'
           /\ ~success => found' = found
           /\ Chained'
           /\ \A p : Ahead(p)' => Ahead(p)
<1> DEFINE n == Len(path)
<1>1. /\ n \in Nat /\ n >= 1
      /\ \A i \in 1..n : path[i] \in members
      /\ \A i, j \in 1..n : path[i] = path[j] => i = j
      /\ Inner = path[n] /\ members \subseteq Functions
      /\ Front(path) \in Seq(members) /\ Len(Front(path)) = n - 1
      /\ \A i \in 1..(n - 1) : Front(path)[i] = path[i]
      /\ ToSet(Front(path)) = ToSet(path) \ {Inner}
      /\ found \subseteq members
  BY PathFacts, HandFacts DEF CircuitTypeOK
<1>2. /\ path' = Front(path)
      /\ found' = IF success /\ n > 1 THEN found \cup {path[n - 1]} ELSE found
  BY DEF Leave
<1> HIDE DEF n
<1>3. \A i \in 1..(n - 1) : i \in 1..n /\ i # n /\ n \in 1..n
  BY <1>1
<1>4. \A i \in 1..(n - 1) : /\ path'[i] = path[i] /\ path[i] \in Functions
                            /\ path[i] # Inner /\ i \in 1..n
  BY <1>1, <1>2, <1>3
<1>5. path' = <<>> <=> n = 1
  BY <1>1, <1>2, EmptySeq
<1>6. /\ found' \subseteq members /\ found \subseteq found'
      /\ success /\ n > 1 => path[n - 1] \in found'
      /\ ~success => found' = found
  <2>1. n > 1 => n - 1 \in 1..n
    BY <1>1
  <2> QED
    BY <1>1, <1>2, <2>1
<1>7. Chained' /\ \A p : Ahead(p)' => Ahead(p)
  <2>1. /\ Len(path') <= Len(path)
        /\ \A i \in 1..Len(path') : path'[i] = path[i]
        /\ \A i \in 1..Len(path') : ToSet(rest'[path[i]]) \subseteq ToSet(rest[path[i]])
    BY <1>1, <1>2, <1>4 DEF n
  <2> QED
    BY <1>1, <1>2, <2>1, Shrinks
<1> QED
  BY <1>1, <1>2, <1>4, <1>5, <1>6, <1>7 DEF n

\* With no call left to look at, what is ahead stays so.
LEMMA LeaveListed ==
    ASSUME AtHand, CircuitInv, path # <<>>, rest[Inner] = <<>>, NEW success \in BOOLEAN, Leave(success),
           UNCHANGED <<calls, members, waiting, start, maxCycles, cycles, rest>>
    PROVE  Listed' /\ Spent' /\ (Limited' <=> Limited)
<1>1. CircuitTypeOK /\ Chained /\ Listed /\ Spent
  BY DEF CircuitInv
<1>2. /\ Len(path') = Len(path) - 1
      /\ \A i \in 1..(Len(path) - 1) : path'[i] = path[i]
      /\ \A p : Ahead(p)' => Ahead(p)
  BY <1>1, LeaveFacts
<1>3. Len(path) \in Nat /\ Len(path) >= 1 /\ Inner = path[Len(path)]
  BY <1>1, PathFacts
<1>4. ASSUME NEW p, Ahead(p) PROVE Ahead(p)'
  <2>1. CASE p[1] \in waiting
    BY <2>1 DEF Ahead
  <2>2. CASE p[1] \notin waiting
    <3>1. PICK j \in 1..Len(path) : LeavesAt(p, j)
      BY <1>4, <2>2 DEF Ahead
    <3>2. /\ j <= Len(p) /\ \A i \in 1..j : p[i] = path[i]
          /\ Following(p, j) \in ToSet(rest[path[j]])
      BY <3>1 DEF LeavesAt
    <3>3. j # Len(path)
      BY <1>3, <3>2, EmptySeq DEF ToSet
    <3>4. j \in 1..(Len(path) - 1) /\ \A i \in 1..j : i \in 1..(Len(path) - 1)
      BY <1>3, <3>3
    <3>5. LeavesAt(p, j)'
      BY <1>2, <3>2, <3>4 DEF LeavesAt, Following
    <3> QED
      BY <1>2, <3>4, <3>5 DEF Ahead
  <2> QED
    BY <2>1, <2>2
<1>5. Limited' <=> Limited
  BY DEF Limited
<1>6. SimpleCycles' = SimpleCycles
  BY HandKept
<1>7. Listed'
  BY <1>1, <1>2, <1>4, <1>5, <1>6 DEF Listed
<1>8. Spent'
  <2>1. cycles \in Seq(SimpleCycles) /\ maxCycles \in Nat
    BY <1>1 DEF CircuitTypeOK
  <2>2. Len(cycles) \in Nat /\ Cardinality(members) \in Nat
    BY <2>1, LenProperties, HandFacts
  <2> QED
    BY <1>1, <1>2, <1>3, <1>5, <2>1, <2>2 DEF Spent
<1> QED
  BY <1>5, <1>7, <1>8

LEMMA CloseCycleInv == AtHand /\ CircuitInv /\ CloseCycle /\ UNCHANGED calls => CircuitInv'
<1> SUFFICES ASSUME AtHand, CircuitInv, CloseCycle, UNCHANGED calls PROVE CircuitInv'
  OBVIOUS
<1>1. /\ TakeEdge(start) /\ cycles' = Append(cycles, path)
      /\ rest' = [rest EXCEPT ![Inner] = Tail(@)]
      /\ IF Len(cycles) + 1 >= maxCycles THEN Leave(TRUE)
         ELSE found' = found \cup {Inner} /\ UNCHANGED path
      /\ UNCHANGED <<blocked, blockMap>>
  BY DEF CloseCycle
<1>2. CircuitTypeOK /\ Chained /\ Listed /\ Spent /\ (~Limited => Unlimited)
  BY DEF CircuitInv
<1>3. /\ UNCHANGED <<members, waiting, start, maxCycles>> /\ path # <<>>
      /\ start \in ToSet(rest[Inner]) /\ (start \in Functions => start \in Called(Inner))
  BY <1>1, <1>2, TakenFacts
<1>4. /\ rest' \in [Functions -> Seq(Nat)]
      /\ \A v \in Functions : IsInjective(rest'[v]) /\ ToSet(rest'[v]) \subseteq ToSet(calls[v + 1])
      /\ \A v \in Functions : ToSet(rest'[v]) \subseteq ToSet(rest[v])
      /\ ToSet(rest'[Inner]) = ToSet(rest[Inner]) \ {start}
      /\ \A v \in Functions : v # Inner => rest'[v] = rest[v]
  BY <1>1, <1>2, RestTaken
<1>5. /\ Functions' = Functions /\ SimpleCycles' = SimpleCycles
      /\ \A v : IntraCalls(v)' = IntraCalls(v)
  BY <1>3, HandKept
<1>6. PICK q : q = path
  OBVIOUS
<1>7. PICK n : n = Len(q)
  OBVIOUS
<1>8. /\ n \in Nat /\ n >= 1 /\ n <= Cardinality(members) /\ Inner = q[n] /\ Inner \in members
      /\ \A i \in 1..n : q[i] \in members /\ q[i] \in Functions
      /\ \A i, j \in 1..n : q[i] = q[j] => i = j
      /\ q \in Seq(members) /\ q # <<>> /\ q[1] = start /\ start \notin waiting
      /\ start \in Functions
  BY <1>2, <1>3, <1>6, <1>7, PathFacts, HandFacts DEF CircuitTypeOK
<1>9. \A i \in 1..(n - 1) : q[i + 1] \in Called(q[i]) /\ q[i + 1] \notin ToSet(rest[q[i]])
  BY <1>2, <1>6, <1>7 DEF Chained
<1>10. q \in SimpleCycles
  BY <1>3, <1>7, <1>8, <1>9, CycleMade
<1>11. Ahead(q)
  <2>1. LeavesAt(q, n) /\ n \in 1..n
    BY <1>3, <1>6, <1>7, <1>8 DEF LeavesAt, Following
  <2> QED
    BY <1>6, <1>7, <2>1 DEF Ahead
<1>12. /\ cycles \in Seq(SimpleCycles) /\ Len(cycles) \in Nat /\ maxCycles \in Nat
       /\ IsInjective(cycles) /\ q \notin ToSet(cycles)
       /\ \A p \in ToSet(cycles) : ~Ahead(p)
       /\ Cardinality(members) \in Nat
  BY <1>2, <1>11, LenProperties, HandFacts DEF CircuitTypeOK, Listed
<1>13. /\ cycles' \in Seq(SimpleCycles) /\ IsInjective(cycles')
       /\ Len(cycles') = Len(cycles) + 1
       /\ ToSet(cycles') = ToSet(cycles) \cup {q}
  BY <1>1, <1>6, <1>10, <1>12, AppendProperties, HoldsAppended, InjectiveAppended
<1>14. CASE Len(cycles) + 1 >= maxCycles
  <2>1. Leave(TRUE)
    BY <1>1, <1>14
  <2>2. /\ path' \in Seq(members) /\ Len(path') = n - 1
        /\ \A i \in 1..(n - 1) : path'[i] = q[i]
        /\ found' \subseteq members /\ Chained'
        /\ \A p : Ahead(p)' => Ahead(p)
    BY <1>2, <1>3, <1>4, <1>6, <1>7, <2>1, LeaveFacts
  <2>3. Limited'
    BY <1>3, <1>13, <1>14 DEF Limited
  <2>4. ~Ahead(q)'
    <3> SUFFICES ASSUME NEW j \in 1..(n - 1), LeavesAt(q, j)' PROVE FALSE
      BY <1>3, <1>8, <2>2 DEF Ahead
    <3>1. Following(q, j) \in ToSet(rest'[path'[j]])
      BY DEF LeavesAt, Following
    <3>2. Following(q, j) = q[j + 1] /\ path'[j] = q[j] /\ q[j] \in Functions
      BY <1>7, <1>8, <2>2 DEF Following
    <3> QED
      BY <1>4, <1>9, <3>1, <3>2
  <2>5. Listed'
    <3>1. \A p \in ToSet(cycles') : ~Ahead(p)'
      BY <1>12, <1>13, <2>2, <2>4
    <3> QED
      BY <1>13, <2>3, <3>1 DEF Listed
  <2>6. Spent'
    <3>1. Len(cycles) + n < maxCycles + Cardinality(members)
      <4>1. CASE Limited
        BY <1>2, <1>6, <1>7, <4>1 DEF Spent
      <4>2. CASE ~Limited
        BY <1>8, <1>12, <4>2 DEF Limited
      <4> QED
        BY <4>1, <4>2
    <3> QED
      BY <1>3, <1>8, <1>12, <1>13, <2>2, <3>1 DEF Spent
  <2>7. CircuitTypeOK'
    BY <1>1, <1>2, <1>3, <1>4, <1>5, <1>13, <2>2 DEF CircuitTypeOK
  <2> QED
    BY <2>2, <2>3, <2>5, <2>6, <2>7 DEF CircuitInv
<1>15. CASE ~(Len(cycles) + 1 >= maxCycles)
  <2>1. found' = found \cup {Inner} /\ UNCHANGED path
    BY <1>1, <1>15
  <2>2. ~Limited /\ ~Limited'
    BY <1>3, <1>12, <1>13, <1>15 DEF Limited
  <2>3. Chained' /\ \A p : Ahead(p)' => Ahead(p)
    <3>1. /\ path' \in Seq(members) /\ Len(path') <= Len(path)
          /\ \A i \in 1..Len(path') : path'[i] = path[i]
          /\ \A i \in 1..Len(path') : ToSet(rest'[path[i]]) \subseteq ToSet(rest[path[i]])
      BY <1>4, <1>6, <1>7, <1>8, <2>1
    <3> QED
      BY <1>2, <1>3, <3>1, Shrinks
  <2>4. ~Ahead(q)'
    <3> SUFFICES ASSUME NEW j \in 1..n, LeavesAt(q, j)' PROVE FALSE
      BY <1>3, <1>6, <1>7, <1>8, <2>1 DEF Ahead
    <3>1. Following(q, j) \in ToSet(rest'[q[j]])
      BY <1>6, <2>1 DEF LeavesAt, Following
    <3>2. CASE j = n
      BY <1>4, <1>7, <1>8, <3>1, <3>2 DEF Following
    <3>3. CASE j # n
      <4>1. j \in 1..(n - 1) /\ Following(q, j) = q[j + 1]
        BY <1>7, <1>8, <3>3 DEF Following
      <4>2. q[j] \in Functions /\ q[j + 1] \notin ToSet(rest[q[j]])
        BY <1>8, <1>9, <4>1
      <4>3. ToSet(rest'[q[j]]) \subseteq ToSet(rest[q[j]])
        BY <1>4, <4>2
      <4> QED
        BY <3>1, <4>1, <4>2, <4>3
    <3> QED
      BY <3>2, <3>3
  <2>5. ASSUME NEW p \in SimpleCycles, Ahead(p) PROVE Ahead(p)' \/ p = q
    <3> SUFFICES ASSUME n <= Len(p), \A i \in 1..n : p[i] = q[i], Following(p, n) = start PROVE p = q
      BY <1>1, <1>2, <1>6, <1>7, <2>1, <2>5, StillAhead
    <3>1. /\ p \in Seq(members) /\ Len(p) \in Nat
          /\ \A i, j \in 1..Len(p) : p[i] = p[j] => i = j
      BY CycleFacts
    <3>2. Len(p) = n
      <4> SUFFICES ASSUME n < Len(p) PROVE FALSE
        BY <1>8, <3>1
      <4>1. p[n + 1] = p[1] /\ n + 1 \in 1..Len(p) /\ 1 \in 1..Len(p)
        BY <1>8, <3>1 DEF Following
      <4>2. n + 1 = 1
        BY <3>1, <4>1
      <4> QED
        BY <1>8, <4>2
    <3> QED
      BY <1>7, <1>8, <3>1, <3>2, SeqEqual
  <2>6. Listed'
    <3>1. \A p \in ToSet(cycles') : ~Ahead(p)'
      BY <1>12, <1>13, <2>3, <2>4
    <3>2. \A p \in SimpleCycles : Ahead(p) \/ p \in ToSet(cycles)
      BY <1>2, <2>2 DEF Listed
    <3>3. \A p \in SimpleCycles : Ahead(p)' \/ p \in ToSet(cycles')
      BY <1>13, <2>5, <3>2
    <3> QED
      BY <1>5, <1>13, <3>1, <3>3 DEF Listed
  <2>7. CircuitTypeOK' /\ Spent'
    BY <1>1, <1>2, <1>3, <1>4, <1>5, <1>8, <1>13, <2>1, <2>2 DEF CircuitTypeOK, Spent
  <2>8. Blocking /\ Stuck /\ Waited /\ Apart
    BY <1>2, <2>2 DEF Unlimited
  <2>9. Blocking' /\ Stuck' /\ Waited' /\ Apart'
    <3>1. Blocking' /\ Stuck' /\ Waited'
      BY <1>1, <1>3, <1>5, <2>1, <2>8 DEF Blocking, Stuck, Waited
    <3>2. Apart'
      BY <1>1, <1>3, <2>1, <2>8 DEF Apart, ApartAt
    <3> QED
      BY <3>1, <3>2
  <2>10. Fruitless'
    <3>1. \A i \in 1..n : ~Barren(i)'
      <4> SUFFICES ASSUME NEW i \in 1..n PROVE ~Barren(i)'
        OBVIOUS
      <4>1. n \in i..n
        BY <1>8
      <4> QED
        BY <1>6, <1>7, <1>8, <2>1, <4>1 DEF Barren
    <3> QED
      BY <1>6, <1>7, <2>1, <3>1 DEF Fruitless
  <2> QED
    BY <2>3, <2>6, <2>7, <2>9, <2>10 DEF CircuitInv, Unlimited
<1> QED
  BY <1>14, <1>15

\* What unblock frees is closed, and stays apart with what it begins with.
LEMMA FreedFacts ==
    ASSUME CircuitTypeOK, NEW v \in members
    PROVE  /\ v \in Freed(v) /\ Freed(v) \subseteq members
           /\ \A x \in Freed(v) : blockMap[x] \cap blocked \subseteq Freed(v)
           /\ \A Z \in SUBSET members :
                 v \in Z /\ (\A x \in Z : blockMap[x] \subseteq Z) => Freed(v) \subseteq Z
<1>1. v \in Freed(v) /\ Freed(v) \subseteq members
  BY DEF Freed
<1>2. ASSUME NEW x \in Freed(v), NEW y \in blockMap[x] \cap blocked PROVE y \in Freed(v)
  <2>1. y \in members
    BY DEF CircuitTypeOK
  <2>2. ASSUME NEW S \in SUBSET members, v \in S, \A z \in S : blockMap[z] \cap blocked \subseteq S
        PROVE  y \in S
    <3>1. x \in S
      BY <2>2 DEF Freed
    <3> QED
      BY <2>2, <3>1
  <2> QED
    BY <2>1, <2>2 DEF Freed
<1>3. ASSUME NEW Z \in SUBSET members, v \in Z, \A x \in Z : blockMap[x] \subseteq Z
      PROVE  Freed(v) \subseteq Z
  BY <1>3 DEF Freed
<1> QED
  BY <1>1, <1>2, <1>3

\* The functions that are blocked off the path, and those of them that stay so:
\* a closed set without the start, and hence empty.
LEMMA NoneBeside ==
    ASSUME AtHand, CircuitTypeOK, start \in members, NEW S, S \subseteq members, start \notin S,
           \A x \in S : IntraCalls(x) \subseteq S
    PROVE  /\ S = {}
           /\ ~(IntraCalls(start) \subseteq S)
<1>1. \A u \in S : Called(u) \cap members \subseteq S
  BY DEF IntraCalls
<1>2. \A v \in members : ~(Called(v) \cap members \subseteq S)
  BY <1>1 DEF AtHand, MutualIn
<1>3. S = {}
  BY <1>1, <1>2
<1> QED
  BY <1>2, <1>3 DEF IntraCalls

LEMMA LeaveFoundInv == AtHand /\ CircuitInv /\ LeaveFound /\ UNCHANGED calls => CircuitInv'
<1> SUFFICES ASSUME AtHand, CircuitInv, LeaveFound, UNCHANGED calls PROVE CircuitInv'
  OBVIOUS
<1>0. PICK F : F = Freed(Inner)
  OBVIOUS
<1>1. /\ path # <<>> /\ rest[Inner] = <<>> /\ Inner \in found /\ Leave(TRUE)
      /\ blocked' = blocked \ F
      /\ blockMap' = [v \in Functions |-> IF v \in F THEN {} ELSE blockMap[v]]
      /\ UNCHANGED <<members, waiting, start, maxCycles, cycles, rest>>
  BY <1>0 DEF LeaveFound, component, starts
<1>2. CircuitTypeOK /\ Chained /\ Listed /\ Spent /\ (~Limited => Unlimited)
  BY DEF CircuitInv
<1>3. PICK n : n = Len(path)
  OBVIOUS
<1>4. /\ path' \in Seq(members) /\ Len(path') = n - 1
      /\ \A i \in 1..(n - 1) : /\ path'[i] = path[i] /\ path[i] \in Functions
                               /\ path[i] # Inner /\ i \in 1..n
      /\ ToSet(path') = ToSet(path) \ {Inner} /\ (path' = <<>> <=> n = 1)
      /\ found' \subseteq members /\ (n > 1 => path[n - 1] \in found')
      /\ Chained'
  BY <1>1, <1>2, <1>3, LeaveFacts
<1>5. Listed' /\ Spent' /\ (Limited' <=> Limited)
  BY <1>1, LeaveListed
<1>6. /\ n \in Nat /\ n >= 1 /\ Inner = path[n] /\ Inner \in members /\ start \in members
      /\ path[1] = start /\ ToSet(path) = {path[i] : i \in 1..n}
      /\ members \subseteq Functions
  <2>1. /\ n \in Nat /\ n >= 1 /\ Inner = path[n] /\ Inner \in members /\ start \in members
        /\ path[1] = start /\ ToSet(path) = {path[i] : i \in 1..n}
    BY <1>1, <1>2, <1>3, PathFacts
  <2>2. members \subseteq Functions
    BY HandFacts
  <2> QED
    BY <2>1, <2>2
<1>7. /\ Functions' = Functions /\ SimpleCycles' = SimpleCycles
      /\ \A v : IntraCalls(v)' = IntraCalls(v)
  BY <1>1, HandKept
<1>8. /\ Inner \in F /\ F \subseteq members
      /\ \A x \in F : blockMap[x] \cap blocked \subseteq F
      /\ \A Z \in SUBSET members : Inner \in Z /\ (\A x \in Z : blockMap[x] \subseteq Z) => F \subseteq Z
  BY <1>0, <1>2, <1>6, FreedFacts
<1>9. blocked' \subseteq members /\ blockMap' \in [Functions -> SUBSET members]
  BY <1>1, <1>2 DEF CircuitTypeOK
<1>10. CircuitTypeOK'
  BY <1>1, <1>2, <1>4, <1>7, <1>9 DEF CircuitTypeOK
<1>11. ASSUME ~Limited PROVE Unlimited'
  <2>1. Blocking /\ Stuck /\ Waited /\ Apart
    BY <1>2, <1>11 DEF Unlimited
  <2>2. \A j \in 1..(n - 1) : path[j] \notin F
    <3>1. n \in 1..n
      BY <1>6
    <3>2. PICK Z \in SUBSET members :
             /\ path[n] \in Z /\ \A x \in Z : blockMap[x] \subseteq Z
             /\ \A j \in 1..(n - 1) : path[j] \notin Z
      BY <1>3, <2>1, <3>1 DEF Apart, ApartAt
    <3> QED
      BY <1>6, <1>8, <3>2
  <2>3. ASSUME NEW x \in blocked \ F, x \notin ToSet(path), NEW w \in IntraCalls(x)
        PROVE  w \in blocked \ F /\ w # start /\ x \in blockMap[w]
    <3>1. w \in blocked /\ w # start /\ x \in blockMap[w]
      BY <2>1, <2>3 DEF Stuck
    <3> QED
      BY <1>8, <3>1
  <2>4. Blocking'
    <3>1. CASE n = 1
      <4> DEFINE S == blocked \ F
      <4>1. Inner = start /\ ToSet(path) = {start}
        BY <1>6, <3>1
      <4>2. S \subseteq members /\ start \notin S
        BY <1>2, <1>8, <4>1 DEF CircuitTypeOK
      <4>3. \A x \in S : IntraCalls(x) \subseteq S
        BY <2>3, <4>1, <4>2
      <4> HIDE DEF S
      <4>4. S = {}
        BY <1>2, <1>6, <4>2, <4>3, NoneBeside
      <4> QED
        BY <1>1, <1>4, <3>1, <4>4 DEF Blocking, S
    <3>2. CASE n # 1
      <4>1. \A v \in ToSet(path') : \E j \in 1..(n - 1) : v = path[j]
        <5> SUFFICES ASSUME NEW v \in ToSet(path') PROVE \E j \in 1..(n - 1) : v = path[j]
          OBVIOUS
        <5>1. v # path[n]
          BY <1>4, <1>6
        <5>2. PICK i \in 1..n : v = path[i]
          BY <1>4, <1>6
        <5>3. i \in 1..(n - 1)
          BY <1>6, <5>1, <5>2
        <5> QED
          BY <5>2, <5>3
      <4>2. ToSet(path') \subseteq blocked'
        BY <1>1, <1>4, <2>1, <2>2, <4>1 DEF Blocking
      <4> QED
        BY <1>4, <3>2, <4>2 DEF Blocking
    <3> QED
      BY <3>1, <3>2
  <2>5. Stuck'
    <3> SUFFICES ASSUME NEW x \in blocked' \ ToSet(path'), NEW w \in IntraCalls(x)
                 PROVE  w \in blocked' /\ w # start /\ x \in blockMap'[w]
      BY <1>1, <1>7 DEF Stuck
    <3>1. x \in blocked \ F /\ x \notin ToSet(path)
      BY <1>1, <1>4, <1>8
    <3>2. w \in blocked \ F /\ w # start /\ x \in blockMap[w] /\ w \in Functions
      BY <1>6, <2>3, <3>1 DEF IntraCalls
    <3> QED
      BY <1>1, <3>2
  <2>6. Waited'
    <3> SUFFICES ASSUME NEW x \in members, x \notin blocked' PROVE blockMap'[x] = {}
      BY <1>1 DEF Waited
    <3>1. x \in F \/ blockMap[x] = {}
      BY <1>1, <2>1 DEF Waited
    <3> QED
      BY <1>1, <1>6, <3>1
  <2>7. Apart'
    <3> SUFFICES ASSUME NEW i \in 1..(n - 1) PROVE ApartAt(i)'
      BY <1>4 DEF Apart
    <3>1. PICK Z \in SUBSET members :
             /\ path[i] \in Z /\ \A x \in Z : blockMap[x] \subseteq Z
             /\ \A j \in 1..(i - 1) : path[j] \notin Z
      BY <1>3, <1>4, <2>1 DEF Apart, ApartAt
    <3>2. \A x \in Z : blockMap'[x] \subseteq Z
      BY <1>1, <1>6, <3>1
    <3>3. \A j \in 1..(i - 1) : j \in 1..(n - 1)
      BY <1>6
    <3>4. \A j \in 1..(i - 1) : path'[j] \notin Z
      BY <1>4, <3>1, <3>3
    <3>5. Z \in SUBSET members' /\ path'[i] \in Z
      BY <1>1, <1>4, <3>1
    <3> QED
      BY <3>2, <3>4, <3>5 DEF ApartAt
  <2>8. Fruitless'
    <3> SUFFICES ASSUME NEW i \in 1..(n - 1) PROVE ~Barren(i)'
      BY <1>4 DEF Fruitless
    <3>1. n > 1 /\ n - 1 \in i..(n - 1) /\ n - 1 \in 1..(n - 1)
      BY <1>6
    <3>2. path'[n - 1] \in found'
      BY <1>4, <3>1
    <3> QED
      BY <1>4, <3>1, <3>2 DEF Barren
  <2> QED
    BY <2>4, <2>5, <2>6, <2>7, <2>8 DEF Unlimited
<1> QED
  BY <1>4, <1>5, <1>10, <1>11 DEF CircuitInv

LEMMA LeaveEmptyInv == AtHand /\ CircuitInv /\ LeaveEmpty /\ UNCHANGED calls => CircuitInv'
<1> SUFFICES ASSUME AtHand, CircuitInv, LeaveEmpty, UNCHANGED calls PROVE CircuitInv'
  OBVIOUS
<1>1. /\ path # <<>> /\ rest[Inner] = <<>> /\ Inner \notin found /\ Leave(FALSE)
      /\ blockMap' = [w \in Functions |-> IF w \in IntraCalls(Inner) THEN blockMap[w] \cup {Inner}
                                          ELSE blockMap[w]]
      /\ UNCHANGED <<members, waiting, start, maxCycles, cycles, rest, blocked>>
  BY DEF LeaveEmpty, component, starts
<1>2. CircuitTypeOK /\ Chained /\ Listed /\ Spent /\ (~Limited => Unlimited)
  BY DEF CircuitInv
<1>3. PICK n : n = Len(path)
  OBVIOUS
<1>4. /\ path' \in Seq(members) /\ Len(path') = n - 1
      /\ \A i \in 1..(n - 1) : /\ path'[i] = path[i] /\ path[i] \in Functions
                               /\ path[i] # Inner /\ i \in 1..n
      /\ ToSet(path') = ToSet(path) \ {Inner} /\ (path' = <<>> <=> n = 1)
      /\ found' = found /\ Chained'
  BY <1>1, <1>2, <1>3, LeaveFacts
<1>5. Listed' /\ Spent' /\ (Limited' <=> Limited)
  BY <1>1, LeaveListed
<1>6. /\ n \in Nat /\ n >= 1 /\ Inner = path[n] /\ Inner \in members /\ start \in members
      /\ path[1] = start /\ ToSet(path) = {path[i] : i \in 1..n}
      /\ members \subseteq Functions /\ n \in 1..n
  <2>1. /\ n \in Nat /\ n >= 1 /\ Inner = path[n] /\ Inner \in members /\ start \in members
        /\ path[1] = start /\ ToSet(path) = {path[i] : i \in 1..n}
    BY <1>1, <1>2, <1>3, PathFacts
  <2>2. members \subseteq Functions
    BY HandFacts
  <2> QED
    BY <2>1, <2>2
<1>7. /\ Functions' = Functions /\ SimpleCycles' = SimpleCycles
      /\ \A v : IntraCalls(v)' = IntraCalls(v)
  BY <1>1, HandKept
<1>8. blockMap' \in [Functions -> SUBSET members]
  BY <1>1, <1>2, <1>6 DEF CircuitTypeOK
<1>9. CircuitTypeOK'
  BY <1>1, <1>2, <1>4, <1>7, <1>8 DEF CircuitTypeOK
<1>10. ASSUME ~Limited PROVE Unlimited'
  <2>1. Blocking /\ Stuck /\ Waited /\ Apart /\ Fruitless
    BY <1>2, <1>10 DEF Unlimited
  <2>2. \A w \in IntraCalls(Inner) : w \in blocked /\ w # start
    <3>1. Barren(n)
      <4>1. \A j \in n..n : j = n
        BY <1>6
      <4> QED
        BY <1>1, <1>3, <1>6, <4>1 DEF Barren
    <3>2. \A w : w \notin ToSet(rest[path[n]])
      BY <1>1, <1>6, EmptySeq DEF ToSet
    <3> QED
      BY <1>3, <1>6, <2>1, <3>1, <3>2 DEF Fruitless
  <2>3. n # 1
    <3> SUFFICES ASSUME n = 1 PROVE FALSE
      OBVIOUS
    <3> DEFINE S == blocked \ {start}
    <3>1. Inner = start /\ ToSet(path) = {start}
      BY <1>6
    <3>2. S \subseteq members /\ start \notin S
      BY <1>2 DEF CircuitTypeOK
    <3>3. \A x \in S : IntraCalls(x) \subseteq S
      BY <2>1, <3>1 DEF Stuck
    <3>4. IntraCalls(start) \subseteq S
      BY <2>2, <3>1
    <3> HIDE DEF S
    <3> QED
      BY <1>2, <1>6, <3>2, <3>3, <3>4, NoneBeside
  <2>4. Blocking'
    BY <1>1, <1>4, <2>1, <2>3 DEF Blocking
  <2>5. Stuck'
    <3> SUFFICES ASSUME NEW x \in blocked \ ToSet(path'), NEW w \in IntraCalls(x)
                 PROVE  w \in blocked /\ w # start /\ x \in blockMap'[w]
      BY <1>1, <1>7 DEF Stuck
    <3>1. w \in Functions
      BY <1>6 DEF IntraCalls
    <3>2. CASE x = Inner
      BY <1>1, <2>2, <3>1, <3>2
    <3>3. CASE x # Inner
      <4>1. w \in blocked /\ w # start /\ x \in blockMap[w]
        BY <1>4, <2>1, <3>3 DEF Stuck
      <4> QED
        BY <1>1, <3>1, <4>1
    <3> QED
      BY <3>2, <3>3
  <2>6. Waited'
    BY <1>1, <1>6, <2>1, <2>2 DEF Waited
  <2>7. Apart'
    <3> SUFFICES ASSUME NEW i \in 1..(n - 1) PROVE ApartAt(i)'
      BY <1>4 DEF Apart
    <3>1. PICK Y \in SUBSET members :
             /\ path[i] \in Y /\ \A x \in Y : blockMap[x] \subseteq Y
             /\ \A j \in 1..(i - 1) : path[j] \notin Y
      BY <1>3, <1>4, <2>1 DEF Apart, ApartAt
    <3>2. PICK Z \in SUBSET members :
             /\ path[n] \in Z /\ \A x \in Z : blockMap[x] \subseteq Z
             /\ \A j \in 1..(n - 1) : path[j] \notin Z
      BY <1>3, <1>6, <2>1 DEF Apart, ApartAt
    <3>3. \A j \in 1..(i - 1) : j \in 1..(n - 1)
      BY <1>6
    <3>4. \A x \in Y \cup Z : blockMap'[x] \subseteq Y \cup Z
      <4> SUFFICES ASSUME NEW x \in Y \cup Z PROVE blockMap'[x] \subseteq Y \cup Z
        OBVIOUS
      <4>1. blockMap'[x] \subseteq blockMap[x] \cup {Inner}
        BY <1>1, <1>6
      <4> QED
        BY <1>6, <3>1, <3>2, <4>1
    <3>5. /\ Y \cup Z \in SUBSET members /\ path'[i] \in Y \cup Z
          /\ \A j \in 1..(i - 1) : path'[j] \notin Y \cup Z
      BY <1>4, <3>1, <3>2, <3>3
    <3> QED
      BY <1>1, <3>4, <3>5 DEF ApartAt
  <2>8. Fruitless'
    <3> SUFFICES ASSUME NEW i \in 1..(n - 1), Barren(i)', NEW x \in IntraCalls(path[i]),
                        x \notin ToSet(rest[path[i]])
                 PROVE  x \in blocked /\ x # start
      BY <1>1, <1>4, <1>7 DEF Fruitless
    <3>1. Barren(i)
      <4>1. \A j \in i..n : j = n \/ (j \in i..(n - 1) /\ j \in 1..(n - 1))
        BY <1>6
      <4>2. \A j \in i..(n - 1) : path'[j] \notin found
        BY <1>4 DEF Barren
      <4> QED
        BY <1>1, <1>3, <1>4, <1>6, <4>1, <4>2 DEF Barren
    <3>2. i \in 1..Len(path)
      BY <1>3, <1>4
    <3> QED
      BY <2>1, <3>1, <3>2 DEF Fruitless
  <2> QED
    BY <2>4, <2>5, <2>6, <2>7, <2>8 DEF Unlimited
<1> QED
  BY <1>4, <1>5, <1>9, <1>10 DEF CircuitInv

LEMMA BeginCircuitsInv == AtHand /\ CircuitInv /\ BeginCircuits /\ UNCHANGED calls => CircuitInv'
<1> SUFFICES ASSUME AtHand, CircuitInv, BeginCircuits, UNCHANGED calls PROVE CircuitInv'
  OBVIOUS
<1>1. PICK s \in members :
         /\ s \in waiting /\ start' = s /\ waiting' = waiting \ {s}
         /\ path' = <<s>>
         /\ rest' = [rest EXCEPT ![s] = calls[s + 1]]
         /\ found' = found \ {s}
         /\ blocked' = (blocked \ waiting) \cup {s}
         /\ blockMap' = [v \in Functions |-> IF v \in waiting THEN {} ELSE blockMap[v]]
  BY DEF BeginCircuits, IsNextStart
<1>2. path = <<>> /\ ~Limited /\ UNCHANGED <<members, maxCycles, cycles>>
  BY DEF BeginCircuits, component
<1>3. /\ CircuitTypeOK /\ Listed /\ Blocking /\ Waited
      /\ blocked = {} /\ \A x \in members : blockMap[x] = {}
  BY <1>2 DEF CircuitInv, Unlimited, Blocking, Waited
<1>4. /\ Functions' = Functions /\ SimpleCycles' = SimpleCycles
      /\ \A v : IntraCalls(v)' = IntraCalls(v)
      /\ members \subseteq Functions /\ s \in Functions
      /\ calls[s + 1] \in Seq(Nat) /\ IsInjective(calls[s + 1])
  BY <1>2, HandKept, HandFacts DEF AtHand, CallsListed
<1>5. /\ path' \in Seq(members) /\ Len(path') = 1 /\ path'[1] = s /\ DOMAIN path' = 1..1
      /\ ToSet(path') = {s} /\ path' # <<>>
  <2>1. Len(path') = 1 /\ path'[1] = s /\ path' \in Seq(members)
    BY <1>1
  <2>2. DOMAIN path' = 1..1
    BY <2>1, LenProperties
  <2> QED
    BY <2>1, <2>2, EmptySeq DEF ToSet
<1>6. /\ rest' \in [Functions -> Seq(Nat)] /\ rest'[s] = calls[s + 1]
      /\ \A v \in Functions : IsInjective(rest'[v]) /\ ToSet(rest'[v]) \subseteq ToSet(calls[v + 1])
  <2>1. /\ rest \in [Functions -> Seq(Nat)]
        /\ \A v \in Functions : IsInjective(rest[v]) /\ ToSet(rest[v]) \subseteq ToSet(calls[v + 1])
    BY <1>3 DEF CircuitTypeOK
  <2> QED
    BY <1>1, <1>4, <2>1
<1>7. /\ blocked' = {s}
      /\ \A x \in members : blockMap'[x] = {}
  BY <1>1, <1>3, <1>4
<1>8. CircuitTypeOK'
  <2>1. blockMap' \in [Functions -> SUBSET members]
    BY <1>1, <1>3 DEF CircuitTypeOK
  <2> QED
    BY <1>1, <1>2, <1>3, <1>4, <1>5, <1>6, <1>7, <2>1 DEF CircuitTypeOK
<1>9. Chained'
  <2>1. IsInjective(path')
    BY <1>5 DEF IsInjective
  <2>2. Len(path') - 1 = 0 /\ 1..0 = {}
    BY <1>5
  <2> QED
    BY <1>1, <1>5, <2>1, <2>2 DEF Chained
<1>10. ASSUME NEW p \in SimpleCycles PROVE Ahead(p)' <=> Ahead(p)
  <2>1. Ahead(p) <=> p[1] \in waiting
    <3>1. 1..Len(path) = {}
      BY <1>2, EmptySeq
    <3> QED
      BY <3>1 DEF Ahead
  <2>2. /\ Len(p) \in Nat /\ 1 <= Len(p) /\ 1 \in 1..Len(p)
        /\ Following(p, 1) \in IntraCalls(p[1])
    <3>1. Len(p) \in Nat /\ 1 <= Len(p) /\ \A j \in 1..Len(p) : Following(p, j) \in IntraCalls(p[j])
      BY CycleFacts
    <3>2. 1 \in 1..Len(p)
      BY <3>1
    <3> QED
      BY <3>1, <3>2
  <2>3. LeavesAt(p, 1)' <=> p[1] = s
    <3>1. LeavesAt(p, 1)' => p[1] = s
      <4>1. 1 \in 1..1
        OBVIOUS
      <4> QED
        BY <1>5, <4>1 DEF LeavesAt
    <3>2. ASSUME p[1] = s PROVE LeavesAt(p, 1)'
      <4>1. Following(p, 1) \in ToSet(rest'[path'[1]])
        BY <1>5, <1>6, <2>2, <3>2 DEF IntraCalls, Called
      <4>2. \A i \in 1..1 : i = 1
        OBVIOUS
      <4> QED
        BY <1>5, <2>2, <3>2, <4>1, <4>2 DEF LeavesAt, Following
    <3> QED
      BY <3>1, <3>2
  <2>4. Ahead(p)' <=> p[1] \in waiting' \/ LeavesAt(p, 1)'
    <3>1. 1..1 = {1}
      OBVIOUS
    <3> QED
      BY <1>5, <3>1 DEF Ahead
  <2> QED
    BY <1>1, <2>1, <2>3, <2>4
<1>11. ~Limited'
  BY <1>2 DEF Limited
<1>12. Listed'
  <2>1. cycles \in Seq(SimpleCycles)
    BY <1>3 DEF CircuitTypeOK
  <2>2. \A p \in ToSet(cycles) : p \in SimpleCycles
    <3>1. cycles \in [1..Len(cycles) -> SimpleCycles] /\ DOMAIN cycles = 1..Len(cycles)
      BY <2>1, LenProperties
    <3> QED
      BY <3>1 DEF ToSet
  <2> QED
    BY <1>2, <1>3, <1>4, <1>10, <1>11, <2>2 DEF Listed
<1>13. Blocking' /\ Stuck' /\ Waited'
  BY <1>2, <1>5, <1>7 DEF Blocking, Stuck, Waited
<1>14. Apart'
  <2> SUFFICES ApartAt(1)'
    BY <1>5 DEF Apart
  <2>1. /\ {s} \in SUBSET members /\ path'[1] \in {s} /\ \A x \in {s} : blockMap'[x] \subseteq {s}
        /\ 1..(1 - 1) = {}
    BY <1>5, <1>7
  <2> QED
    BY <1>2, <2>1 DEF ApartAt
<1>15. Fruitless'
  <2>1. \A w \in IntraCalls(s) : w \in ToSet(rest'[s])
    BY <1>6 DEF IntraCalls, Called
  <2> QED
    BY <1>4, <1>5, <2>1 DEF Fruitless
<1> QED
  BY <1>8, <1>9, <1>11, <1>12, <1>13, <1>14, <1>15 DEF CircuitInv, Unlimited, Spent

LEMMA EndSearchInv == AtHand /\ SearchInv /\ EndSearch /\ UNCHANGED calls /\ maxCycles \in Nat
                         => ShortestExact /\ CircuitInv'
<1> SUFFICES ASSUME AtHand, SearchInv, EndSearch, UNCHANGED calls, maxCycles \in Nat PROVE ShortestExact /\ CircuitInv'
  OBVIOUS
<1>1. /\ queue = <<>> /\ edges = <<>> /\ waiting = {} /\ waiting' = members
      /\ UNCHANGED maxCycles /\ cycles' = <<>>
      /\ path' = <<>> /\ rest' = [v \in Functions |-> <<>>] /\ found' = {}
      /\ blocked' = {} /\ blockMap' = [v \in Functions |-> {}]
      /\ UNCHANGED members
  BY DEF EndSearch
<1>2. ShortestExact
  BY <1>1, SearchedAll
<1>3. /\ Functions' = Functions /\ SimpleCycles' = SimpleCycles
      /\ Cardinality(members) \in Nat /\ Cardinality(members) >= 1
  BY <1>1, HandKept, HandFacts
<1>4. maxCycles' \in Nat
  BY <1>1
<1>5. /\ IsInjective(<<>>) /\ ToSet(<<>>) = {} /\ Len(<<>>) = 0
      /\ \A S : <<>> \in Seq(S)
  <2>1. <<>> \in Seq(Nat) /\ Len(<<>>) = 0 /\ \A S : <<>> \in Seq(S)
    BY EmptySeq
  <2>2. DOMAIN <<>> = 1..0 /\ 1..0 = {}
    BY <2>1, LenProperties
  <2> QED
    BY <2>1, <2>2 DEF IsInjective, ToSet
<1>6. \A v \in Functions : rest'[v] = <<>>
  BY <1>1
<1>7. CircuitTypeOK'
  <2>1. rest' \in [Functions -> Seq(Nat)]
    BY <1>1, <1>5
  <2>2. \A v \in Functions : IsInjective(rest'[v]) /\ ToSet(rest'[v]) \subseteq ToSet(calls[v + 1])
    BY <1>5, <1>6
  <2>3. blockMap' \in [Functions -> SUBSET members]
    BY <1>1
  <2> QED
    BY <1>1, <1>3, <1>4, <1>5, <2>1, <2>2, <2>3 DEF CircuitTypeOK
<1>8. 1..Len(path') = {} /\ 1..(Len(path') - 1) = {}
  BY <1>1, <1>5
<1>9. Chained'
  BY <1>1, <1>5, <1>8 DEF Chained
<1>10. ASSUME NEW p \in SimpleCycles PROVE Ahead(p)'
  <2>1. Len(p) \in Nat /\ 1 <= Len(p) /\ \A i \in 1..Len(p) : p[i] \in members
    BY CycleFacts
  <2>2. 1 \in 1..Len(p)
    BY <2>1
  <2> QED
    BY <1>1, <2>1, <2>2 DEF Ahead
<1>11. Listed'
  BY <1>1, <1>3, <1>5, <1>10 DEF Listed
<1>12. Spent'
  BY <1>1, <1>3, <1>4, <1>5 DEF Spent
<1>13. Unlimited'
  <2>1. members \subseteq Functions
    BY HandFacts
  <2>2. \A x \in members : blockMap'[x] = {}
    BY <1>1, <2>1
  <2>3. Blocking' /\ Waited'
    BY <1>1, <2>2 DEF Blocking, Waited
  <2>4. Stuck'
    BY <1>1 DEF Stuck
  <2>5. Apart' /\ Fruitless'
    BY <1>8 DEF Apart, Fruitless
  <2> QED
    BY <2>3, <2>4, <2>5 DEF Unlimited
<1> QED
  BY <1>2, <1>7, <1>9, <1>11, <1>12, <1>13 DEF CircuitInv

-----------------------------------------------------------------------------
(* the components in turn                                                  *)

\* The members of a recursive component call each other, and no other set of
\* them is closed.
LEMMA ComponentAtHand ==
    ASSUME TarjanInv, Finished, NEW i \in 1..Len(sccs), ClassifyScc(sccs[i]) # "non_recursive"
    PROVE  sccs[i] # {} /\ sccs[i] \subseteq Functions /\ MutualIn(sccs[i])
<1> DEFINE M == sccs[i]
<1>1. /\ Len(sccs) \in Nat /\ DOMAIN sccs = 1..Len(sccs)
      /\ sccs \in Seq(SUBSET Functions) /\ M \subseteq Functions
  BY TarjanFacts, ElementOfSeq DEF TarjanInv, TarjanTypeOK
<1>2. /\ \A j \in 1..Len(sccs) : sccs[j] # {}
      /\ \A j, k \in 1..Len(sccs) : j # k => sccs[j] \cap sccs[k] = {}
      /\ \A j \in 1..Len(sccs) : \A v \in sccs[j] :
            /\ \A w \in Called(v) : \E k \in 1..j : w \in sccs[k]
            /\ \A w \in sccs[j] : LeadsTo(v, w)
  BY DEF TarjanInv, EmittedOnce, SccsClosed
<1>3. \A v \in M : Calling(v, v)
  <2>1. M \in Recursive
    BY <1>1 DEF Recursive, ToSet
  <2>2. UNION Recursive = {v \in Functions : Calling(v, v)}
    BY FinishedClasses DEF Classes
  <2> QED
    BY <2>1, <2>2
<1>4. \A v, w \in M : Calling(v, w)
  BY <1>2, <1>3 DEF LeadsTo
<1>5. ASSUME NEW v \in M, NEW w \in M, NEW S \in SUBSET M,
             Called(v) \cap M \subseteq S, \A u \in S : Called(u) \cap M \subseteq S
      PROVE  w \in S
  <2> DEFINE T == {x \in Functions : x \in S \/ \E j \in 1..(i - 1) : x \in sccs[j]}
  <2>1. ASSUME NEW u \in M, Called(u) \cap M \subseteq S PROVE Called(u) \subseteq T
    <3> SUFFICES ASSUME NEW x \in Called(u) PROVE x \in T
      OBVIOUS
    <3>1. PICK k \in 1..i : x \in sccs[k]
      BY <1>2
    <3>2. x \in Functions /\ (k = i \/ k \in 1..(i - 1))
      BY <1>1, CalledFunctions
    <3> QED
      BY <2>1, <3>1, <3>2
  <2>2. ASSUME NEW u \in T, u \notin S PROVE Called(u) \subseteq T
    <3> SUFFICES ASSUME NEW x \in Called(u) PROVE x \in T
      OBVIOUS
    <3>1. PICK j \in 1..(i - 1) : u \in sccs[j]
      BY <2>2
    <3>2. j \in 1..Len(sccs) /\ \A k \in 1..j : k \in 1..(i - 1)
      BY <1>1
    <3>3. PICK k \in 1..j : x \in sccs[k]
      BY <1>2, <3>1, <3>2
    <3>4. x \in Functions
      BY <2>2, CalledFunctions
    <3> QED
      BY <3>2, <3>3, <3>4
  <2>3. T \in SUBSET Functions /\ Called(v) \subseteq T /\ \A u \in T : Called(u) \subseteq T
    BY <1>5, <2>1, <2>2
  <2>4. w \in T
    <3> HIDE DEF T
    <3> QED
      BY <1>1, <1>4, <2>3 DEF Calling
  <2>5. \A j \in 1..(i - 1) : j \in 1..Len(sccs) /\ j # i
    BY <1>1
  <2> QED
    BY <1>2, <2>4, <2>5
<1> QED
  BY <1>1, <1>2, <1>5 DEF MutualIn

LEMMA BeginComponentInv ==
    ASSUME TarjanInv, Finished, CallsListed, BeginComponent, UNCHANGED calls, examined \in Nat
    PROVE  AtHand' /\ SearchInv'
<1>1. /\ examined < Len(sccs) /\ ClassifyScc(sccs[examined + 1]) # "non_recursive"
      /\ members' = sccs[examined + 1] /\ waiting' = members'
      /\ shortest' = Len(calls) + 1 /\ queue' = <<>> /\ edges' = <<>>
  BY DEF BeginComponent
<1>2. examined + 1 \in 1..Len(sccs) /\ Len(calls) \in Nat
  BY <1>1, TarjanFacts
<1>3. members' # {} /\ members' \subseteq Functions /\ MutualIn(sccs[examined + 1])
  BY <1>1, <1>2, ComponentAtHand
<1>4. /\ Functions' = Functions
      /\ \A v : Called(v)' = Called(v)
  BY SameCalls
<1>5. AtHand'
  <2>1. CallsListed'
    BY <1>4 DEF CallsListed
  <2>2. MutualIn(members)'
    BY <1>1, <1>3, <1>4 DEF MutualIn
  <2> QED
    BY <1>3, <1>4, <2>1, <2>2 DEF AtHand
<1>6. SearchInv'
  <2>1. queue' \in Seq(members') /\ edges' \in Seq(Nat)
    BY <1>1, EmptySeq
  <2> QED
    BY <1>1, <1>2, <2>1 DEF SearchInv, SearchTypeOK, EarlierSearched
<1> QED
  BY <1>5, <1>6

-----------------------------------------------------------------------------
(* all of analyzeRecursion                                                 *)

Staged == /\ examined \in Nat
          /\ stage \in {"connect", "classify", "search", "enumerate"}
          /\ stage # "connect" => Finished /\ maxCycles \in Nat
          /\ stage \in {"search", "enumerate"} => AtHand
          /\ stage = "search" => SearchInv
          /\ stage = "enumerate" => ShortestExact /\ CircuitInv

\* The inductive invariant of the analysis.
RecursionInv == TarjanInv /\ CallsListed /\ Staged

LEMMA RecursionInitInv == RecursionInit => RecursionInv
<1> SUFFICES ASSUME RecursionInit PROVE RecursionInv
  OBVIOUS
<1>1. /\ calls \in Seq({s \in Seq(Nat) : IsInjective(s)}) /\ stage = "connect" /\ examined = 0
      /\ TarjanInv
  BY TarjanInitInv DEF RecursionInit, TarjanInit, Unexamined
<1>2. CallsListed
  <2> DEFINE L == {s \in Seq(Nat) : IsInjective(s)}
  <2>1. calls \in Seq(Seq(Nat)) /\ Len(calls) \in Nat
    BY <1>1, SeqMonotonic
  <2>2. \A i \in 1..Len(calls) : calls[i] \in L
    <3> calls \in Seq(L)
      BY <1>1
    <3> HIDE DEF L
    <3> QED
      BY ElementOfSeq
  <2>3. \A v \in Functions : v + 1 \in 1..Len(calls)
    BY <2>1 DEF Functions
  <2> QED
    BY <2>1, <2>2, <2>3 DEF CallsListed
<1> QED
  BY <1>1, <1>2 DEF RecursionInv, Staged

\* tarjanScc leaves the calls as they are.
LEMMA TarjanKeepsCalls == TarjanNext => UNCHANGED <<calls, stage>> /\ stage = "connect"
<1>1. Connect \/ FollowNew => UNCHANGED calls
  BY DEF Connect, FollowNew, Enter
<1>2. FollowOpen \/ FollowElse => UNCHANGED calls
  BY DEF FollowOpen, FollowElse
<1>3. PopComponent \/ StayOpen => UNCHANGED calls
  BY DEF PopComponent, StayOpen, Return
<1> QED
  BY <1>1, <1>2, <1>3 DEF TarjanNext

LEMMA ConnectingInv ==
    RecursionInv /\ TarjanNext /\ UNCHANGED examination => RecursionInv'
<1> SUFFICES ASSUME RecursionInv, TarjanNext, UNCHANGED examination PROVE RecursionInv'
  OBVIOUS
<1>1. TarjanInv'
  BY TarjanNextInv DEF RecursionInv
<1>2. UNCHANGED <<calls, stage, examined>> /\ stage = "connect"
  BY TarjanKeepsCalls DEF examination
<1>3. CallsListed'
  BY <1>2, SameCalls DEF RecursionInv, CallsListed
<1> QED
  BY <1>1, <1>2, <1>3 DEF RecursionInv, Staged

\* What no step of the examination touches.
LEMMA CallsKept ==
    ASSUME RecursionInv, UNCHANGED <<calls, tarjan>>
    PROVE  TarjanInv' /\ CallsListed' /\ (Finished => Finished')
<1>1. TarjanInv'
  BY TarjanStutterInv DEF RecursionInv
<1>2. CallsListed'
  BY SameCalls DEF RecursionInv, CallsListed
<1>3. Finished => Finished'
  BY SameCalls DEF Finished, Known, tarjan, numbering
<1> QED
  BY <1>1, <1>2, <1>3

\* The steps within a search and within an enumeration.
Searching == BeginSearch \/ Dequeue \/ LookAtStart \/ Discover \/ LookElse
Enumerating == BeginCircuits \/ CloseCycle \/ Deepen \/ Decline \/ LeaveFound \/ LeaveEmpty

LEMMA SearchingInv == RecursionInv /\ Searching /\ UNCHANGED <<calls, tarjan>> => RecursionInv'
<1> SUFFICES ASSUME RecursionInv, Searching, UNCHANGED <<calls, tarjan>> PROVE RecursionInv'
  OBVIOUS
<1>1. stage = "search" /\ UNCHANGED <<stage, examined, members, maxCycles, calls>>
  BY DEF Searching, BeginSearch, Dequeue, LookAtStart, Discover, LookElse, NextEdge, component
<1>2. Finished /\ AtHand /\ SearchInv /\ examined \in Nat /\ maxCycles \in Nat
  BY <1>1 DEF RecursionInv, Staged
<1>3. SearchInv'
  BY <1>1, <1>2, BeginSearchInv, DequeueInv, LookAtStartInv, DiscoverInv, LookElseInv DEF Searching
<1>4. AtHand'
  BY <1>1, <1>2, HandKept
<1> QED
  BY <1>1, <1>2, <1>3, <1>4, CallsKept DEF RecursionInv, Staged

LEMMA EnumeratingInv == RecursionInv /\ Enumerating /\ UNCHANGED <<calls, tarjan>> => RecursionInv'
<1> SUFFICES ASSUME RecursionInv, Enumerating, UNCHANGED <<calls, tarjan>> PROVE RecursionInv'
  OBVIOUS
<1>1. stage = "enumerate" /\ UNCHANGED <<stage, examined, members, maxCycles, shortest, calls>>
  BY DEF Enumerating, BeginCircuits, CloseCycle, Deepen, Decline, LeaveFound, LeaveEmpty, TakeEdge,
         component, searching
<1>2. /\ Finished /\ AtHand /\ ShortestExact /\ CircuitInv
      /\ examined \in Nat /\ maxCycles \in Nat
  BY <1>1 DEF RecursionInv, Staged
<1>3. CircuitInv'
  BY <1>1, <1>2, BeginCircuitsInv, CloseCycleInv, DeepenInv, DeclineInv, LeaveFoundInv, LeaveEmptyInv
     DEF Enumerating
<1>4. AtHand' /\ SimpleCycles' = SimpleCycles
  BY <1>1, <1>2, HandKept
<1>5. ShortestExact'
  BY <1>1, <1>2, <1>4 DEF ShortestExact
<1> QED
  BY <1>1, <1>2, <1>3, <1>4, <1>5, CallsKept DEF RecursionInv, Staged

\* From one part of the analysis to the next.
LEMMA ExamineInv == RecursionInv /\ Examine /\ UNCHANGED <<calls, tarjan>> => RecursionInv'
<1> SUFFICES ASSUME RecursionInv, Examine, UNCHANGED <<calls, tarjan>> PROVE RecursionInv'
  OBVIOUS
<1>1. TarjanInv' /\ CallsListed' /\ (Finished => Finished')
  BY CallsKept
<1>2. CASE ReturnSccs
  <2>1. Connected /\ stage' = "classify" /\ UNCHANGED examined /\ maxCycles' \in Nat
    BY <1>2, LimitsAssumption DEF ReturnSccs
  <2> QED
    BY <1>1, <2>1, ConnectedFinished DEF RecursionInv, Staged
<1>3. CASE PassBy
  <2>1. stage = "classify" /\ stage' = "classify" /\ examined' = examined + 1
        /\ UNCHANGED maxCycles
    BY <1>3 DEF PassBy
  <2> QED
    BY <1>1, <2>1 DEF RecursionInv, Staged
<1>4. CASE BeginComponent
  <2>1. stage = "classify" /\ stage' = "search" /\ UNCHANGED <<calls, examined, maxCycles>>
    BY <1>4 DEF BeginComponent
  <2>2. TarjanInv /\ Finished /\ CallsListed /\ examined \in Nat /\ maxCycles \in Nat
    BY <2>1 DEF RecursionInv, Staged
  <2>3. AtHand' /\ SearchInv'
    BY <1>4, <2>1, <2>2, BeginComponentInv
  <2> QED
    BY <1>1, <2>1, <2>2, <2>3 DEF RecursionInv, Staged
<1>5. CASE EndSearch
  <2>1. stage = "search" /\ stage' = "enumerate"
        /\ UNCHANGED <<examined, members, maxCycles, shortest, calls>>
    BY <1>5 DEF EndSearch, searching
  <2>2. Finished /\ AtHand /\ SearchInv /\ examined \in Nat /\ maxCycles \in Nat
    BY <2>1 DEF RecursionInv, Staged
  <2>3. AtHand' /\ SimpleCycles' = SimpleCycles
    BY <2>1, <2>2, HandKept
  <2>4. ShortestExact /\ CircuitInv'
    BY <1>5, <2>1, <2>2, EndSearchInv
  <2>5. ShortestExact'
    BY <2>1, <2>3, <2>4 DEF ShortestExact
  <2> QED
    BY <1>1, <2>1, <2>2, <2>3, <2>4, <2>5 DEF RecursionInv, Staged
<1>6. CASE EndComponent
  <2>1. stage = "enumerate" /\ stage' = "classify" /\ examined' = examined + 1
        /\ UNCHANGED maxCycles
    BY <1>6 DEF EndComponent, Enumerated
  <2> QED
    BY <1>1, <2>1 DEF RecursionInv, Staged
<1>7. CASE Searching
  BY <1>7, SearchingInv
<1>8. CASE Enumerating
  BY <1>8, EnumeratingInv
<1> QED
  BY <1>2, <1>3, <1>4, <1>5, <1>6, <1>7, <1>8 DEF Examine, Searching, Enumerating

LEMMA SearchKept == UNCHANGED <<calls, stage, examination>> /\ SearchInv => SearchInv'
<1> SUFFICES ASSUME UNCHANGED <<calls, stage, examination>>, SearchInv PROVE SearchInv'
  OBVIOUS
<1>1. UNCHANGED <<members, waiting, start, shortest, dist, queue, from, edges>>
  BY DEF examination, starts, searching
<1>2. /\ Functions' = Functions /\ SimpleCycles' = SimpleCycles
      /\ \A x : Called(x)' = Called(x)
      /\ \A x : IntraCalls(x)' = IntraCalls(x)
  BY <1>1, HandKept
<1>3. /\ HasLength' <=> HasLength
      /\ \A s : SearchedFrom(s)' <=> SearchedFrom(s)
  BY <1>1, <1>2 DEF HasLength, SearchedFrom
<1>4. /\ \A x : Discovered(x)' <=> Discovered(x)
      /\ \A x : Distance(x)' <=> Distance(x)
      /\ \A x, w : Followed(x, w)' <=> Followed(x, w)
  BY <1>1, <1>2 DEF Discovered, Distance, Followed
<1>5. (SearchTypeOK => SearchTypeOK') /\ (EarlierSearched => EarlierSearched')
  BY <1>1, <1>3 DEF SearchTypeOK, EarlierSearched
<1>6. (Reached => Reached') /\ (QueueRises => QueueRises')
  BY <1>1, <1>2, <1>4 DEF Reached, QueueRises
<1>7. (FromLeads => FromLeads') /\ (Covered => Covered')
  BY <1>1, <1>2, <1>4 DEF FromLeads, Covered
<1> QED
  BY <1>1, <1>5, <1>6, <1>7 DEF SearchInv, Breadth

LEMMA CircuitKept == UNCHANGED <<calls, stage, examination>> /\ CircuitInv => CircuitInv'
<1> SUFFICES ASSUME UNCHANGED <<calls, stage, examination>>, CircuitInv PROVE CircuitInv'
  OBVIOUS
<1>1. UNCHANGED <<members, waiting, start, maxCycles, cycles, path, rest, found, blocked, blockMap>>
  BY DEF examination, starts, enumeration
<1>2. /\ Functions' = Functions /\ SimpleCycles' = SimpleCycles
      /\ \A x : Called(x)' = Called(x)
      /\ \A x : IntraCalls(x)' = IntraCalls(x)
  BY <1>1, HandKept
<1>3. /\ \A p, j : LeavesAt(p, j)' <=> LeavesAt(p, j)
      /\ Limited' <=> Limited
  BY <1>1 DEF LeavesAt, Following, Limited
<1>4. \A p : Ahead(p)' <=> Ahead(p)
  BY <1>1, <1>3 DEF Ahead
<1>5. (CircuitTypeOK => CircuitTypeOK') /\ (Chained => Chained')
  BY <1>1, <1>2 DEF CircuitTypeOK, Chained
<1>6. (Listed => Listed') /\ (Spent => Spent')
  BY <1>1, <1>2, <1>3, <1>4 DEF Listed, Spent
<1>7. (Blocking => Blocking') /\ (Stuck => Stuck') /\ (Waited => Waited')
  BY <1>1, <1>2 DEF Blocking, Stuck, Waited
<1>8. Apart => Apart'
  <2>1. \A i : ApartAt(i)' <=> ApartAt(i)
    BY <1>1 DEF ApartAt
  <2> QED
    BY <1>1, <2>1 DEF Apart
<1>9. Fruitless => Fruitless'
  <2>1. \A i : Barren(i)' <=> Barren(i)
    BY <1>1 DEF Barren
  <2> QED
    BY <1>1, <1>2, <2>1 DEF Fruitless
<1> QED
  BY <1>3, <1>5, <1>6, <1>7, <1>8, <1>9 DEF CircuitInv, Unlimited

LEMMA RecursionStutterInv ==
    RecursionInv /\ UNCHANGED <<calls, tarjan, stage, examination>> => RecursionInv'
<1> SUFFICES ASSUME RecursionInv, UNCHANGED <<calls, tarjan, stage, examination>> PROVE RecursionInv'
  OBVIOUS
<1>1. UNCHANGED <<calls, stage, examined, members, maxCycles, shortest>>
  BY DEF examination, searching
<1>2. SimpleCycles' = SimpleCycles /\ (AtHand => AtHand')
  BY <1>1, HandKept
<1>3. ShortestExact => ShortestExact'
  BY <1>1, <1>2 DEF ShortestExact
<1> QED
  BY <1>1, <1>2, <1>3, SearchKept, CircuitKept, CallsKept DEF RecursionInv, Staged

LEMMA RecursionNextInv ==
    RecursionInv /\ [RecursionNext]_<<calls, tarjan, stage, examination>> => RecursionInv'
BY ConnectingInv, ExamineInv, RecursionStutterInv DEF RecursionNext

LEMMA RecursionInvariance == RecursionSpec => []RecursionInv
<1> QED
  BY RecursionInitInv, RecursionNextInv, PTL DEF RecursionSpec

\* With no start left and no path no cycle is ahead, so all are listed.
LEMMA EnumeratedExact == RecursionInv => CyclesExact
<1> SUFFICES ASSUME RecursionInv, Enumerated PROVE ShortestExact /\ EnumerationExact
  BY DEF CyclesExact
<1>1. path = <<>> /\ (waiting = {} \/ Limited) /\ ShortestExact /\ CircuitInv
  BY DEF Enumerated, RecursionInv, Staged
<1>2. /\ CircuitTypeOK /\ Listed
      /\ Len(path) = 0 /\ 1..0 = {}
  BY <1>1, EmptySeq DEF CircuitInv
<1>3. /\ cycles \in Seq(SimpleCycles) /\ Len(cycles) \in Nat /\ maxCycles \in Nat
  BY <1>1, <1>2, LenProperties DEF CircuitTypeOK
<1>4. ToSet(cycles) \subseteq SimpleCycles
  <2>1. cycles \in [1..Len(cycles) -> SimpleCycles] /\ DOMAIN cycles = 1..Len(cycles)
    BY <1>3, LenProperties
  <2> QED
    BY <2>1 DEF ToSet
<1>5. ASSUME Len(cycles) < maxCycles PROVE SimpleCycles \subseteq ToSet(cycles)
  <2>1. ~Limited /\ waiting = {}
    BY <1>1, <1>3, <1>5 DEF Limited
  <2>2. \A p : ~Ahead(p)
    BY <1>2, <2>1 DEF Ahead
  <2> QED
    BY <1>2, <2>1, <2>2 DEF Listed
<1>6. ASSUME Len(cycles) < maxCycles
      PROVE  \A p \in SimpleCycles : \E q \in ToSet(cycles) : Links(q) = Links(p)
  BY <1>5, <1>6
<1> QED
  BY <1>1, <1>2, <1>4, <1>6 DEF EnumerationExact, Listed

\* For every call graph and every limit, whichever recursive component is at
\* hand and in whatever order its functions call: the length that
\* shortestCycleInScc returns is that of the component's shortest cycle, and
\* enumerateCyclesInScc lists simple cycles only, none twice from the same
\* function, and all of them if it stays below the limit.
THEOREM Cycles == RecursionSpec => []CyclesExact
<1> QED
  BY EnumeratedExact, RecursionInvariance, PTL

LEMMA EnumeratedSpent == RecursionInv /\ Enumerated => Len(cycles) < maxCycles + Cardinality(members)
<1> SUFFICES ASSUME RecursionInv, Enumerated PROVE Len(cycles) < maxCycles + Cardinality(members)
  OBVIOUS
<1>1. path = <<>> /\ AtHand /\ CircuitInv
  BY DEF Enumerated, RecursionInv, Staged
<1>2. CircuitTypeOK /\ Spent /\ Len(path) = 0
  BY <1>1, EmptySeq DEF CircuitInv
<1>3. /\ cycles \in Seq(SimpleCycles) /\ Len(cycles) \in Nat /\ maxCycles \in Nat
      /\ Cardinality(members) \in Nat /\ Cardinality(members) >= 1
  BY <1>1, <1>2, HandFacts, LenProperties DEF CircuitTypeOK
<1> QED
  BY <1>2, <1>3 DEF Spent, Limited

\* The limit is not kept (LimitKept), but enumerateCyclesInScc never lists as
\* many cycles beyond it as the component has functions: each frame open when
\* the limit is met may add one (lines 2185 to 2190).
THEOREM LimitExceeded == RecursionSpec => [](Enumerated => Len(cycles) < maxCycles + Cardinality(members))
<1> QED
  BY EnumeratedSpent, RecursionInvariance, PTL

\* What analyzeRecursion does with the components leaves them exact.
THEOREM RecursionComponents == RecursionSpec => [](ComponentsExact /\ (stage # "connect" => Classes))
<1>1. RecursionInv => ComponentsExact /\ (stage # "connect" => Classes)
  BY ConnectedExact, FinishedClasses DEF RecursionInv, Staged
<1> QED
  BY <1>1, RecursionInvariance, PTL
=============================================================================
