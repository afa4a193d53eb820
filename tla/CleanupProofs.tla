--------------------------- MODULE CleanupProofs ---------------------------
(****************************************************************************)
(* Machine-checked theorems about module Cleanup, for any tree of files,    *)
(* any number of installations and any interference.                        *)
(****************************************************************************)
EXTENDS Cleanup, FiniteSetTheorems, SequenceTheorems, WellFoundedInduction, TLAPS

(* A set of numbers has a least one.  It is the induction of what follows:  *)
(* strict subsets of a finite set are well-founded, here those that are the *)
(* numbers up to one of the set.                                            *)
LEMMA Least ==
  ASSUME NEW T \in SUBSET Nat, T # {}
  PROVE \E n \in T : \A m \in T : n <= m
<1>1. PICK b \in T : TRUE OBVIOUS
<1>2. IsFiniteSet(0..b) BY FS_Interval, <1>1
<1>3. IsWellFoundedOn(StrictSubsetOrdering(0..b), SUBSET (0..b))
   BY <1>2, FS_FiniteSubsetsOfFinite, FS_StrictSubsetOrderingWellFounded
<1> DEFINE U == {X \in SUBSET (0..b) : \E m \in T : m <= b /\ X = 0..m}
<1>4. U \subseteq SUBSET (0..b) /\ U # {}
  BY <1>1, 0..b \in U
<1>5. PICK X \in U : \A Y \in U : ~ (<<Y, X>> \in StrictSubsetOrdering(0..b))
  <2> HIDE DEF U
  <2> QED BY <1>3, <1>4, WFMin, Zenon
<1>6. PICK n \in T : n <= b /\ X = 0..n BY <1>5
<1>7. ASSUME NEW m \in T, m < n PROVE FALSE
  <2>1. 0..m \in U BY <1>6, <1>7
  <2>2. (0..m) \subseteq (0..n) /\ (0..m) # 0..n
    <3>1. n \in 0..n /\ n \notin 0..m BY <1>7
    <3> QED BY <1>7, <3>1
  <2>3. 0..m \in SUBSET (0..b) /\ 0..n \in SUBSET (0..b) BY <1>6, <1>7
  <2>4. <<0..m, X>> \in StrictSubsetOrdering(0..b)
    BY <2>2, <2>3, <1>6 DEF StrictSubsetOrdering
  <2> QED BY <2>1, <2>4, <1>5
<1> QED BY <1>7

(* What Resolves and Above say of the files as they are is said here of any *)
(* tree P, with M the objects that were moved.                              *)
Tree == [Objects -> Places \cup {None}]

ResolvesIn(P, p, o) ==
    IF p = << >> THEN o = Root
    ELSE \E chain \in [1..Len(p) -> Objects] :
            /\ chain[Len(p)] = o
            /\ \A k \in 1..Len(p) :
                  P[chain[k]] = Entry(IF k = 1 THEN Root ELSE chain[k - 1], p[k])

AboveIn(P, o, a, n) ==
    \E chain \in [0..n -> Objects] :
        /\ chain[0] = o /\ chain[n] = a
        /\ \A k \in 1..n : P[chain[k - 1]] # None /\ P[chain[k - 1]].dir = chain[k]

(* An object that was moved, or is under a hidden name; one with such an    *)
(* object above it, nearer than its path is long; and one that is still     *)
(* where that path leads, or lost like this.                                *)
Displaced(P, M, a) == a \in M \/ (P[a] # None /\ P[a].name \notin Names)

Lost(P, M, o, p) ==
    \E n \in 0..(Len(p) - 1), a \in Objects : AboveIn(P, o, a, n) /\ Displaced(P, M, a)

Found(P, M, o, p) == ResolvesIn(P, p, o) \/ Lost(P, M, o, p)

(* Any path but that of the root: what leads to a directory, too.           *)
Routes == Seq(Names) \ {<< >>}

LEMMA RouteFacts ==
  ASSUME NEW p \in Routes
  PROVE  /\ p \in Seq(Names) /\ p # << >> /\ Len(p) \in Nat /\ Len(p) >= 1
         /\ \A k \in 1..Len(p) : p[k] \in Names
BY DEF Routes

LEMMA PathFacts ==
  ASSUME NEW p \in Paths
  PROVE  /\ p \in Seq(Names) /\ p # << >> /\ Len(p) \in Nat /\ Len(p) >= 1
         /\ \A k \in 1..Len(p) : p[k] \in Names
BY PathsAssumption

LEMMA PathsAreRoutes == Paths \subseteq Routes
BY PathsAssumption DEF Routes

LEMMA EntryPlace ==
  ASSUME NEW d \in Objects \cup {Root}, NEW x \in Names
  PROVE  Entry(d, x) \in Places /\ Entry(d, x) # None /\ Entry(d, x).dir = d /\ Entry(d, x).name = x
BY ObjectsAssumption DEF Entry, Places

(* An object is moved or hidden.  What is lost stays lost: the objects      *)
(* above it are the same up to that one, and it is displaced.               *)
LEMMA LostKept ==
  ASSUME NEW P \in Tree, NEW M, NEW N, M \subseteq N, NEW m \in Objects,
         NEW Q \in Tree, \A x \in Objects : x # m => Q[x] = P[x],
         Displaced(Q, N, m),
         NEW o \in Objects, NEW p \in Routes, Lost(P, M, o, p)
  PROVE  Lost(Q, N, o, p)
<1>1. PICK n \in 0..(Len(p) - 1), a \in Objects : AboveIn(P, o, a, n) /\ Displaced(P, M, a)
  BY DEF Lost
<1>2. PICK chain \in [0..n -> Objects] :
        /\ chain[0] = o /\ chain[n] = a
        /\ \A k \in 1..n : P[chain[k - 1]] # None /\ P[chain[k - 1]].dir = chain[k]
  BY <1>1 DEF AboveIn
<1>3. n \in Nat BY <1>1, RouteFacts
<1> DEFINE K == {k \in 0..n : chain[k] = m}
<1>4. CASE K = {}
  <2>1. \A k \in 0..n : chain[k] # m BY <1>4
  <2>2. \A k \in 1..n : k - 1 \in 0..n BY <1>3
  <2>3. \A k \in 1..n : Q[chain[k - 1]] # None /\ Q[chain[k - 1]].dir = chain[k]
    <3> TAKE k \in 1..n
    <3>1. k - 1 \in 0..n /\ chain[k - 1] # m BY <2>1, <2>2
    <3>2. Q[chain[k - 1]] = P[chain[k - 1]] BY <3>1
    <3> QED BY <1>2, <3>2
  <2>4. AboveIn(Q, o, a, n) BY <1>2, <2>3 DEF AboveIn
  <2>5. Displaced(Q, N, a)
    <3>1. a # m BY <1>2, <1>3, <2>1
    <3> QED BY <1>1, <3>1 DEF Displaced
  <2> QED BY <1>1, <2>4, <2>5 DEF Lost
<1>5. CASE K # {}
  <2>1. PICK h \in K : \A k \in K : h <= k
    <3>1. K \in SUBSET Nat BY <1>3
    <3> HIDE DEF K
    <3> QED BY <1>5, <3>1, Least
  <2>2. h \in Nat /\ h <= n /\ chain[h] = m BY <1>3, <2>1
  <2> DEFINE c == [x \in 0..h |-> chain[x]]
  <2>3. c \in [0..h -> Objects] /\ c[0] = o /\ c[h] = m BY <1>2, <1>3, <2>2
  <2>4. ASSUME NEW k \in 1..h PROVE Q[c[k - 1]] # None /\ Q[c[k - 1]].dir = c[k]
    <3>1. k \in 1..n /\ k \in 0..h /\ k - 1 \in 0..h /\ k - 1 \in 0..n /\ ~(h <= k - 1)
      BY <1>3, <2>2
    <3>2. chain[k - 1] # m BY <2>1, <3>1
    <3> QED BY <1>2, <3>1, <3>2
  <2>5. AboveIn(Q, o, m, h)
    <3> HIDE DEF c
    <3> QED BY <2>3, <2>4 DEF AboveIn
  <2>6. h \in 0..(Len(p) - 1) BY <1>1, <2>2, RouteFacts
  <2> QED BY <2>5, <2>6 DEF Lost
<1> QED BY <1>4, <1>5

(* What was found is found, or lost by that object: the one nearest to it   *)
(* that is displaced.                                                       *)
LEMMA FoundKept ==
  ASSUME NEW P \in Tree, NEW M, NEW N, M \subseteq N, NEW m \in Objects,
         NEW Q \in Tree, \A x \in Objects : x # m => Q[x] = P[x],
         Displaced(Q, N, m),
         NEW o \in Objects, NEW p \in Routes, Found(P, M, o, p)
  PROVE  Found(Q, N, o, p)
<1>1. CASE Lost(P, M, o, p) BY <1>1, LostKept DEF Found
<1>2. CASE ResolvesIn(P, p, o)
  <2> DEFINE L == Len(p)
  <2>0. L \in Nat /\ L >= 1 /\ p # << >> /\ \A k \in 1..L : p[k] \in Names BY RouteFacts
  <2>1. PICK chain \in [1..L -> Objects] :
            /\ chain[L] = o
            /\ \A k \in 1..L : P[chain[k]] = Entry(IF k = 1 THEN Root ELSE chain[k - 1], p[k])
    BY <1>2, <2>0 DEF ResolvesIn
  <2> DEFINE J == {j \in 0..(L - 1) : chain[L - j] = m}
  <2>2. CASE J = {}
    <3>1. ASSUME NEW k \in 1..L PROVE chain[k] # m
      <4>1. L - k \in 0..(L - 1) /\ L - (L - k) = k BY <2>0
      <4> QED BY <2>2, <4>1
    <3>2. \A k \in 1..L : Q[chain[k]] = P[chain[k]] BY <3>1
    <3>3. ResolvesIn(Q, p, o) BY <2>0, <2>1, <3>2 DEF ResolvesIn
    <3> QED BY <3>3 DEF Found
  <2>3. CASE J # {}
    <3> HIDE DEF L
    <3>1. PICK h \in J : \A j \in J : h <= j
      <4>1. J \in SUBSET Nat BY <2>0
      <4> HIDE DEF J
      <4> QED BY <2>3, <4>1, Least
    <3>2. h \in Nat /\ h <= L - 1 /\ chain[L - h] = m BY <2>0, <3>1
    <3> DEFINE c == [x \in 0..h |-> chain[L - x]]
    <3>3. c \in [0..h -> Objects] /\ c[0] = o /\ c[h] = m
      <4>1. \A x \in 0..h : L - x \in 1..L BY <2>0, <3>2
      <4>2. L - 0 = L BY <2>0
      <4> QED BY <2>1, <3>2, <4>1, <4>2
    <3>4. ASSUME NEW k \in 1..h PROVE Q[c[k - 1]] # None /\ Q[c[k - 1]].dir = c[k]
      <4>1. k \in 0..h /\ k - 1 \in 0..h /\ ~(h <= k - 1) /\ k - 1 \in 0..(L - 1)
            /\ L - (k - 1) \in 1..L /\ L - (k - 1) # 1 /\ (L - (k - 1)) - 1 = L - k /\ L - k \in 1..L
        BY <2>0, <3>2
      <4>2. chain[L - (k - 1)] # m BY <3>1, <4>1
      <4>3. P[chain[L - (k - 1)]] = Entry(chain[L - k], p[L - (k - 1)]) BY <2>1, <4>1
      <4>4. P[chain[L - (k - 1)]] # None /\ P[chain[L - (k - 1)]].dir = chain[L - k]
        BY <2>0, <4>1, <4>3, EntryPlace
      <4>5. c[k - 1] = chain[L - (k - 1)] /\ c[k] = chain[L - k] BY <4>1
      <4>6. Q[chain[L - (k - 1)]] = P[chain[L - (k - 1)]] BY <4>1, <4>2
      <4> HIDE DEF c
      <4> QED BY <4>4, <4>5, <4>6
    <3>5. AboveIn(Q, o, m, h)
      <4> HIDE DEF c
      <4> QED BY <3>3, <3>4 DEF AboveIn
    <3>6. h \in 0..(Len(p) - 1) BY <3>2, <2>0 DEF L
    <3> QED BY <3>5, <3>6 DEF Lost, Found
  <2> QED BY <2>2, <2>3
<1> QED BY <1>1, <1>2 DEF Found

(* An object nothing is in changes place: all the others are found as       *)
(* before.                                                                  *)
LEMMA Remains ==
  ASSUME NEW P \in Tree, NEW M, NEW m \in Objects, NEW Q \in Tree,
         \A x \in Objects : x # m => Q[x] = P[x],
         \A x \in Objects : P[x] # None /\ x # m => P[x].dir # m,
         NEW o \in Objects, o # m, NEW p \in Routes
  PROVE  /\ Lost(P, M, o, p) => Lost(Q, M, o, p)
         /\ Found(P, M, o, p) => Found(Q, M, o, p)
<1>1. ASSUME Lost(P, M, o, p) PROVE Lost(Q, M, o, p)
  <2>1. PICK n \in 0..(Len(p) - 1), a \in Objects : AboveIn(P, o, a, n) /\ Displaced(P, M, a)
    BY <1>1 DEF Lost
  <2>2. PICK chain \in [0..n -> Objects] :
          /\ chain[0] = o /\ chain[n] = a
          /\ \A k \in 1..n : P[chain[k - 1]] # None /\ P[chain[k - 1]].dir = chain[k]
    BY <2>1 DEF AboveIn
  <2>3. n \in Nat BY <2>1, RouteFacts
  <2>4. ASSUME \E k \in 0..n : chain[k] = m PROVE FALSE
    <3> DEFINE K == {k \in 0..n : chain[k] = m}
    <3>1. PICK h \in K : \A k \in K : h <= k
      <4>1. K \in SUBSET Nat /\ K # {} BY <2>3, <2>4
      <4> HIDE DEF K
      <4> QED BY <4>1, Least
    <3>2. h \in 1..n /\ h - 1 \in 0..n /\ chain[h] = m /\ ~(h <= h - 1) BY <2>2, <2>3, <3>1
    <3>3. chain[h - 1] # m BY <3>1, <3>2
    <3>4. chain[h - 1] \in Objects BY <2>2, <3>2
    <3> QED BY <2>2, <3>2, <3>3, <3>4
  <2>5. \A k \in 0..n : Q[chain[k]] = P[chain[k]] BY <2>2, <2>4
  <2>6. ASSUME NEW k \in 1..n PROVE Q[chain[k - 1]] # None /\ Q[chain[k - 1]].dir = chain[k]
    <3>1. k - 1 \in 0..n BY <2>3
    <3>2. Q[chain[k - 1]] = P[chain[k - 1]] BY <2>5, <3>1
    <3> QED BY <2>2, <3>2
  <2>7. AboveIn(Q, o, a, n) BY <2>2, <2>6 DEF AboveIn
  <2>8. Q[a] = P[a] BY <2>2, <2>3, <2>5
  <2> QED BY <2>1, <2>7, <2>8 DEF Lost, Displaced
<1>2. ASSUME ResolvesIn(P, p, o) PROVE ResolvesIn(Q, p, o)
  <2> DEFINE L == Len(p)
  <2>0. L \in Nat /\ L >= 1 /\ p # << >> /\ \A k \in 1..L : p[k] \in Names BY RouteFacts
  <2>1. PICK chain \in [1..L -> Objects] :
            /\ chain[L] = o
            /\ \A k \in 1..L : P[chain[k]] = Entry(IF k = 1 THEN Root ELSE chain[k - 1], p[k])
    BY <1>2, <2>0 DEF ResolvesIn
  <2> HIDE DEF L
  <2>2. ASSUME \E k \in 1..L : chain[k] = m PROVE FALSE
    <3> DEFINE J == {j \in 0..(L - 1) : chain[L - j] = m}
    <3>1. PICK h \in J : \A j \in J : h <= j
      <4>1. J \in SUBSET Nat BY <2>0
      <4>2. PICK k \in 1..L : chain[k] = m BY <2>2
      <4>3. L - k \in 0..(L - 1) /\ L - (L - k) = k BY <2>0
      <4>4. L - k \in J BY <4>2, <4>3
      <4> HIDE DEF J
      <4> QED BY <4>1, <4>4, Least
    <3>2. h \in 1..(L - 1) BY <2>0, <2>1, <3>1
    <3>3. /\ h - 1 \in 0..(L - 1) /\ ~(h <= h - 1) /\ L - (h - 1) \in 1..L
          /\ L - (h - 1) # 1 /\ (L - (h - 1)) - 1 = L - h /\ L - h \in 1..L
      BY <2>0, <3>2
    <3>4. chain[L - h] = m /\ chain[L - (h - 1)] # m BY <3>1, <3>3
    <3>5. P[chain[L - (h - 1)]] = Entry(m, p[L - (h - 1)]) BY <2>1, <3>3, <3>4
    <3>6. P[chain[L - (h - 1)]] # None /\ P[chain[L - (h - 1)]].dir = m
      BY <2>0, <3>3, <3>5, EntryPlace
    <3> QED BY <2>1, <3>3, <3>4, <3>6
  <2>3. \A k \in 1..L : Q[chain[k]] = P[chain[k]] BY <2>1, <2>2
  <2> QED BY <2>0, <2>1, <2>3 DEF ResolvesIn, L
<1> QED BY <1>1, <1>2 DEF Found

(* A new object is in no path, and above nothing.                           *)
LEMMA Appears ==
  ASSUME NEW P \in Tree, NEW M, NEW m \in Objects, NEW Q \in Tree,
         \A x \in Objects : x # m => Q[x] = P[x], P[m] = None,
         NEW o \in Objects, NEW p \in Routes
  PROVE  /\ Lost(P, M, o, p) => Lost(Q, M, o, p)
         /\ Found(P, M, o, p) => Found(Q, M, o, p)
<1>1. ASSUME Lost(P, M, o, p) PROVE Lost(Q, M, o, p)
  <2>1. PICK n \in 0..(Len(p) - 1), a \in Objects : AboveIn(P, o, a, n) /\ Displaced(P, M, a)
    BY <1>1 DEF Lost
  <2>2. PICK chain \in [0..n -> Objects] :
          /\ chain[0] = o /\ chain[n] = a
          /\ \A k \in 1..n : P[chain[k - 1]] # None /\ P[chain[k - 1]].dir = chain[k]
    BY <2>1 DEF AboveIn
  <2>3. n \in Nat BY <2>1, RouteFacts
  <2>6. ASSUME NEW k \in 1..n PROVE Q[chain[k - 1]] # None /\ Q[chain[k - 1]].dir = chain[k]
    <3>1. k - 1 \in 0..n BY <2>3
    <3>2. chain[k - 1] \in Objects /\ P[chain[k - 1]] # None BY <2>2, <3>1
    <3>3. Q[chain[k - 1]] = P[chain[k - 1]] BY <3>2
    <3> QED BY <2>2, <3>3
  <2>7. AboveIn(Q, o, a, n) BY <2>2, <2>6 DEF AboveIn
  <2>8. Displaced(Q, M, a) BY <2>1 DEF Displaced
  <2> QED BY <2>1, <2>7, <2>8 DEF Lost
<1>2. ASSUME ResolvesIn(P, p, o) PROVE ResolvesIn(Q, p, o)
  <2> DEFINE L == Len(p)
  <2>0. L \in Nat /\ L >= 1 /\ p # << >> /\ \A k \in 1..L : p[k] \in Names BY RouteFacts
  <2>1. PICK chain \in [1..L -> Objects] :
            /\ chain[L] = o
            /\ \A k \in 1..L : P[chain[k]] = Entry(IF k = 1 THEN Root ELSE chain[k - 1], p[k])
    BY <1>2, <2>0 DEF ResolvesIn
  <2> HIDE DEF L
  <2>2. ASSUME NEW k \in 1..L PROVE Q[chain[k]] = P[chain[k]]
    <3>1. k = 1 \/ k - 1 \in 1..L BY <2>0
    <3>2. (IF k = 1 THEN Root ELSE chain[k - 1]) \in Objects \cup {Root} BY <2>1, <3>1
    <3>3. P[chain[k]] # None
      <4>1. PICK e \in Objects \cup {Root} : e = IF k = 1 THEN Root ELSE chain[k - 1] BY <3>2
      <4>2. P[chain[k]] = Entry(e, p[k]) BY <2>1, <4>1
      <4>3. p[k] \in Names BY <2>0
      <4>4. Entry(e, p[k]) # None BY <4>3, EntryPlace
      <4> QED BY <4>2, <4>4
    <3> QED BY <2>1, <3>3
  <2> QED BY <2>0, <2>1, <2>2 DEF ResolvesIn, L
<1> QED BY <1>1, <1>2 DEF Found

(* A path leads to one object, and its parent to the one that is in.        *)
LEMMA OneObject ==
  ASSUME NEW P \in Tree, \A o, x \in Objects : P[o] # None /\ P[o] = P[x] => o = x,
         NEW p \in Seq(Names), NEW o \in Objects \cup {Root}, NEW x \in Objects \cup {Root},
         ResolvesIn(P, p, o), ResolvesIn(P, p, x)
  PROVE  o = x
<1>1. CASE p = << >> BY <1>1 DEF ResolvesIn
<1>2. CASE p # << >>
  <2> DEFINE L == Len(p)
  <2>0. L \in Nat /\ L >= 1 /\ \A k \in 1..L : p[k] \in Names BY <1>2
  <2>1. PICK c \in [1..L -> Objects] :
            /\ c[L] = o
            /\ \A k \in 1..L : P[c[k]] = Entry(IF k = 1 THEN Root ELSE c[k - 1], p[k])
    BY <1>2 DEF ResolvesIn
  <2>2. PICK d \in [1..L -> Objects] :
            /\ d[L] = x
            /\ \A k \in 1..L : P[d[k]] = Entry(IF k = 1 THEN Root ELSE d[k - 1], p[k])
    BY <1>2 DEF ResolvesIn
  <2> HIDE DEF L
  <2>3. ASSUME c[L] # d[L] PROVE FALSE
    <3> DEFINE K == {k \in 1..L : c[k] # d[k]}
    <3>1. PICK h \in K : \A k \in K : h <= k
      <4>1. K \in SUBSET Nat /\ K # {} BY <2>0, <2>3
      <4> HIDE DEF K
      <4> QED BY <4>1, Least
    <3>2. h \in 1..L /\ c[h] # d[h] /\ (h = 1 \/ (h - 1 \in 1..L /\ ~(h <= h - 1)))
      BY <2>0, <3>1
    <3>3. (IF h = 1 THEN Root ELSE c[h - 1]) = (IF h = 1 THEN Root ELSE d[h - 1])
      BY <3>1, <3>2
    <3>4. P[c[h]] = P[d[h]] BY <2>1, <2>2, <3>2, <3>3
    <3>5. (IF h = 1 THEN Root ELSE c[h - 1]) \in Objects \cup {Root} BY <2>1, <3>2
    <3>6. P[c[h]] # None
      <4>1. PICK e \in Objects \cup {Root} : e = IF h = 1 THEN Root ELSE c[h - 1] BY <3>5
      <4>2. P[c[h]] = Entry(e, p[h]) BY <2>1, <3>2, <4>1
      <4>3. p[h] \in Names BY <2>0, <3>2
      <4>4. Entry(e, p[h]) # None BY <4>3, EntryPlace
      <4> QED BY <4>2, <4>4
    <3>7. c[h] \in Objects /\ d[h] \in Objects BY <2>1, <2>2, <3>2
    <3> QED BY <3>2, <3>4, <3>6, <3>7
  <2> QED BY <2>1, <2>2, <2>3
<1> QED BY <1>1, <1>2

LEMMA FrontFacts ==
  ASSUME NEW p \in Paths
  PROVE  /\ Front(p) \in Seq(Names) /\ Len(Front(p)) = Len(p) - 1
         /\ \A k \in 1..(Len(p) - 1) : Front(p)[k] = p[k]
<1> DEFINE L == Len(p)
<1>0. L \in Nat /\ L >= 1 /\ p # << >> /\ p \in Seq(Names) /\ \A k \in 1..L : p[k] \in Names
  BY PathFacts
<1>1. 1 \in Int /\ L - 1 \in Int /\ \A k \in 1..(L - 1) : p[k] \in Names BY <1>0
<1>2. /\ SubSeq(p, 1, L - 1) \in Seq(Names)
      /\ Len(SubSeq(p, 1, L - 1)) = IF 1 <= L - 1 THEN (L - 1) - 1 + 1 ELSE 0
      /\ \A k \in 1..((L - 1) - 1 + 1) : SubSeq(p, 1, L - 1)[k] = p[1 + k - 1]
  BY <1>1, SubSeqProperties
<1>3. Front(p) = SubSeq(p, 1, L - 1) BY DEF Front
<1>4. (L - 1) - 1 + 1 = L - 1 /\ \A k \in 1..(L - 1) : 1 + k - 1 = k BY <1>0
<1> QED BY <1>0, <1>2, <1>3, <1>4

LEMMA Parent ==
  ASSUME NEW P \in Tree, NEW p \in Paths, NEW o \in Objects, ResolvesIn(P, p, o)
  PROVE  /\ P[o] \in Places /\ P[o].name = Last(p) /\ P[o].name \in Names
         /\ P[o].dir \in Objects \cup {Root}
         /\ P[o] = Entry(P[o].dir, P[o].name)
         /\ Front(p) \in Seq(Names)
         /\ ResolvesIn(P, Front(p), P[o].dir)
<1> DEFINE L == Len(p)
<1>0. L \in Nat /\ L >= 1 /\ p # << >> /\ p \in Seq(Names) /\ \A k \in 1..L : p[k] \in Names
  BY PathFacts
<1>1. PICK c \in [1..L -> Objects] :
          /\ c[L] = o
          /\ \A k \in 1..L : P[c[k]] = Entry(IF k = 1 THEN Root ELSE c[k - 1], p[k])
  BY <1>0 DEF ResolvesIn
<1>2. /\ Front(p) \in Seq(Names) /\ Len(Front(p)) = L - 1
      /\ \A k \in 1..(L - 1) : Front(p)[k] = p[k]
  BY FrontFacts
<1>3. Last(p) = p[L] BY DEF Last
<1> HIDE DEF L
<1> DEFINE d == IF L = 1 THEN Root ELSE c[L - 1]
<1>4. d \in Objects \cup {Root}
  <2>1. L # 1 => L - 1 \in 1..L BY <1>0
  <2> QED BY <1>1, <2>1
<1>5. P[o] = Entry(d, p[L]) /\ p[L] \in Names BY <1>0, <1>1
<1>6. /\ P[o] \in Places /\ P[o].name = Last(p) /\ P[o].name \in Names /\ P[o].dir = d
      /\ P[o] = Entry(P[o].dir, P[o].name)
  <2> HIDE DEF d
  <2> QED BY <1>3, <1>4, <1>5, EntryPlace
<1>7. ResolvesIn(P, Front(p), d)
  <2>1. CASE L = 1
    <3>1. Front(p) = << >> BY <1>2, <2>1
    <3> QED BY <2>1, <3>1 DEF ResolvesIn
  <2>2. CASE L # 1
    <3>1. L - 1 \in Nat /\ L - 1 >= 1 /\ Front(p) # << >> BY <1>0, <1>2, <2>2
    <3> DEFINE b == [k \in 1..(L - 1) |-> c[k]]
    <3>2. b \in [1..(L - 1) -> Objects] /\ b[L - 1] = d
      <4>1. \A k \in 1..(L - 1) : k \in 1..L BY <1>0
      <4>2. L - 1 \in 1..(L - 1) BY <3>1
      <4> QED BY <1>1, <2>2, <4>1, <4>2
    <3>3. ASSUME NEW k \in 1..(L - 1)
          PROVE P[b[k]] = Entry(IF k = 1 THEN Root ELSE b[k - 1], Front(p)[k])
      <4>1. k \in 1..L /\ (k # 1 => k - 1 \in 1..(L - 1)) BY <1>0
      <4>2. (IF k = 1 THEN Root ELSE b[k - 1]) = IF k = 1 THEN Root ELSE c[k - 1] BY <4>1
      <4>3. b[k] = c[k] OBVIOUS
      <4> HIDE DEF b
      <4> QED BY <1>1, <1>2, <4>1, <4>2, <4>3
    <3> HIDE DEF b, d
    <3> QED BY <1>2, <3>1, <3>2, <3>3 DEF ResolvesIn
  <2> QED BY <2>1, <2>2
<1> QED BY <1>2, <1>4, <1>6, <1>7

(* What a prefix is, place by place.                                        *)
LEMMA Prefix ==
  ASSUME NEW p \in Seq(Names), NEW q \in Seq(Names)
  PROVE  IsPrefix(p, q) <=> Len(p) <= Len(q) /\ \A k \in 1..Len(p) : p[k] = q[k]
<1>1. Len(p) \in Nat /\ Len(q) \in Nat OBVIOUS
<1>2. SubSeq(p, 1, Len(p)) = [k \in 1..Len(p) |-> p[k]] OBVIOUS
<1>3. Len(p) <= Len(q) => SubSeq(q, 1, Len(p)) = [k \in 1..Len(p) |-> q[k]] OBVIOUS
<1> DEFINE f == [k \in 1..Len(p) |-> p[k]]
           g == [k \in 1..Len(p) |-> q[k]]
<1>4. f = g <=> \A k \in 1..Len(p) : p[k] = q[k]
  <2>1. ASSUME f = g, NEW k \in 1..Len(p) PROVE p[k] = q[k]
    <3>1. f[k] = p[k] /\ g[k] = q[k] OBVIOUS
    <3> QED BY <2>1, <3>1
  <2> QED BY <2>1
<1> QED BY <1>2, <1>3, <1>4 DEF IsPrefix

(* A path that overlaps one below another overlaps that one.                *)
LEMMA OverlapsAbove ==
  ASSUME NEW p \in Paths, NEW q \in Paths, NEW r \in Paths, IsPrefix(p, q), Overlaps(q, r)
  PROVE  Overlaps(p, r)
<1>1. /\ p \in Seq(Names) /\ q \in Seq(Names) /\ r \in Seq(Names)
      /\ Len(p) \in Nat /\ Len(q) \in Nat /\ Len(r) \in Nat
  BY PathFacts
<1>2. Len(p) <= Len(q) /\ \A k \in 1..Len(p) : p[k] = q[k] BY <1>1, Prefix
<1>3. CASE IsPrefix(q, r)
  <2>1. Len(q) <= Len(r) /\ \A k \in 1..Len(q) : q[k] = r[k] BY <1>1, <1>3, Prefix
  <2>2. Len(p) <= Len(r) /\ \A k \in 1..Len(p) : p[k] = r[k] BY <1>1, <1>2, <2>1
  <2> QED BY <1>1, <2>2, Prefix DEF Overlaps
<1>4. CASE IsPrefix(r, q)
  <2>1. Len(r) <= Len(q) /\ \A k \in 1..Len(r) : r[k] = q[k] BY <1>1, <1>4, Prefix
  <2>2. CASE Len(p) <= Len(r)
    <3>1. \A k \in 1..Len(p) : p[k] = r[k] BY <1>1, <1>2, <2>1, <2>2
    <3> QED BY <1>1, <2>2, <3>1, Prefix DEF Overlaps
  <2>3. CASE Len(r) <= Len(p)
    <3>1. \A k \in 1..Len(r) : r[k] = p[k] BY <1>1, <1>2, <2>1, <2>3
    <3> QED BY <1>1, <2>3, <3>1, Prefix DEF Overlaps
  <2> QED BY <1>1, <2>2, <2>3
<1> QED BY <1>3, <1>4 DEF Overlaps

(* One path leads to an object.  Both are followed upwards from it; the     *)
(* first step at which they differ would be one from the same object.       *)
LEMMA OnePath ==
  ASSUME NEW P \in Tree, NEW p \in Routes, NEW q \in Seq(Names), NEW o \in Objects,
         ResolvesIn(P, p, o), ResolvesIn(P, q, o)
  PROVE  p = q
<1> DEFINE L == Len(p)
           N == Len(q)
<1>0. /\ L \in Nat /\ L >= 1 /\ p # << >> /\ p \in Seq(Names) /\ Root \notin Objects
      /\ \A k \in 1..L : p[k] \in Names
  BY RouteFacts, ObjectsAssumption
<1>1. q # << >> BY <1>0 DEF ResolvesIn
<1>2. N \in Nat /\ N >= 1 /\ \A k \in 1..N : q[k] \in Names BY <1>1
<1>3. PICK c \in [1..L -> Objects] :
          /\ c[L] = o
          /\ \A k \in 1..L : P[c[k]] = Entry(IF k = 1 THEN Root ELSE c[k - 1], p[k])
  BY <1>0 DEF ResolvesIn
<1>4. PICK d \in [1..N -> Objects] :
          /\ d[N] = o
          /\ \A k \in 1..N : P[d[k]] = Entry(IF k = 1 THEN Root ELSE d[k - 1], q[k])
  BY <1>1 DEF ResolvesIn
<1> HIDE DEF L, N
<1> DEFINE Same(j) == /\ j < L /\ j < N /\ c[L - j] = d[N - j]
<1>5. ASSUME NEW j \in Nat, Same(j)
      PROVE  /\ p[L - j] = q[N - j]
             /\ L - j = 1 <=> N - j = 1
             /\ L - j # 1 => c[L - j - 1] = d[N - j - 1]
  <2>1. L - j \in 1..L /\ N - j \in 1..N BY <1>0, <1>2, <1>5
  <2> DEFINE x == IF L - j = 1 THEN Root ELSE c[L - j - 1]
             y == IF N - j = 1 THEN Root ELSE d[N - j - 1]
  <2>2. (L - j # 1 => c[L - j - 1] \in Objects) /\ (N - j # 1 => d[N - j - 1] \in Objects)
    <3>1. (L - j # 1 => L - j - 1 \in 1..L) /\ (N - j # 1 => N - j - 1 \in 1..N)
      BY <1>0, <1>2, <2>1
    <3> QED BY <1>3, <1>4, <3>1
  <2>3. Entry(x, p[L - j]) = Entry(y, q[N - j]) BY <1>3, <1>4, <1>5, <2>1
  <2>4. x \in Objects \cup {Root} /\ y \in Objects \cup {Root}
        /\ p[L - j] \in Names /\ q[N - j] \in Names
    BY <1>0, <1>2, <2>1, <2>2
  <2>5. x = y /\ p[L - j] = q[N - j]
    <3>1. /\ Entry(x, p[L - j]).dir = Entry(y, q[N - j]).dir
          /\ Entry(x, p[L - j]).name = Entry(y, q[N - j]).name
      BY <2>3
    <3> HIDE DEF x, y
    <3> QED BY <3>1 DEF Entry
  <2> QED BY <1>0, <2>2, <2>5
<1>6. \A j \in 0..(L - 1) : Same(j)
  <2> SUFFICES ASSUME \E j \in 0..(L - 1) : ~Same(j) PROVE FALSE OBVIOUS
  <2> DEFINE J == {j \in 0..(L - 1) : ~Same(j)}
  <2>1. PICK h \in J : \A j \in J : h <= j
    <3>1. J \in SUBSET Nat /\ J # {} BY <1>0
    <3> HIDE DEF J
    <3> QED BY <3>1, Least
  <2>2. Same(0)
    <3>1. L - 0 = L /\ N - 0 = N BY <1>0, <1>2
    <3> QED BY <1>0, <1>2, <1>3, <1>4, <3>1
  <2>3. h # 0 /\ h \in 1..(L - 1) /\ h - 1 \in 0..(L - 1) /\ ~(h <= h - 1) BY <1>0, <2>1, <2>2
  <2>4. Same(h - 1) /\ h - 1 \in Nat BY <2>1, <2>3
  <2>5. L - (h - 1) # 1 /\ L - (h - 1) - 1 = L - h /\ N - (h - 1) - 1 = N - h BY <1>0, <1>2, <2>3
  <2>6. N - (h - 1) # 1 /\ c[L - h] = d[N - h]
    <3> HIDE DEF Same
    <3> QED BY <1>5, <2>4, <2>5
  <2>7. Same(h) BY <1>0, <1>2, <2>3, <2>4, <2>5, <2>6
  <2> QED BY <2>1, <2>7
<1>7. L = N
  <2>1. Same(L - 1) /\ L - 1 \in Nat /\ L - (L - 1) = 1 BY <1>0, <1>6
  <2>2. N - (L - 1) = 1
    <3> HIDE DEF Same
    <3> QED BY <1>5, <2>1
  <2> QED BY <1>0, <1>2, <2>2
<1>8. ASSUME NEW k \in 1..L PROVE p[k] = q[k]
  <2>1. L - k \in 0..(L - 1) /\ L - k \in Nat /\ L - (L - k) = k BY <1>0
  <2>2. p[L - (L - k)] = q[N - (L - k)]
    <3> HIDE DEF Same
    <3> QED BY <1>5, <1>6, <2>1
  <2> QED BY <1>7, <2>1, <2>2
<1> QED BY <1>0, <1>7, <1>8 DEF L, N

LEMMA OneRoute ==
  ASSUME NEW P \in Tree, NEW p \in Seq(Names), NEW q \in Seq(Names),
         NEW o \in Objects \cup {Root}, ResolvesIn(P, p, o), ResolvesIn(P, q, o)
  PROVE  p = q
<1>1. ASSUME NEW r \in Seq(Names), r # << >>, ResolvesIn(P, r, o) PROVE o \in Objects
  <2>1. Len(r) \in Nat /\ Len(r) >= 1 /\ Len(r) \in 1..Len(r)
    <3>1. r \in Routes BY <1>1 DEF Routes
    <3> QED BY <3>1, RouteFacts
  <2>2. PICK c \in [1..Len(r) -> Objects] : c[Len(r)] = o BY <1>1 DEF ResolvesIn
  <2> QED BY <2>1, <2>2
<1>2. CASE o = Root BY <1>1, <1>2, ObjectsAssumption
<1>3. CASE o \in Objects
  <2>1. p # << >> BY <1>3, ObjectsAssumption DEF ResolvesIn
  <2> QED BY <1>3, <2>1, OnePath DEF Routes
<1> QED BY <1>2, <1>3

-----------------------------------------------------------------------------
USE DEF vars, files, run, others
USE DEF Working, Locked, Steps, Goto, Result, Stop
USE ObjectsAssumption, NamesAssumption, PathsAssumption, LayoutAssumption, EditsAssumption

(* No two objects are at one place.                                         *)
OnePerPlace == \A o, x \in Objects : Exists(o) /\ place[o] = place[x] => o = x

(* What the cleaner knows at each of its steps.                             *)
Knows ==
    /\ IF pc = "idle" THEN todo = {} ELSE who # None
    /\ \A p \in todo : Live(who, p)
    /\ pc \in Locked => /\ path # None /\ path \notin todo
                       /\ Live(who, path) /\ claim.proof # None
    /\ pc \in Locked \ {"commit"} => ~Preserved(who, path)
    /\ pc \in Working => dir # None
    /\ pc = "unlink" => \A o \in AtAside : Matches(o)

Inv == TypeOK /\ OnePerPlace /\ Knows

-----------------------------------------------------------------------------
LEMMA InitInv == Init => Inv
<1> SUFFICES ASSUME Init PROVE Inv OBVIOUS
<1>1. TypeOK
  <2>1. place \in [Objects -> Places \cup {None}] BY DEF Init
  <2>2. journal \in [Installations -> [Paths -> Claims \cup {None}]] BY DEF Init
  <2>3. /\ gone \subseteq Objects /\ moved \subseteq Objects /\ todo \subseteq Paths
        /\ pc \in Steps /\ edits \in 0..Edits
    BY DEF Init
  <2> QED BY <2>1, <2>2, <2>3 DEF Init, TypeOK
<1>2. OnePerPlace BY DEF Init, OnePerPlace, Exists
<1> QED BY <1>1, <1>2 DEF Init, Inv, Knows

(* What the claim of a step is.                                             *)
LEMMA ClaimType ==
  ASSUME TypeOK, Knows, pc \in Locked
  PROVE  /\ who \in Installations /\ path \in Paths
         /\ claim \in Claims /\ claim.proof \in Objects
         /\ Last(path) \in Names
<1>1. who \in Installations /\ path \in Paths BY DEF TypeOK, Knows
<1>2. claim \in Claims /\ claim.proof \in Objects BY <1>1 DEF TypeOK, Knows, Live, claim, Claims
<1>3. path \in Seq(Names) /\ path # << >> BY <1>1
<1>4. Last(path) \in Names BY <1>3 DEF Last
<1> QED BY <1>1, <1>2, <1>4

LEMMA EntryType ==
  ASSUME TypeOK, Knows, pc \in Working
  PROVE  /\ Target \in Places /\ Target.name \in Names /\ Target.dir = dir
         /\ Aside \in Places /\ Aside.name \in Inodes /\ Aside.dir = dir
         /\ Target # Aside /\ Target # None /\ Aside # None
<1>1. /\ Last(path) \in Names /\ claim.proof \in Objects BY ClaimType
<1>2. dir \in Objects \cup {Root} BY DEF TypeOK, Knows
<1>3. Inode[claim.proof] \in Inodes BY <1>1 DEF Inodes
<1> QED BY <1>1, <1>2, <1>3 DEF Target, Aside, Entry, Places, Hidden

(* Others, and recording installations, disturb no step of the cleaner.     *)
LEMMA PlaceChange ==
  ASSUME Inv, NEW o \in Objects, NEW e \in Places,
         e.name \in Names, At(e.dir, e.name) = {},
         place[o] # None => place[o].name \in Names,
         place' = [place EXCEPT ![o] = e]
  PROVE  /\ place' \in [Objects -> Places \cup {None}]
         /\ OnePerPlace'
<1>1. e = Entry(e.dir, e.name) BY DEF Places, Entry
<1>2. \A x \in Objects : place[x] # e BY <1>1 DEF At
<1> QED BY <1>2 DEF Inv, TypeOK, OnePerPlace, Exists

LEMMA AsideKept ==
  ASSUME Inv, UNCHANGED <<journal, pc, run>>,
         \A o \in Objects : place'[o] # place[o] =>
            \/ place'[o] = None \/ place'[o].name \in Names
  PROVE  Knows'
<1>1. UNCHANGED <<claim, Aside, Target>> BY DEF claim, Aside, Target
<1>2. ASSUME pc = "unlink", NEW o \in AtAside' PROVE Matches(o)'
  <2>1. Aside \in Places /\ Aside.name \in Inodes /\ Aside # None
    BY <1>2, EntryType DEF Inv
  <2>2. place'[o] = Entry(Aside.dir, Aside.name) /\ o \in Objects
    BY <1>1, <1>2 DEF AtAside, At
  <2>3. place'[o] = Aside BY <2>1, <2>2 DEF Entry, Places
  <2>4. place[o] = place'[o] BY <2>1, <2>2, <2>3
  <2>5. o \in AtAside BY <2>2, <2>4 DEF AtAside, At
  <2> QED BY <1>1, <1>2, <2>5 DEF Inv, Knows, Matches
<1> QED BY <1>1, <1>2 DEF Inv, Knows, Live, Preserved

LEMMA EditStep ==
  ASSUME Inv,
         \/ \E o \in Objects, e \in Places : Create(o, e) \/ Move(o, e)
         \/ \E o \in Objects : Delete(o)
  PROVE  Inv'
<1>0. edits' \in 0..Edits /\ disturbed' \in BOOLEAN /\ UNCHANGED <<journal, pc, run>>
  <2>1. Edit BY DEF Create, Delete, Move
  <2> QED BY <2>1 DEF Edit, Inv, TypeOK
<1>1. ASSUME NEW o \in Objects, NEW e \in Places, Create(o, e) \/ Move(o, e) PROVE Inv'
  <2>1. /\ place' = [place EXCEPT ![o] = e] /\ e.name \in Names /\ At(e.dir, e.name) = {}
        /\ place[o] # None => place[o].name \in Names
    BY <1>1 DEF Create, Move, Vacant, Visible, Exists
  <2>2. place' \in [Objects -> Places \cup {None}] /\ OnePerPlace' BY <2>1, PlaceChange
  <2>3. gone' \subseteq Objects /\ moved' \subseteq Objects
    BY <1>1 DEF Create, Move, Inv, TypeOK
  <2>4. Knows' BY <1>0, <2>1, AsideKept DEF Inv, TypeOK
  <2> QED BY <1>0, <2>2, <2>3, <2>4 DEF Inv, TypeOK
<1>2. ASSUME NEW o \in Objects, Delete(o) PROVE Inv'
  <2>1. place' = [place EXCEPT ![o] = None] BY <1>2 DEF Delete
  <2>2. place' \in [Objects -> Places \cup {None}] /\ OnePerPlace'
    BY <2>1 DEF Inv, TypeOK, OnePerPlace, Exists
  <2>3. gone' \subseteq Objects /\ moved' \subseteq Objects BY <1>2 DEF Delete, Inv, TypeOK
  <2>4. Knows' BY <1>0, <2>1, AsideKept DEF Inv, TypeOK
  <2> QED BY <1>0, <2>2, <2>3, <2>4 DEF Inv, TypeOK
<1> QED BY <1>1, <1>2

LEMMA Predecessor == \A n \in Nat : n >= 1 /\ n # 1 => n - 1 \in 1..n
OBVIOUS

LEMMA RecordStep ==
  ASSUME Inv, NEW i \in Installations, Record(i)
  PROVE  Inv'
<1>1. PICK P \in SUBSET Paths, X \in SUBSET Paths, born \in BOOLEAN :
          /\ P # {} /\ X \subseteq P /\ \A p \in P : \E o \in Objects : Resolves(p, o)
          /\ journal' = [journal EXCEPT ![i] =
                [p \in Paths |-> IF p \in P THEN Claim(p, born, p \in X) ELSE None]]
          /\ disturbed' = (disturbed \/ pc # "idle" \/ ~Tidy(P, born))
  BY Zenon DEF Record
<1>2. ASSUME NEW p \in P PROVE Claim(p, born, p \in X) \in Claims
  <2>1. p \in Seq(Names) /\ p # << >> /\ Len(p) \in Nat /\ Len(p) >= 1 OBVIOUS
  <2>2. Object(p) \in Objects /\ Resolves(p, Object(p)) BY <1>1 DEF Object
  <2>3. PICK chain \in [1..Len(p) -> Objects] :
          /\ chain[Len(p)] = Object(p)
          /\ \A k \in 1..Len(p) :
                place[chain[k]] = Entry(IF k = 1 THEN Root ELSE chain[k - 1], p[k])
    BY <2>1, <2>2 DEF Resolves
  <2>4. place[Object(p)] \in Places
    <3>1. (IF Len(p) = 1 THEN Root ELSE chain[Len(p) - 1]) \in Objects \cup {Root}
      <4>1. CASE Len(p) = 1 BY <4>1
      <4>2. CASE Len(p) # 1
        <5>1. Len(p) - 1 \in 1..Len(p) BY <2>1, <4>2, Predecessor
        <5>2. chain[Len(p) - 1] \in Objects BY <2>3, <5>1
        <5> QED BY <4>2, <5>2
      <4> QED BY <4>1, <4>2
    <3>2. p[Len(p)] \in Names BY <2>1
    <3>3. Len(p) \in 1..Len(p) BY <2>1
    <3>4. place[Object(p)] = Entry(IF Len(p) = 1 THEN Root ELSE chain[Len(p) - 1], p[Len(p)])
      BY <2>3, <3>3
    <3> QED BY <3>1, <3>2, <3>4 DEF Entry, Places
  <2>5. Inode[place[Object(p)].dir] \in Inodes BY <2>4 DEF Places, Inodes
  <2> QED BY <2>2, <2>5 DEF Claim, Claims, States
<1>3. journal' \in [Installations -> [Paths -> Claims \cup {None}]]
  BY <1>1, <1>2 DEF Inv, TypeOK
<1>4. TypeOK' BY <1>1, <1>3 DEF Inv, TypeOK, Record
<1>5. OnePerPlace' BY DEF Record, Inv, OnePerPlace, Exists
<1>6. Knows'
  <2>1. \A p \in todo : journal'[who][p] = journal[who][p]
    BY <1>1 DEF Record, Inv, TypeOK, Knows
  <2>2. pc \notin Locked /\ UNCHANGED <<pc, run>> BY DEF Record
  <2> QED BY <2>1, <2>2 DEF Inv, Knows, Live
<1> QED BY <1>4, <1>5, <1>6 DEF Inv

(* The steps of the cleaner that leave the files alone.                     *)
LEMMA QuietStep ==
  ASSUME Inv,
         \/ \E i \in Installations : Begin(i)
         \/ \E p \in Paths : Take(p)
         \/ Open \/ Look \/ Verify \/ Fail \/ Abort \/ Finish \/ Crash
  PROVE  Inv'
<1>0. OnePerPlace' /\ UNCHANGED <<files, journal, edits, moved>>
  BY DEF Begin, Take, Open, Look, Verify, Fail, Abort, Finish, Crash, Inv, OnePerPlace, Exists
<1>1. ASSUME NEW i \in Installations, Begin(i) PROVE Inv'
  <2>1. TypeOK' BY <1>0, <1>1 DEF Begin, Inv, TypeOK, Deletable
  <2>2. pc' = "next" /\ who' = i /\ todo' = Deletable(i) BY <1>1 DEF Begin
  <2>3. \A p \in todo' : Live(i, p)' BY <1>0, <2>2 DEF Deletable, Live
  <2>4. Knows' BY <2>2, <2>3 DEF Knows, Inv, TypeOK
  <2> QED BY <1>0, <2>1, <2>4 DEF Inv
<1>2. ASSUME NEW p \in Paths, Take(p) PROVE Inv'
  <2>1. TypeOK' BY <1>0, <1>2 DEF Take, Inv, TypeOK
  <2>2. Live(who, p) BY <1>2 DEF Take, First, Inv, Knows
  <2>3. pc' = "open" => /\ path' = p /\ ~Preserved(who, p) /\ journal[who][p].proof # None
                        /\ p \notin todo'
    BY <1>2 DEF Take, Preserved
  <2>4. pc' = "next" \/ pc' = "open" BY <1>2 DEF Take
  <2>5. \A q \in todo' : Live(who, q) BY <1>2 DEF Take, Inv, Knows
  <2>6. UNCHANGED <<who, journal>> /\ who # None BY <1>2 DEF Take, Inv, Knows
  <2>7. Knows' BY <2>2, <2>3, <2>4, <2>5, <2>6 DEF Knows, Live, Preserved, claim
  <2> QED BY <1>0, <2>1, <2>7 DEF Inv
<1>3. ASSUME Open PROVE Inv'
  <2>1. UNCHANGED claim BY <1>3 DEF Open, claim
  <2>2. TypeOK' BY <1>0, <1>3 DEF Open, Inv, TypeOK
  <2>3. Knows' BY <1>0, <1>3, <2>1 DEF Open, Inv, Knows, Live, Preserved, TypeOK
  <2> QED BY <1>0, <2>2, <2>3 DEF Inv
<1>4. ASSUME Look PROVE Inv'
  <2>0. UNCHANGED <<who, path, dir, journal, place>> BY <1>4 DEF Look
  <2>1. UNCHANGED <<claim, AtAside>> BY <2>0 DEF claim, AtAside, Aside, At
  <2>2. TypeOK' BY <1>0, <1>4 DEF Look, Inv, TypeOK
  <2>3. \A o, x \in AtAside : o = x 
    <3>1. pc \in Working BY <1>4 DEF Look
    <3>2. Aside # None /\ Aside = Entry(Aside.dir, Aside.name)
      BY <3>1, EntryType DEF Inv, Aside, Entry
    <3> QED BY <3>2 DEF Inv, OnePerPlace, AtAside, At, Exists
  <2>4. Knows' BY <1>0, <1>4, <2>1, <2>3 DEF Look, Inv, Knows, Live, Preserved, Matches
  <2> QED BY <1>0, <2>2, <2>4 DEF Inv
<1>5. ASSUME Verify PROVE Inv'
  <2>0. UNCHANGED <<who, path, dir, journal, place>> BY <1>5 DEF Verify
  <2>1. UNCHANGED <<claim, AtAside>> BY <2>0 DEF claim, AtAside, Aside, At
  <2>2. TypeOK' BY <1>0, <1>5 DEF Verify, Inv, TypeOK
  <2>3. \A o, x \in AtAside : o = x 
    <3>1. pc \in Working BY <1>5 DEF Verify
    <3>2. Aside # None /\ Aside = Entry(Aside.dir, Aside.name)
      BY <3>1, EntryType DEF Inv, Aside, Entry
    <3> QED BY <3>2 DEF Inv, OnePerPlace, AtAside, At, Exists
  <2>4. Knows' BY <1>0, <1>5, <2>1, <2>3 DEF Verify, Inv, Knows, Live, Preserved, Matches
  <2> QED BY <1>0, <2>2, <2>4 DEF Inv
<1>6. ASSUME Fail PROVE Inv'
  BY <1>0, <1>6 DEF Fail, Inv, TypeOK, Knows, Live, claim
<1>7. ASSUME Abort \/ Finish \/ Crash PROVE Inv'
  BY <1>0, <1>7 DEF Abort, Finish, Crash, Inv, TypeOK, Knows
<1> QED BY <1>1, <1>2, <1>3, <1>4, <1>5, <1>6, <1>7

LEMMA RenameStep ==
  ASSUME Inv, Rename \/ Restore \/ Unlink
  PROVE  Inv'
<1>0. /\ UNCHANGED <<journal, who, path, dir, todo, claim, Aside>>
      /\ pc \in Working
  BY DEF Rename, Restore, Unlink, claim, Aside
<1>1. /\ Target \in Places /\ Target = Entry(Target.dir, Target.name)
      /\ Aside \in Places /\ Aside = Entry(Aside.dir, Aside.name)
  BY <1>0, EntryType DEF Inv, Target, Aside, Entry
<1>2. CASE UNCHANGED place
  <2>1. gone' \subseteq Objects /\ pc' \in Steps /\ fine' \in BOOLEAN
        /\ UNCHANGED <<place, journal, who, todo, path, dir, ok, others, disturbed>>
    <3>1. CASE Rename BY <1>2, <3>1 DEF Rename, Inv, TypeOK
    <3>2. CASE Restore BY <1>2, <3>2 DEF Restore, Inv, TypeOK
    <3>3. CASE Unlink BY <1>2, <3>3 DEF Unlink, Inv, TypeOK, AtAside, At
    <3> QED BY <3>1, <3>2, <3>3
  <2>4. TypeOK' BY <2>1 DEF Inv, TypeOK
  <2>2. Knows' BY <1>0, <1>2 DEF Rename, Restore, Unlink, Inv, Knows, Live, Preserved
  <2> QED BY <1>2, <2>2, <2>4 DEF Inv, OnePerPlace, Exists
<1>3. ASSUME Rename, ~UNCHANGED place PROVE Inv'
  <2>1. PICK o \in AtTarget : place' = [place EXCEPT ![o] = Aside] BY <1>3 DEF Rename
  <2>2. o \in Objects /\ \A x \in Objects : place[x] # Aside
    BY <1>1, <1>3, <2>1 DEF Rename, AtTarget, AtAside, At
  <2>3. TypeOK' BY <1>1, <1>3, <2>1, <2>2 DEF Rename, Inv, TypeOK
  <2>4. OnePerPlace' BY <2>1, <2>2 DEF Inv, TypeOK, OnePerPlace, Exists
  <2>5. Knows' BY <1>0, <1>3 DEF Rename, Inv, Knows, Live, Preserved
  <2> QED BY <2>3, <2>4, <2>5 DEF Inv
<1>4. ASSUME Restore, ~UNCHANGED place PROVE Inv'
  <2>1. PICK o \in AtAside : AtTarget = {} /\ place' = [place EXCEPT ![o] = Target]
    BY <1>4 DEF Restore
  <2>2. o \in Objects /\ \A x \in Objects : place[x] # Target
    BY <1>1, <2>1 DEF AtTarget, AtAside, At
  <2>3. TypeOK' BY <1>1, <1>4, <2>1, <2>2 DEF Restore, Inv, TypeOK
  <2>4. OnePerPlace' BY <2>1, <2>2 DEF Inv, TypeOK, OnePerPlace, Exists
  <2>5. Knows' BY <1>0, <1>4 DEF Restore, Inv, Knows, Live
  <2> QED BY <2>3, <2>4, <2>5 DEF Inv
<1>5. ASSUME Unlink, ~UNCHANGED place PROVE Inv'
  <2>1. PICK o \in AtAside : /\ place' = [place EXCEPT ![o] = None] /\ gone' = gone \cup {o}
                             /\ Result(TRUE)
    BY <1>5 DEF Unlink
  <2>2. o \in Objects BY <2>1 DEF AtAside, At
  <2>3. TypeOK' BY <1>5, <2>1, <2>2 DEF Unlink, Inv, TypeOK
  <2>4. OnePerPlace' BY <2>1, <2>2 DEF Inv, TypeOK, OnePerPlace, Exists
  <2>5. Knows' BY <1>0, <1>5, <2>1 DEF Unlink, Inv, Knows, Live
  <2> QED BY <2>3, <2>4, <2>5 DEF Inv
<1> QED BY <1>2, <1>3, <1>4, <1>5

LEMMA CommitStep == ASSUME Inv, Commit PROVE Inv'
<1>1. /\ who \in Installations /\ path \in Paths /\ claim \in Claims
  BY ClaimType DEF Inv, Commit
<1>2. [claim EXCEPT !.cleanup = IF fine THEN "removed" ELSE "retry_required"] \in Claims
  BY <1>1 DEF Claims, States
<1>3. journal' \in [Installations -> [Paths -> Claims \cup {None}]]
  BY <1>1, <1>2 DEF Commit, Inv, TypeOK, claim
<1>4. \A p \in todo : journal'[who][p] = journal[who][p]
  BY <1>1 DEF Commit, Inv, TypeOK, Knows
<1>5. UNCHANGED <<who, todo, place>> /\ pc' = "next" /\ who # None
  BY DEF Commit, Inv, Knows
<1>6. Knows' BY <1>4, <1>5 DEF Inv, Knows, Live
<1>7. TypeOK' BY <1>3 DEF Commit, Inv, TypeOK
<1>8. OnePerPlace' BY <1>5 DEF Inv, OnePerPlace, Exists
<1> QED BY <1>6, <1>7, <1>8 DEF Inv

LEMMA NextInv == Inv /\ [Next]_vars => Inv'
<1> SUFFICES ASSUME Inv, [Next]_vars PROVE Inv' OBVIOUS
<1>1. CASE UNCHANGED vars
  BY <1>1 DEF Inv, TypeOK, OnePerPlace, Exists, Knows, Live, Preserved, claim, AtAside, Aside,
              At, Matches
<1>2. CASE Next
  BY <1>2, EditStep, RecordStep, QuietStep, RenameStep, CommitStep DEF Next, Removal
<1> QED BY <1>1, <1>2

(* The invariant, with it the type invariant.                               *)
THEOREM InvCorrect == Spec => []Inv
BY InitInv, NextInv, PTL DEF Spec

(* Every state that the cleaner, others and crashes can reach is well-typed.*)
THEOREM TypeCorrect == Spec => []TypeOK
<1>1. Inv => TypeOK BY DEF Inv
<1> QED BY <1>1, InvCorrect, PTL

-----------------------------------------------------------------------------
(* A step of the model that unlinks an object without being an edit is      *)
(* Unlink.                                                                  *)
LEMMA UnlinkOnly ==
  ASSUME Inv, [Next]_vars, edits' = edits, gone' # gone
  PROVE  Unlink
<1>1. ~ \E o \in Objects : Delete(o) BY DEF Delete, Edit, Inv, TypeOK
<1> QED
  BY <1>1 DEF Next, Removal, Create, Move, Record, Begin, Take, Open, Look, Rename, Verify,
              Restore, Fail, Commit, Abort, Finish, Crash

(* DeletesRecorded: only the very object that was recorded is unlinked.     *)
THEOREM DeletesOwn == Spec => DeletesRecorded
<1>1. Inv /\ [Next]_vars =>
        [edits' = edits /\ gone' # gone => gone' \ gone = {claim.proof}]_vars
  <2> SUFFICES ASSUME Inv, [Next]_vars, edits' = edits, gone' # gone
               PROVE  gone' \ gone = {claim.proof}
    OBVIOUS
  <2>1. Unlink BY UnlinkOnly
  <2>2. PICK o \in AtAside : gone' = gone \cup {o} BY <2>1 DEF Unlink
  <2>3. o = claim.proof BY <2>1, <2>2 DEF Unlink, Inv, Knows, Matches
  <2> QED BY <2>2, <2>3
<1> QED BY <1>1, InvCorrect, PTL DEF Spec, DeletesRecorded

(* SharedKept: nothing is unlinked on which the journal has another claim.  *)
THEOREM SharedStays == Spec => SharedKept
<1>1. Inv /\ [Next]_vars =>
        [edits' = edits /\ gone' # gone =>
           \A j \in Installations, q \in Paths :
             Live(j, q) /\ Overlaps(path, q) => j = who /\ journal[j][q].exclusive]_vars
  <2> SUFFICES ASSUME Inv, [Next]_vars, edits' = edits, gone' # gone,
                      NEW j \in Installations, NEW q \in Paths, Live(j, q), Overlaps(path, q)
               PROVE  j = who /\ journal[j][q].exclusive
    OBVIOUS
  <2>1. Unlink BY UnlinkOnly
  <2>2. ~Preserved(who, path) BY <2>1 DEF Unlink, Inv, Knows
  <2> QED BY <2>2 DEF Preserved
<1> QED BY <1>1, InvCorrect, PTL DEF Spec, SharedKept

-----------------------------------------------------------------------------
(* The tree as it is seen: what the cleaner has put aside, and not yet      *)
(* looked at again, counts as where it was.  Rename and Restore do not      *)
(* change it, even when what they move was put there by others.             *)
Staging == pc \in {"verify", "restore"}

Seen == [o \in Objects |-> IF Staging /\ place[o] = Aside THEN Target ELSE place[o]]

Claimed(i, p) == journal[i][p] # None /\ journal[i][p].proof # None

(* An object that was moved, or with an object above it that was or is      *)
(* under a hidden name: its own hidden name does not make it astray.        *)
Astray(P, M, o, p) ==
    \/ o \in M
    \/ P[o].dir \in Objects /\ Front(p) # << >> /\ Lost(P, M, P[o].dir, Front(p))

(* One that is where its path leads, in sight or under its hidden name.     *)
Nested(P, o, p) == ResolvesIn(P, Front(p), P[o].dir) /\ P[o].name \in {Last(p), Hidden(o)}

Kept(P, M, o, p) == Nested(P, o, p) \/ Astray(P, M, o, p)

(* Of a claim that names an object: it is there or was deleted, if it is    *)
(* there it is kept or astray, and astray if it is recorded as removed.     *)
Known ==
    \A i \in Installations, p \in Paths : Claimed(i, p) =>
        LET o == journal[i][p].proof IN
        /\ Seen[o] # None \/ o \in gone
        /\ Seen[o] # None => Kept(Seen, moved, o, p)
        /\ journal[i][p].cleanup = "removed" /\ Seen[o] # None => Astray(Seen, moved, o, p)

(* The object the cleaner works on is gone, or astray.                      *)
Absent == Seen[claim.proof] # None => Astray(Seen, moved, claim.proof, path)

(* The recorded objects in the directory the cleaner holds open are those   *)
(* with a path beside its own.                                              *)
Neighbours ==
    \A i \in Installations, p \in Paths : Claimed(i, p) =>
        LET o == journal[i][p].proof IN
        Seen[o] # None /\ Seen[o].dir = dir /\ ~Astray(Seen, moved, o, p)
            => Front(p) = Front(path)

(* RemovedGone is not inductive: that a removal finds nothing at a path     *)
(* means only that nothing is there, and for the object that was recorded   *)
(* it takes where that may be.  The parent the cleaner holds open is the    *)
(* one the object is in, nothing is put aside there under a name but its    *)
(* own that is still to be removed, and a commit that is fine has lost it.  *)
Traces ==
    /\ \A o \in Objects : place[o] # None => place[o].dir \in Dirs \cup {Root}
    /\ \A i \in Installations, p \in Paths :
          journal[i][p] # None /\ journal[i][p].cleanup = "removed" => journal[i][p].proof # None
    /\ Known
    /\ pc \in Working => Absent \/ Seen[claim.proof].dir = dir
    /\ pc \in Working => Neighbours
    /\ pc = "commit" /\ fine => Absent

LEMMA SeenFacts ==
  ASSUME Inv
  PROVE  /\ Seen \in Tree /\ place \in Tree
         /\ ~Staging => Seen = place
         /\ \A o \in Objects : Seen[o] # None <=> place[o] # None
         /\ \A o \in Objects : Seen[o] # None => Seen[o].dir = place[o].dir
<1>1. place \in Tree BY DEF Inv, TypeOK, Tree
<1>2. CASE Staging
  <2>1. Target \in Places /\ Target # None /\ Aside # None /\ Target.dir = Aside.dir
    BY <1>2, EntryType DEF Inv, Staging
  <2> QED BY <1>1, <1>2, <2>1 DEF Seen, Tree
<1>3. CASE ~Staging
  <2>1. Seen = place BY <1>1, <1>3 DEF Seen, Tree
  <2> QED BY <1>1, <1>3, <2>1
<1> QED BY <1>2, <1>3

LEMMA SeenTree == Inv => Seen \in Tree
BY SeenFacts

LEMMA SeenPlaces ==
  Inv => /\ \A o \in Objects : Seen[o] # None <=> place[o] # None
         /\ \A o \in Objects : Seen[o] # None => Seen[o].dir = place[o].dir
BY SeenFacts

(* A directory that is followed in both of two trees takes with it what is  *)
(* in it.                                                                   *)
LEMMA Follow ==
  ASSUME NEW P \in Tree, NEW M, NEW Q \in Tree, NEW N, M \subseteq N,
         NEW o \in Objects, NEW p \in Paths, P[o] # None, Q[o] # None,
         Q[o].dir = P[o].dir \/ o \in N,
         \A d \in Objects, q \in Routes : d = P[o].dir =>
            /\ Lost(P, M, d, q) => Lost(Q, N, d, q)
            /\ Found(P, M, d, q) => Found(Q, N, d, q)
  PROVE  /\ Astray(P, M, o, p) => Astray(Q, N, o, p)
         /\ Kept(P, M, o, p)
              /\ (o \in N \/ Q[o].name = P[o].name \/ Q[o].name \in {Last(p), Hidden(o)})
              => Kept(Q, N, o, p)
<1>1. CASE o \in N BY <1>1 DEF Astray, Kept
<1>2. CASE o \notin N
  <2> DEFINE d == P[o].dir
  <2>1. Q[o].dir = d /\ o \notin M BY <1>2
  <2>2. d \in Objects \cup {Root} BY DEF Tree, Places
  <2>3. Front(p) # << >> => Front(p) \in Routes BY FrontFacts DEF Routes
  <2>4. ASSUME Astray(P, M, o, p) PROVE Astray(Q, N, o, p)
    <3>1. d \in Objects /\ Front(p) # << >> /\ Lost(P, M, d, Front(p))
      BY <2>1, <2>4 DEF Astray
    <3>2. Lost(Q, N, d, Front(p)) BY <2>3, <3>1
    <3> QED BY <2>1, <3>1, <3>2 DEF Astray
  <2>5. ASSUME Nested(P, o, p), Q[o].name = P[o].name \/ Q[o].name \in {Last(p), Hidden(o)}
        PROVE  Kept(Q, N, o, p)
    <3>1. ResolvesIn(P, Front(p), d) /\ Q[o].name \in {Last(p), Hidden(o)}
      BY <2>5 DEF Nested
    <3>2. CASE Front(p) = << >>
      <4>1. d = Root BY <3>1, <3>2 DEF ResolvesIn
      <4>2. ResolvesIn(Q, Front(p), Root) BY <3>2 DEF ResolvesIn
      <4>3. ResolvesIn(Q, Front(p), Q[o].dir) BY <2>1, <4>1, <4>2
      <4> QED BY <3>1, <4>3 DEF Kept, Nested
    <3>3. CASE Front(p) # << >>
      <4>1. Front(p) \in Routes BY <2>3, <3>3
      <4>2. d \in Objects
        <5> HIDE DEF d
        <5>1. Len(Front(p)) \in Nat /\ Len(Front(p)) >= 1 BY <4>1, RouteFacts
        <5>2. Len(Front(p)) \in 1..Len(Front(p)) BY <5>1
        <5>3. PICK c \in [1..Len(Front(p)) -> Objects] : c[Len(Front(p))] = d
          BY <3>1, <3>3 DEF ResolvesIn
        <5> QED BY <5>2, <5>3
      <4>3. Found(Q, N, d, Front(p)) BY <3>1, <4>1, <4>2 DEF Found
      <4>4. CASE Lost(Q, N, d, Front(p)) BY <2>1, <3>3, <4>2, <4>4 DEF Kept, Astray
      <4>5. CASE ResolvesIn(Q, Front(p), d) BY <2>1, <3>1, <4>5 DEF Kept, Nested
      <4> QED BY <4>3, <4>4, <4>5 DEF Found
    <3> QED BY <3>2, <3>3
  <2> QED BY <1>2, <2>4, <2>5 DEF Kept
<1> QED BY <1>1, <1>2

(* What a step may do to the objects that are claimed.                      *)
Carries ==
    /\ moved \subseteq moved'
    /\ \A o \in Objects :
          /\ Seen[o] # None /\ Seen'[o] = None => o \in gone'
          /\ Seen[o] = None /\ Seen'[o] # None => o \notin gone
          /\ Seen[o] # None /\ Seen'[o] # None => Seen'[o].dir = Seen[o].dir \/ o \in moved'
    /\ \A i \in Installations, p \in Paths, o \in Objects :
          Claimed(i, p) /\ o = journal[i][p].proof /\ Seen[o] # None /\ Seen'[o] # None =>
            /\ Astray(Seen, moved, o, p) => Astray(Seen', moved', o, p)
            /\ Kept(Seen, moved, o, p) => Kept(Seen', moved', o, p)

LEMMA ClaimedObject ==
  ASSUME TypeOK, NEW i \in Installations, NEW p \in Paths, Claimed(i, p)
  PROVE  journal[i][p] \in Claims /\ journal[i][p].proof \in Objects
BY DEF TypeOK, Claims, Claimed

(* Such a step keeps what is known.                                         *)
LEMMA KnownKept ==
  ASSUME Inv, Known, Carries, gone \subseteq gone', UNCHANGED journal
  PROVE  Known'
<1> SUFFICES ASSUME NEW i \in Installations, NEW p \in Paths, Claimed(i, p)
             PROVE
        /\ Seen'[journal[i][p].proof] # None \/ journal[i][p].proof \in gone'
        /\ Seen'[journal[i][p].proof] # None =>
              Kept(Seen', moved', journal[i][p].proof, p)
        /\ journal[i][p].cleanup = "removed" /\ Seen'[journal[i][p].proof] # None =>
              Astray(Seen', moved', journal[i][p].proof, p)
  BY DEF Known, Claimed
<1>1. PICK o \in Objects : o = journal[i][p].proof BY ClaimedObject DEF Inv
<1>2. /\ Seen[o] # None \/ o \in gone
      /\ Seen[o] # None => Kept(Seen, moved, o, p)
      /\ journal[i][p].cleanup = "removed" /\ Seen[o] # None => Astray(Seen, moved, o, p)
  BY <1>1 DEF Known
<1>3. Seen'[o] # None => Seen[o] # None BY <1>2 DEF Carries
<1>4. Seen'[o] # None \/ o \in gone' BY <1>2 DEF Carries
<1>5. Seen'[o] # None => Kept(Seen', moved', o, p) BY <1>1, <1>2, <1>3 DEF Carries
<1>6. journal[i][p].cleanup = "removed" /\ Seen'[o] # None => Astray(Seen', moved', o, p)
  BY <1>1, <1>2, <1>3 DEF Carries
<1> QED BY <1>1, <1>4, <1>5, <1>6

LEMMA NeighboursKept ==
  ASSUME Inv, Known, Carries, UNCHANGED <<journal, dir, path>>, Neighbours
  PROVE  Neighbours'
<1> SUFFICES ASSUME NEW i \in Installations, NEW p \in Paths, Claimed(i, p),
                    Seen'[journal[i][p].proof] # None, Seen'[journal[i][p].proof].dir = dir,
                    ~Astray(Seen', moved', journal[i][p].proof, p)
             PROVE  Front(p) = Front(path)
  BY DEF Neighbours, Claimed
<1>1. PICK o \in Objects : o = journal[i][p].proof BY ClaimedObject DEF Inv
<1>2. Seen[o] # None \/ o \in gone BY <1>1 DEF Known
<1>3. Seen[o] # None BY <1>1, <1>2 DEF Carries
<1>4. ~Astray(Seen, moved, o, p) BY <1>1, <1>3 DEF Carries
<1>5. o \notin moved' BY <1>1 DEF Astray
<1>6. Seen[o].dir = dir BY <1>1, <1>3, <1>5 DEF Carries
<1> QED BY <1>1, <1>3, <1>4, <1>6 DEF Neighbours

(* Nothing is changed in the tree that is seen.                             *)
LEMMA SameTree ==
  ASSUME UNCHANGED <<Seen, moved, gone>>
  PROVE  Carries
BY DEF Carries

LEMMA TwoTrees == ASSUME Inv, Inv' PROVE Seen \in Tree /\ Seen' \in Tree
<1>1. Seen \in Tree BY SeenTree
<1>2. Inv' => (Seen \in Tree)' BY SeenTree, PTL
<1> QED BY <1>1, <1>2 DEF Tree

(* An object is put elsewhere.                                              *)
LEMMA CarriesDisplaced ==
  ASSUME Inv, Inv', NEW m \in Objects, moved \subseteq moved',
         \A x \in Objects : x # m => Seen'[x] = Seen[x],
         Seen[m] # None, Seen'[m] # None, m \in moved'
  PROVE  Carries
<1>1. Seen \in Tree /\ Seen' \in Tree BY TwoTrees
<1>2. Displaced(Seen', moved', m) BY DEF Displaced
<1>3. ASSUME NEW d \in Objects, NEW q \in Routes
      PROVE  /\ Lost(Seen, moved, d, q) => Lost(Seen', moved', d, q)
             /\ Found(Seen, moved, d, q) => Found(Seen', moved', d, q)
  BY <1>1, <1>2, LostKept, FoundKept
<1>4. ASSUME NEW o \in Objects, Seen[o] # None, Seen'[o] # None
      PROVE  o \in moved' \/ Seen'[o] = Seen[o]
  OBVIOUS
<1>5. ASSUME NEW o \in Objects, NEW p \in Paths, Seen[o] # None, Seen'[o] # None
      PROVE  /\ Astray(Seen, moved, o, p) => Astray(Seen', moved', o, p)
             /\ Kept(Seen, moved, o, p) => Kept(Seen', moved', o, p)
  BY <1>1, <1>3, <1>4, <1>5, Follow
<1>6. \A o \in Objects : Seen[o] # None <=> Seen'[o] # None OBVIOUS
<1> QED BY <1>4, <1>5, <1>6 DEF Carries

(* An object that nothing is in is deleted.                                 *)
LEMMA CarriesRemoved ==
  ASSUME Inv, Inv', NEW m \in Objects, UNCHANGED moved,
         \A x \in Objects : x # m => Seen'[x] = Seen[x],
         \A x \in Objects : place[x] # None => place[x].dir # m,
         Seen'[m] = None, m \in gone'
  PROVE  Carries
<1>1. Seen \in Tree /\ Seen' \in Tree BY TwoTrees
<1>2. \A x \in Objects : Seen[x] # None => Seen[x].dir # m BY SeenFacts
<1>3. ASSUME NEW d \in Objects, NEW q \in Routes, d # m
      PROVE  /\ Lost(Seen, moved, d, q) => Lost(Seen', moved, d, q)
             /\ Found(Seen, moved, d, q) => Found(Seen', moved, d, q)
  BY <1>1, <1>2, <1>3, Remains
<1>4. ASSUME NEW o \in Objects, Seen[o] # None, Seen'[o] # None
      PROVE  o # m /\ Seen'[o] = Seen[o] /\ Seen[o].dir # m
  BY <1>2, <1>4
<1>5. ASSUME NEW o \in Objects, NEW p \in Paths, Seen[o] # None, Seen'[o] # None
      PROVE  /\ Astray(Seen, moved, o, p) => Astray(Seen', moved, o, p)
             /\ Kept(Seen, moved, o, p) => Kept(Seen', moved, o, p)
  BY <1>1, <1>3, <1>4, <1>5, Follow
<1> QED BY <1>4, <1>5 DEF Carries

LEMMA CarriesNew ==
  ASSUME Inv, Inv', NEW m \in Objects, UNCHANGED moved,
         \A x \in Objects : x # m => Seen'[x] = Seen[x],
         Seen[m] = None, m \notin gone
  PROVE  Carries
<1>1. Seen \in Tree /\ Seen' \in Tree BY TwoTrees
<1>3. ASSUME NEW d \in Objects, NEW q \in Routes
      PROVE  /\ Lost(Seen, moved, d, q) => Lost(Seen', moved, d, q)
             /\ Found(Seen, moved, d, q) => Found(Seen', moved, d, q)
  BY <1>1, Appears
<1>4. ASSUME NEW o \in Objects, Seen[o] # None, Seen'[o] # None
      PROVE  Seen'[o] = Seen[o]
  BY <1>4
<1>5. ASSUME NEW o \in Objects, NEW p \in Paths, Seen[o] # None, Seen'[o] # None
      PROVE  /\ Astray(Seen, moved, o, p) => Astray(Seen', moved, o, p)
             /\ Kept(Seen, moved, o, p) => Kept(Seen', moved, o, p)
  BY <1>1, <1>3, <1>4, <1>5, Follow
<1> QED BY <1>4, <1>5 DEF Carries

LEMMA TracesInit == Init => Traces
<1> SUFFICES ASSUME Init PROVE Traces OBVIOUS
<1>1. \A o \in Objects : place[o] # None => place[o].dir \in Dirs \cup {Root} BY DEF Init
<1>2. \A i \in Installations, p \in Paths : journal[i][p] = None BY DEF Init
<1> QED BY <1>1, <1>2 DEF Init, Traces, Known, Claimed

(* What is known of the claim the cleaner works on stays true.              *)
LEMMA AbsentKept ==
  ASSUME Inv, Known, Carries, UNCHANGED <<claim, path>>, pc \in Locked, Absent
  PROVE  Absent'
<1>1. /\ who \in Installations /\ path \in Paths /\ claim.proof \in Objects
      /\ Claimed(who, path) /\ claim = journal[who][path]
  BY ClaimType DEF Inv, Knows, Claimed, claim, Live
<1>2. Seen[claim.proof] # None \/ claim.proof \in gone BY <1>1 DEF Known
<1>3. Seen'[claim.proof] # None => Seen[claim.proof] # None BY <1>1, <1>2 DEF Carries
<1>4. Seen'[claim.proof] # None => Astray(Seen', moved', claim.proof, path)
  BY <1>1, <1>3 DEF Absent, Carries
<1> QED BY <1>4 DEF Absent

(* A change others make to the files is the same change to what is seen.    *)
LEMMA EditSeen ==
  ASSUME Inv, UNCHANGED <<journal, pc, run>>,
         NEW o \in Objects, NEW e \in Places \cup {None}, e = None \/ e.name \in Names,
         place[o] = None \/ place[o].name \in Names,
         place' = [place EXCEPT ![o] = e]
  PROVE  Seen' = [Seen EXCEPT ![o] = e] /\ Seen[o] = place[o]
<1>1. UNCHANGED <<Staging, Aside, Target>> BY DEF Staging, Aside, Target, claim
<1>2. place \in Tree BY SeenFacts
<1>3. CASE Staging
  <2>1. Aside \in Places /\ Aside.name \notin Names /\ Aside # None
    BY <1>3, EntryType DEF Inv, Staging
  <2>2. place[o] # Aside /\ e # Aside BY <2>1
  <2> QED BY <1>1, <1>2, <2>2 DEF Seen, Tree
<1>4. CASE ~Staging
  <2>1. Seen = place BY <1>2, <1>4 DEF Seen, Tree
  <2>2. place' \in [Objects -> Places \cup {None}] BY <1>2 DEF Tree
  <2>3. Seen' = place' BY <1>1, <1>4, <2>2 DEF Seen
  <2> QED BY <2>1, <2>3
<1> QED BY <1>3, <1>4

(* A change others have made.                                               *)
LEMMA TracesEdit ==
  ASSUME Inv, Inv', Traces, Carries, gone \subseteq gone', UNCHANGED <<journal, pc, run>>,
         \A o \in Objects : place'[o] # None => place'[o].dir \in Dirs \cup {Root}
  PROVE  Traces'
<1>1. Known' BY KnownKept DEF Traces
<1>2. UNCHANGED claim BY DEF claim
<1>3. ASSUME pc \in Locked, Absent PROVE Absent' BY <1>2, <1>3, AbsentKept DEF Traces
<1>4. ASSUME pc \in Working, Seen[claim.proof].dir = dir, ~Absent
      PROVE  Absent' \/ Seen'[claim.proof].dir = dir
  <2>1. claim.proof \in Objects BY <1>4, ClaimType DEF Inv
  <2>2. Seen[claim.proof] # None BY <1>4 DEF Absent
  <2>3. CASE Seen'[claim.proof] = None BY <1>2, <2>3 DEF Absent
  <2>4. CASE claim.proof \in moved' BY <1>2, <2>4 DEF Absent, Astray
  <2> QED BY <1>4, <2>1, <2>2, <2>3, <2>4 DEF Carries
<1>5. pc' = pc /\ fine' = fine /\ dir' = dir OBVIOUS
<1>6. pc' \in Working => Absent' \/ Seen'[claim.proof].dir = dir' BY <1>3, <1>4, <1>5 DEF Traces
<1>7. pc' = "commit" /\ fine' => Absent' BY <1>3, <1>5 DEF Traces
<1>8. pc' \in Working => Neighbours' BY <1>5, NeighboursKept DEF Traces
<1> QED BY <1>1, <1>2, <1>5, <1>6, <1>7, <1>8 DEF Traces

LEMMA TracesCreate ==
  ASSUME Inv, Inv', Traces, NEW o \in Objects, NEW e \in Places, Create(o, e)
  PROVE  Traces'
<1>1. /\ UNCHANGED <<journal, pc, run, gone, moved>> /\ place[o] = None /\ o \notin gone
      /\ e.name \in Names /\ e.dir \in Dirs \cup {Root} /\ e # None
      /\ place' = [place EXCEPT ![o] = e]
  BY DEF Create, Edit, Exists, Vacant, Places
<1>2. Seen' = [Seen EXCEPT ![o] = e] /\ Seen[o] = place[o] BY <1>1, EditSeen
<1>3. place \in Tree /\ Seen \in Tree BY SeenFacts
<1>4. Carries
  <2>1. \A x \in Objects : x # o => Seen'[x] = Seen[x] BY <1>2
  <2> QED BY <1>1, <1>2, <2>1, CarriesNew
<1>5. \A x \in Objects : place'[x] # None => place'[x].dir \in Dirs \cup {Root}
  BY <1>1, <1>3 DEF Traces, Tree
<1> QED BY <1>1, <1>4, <1>5, TracesEdit

LEMMA TracesMove ==
  ASSUME Inv, Inv', Traces, NEW o \in Objects, NEW e \in Places, Move(o, e)
  PROVE  Traces'
<1>1. /\ UNCHANGED <<journal, pc, run, gone>> /\ moved' = moved \cup {o}
      /\ place[o] # None /\ place[o].name \in Names
      /\ e.name \in Names /\ e.dir \in Dirs \cup {Root} /\ e # None
      /\ place' = [place EXCEPT ![o] = e]
  BY DEF Move, Edit, Exists, Vacant, Visible
<1>2. Seen' = [Seen EXCEPT ![o] = e] /\ Seen[o] = place[o] BY <1>1, EditSeen
<1>3. place \in Tree /\ Seen \in Tree BY SeenFacts
<1>4. Carries
  <2>1. \A x \in Objects : x # o => Seen'[x] = Seen[x] BY <1>2
  <2>2. Seen'[o] = e BY <1>2, <1>3 DEF Tree
  <2> QED BY <1>1, <1>2, <2>1, <2>2, CarriesDisplaced
<1>5. \A x \in Objects : place'[x] # None => place'[x].dir \in Dirs \cup {Root}
  BY <1>1, <1>3 DEF Traces, Tree
<1> QED BY <1>1, <1>4, <1>5, TracesEdit

LEMMA TracesDelete ==
  ASSUME Inv, Inv', Traces, NEW o \in Objects, Delete(o)
  PROVE  Traces'
<1>1. /\ UNCHANGED <<journal, pc, run, moved>> /\ gone' = gone \cup {o}
      /\ place[o] # None /\ place[o].name \in Names
      /\ o \in Dirs => Empty(o)
      /\ place' = [place EXCEPT ![o] = None]
  BY DEF Delete, Edit, Exists, Visible
<1>2. Seen' = [Seen EXCEPT ![o] = None] /\ Seen[o] = place[o] BY <1>1, EditSeen
<1>3. place \in Tree /\ Seen \in Tree BY SeenFacts
<1>4. Carries
  <2>1. \A x \in Objects : x # o => Seen'[x] = Seen[x] BY <1>2
  <2>2. Seen'[o] = None BY <1>2, <1>3 DEF Tree
  <2>3. \A x \in Objects : place[x] # None => place[x].dir # o
    BY <1>1 DEF Traces, Empty, Exists
  <2> QED BY <1>1, <2>1, <2>2, <2>3, CarriesRemoved
<1>5. \A x \in Objects : place'[x] # None => place'[x].dir \in Dirs \cup {Root}
  BY <1>1, <1>3 DEF Traces, Tree
<1> QED BY <1>1, <1>4, <1>5, TracesEdit

LEMMA SameSeen ==
  ASSUME UNCHANGED place, ~Staging, ~Staging'
  PROVE  UNCHANGED Seen
BY DEF Seen

(* A claim on the very path the cleaner works on is its own, or one whose   *)
(* object was recorded as removed.                                          *)
LEMMA OwnPath ==
  ASSUME Inv, Traces, pc \in Working, NEW i \in Installations, NEW p \in Paths,
         Claimed(i, p), Front(p) = Front(path), Last(p) = Last(path),
         Seen[journal[i][p].proof] # None,
         ~Astray(Seen, moved, journal[i][p].proof, p)
  PROVE  journal[i][p].proof = claim.proof
<1>1. who \in Installations /\ path \in Paths BY ClaimType DEF Inv
<1>2. p = path
  <2>1. /\ p \in Seq(Names) /\ Len(p) \in Nat /\ Len(p) >= 1
        /\ path \in Seq(Names) /\ Len(path) \in Nat /\ Len(path) >= 1
    BY <1>1, PathFacts
  <2>2. /\ Len(Front(p)) = Len(p) - 1 /\ \A k \in 1..(Len(p) - 1) : Front(p)[k] = p[k]
        /\ Len(Front(path)) = Len(path) - 1
        /\ \A k \in 1..(Len(path) - 1) : Front(path)[k] = path[k]
    BY <1>1, FrontFacts
  <2>3. Len(p) = Len(path) BY <2>1, <2>2
  <2>4. p[Len(p)] = path[Len(p)] BY <2>3 DEF Last
  <2>5. \A k \in 1..Len(p) : k = Len(p) \/ k \in 1..(Len(p) - 1) BY <2>1
  <2>6. \A k \in 1..Len(p) : p[k] = path[k] BY <2>2, <2>3, <2>4, <2>5
  <2> QED BY <2>1, <2>3, <2>6
<1>3. CASE i = who BY <1>2, <1>3 DEF claim
<1>4. CASE i # who
  <2>1. ~Preserved(who, path) BY DEF Inv, Knows
  <2>2. IsPrefix(path, path)
    <3>1. path \in Seq(Names) BY <1>1, PathFacts
    <3> QED BY <3>1, Prefix
  <2>3. ~Live(i, path) BY <1>1, <1>4, <2>1, <2>2 DEF Preserved, Overlaps
  <2>4. journal[i][p].cleanup = "removed" BY <1>2, <2>3 DEF Live, Claimed
  <2> QED BY <2>4 DEF Traces, Known
<1> QED BY <1>3, <1>4

(* What was put aside is left there, if anything was.  Of the objects that  *)
(* are claimed it can only be the one the cleaner works on, which knows its *)
(* hidden name again; all below it is astray.                               *)
LEMMA CarriesUnstaged ==
  ASSUME Inv, Inv', Traces, UNCHANGED <<place, gone, moved>>, ~Staging'
  PROVE  Carries
<1>1. CASE ~Staging BY <1>1, SameSeen, SameTree
<1>2. CASE Staging
  <2>0. /\ Target \in Places /\ Target # None /\ Aside # None /\ Aside.name \notin Names
        /\ Target.dir = dir /\ Aside.dir = dir /\ Target.name \in Names
        /\ Target.name = Last(path) /\ Aside.name = Hidden(claim.proof)
    BY <1>2, EntryType DEF Inv, Staging, Target, Aside, Entry
  <2>1. \A x \in Objects : Seen'[x] = place[x] BY DEF Seen
  <2>2. CASE \E s \in Objects : place[s] = Aside
    <3>0. Seen \in Tree /\ Seen' \in Tree BY TwoTrees
    <3>1. PICK s \in Objects : place[s] = Aside BY <2>2
    <3>2. \A x \in Objects : x # s => place[x] # Aside
      BY <2>0, <3>1 DEF Inv, OnePerPlace, Exists
    <3>3. \A x \in Objects : x # s => Seen'[x] = Seen[x] BY <2>1, <3>2 DEF Seen
    <3>4. Seen[s] = Target /\ Seen'[s] = Aside BY <1>2, <2>1, <3>1 DEF Seen
    <3>5. Displaced(Seen', moved', s) BY <2>0, <3>4 DEF Displaced
    <3>6. ASSUME NEW d \in Objects, NEW q \in Routes
          PROVE  /\ Lost(Seen, moved, d, q) => Lost(Seen', moved', d, q)
                 /\ Found(Seen, moved, d, q) => Found(Seen', moved', d, q)
      BY <3>0, <3>3, <3>5, LostKept, FoundKept
    <3>7. \A o \in Objects : /\ Seen[o] # None <=> Seen'[o] # None
                             /\ Seen'[o].dir = Seen[o].dir
      BY <2>0, <3>3, <3>4
    <3>8. ASSUME NEW i \in Installations, NEW p \in Paths, NEW o \in Objects,
                 Claimed(i, p), o = journal[i][p].proof, Seen[o] # None, Seen'[o] # None
          PROVE  /\ Astray(Seen, moved, o, p) => Astray(Seen', moved', o, p)
                 /\ Kept(Seen, moved, o, p) => Kept(Seen', moved', o, p)
      <4>0. /\ moved \subseteq moved' /\ Seen[o] # None /\ Seen'[o] # None
            /\ Seen'[o].dir = Seen[o].dir
        BY <3>7, <3>8
      <4>1. /\ Astray(Seen, moved, o, p) => Astray(Seen', moved', o, p)
            /\ Kept(Seen, moved, o, p)
                 /\ (\/ o \in moved' \/ Seen'[o].name = Seen[o].name
                     \/ Seen'[o].name \in {Last(p), Hidden(o)})
                 => Kept(Seen', moved', o, p)
        BY <3>0, <3>6, <4>0, Follow, Zenon
      <4>2. CASE o # s
        <5>1. Seen'[o].name = Seen[o].name BY <3>3, <4>2
        <5> QED BY <4>1, <5>1
      <4>3. CASE o = s /\ ~Astray(Seen, moved, o, p) /\ Nested(Seen, o, p)
        <5>1. Last(path) \in {Last(p), Hidden(o)} BY <2>0, <3>4, <4>3 DEF Nested
        <5>2. Hidden(o) \notin Names BY DEF Hidden, Inodes
        <5>3. Last(path) = Last(p) BY <2>0, <5>1, <5>2
        <5>4. pc \in Working BY <1>2 DEF Staging
        <5>5. Front(p) = Front(path)
          <6>1. Neighbours BY <5>4 DEF Traces
          <6>2. Seen[journal[i][p].proof] # None /\ Seen[journal[i][p].proof].dir = dir
            BY <2>0, <3>4, <3>8, <4>3
          <6>3. ~Astray(Seen, moved, journal[i][p].proof, p) BY <3>8, <4>3
          <6> QED BY <3>8, <6>1, <6>2, <6>3 DEF Neighbours
        <5>6. o = claim.proof BY <3>8, <4>3, <5>3, <5>4, <5>5, OwnPath
        <5>7. Seen'[o].name = Hidden(o) BY <2>0, <3>4, <4>3, <5>6
        <5> QED BY <4>1, <5>7
      <4> QED BY <4>1, <4>2, <4>3 DEF Kept
    <3> QED BY <3>7, <3>8 DEF Carries
  <2>3. CASE ~ \E s \in Objects : place[s] = Aside
    <3>1. UNCHANGED Seen BY <2>1, <2>3 DEF Seen
    <3> QED BY <3>1, SameTree
  <2> QED BY <2>2, <2>3
<1> QED BY <1>1, <1>2

LEMMA TracesFrom ==
  ASSUME Inv, Traces, Carries, gone \subseteq gone', UNCHANGED journal,
         \A o \in Objects : place'[o] # None => place'[o].dir \in Dirs \cup {Root},
         pc' \in Working => Absent' \/ Seen'[claim'.proof].dir = dir',
         pc' \in Working => Neighbours' \/ (pc \in Working /\ UNCHANGED <<dir, path>>),
         pc' = "commit" /\ fine' => Absent'
  PROVE  Traces'
<1>1. Known' BY KnownKept DEF Traces
<1>2. pc' \in Working => Neighbours' BY NeighboursKept DEF Traces
<1> QED BY <1>1, <1>2 DEF Traces

LEMMA TracesQuiet ==
  ASSUME Inv, Inv', Traces,
         \/ \E i \in Installations : Begin(i)
         \/ \E p \in Paths : Take(p)
         \/ Fail \/ Abort \/ Finish \/ Crash
  PROVE  Traces'
<1>1. /\ UNCHANGED <<place, gone, moved, journal>>
      /\ pc' \notin Working /\ ~(pc' = "commit" /\ fine')
  BY DEF Begin, Take, Fail, Abort, Finish, Crash
<1>2. Carries BY <1>1, CarriesUnstaged DEF Staging
<1> QED BY <1>1, <1>2, TracesFrom DEF Traces

(* What the journal says of the claim the cleaner works on.                 *)
LEMMA ClaimFound ==
  ASSUME Inv, Traces, pc \in Locked, Seen[claim.proof] # None
  PROVE  /\ claim.proof \in Objects /\ path \in Paths
         /\ Kept(Seen, moved, claim.proof, path)
<1>1. who \in Installations /\ path \in Paths /\ claim.proof \in Objects /\ Claimed(who, path)
  BY ClaimType DEF Inv, Knows, Claimed, claim, Live
<1> QED BY <1>1 DEF Traces, Known, claim

LEMMA ResolvesPlace ==
  ASSUME NEW p, NEW o
  PROVE  Resolves(p, o) <=> ResolvesIn(place, p, o)
BY DEF Resolves, ResolvesIn

LEMMA TracesOpen ==
  ASSUME Inv, Inv', Traces, Open
  PROVE  Traces'
<1>1. /\ UNCHANGED <<place, gone, moved, journal, who, path, claim>>
      /\ pc = "open" /\ ~Staging /\ ~Staging'
  BY DEF Open, claim, Staging
<1>2. Carries /\ UNCHANGED Seen BY <1>1, SameSeen, SameTree
<1>3. Seen = place /\ place \in Tree BY <1>1, SeenFacts
<1>4. ASSUME Seen[claim.proof] # None, ~Astray(Seen, moved, claim.proof, path)
      PROVE  /\ claim.proof \in Objects
             /\ place[claim.proof].dir \in Objects \cup {Root}
             /\ ResolvesIn(place, Front(path), place[claim.proof].dir)
             /\ Front(path) \in Seq(Names)
  <2>1. Nested(place, claim.proof, path) /\ claim.proof \in Objects /\ path \in Paths
    BY <1>1, <1>3, <1>4, ClaimFound DEF Kept
  <2> QED BY <1>3, <1>4, <2>1, FrontFacts DEF Nested, Tree, Places
<1>5. ASSUME pc' = "commit", fine', ~Absent PROVE FALSE
  <2>1. ~\E o \in Objects \cup {Root} : Resolves(Front(path), o) BY <1>5 DEF Open
  <2>2. Seen[claim.proof] # None /\ ~Astray(Seen, moved, claim.proof, path) BY <1>5 DEF Absent
  <2> QED BY <1>4, <2>1, <2>2, ResolvesPlace
<1>6. ASSUME pc' \in Working, ~Absent PROVE Seen[claim.proof].dir = dir'
  <2>1. PICK d \in Dirs \cup {Root} : Resolves(Front(path), d) /\ dir' = d BY <1>6 DEF Open
  <2>2. Seen[claim.proof] # None /\ ~Astray(Seen, moved, claim.proof, path) BY <1>6 DEF Absent
  <2>3. d \in Objects \cup {Root} /\ ResolvesIn(place, Front(path), d)
    BY <2>1, ResolvesPlace
  <2>4. \A o, x \in Objects : place[o] # None /\ place[o] = place[x] => o = x
    BY DEF Inv, OnePerPlace, Exists
  <2>5. place[claim.proof].dir = d BY <1>3, <1>4, <2>2, <2>3, <2>4, OneObject
  <2> QED BY <1>3, <2>1, <2>5
<1>7. Absent' <=> Absent BY <1>1, <1>2 DEF Absent
<1>8. pc' \in Working => Absent' \/ Seen'[claim'.proof].dir = dir' BY <1>1, <1>2, <1>6, <1>7
<1>9. pc' = "commit" /\ fine' => Absent' BY <1>5, <1>7
<1>10. ASSUME pc' \in Working PROVE Neighbours'
  <2>1. PICK d \in Dirs \cup {Root} : Resolves(Front(path), d) /\ dir' = d BY <1>10 DEF Open
  <2>2. d \in Objects \cup {Root} /\ ResolvesIn(place, Front(path), d)
    BY <2>1, ResolvesPlace
  <2> SUFFICES ASSUME NEW i \in Installations, NEW p \in Paths, Claimed(i, p),
                      Seen[journal[i][p].proof] # None, Seen[journal[i][p].proof].dir = d,
                      ~Astray(Seen, moved, journal[i][p].proof, p)
               PROVE  Front(p) = Front(path)
    BY <1>1, <1>2, <2>1 DEF Neighbours, Claimed
  <2>3. Nested(place, journal[i][p].proof, p) BY <1>3 DEF Traces, Known, Kept
  <2>4. ResolvesIn(place, Front(p), d) BY <1>3, <2>3 DEF Nested
  <2>5. Front(p) \in Seq(Names) /\ Front(path) \in Seq(Names)
    <3>1. path \in Paths BY <1>1, ClaimType DEF Inv
    <3> QED BY <3>1, FrontFacts
  <2> QED BY <1>3, <2>2, <2>4, <2>5, OneRoute
<1> QED BY <1>1, <1>2, <1>8, <1>9, <1>10, TracesFrom DEF Traces

LEMMA TracesLook ==
  ASSUME Inv, Inv', Traces, Look
  PROVE  Traces'
<1>1. /\ UNCHANGED <<place, gone, moved, journal, who, path, dir, claim>>
      /\ pc = "look" /\ ~Staging /\ ~Staging'
  BY DEF Look, claim, Staging
<1>2. Carries /\ UNCHANGED Seen BY <1>1, SameSeen, SameTree
<1>3. Seen = place /\ place \in Tree BY <1>1, SeenFacts
<1>4. ASSUME pc' = "commit", fine', ~Absent PROVE FALSE
  <2>1. AtTarget = {} /\ AtAside = {} BY <1>4 DEF Look
  <2>2. Seen[claim.proof] # None /\ ~Astray(Seen, moved, claim.proof, path) BY <1>4 DEF Absent
  <2>3. Nested(place, claim.proof, path) /\ claim.proof \in Objects
    BY <1>1, <1>3, <2>2, ClaimFound DEF Kept
  <2>4. place[claim.proof].dir = dir BY <1>1, <1>3, <1>4 DEF Traces
  <2>5. place[claim.proof] = Entry(dir, place[claim.proof].name)
    BY <1>3, <2>2, <2>3, <2>4 DEF Tree, Places, Entry
  <2>6. place[claim.proof].name \in {Last(path), Hidden(claim.proof)} BY <2>3 DEF Nested
  <2>7. claim.proof \in AtTarget \/ claim.proof \in AtAside
    BY <2>3, <2>5, <2>6 DEF AtTarget, AtAside, Target, Aside, At, Entry
  <2> QED BY <2>1, <2>7
<1>5. Absent' <=> Absent BY <1>1, <1>2 DEF Absent
<1>6. pc' \in Working => Absent' \/ Seen'[claim'.proof].dir = dir'
  BY <1>1, <1>2, <1>5 DEF Traces
<1>7. pc' = "commit" /\ fine' => Absent' BY <1>4, <1>5
<1> QED BY <1>1, <1>2, <1>6, <1>7, TracesFrom DEF Traces

(* Putting aside what is at the path changes nothing that is seen.          *)
LEMMA TracesRename ==
  ASSUME Inv, Inv', Traces, Rename
  PROVE  Traces'
<1>0. /\ UNCHANGED <<gone, moved, journal, who, path, dir, claim, Target, Aside>>
      /\ pc = "rename" /\ ~Staging
  BY DEF Rename, claim, Target, Aside, Staging
<1>1. /\ Target = Entry(Target.dir, Target.name) /\ Target # None /\ Target # Aside
      /\ Aside = Entry(Aside.dir, Aside.name) /\ Aside # None /\ Aside.dir = Target.dir
      /\ Aside \in Places
  BY <1>0, EntryType DEF Inv, Target, Aside, Entry
<1>2. place \in Tree /\ Seen = place BY <1>0, SeenFacts
<1>3. CASE UNCHANGED place /\ pc' = "commit" /\ ~fine'
  <2>1. ~Staging' BY <1>3 DEF Staging
  <2>2. Carries BY <1>0, <1>3, <2>1, SameSeen, SameTree
  <2> QED BY <1>0, <1>3, <2>2, TracesFrom DEF Traces
<1>4. CASE \E o \in AtTarget : AtAside = {} /\ place' = [place EXCEPT ![o] = Aside] /\ pc' = "verify"
  <2>1. PICK o \in AtTarget : AtAside = {} /\ place' = [place EXCEPT ![o] = Aside] BY <1>4
  <2>2. o \in Objects /\ place[o] = Target BY <1>1, <2>1 DEF AtTarget, At
  <2>3. \A x \in Objects : place[x] # Aside BY <1>1, <2>1 DEF AtAside, At
  <2>4. Staging' BY <1>4 DEF Staging
  <2>5. ASSUME NEW x \in Objects PROVE Seen'[x] = place[x]
    <3>1. CASE x = o
      <4>1. place'[x] = Aside BY <1>2, <2>1, <2>2, <3>1 DEF Tree
      <4>2. Seen'[x] = Target BY <1>0, <2>4, <4>1 DEF Seen
      <4> QED BY <2>2, <3>1, <4>2
    <3>2. CASE x # o
      <4>1. place'[x] = place[x] /\ place[x] # Aside BY <1>2, <2>1, <2>3, <3>2 DEF Tree
      <4> QED BY <1>0, <4>1 DEF Seen
    <3> QED BY <3>1, <3>2
  <2>6. Seen' = Seen
    <3>1. Seen' = [x \in Objects |-> Seen'[x]] BY DEF Seen
    <3>2. place = [x \in Objects |-> place[x]] BY <1>2 DEF Tree
    <3>3. Seen' = place BY <2>5, <3>1, <3>2, Zenon
    <3> QED BY <1>2, <3>3
  <2>7. Carries BY <1>0, <2>6, SameTree
  <2>8. \A x \in Objects : place'[x] # None => place'[x].dir \in Dirs \cup {Root}
    BY <1>1, <1>2, <2>1, <2>2 DEF Traces, Tree
  <2>9. Absent' <=> Absent BY <1>0, <2>6 DEF Absent
  <2>10. Absent' \/ Seen'[claim'.proof].dir = dir' BY <1>0, <2>6, <2>9 DEF Traces
  <2>11. pc' # "commit" BY <1>4
  <2> QED BY <1>0, <2>7, <2>8, <2>10, <2>11, TracesFrom
<1> QED BY <1>3, <1>4 DEF Rename

LEMMA TracesVerify ==
  ASSUME Inv, Inv', Traces, Verify
  PROVE  Traces'
<1>1. /\ UNCHANGED <<place, gone, moved, journal, who, path, dir, claim>>
      /\ pc = "verify" /\ pc' \in {"unlink", "restore"}
  BY DEF Verify, claim
<1>2. Carries
  <2>1. CASE pc' = "unlink" BY <1>1, <2>1, CarriesUnstaged DEF Staging
  <2>2. CASE pc' = "restore"
    <3>1. UNCHANGED <<Staging, Aside, Target>> BY <1>1, <2>2 DEF Staging, Aside, Target
    <3>2. UNCHANGED Seen BY <1>1, <3>1 DEF Seen
    <3> QED BY <1>1, <3>2, SameTree
  <2> QED BY <1>1, <2>1, <2>2
<1>3. Absent => Absent' BY <1>1, <1>2, AbsentKept DEF Traces
<1>4. ASSUME Seen[claim.proof].dir = dir PROVE Absent' \/ Seen'[claim'.proof].dir = dir'
  <2>1. claim.proof \in Objects BY <1>1, ClaimType DEF Inv
  <2>2. /\ \A o \in Objects : Seen[o] # None <=> place[o] # None
        /\ \A o \in Objects : Seen[o] # None => Seen[o].dir = place[o].dir
    BY SeenFacts
  <2>3. /\ \A o \in Objects : Seen'[o] # None <=> place'[o] # None
        /\ \A o \in Objects : Seen'[o] # None => Seen'[o].dir = place'[o].dir
    <3>1. Inv' => (/\ \A o \in Objects : Seen[o] # None <=> place[o] # None
                   /\ \A o \in Objects : Seen[o] # None => Seen[o].dir = place[o].dir)'
      BY SeenPlaces, PTL
    <3> QED BY <3>1
  <2>4. CASE Seen'[claim.proof] = None BY <1>1, <2>4 DEF Absent
  <2>5. CASE Seen'[claim.proof] # None BY <1>1, <1>4, <2>1, <2>2, <2>3, <2>5
  <2> QED BY <2>4, <2>5
<1>5. Absent' \/ Seen'[claim'.proof].dir = dir' BY <1>1, <1>3, <1>4 DEF Traces
<1> QED BY <1>1, <1>2, <1>5, TracesFrom DEF Traces

LEMMA TracesRestore ==
  ASSUME Inv, Inv', Traces, Restore
  PROVE  Traces'
<1>0. /\ UNCHANGED <<gone, moved, journal, who, path, dir, claim, Target, Aside>>
      /\ pc = "restore" /\ pc' = "commit" /\ ~fine' /\ Staging /\ ~Staging'
  BY DEF Restore, claim, Target, Aside, Staging
<1>1. /\ Target = Entry(Target.dir, Target.name) /\ Target # None /\ Target # Aside
      /\ Aside = Entry(Aside.dir, Aside.name) /\ Aside # None /\ Aside.dir = Target.dir
      /\ Target \in Places
  BY <1>0, EntryType DEF Inv, Target, Aside, Entry
<1>2. place \in Tree BY SeenFacts
<1>3. CASE UNCHANGED place
  <2>1. Carries BY <1>0, <1>3, CarriesUnstaged
  <2> QED BY <1>0, <1>3, <2>1, TracesFrom DEF Traces
<1>4. CASE \E o \in AtAside : place' = [place EXCEPT ![o] = Target]
  <2>1. PICK o \in AtAside : place' = [place EXCEPT ![o] = Target] BY <1>4
  <2>2. o \in Objects /\ place[o] = Aside BY <1>1, <2>1 DEF AtAside, At
  <2>3. \A x \in Objects : x # o => place[x] # Aside
    BY <1>1, <2>2 DEF Inv, OnePerPlace, Exists
  <2>4. ASSUME NEW x \in Objects PROVE Seen'[x] = Seen[x]
    <3>1. Seen'[x] = place'[x] BY <1>0 DEF Seen
    <3>2. CASE x = o
      <4>1. place'[x] = Target BY <1>2, <2>1, <2>2, <3>2 DEF Tree
      <4>2. Seen[x] = Target BY <1>0, <2>2, <3>2 DEF Seen
      <4> QED BY <3>1, <4>1, <4>2
    <3>3. CASE x # o
      <4>1. place'[x] = place[x] /\ place[x] # Aside BY <1>2, <2>1, <2>3, <3>3 DEF Tree
      <4> QED BY <3>1, <4>1 DEF Seen
    <3> QED BY <3>2, <3>3
  <2>5. Seen' = Seen
    <3>1. Seen' = [x \in Objects |-> Seen'[x]] BY DEF Seen
    <3>2. Seen = [x \in Objects |-> Seen[x]] BY DEF Seen
    <3> QED BY <2>4, <3>1, <3>2, Zenon
  <2>6. Carries BY <1>0, <2>5, SameTree
  <2>7. \A x \in Objects : place'[x] # None => place'[x].dir \in Dirs \cup {Root}
    BY <1>1, <1>2, <2>1, <2>2 DEF Traces, Tree
  <2> QED BY <1>0, <2>6, <2>7, TracesFrom
<1> QED BY <1>3, <1>4 DEF Restore

LEMMA TracesUnlink ==
  ASSUME Inv, Inv', Traces, Unlink
  PROVE  Traces'
<1>0. /\ UNCHANGED <<moved, journal, who, path, dir, claim, Target, Aside>>
      /\ pc = "unlink" /\ pc' = "commit" /\ ~Staging /\ ~Staging'
  BY DEF Unlink, claim, Target, Aside, Staging
<1>1. Aside = Entry(Aside.dir, Aside.name) /\ Aside # None
  BY <1>0, EntryType DEF Inv, Aside, Entry
<1>2. place \in Tree /\ Seen = place BY <1>0, SeenFacts
<1>3. CASE UNCHANGED files /\ ~fine'
  <2>1. Carries BY <1>0, <1>3, CarriesUnstaged
  <2> QED BY <1>0, <1>3, <2>1, TracesFrom DEF Traces
<1>4. ASSUME NEW o \in AtAside, o \in Dirs => Empty(o),
             place' = [place EXCEPT ![o] = None], gone' = gone \cup {o}
      PROVE  Traces'
  <2>1. o \in Objects /\ o = claim.proof
    BY <1>0, <1>4 DEF AtAside, At, Inv, Knows, Matches
  <2>2. place' \in Tree /\ place'[o] = None /\ \A x \in Objects : x # o => place'[x] = place[x]
    BY <1>2, <1>4, <2>1 DEF Tree
  <2>3. \A x \in Objects : Seen'[x] = place'[x] BY <1>0 DEF Seen
  <2>4. \A x \in Objects : place[x] # None => place[x].dir # o
    BY <1>4, <2>1 DEF Traces, Empty, Exists
  <2>5. Carries BY <1>0, <1>2, <1>4, <2>1, <2>2, <2>3, <2>4, CarriesRemoved
  <2>6. Absent' BY <1>0, <2>1, <2>2, <2>3 DEF Absent
  <2>7. \A x \in Objects : place'[x] # None => place'[x].dir \in Dirs \cup {Root}
    BY <2>2 DEF Traces
  <2> QED BY <1>0, <1>4, <2>5, <2>6, <2>7, TracesFrom
<1> QED BY <1>3, <1>4 DEF Unlink

LEMMA TracesCommit ==
  ASSUME Inv, Inv', Traces, Commit
  PROVE  Traces'
<1>1. /\ UNCHANGED <<place, gone, moved>> /\ pc = "commit" /\ pc' = "next"
      /\ ~Staging /\ ~Staging'
      /\ journal' = [journal EXCEPT ![who][path].cleanup =
                        IF fine THEN "removed" ELSE "retry_required"]
  BY DEF Commit, Staging
<1>2. UNCHANGED Seen BY <1>1, SameSeen
<1>3. /\ who \in Installations /\ path \in Paths /\ claim \in Claims /\ claim.proof # None
      /\ Claimed(who, path)
  BY <1>1, ClaimType DEF Inv, Knows, Claimed, claim, Live
<1>4. ASSUME NEW i \in Installations, NEW p \in Paths
      PROVE  /\ i # who \/ p # path => journal'[i][p] = journal[i][p]
             /\ i = who /\ p = path =>
                  /\ journal'[i][p] # None /\ journal'[i][p].proof = claim.proof
                  /\ journal'[i][p].cleanup = IF fine THEN "removed" ELSE "retry_required"
  <2>1. journal \in [Installations -> [Paths -> Claims \cup {None}]] BY DEF Inv, TypeOK
  <2>2. CASE i # who \/ p # path BY <1>1, <1>3, <2>1, <2>2
  <2>3. CASE i = who /\ p = path
    <3> DEFINE c == [claim EXCEPT !.cleanup = IF fine THEN "removed" ELSE "retry_required"]
    <3>1. journal'[i][p] = c BY <1>1, <1>3, <2>1, <2>3 DEF claim
    <3>2. c \in Claims BY <1>3 DEF Claims, States
    <3>3. c.proof = claim.proof /\ c.cleanup = IF fine THEN "removed" ELSE "retry_required"
      BY <1>3 DEF Claims
    <3> QED BY <2>3, <3>1, <3>2, <3>3
  <2> QED BY <2>2, <2>3
<1>5. fine => Absent BY <1>1 DEF Traces
<1>6. Known'
  <2> SUFFICES ASSUME NEW i \in Installations, NEW p \in Paths, Claimed(i, p)'
             PROVE
        /\ Seen[journal'[i][p].proof] # None \/ journal'[i][p].proof \in gone
        /\ Seen[journal'[i][p].proof] # None =>
              Kept(Seen, moved, journal'[i][p].proof, p)
        /\ journal'[i][p].cleanup = "removed" /\ Seen[journal'[i][p].proof] # None =>
              Astray(Seen, moved, journal'[i][p].proof, p)
    BY <1>1, <1>2 DEF Known
  <2>1. CASE i # who \/ p # path
    <3>1. journal'[i][p] = journal[i][p] BY <1>4, <2>1
    <3> QED BY <3>1 DEF Traces, Known, Claimed
  <2>2. CASE i = who /\ p = path
    <3>1. /\ journal'[i][p].proof = claim.proof /\ claim = journal[i][p] /\ Claimed(i, p)
          /\ journal'[i][p].cleanup = "removed" => fine
      BY <1>3, <1>4, <2>2 DEF claim
    <3> QED BY <1>5, <2>2, <3>1 DEF Traces, Known, Absent
  <2> QED BY <2>1, <2>2
<1>7. ASSUME NEW i \in Installations, NEW p \in Paths,
             journal'[i][p] # None, journal'[i][p].cleanup = "removed"
      PROVE  journal'[i][p].proof # None
  BY <1>3, <1>4, <1>7 DEF Traces
<1> QED BY <1>1, <1>6, <1>7 DEF Traces

LEMMA TracesRecord ==
  ASSUME Inv, Inv', Traces, NEW i \in Installations, Record(i)
  PROVE  Traces'
<1>1. PICK P \in SUBSET Paths, X \in SUBSET Paths, born \in BOOLEAN :
          /\ P # {} /\ X \subseteq P /\ \A p \in P : \E o \in Objects : Resolves(p, o)
          /\ journal' = [journal EXCEPT ![i] =
                [p \in Paths |-> IF p \in P THEN Claim(p, born, p \in X) ELSE None]]
          /\ disturbed' = (disturbed \/ pc # "idle" \/ ~Tidy(P, born))
  BY Zenon DEF Record
<1>2. UNCHANGED <<files, pc, run, others>> /\ pc \notin Locked BY DEF Record
<1>3. ~Staging /\ ~Staging' BY <1>2 DEF Staging
<1>4. Seen' = Seen /\ Seen = place /\ place \in Tree BY <1>2, <1>3, SameSeen, SeenFacts
<1>5. journal \in [Installations -> [Paths -> Claims \cup {None}]] BY DEF Inv, TypeOK
<1>6. ASSUME NEW j \in Installations, NEW p \in Paths, journal'[j][p] # journal[j][p],
             journal'[j][p] # None
      PROVE  /\ journal'[j][p].cleanup = "pending"
             /\ journal'[j][p].proof # None =>
                  /\ journal'[j][p].proof \in Objects
                  /\ ResolvesIn(place, p, journal'[j][p].proof)
  <2>1. j = i /\ p \in P /\ journal'[j][p] = Claim(p, born, p \in X)
    BY <1>1, <1>5, <1>6
  <2>2. Object(p) \in Objects /\ Resolves(p, Object(p)) BY <1>1, <2>1 DEF Object
  <2> QED BY <2>1, <2>2, ResolvesPlace DEF Claim
<1>7. Known'
  <2> SUFFICES ASSUME NEW j \in Installations, NEW p \in Paths, Claimed(j, p)'
             PROVE
        /\ Seen[journal'[j][p].proof] # None \/ journal'[j][p].proof \in gone
        /\ Seen[journal'[j][p].proof] # None =>
              Kept(Seen, moved, journal'[j][p].proof, p)
        /\ journal'[j][p].cleanup = "removed" /\ Seen[journal'[j][p].proof] # None =>
              Astray(Seen, moved, journal'[j][p].proof, p)
    BY <1>2, <1>4 DEF Known
  <2>1. CASE journal'[j][p] = journal[j][p]
    BY <2>1 DEF Traces, Known, Claimed
  <2>2. CASE journal'[j][p] # journal[j][p]
    <3> DEFINE c == journal'[j][p]
    <3>1. /\ c.cleanup # "removed" /\ c.proof \in Objects /\ ResolvesIn(place, p, c.proof)
      BY <1>6, <2>2 DEF Claimed
    <3> HIDE DEF c
    <3>2. place[c.proof] # None BY <1>4, <3>1, Parent
    <3>3. Nested(place, c.proof, p) BY <1>4, <3>1, Parent DEF Nested
    <3> QED BY <1>4, <3>1, <3>2, <3>3 DEF Kept, c
  <2> QED BY <2>1, <2>2
<1>8. ASSUME NEW j \in Installations, NEW p \in Paths,
             journal'[j][p] # None, journal'[j][p].cleanup = "removed"
      PROVE  journal'[j][p].proof # None
  BY <1>6, <1>8 DEF Traces
<1> QED BY <1>2, <1>7, <1>8 DEF Traces

LEMMA TracesNext == Inv /\ Inv' /\ Traces /\ [Next]_vars => Traces'
<1> SUFFICES ASSUME Inv, Inv', Traces, [Next]_vars PROVE Traces' OBVIOUS
<1>1. CASE UNCHANGED vars
  <2>1. UNCHANGED <<Seen, claim>>
    BY <1>1 DEF Seen, Staging, Aside, Target, claim
  <2>2. Known' BY <1>1, <2>1 DEF Traces, Known, Claimed
  <2>3. Absent' <=> Absent BY <1>1, <2>1 DEF Absent
  <2>4. Neighbours' <=> Neighbours BY <1>1, <2>1 DEF Neighbours, Claimed
  <2> QED BY <1>1, <2>1, <2>2, <2>3, <2>4 DEF Traces
<1>2. CASE Next
  BY <1>2, TracesCreate, TracesMove, TracesDelete, TracesRecord, TracesQuiet, TracesOpen,
     TracesLook, TracesRename, TracesVerify, TracesRestore, TracesUnlink, TracesCommit
  DEF Next, Removal
<1> QED BY <1>1, <1>2

(* What is known of the recorded objects is an invariant.                   *)
THEOREM TracesCorrect == Spec => []Traces
BY InitInv, TracesInit, NextInv, TracesNext, InvCorrect, PTL DEF Spec

(* What looks to be lost while an object is aside is lost.                  *)
LEMMA LostSeen ==
  ASSUME Inv, NEW o \in Objects, NEW p \in Routes, Lost(Seen, moved, o, p)
  PROVE  Lost(place, moved, o, p)
<1>1. CASE ~Staging BY <1>1, SeenFacts
<1>2. CASE Staging
  <2>0. Aside # None /\ Aside.name \notin Names BY <1>2, EntryType DEF Inv, Staging
  <2>1. place \in Tree /\ Seen \in Tree BY SeenFacts
  <2>2. CASE \E s \in Objects : place[s] = Aside
    <3>1. PICK s \in Objects : place[s] = Aside BY <2>2
    <3>2. \A x \in Objects : x # s => place[x] # Aside
      BY <2>0, <3>1 DEF Inv, OnePerPlace, Exists
    <3>3. \A x \in Objects : x # s => place[x] = Seen[x] BY <3>2 DEF Seen
    <3>4. Displaced(place, moved, s) BY <2>0, <3>1 DEF Displaced
    <3> QED BY <2>1, <3>3, <3>4, LostKept
  <2>3. CASE ~ \E s \in Objects : place[s] = Aside
    <3>1. \A x \in Objects : Seen[x] = place[x] BY <2>3 DEF Seen
    <3>2. Seen = place BY <2>1, <3>1 DEF Tree
    <3> QED BY <3>2
  <2> QED BY <2>2, <2>3
<1> QED BY <1>1, <1>2

(* What is above the directory an object is in is above the object.         *)
LEMMA AboveNext ==
  ASSUME NEW P \in Tree, NEW o \in Objects, P[o] # None, NEW a \in Objects, NEW n \in Nat,
         AboveIn(P, P[o].dir, a, n)
  PROVE  AboveIn(P, o, a, n + 1)
<1>1. PICK chain \in [0..n -> Objects] :
        /\ chain[0] = P[o].dir /\ chain[n] = a
        /\ \A k \in 1..n : P[chain[k - 1]] # None /\ P[chain[k - 1]].dir = chain[k]
  BY DEF AboveIn
<1> DEFINE c == [k \in 0..(n + 1) |-> IF k = 0 THEN o ELSE chain[k - 1]]
<1>2. \A k \in 1..(n + 1) : k - 1 \in 0..n /\ c[k] = chain[k - 1] OBVIOUS
<1>3. c \in [0..(n + 1) -> Objects] /\ c[0] = o /\ c[n + 1] = a
  <2>1. \A k \in 0..(n + 1) : k = 0 \/ k - 1 \in 0..n OBVIOUS
  <2>2. n + 1 \in 0..(n + 1) /\ (n + 1) - 1 = n /\ n + 1 # 0 OBVIOUS
  <2> QED BY <1>1, <2>1, <2>2
<1> HIDE DEF c
<1>4. ASSUME NEW k \in 1..(n + 1) PROVE P[c[k - 1]] # None /\ P[c[k - 1]].dir = c[k]
  <2>1. CASE k = 1 BY <1>1, <1>2, <1>3, <2>1
  <2>2. CASE k # 1
    <3>1. k - 1 \in 1..n /\ k - 1 \in 1..(n + 1) BY <2>2
    <3>2. c[k - 1] = chain[(k - 1) - 1] /\ c[k] = chain[k - 1] BY <1>2, <3>1
    <3> QED BY <1>1, <3>1, <3>2
  <2> QED BY <2>1, <2>2
<1> QED BY <1>3, <1>4 DEF AboveIn

(* RemovedGone: what is recorded as removed is gone, or others have moved   *)
(* it, or a directory it is in was moved or left under its hidden name.     *)
(* The object itself is never left under its own.                           *)
THEOREM RemovedIsGone == Spec => []RemovedGone
<1>1. Inv /\ Traces => RemovedGone
  <2> SUFFICES ASSUME Inv, Traces, NEW i \in Installations, NEW p \in Paths,
                      journal[i][p] # None, journal[i][p].cleanup = "removed",
                      Exists(journal[i][p].proof)
               PROVE  \E n \in 0..(Len(p) - 1), a \in Objects :
                         /\ Above(journal[i][p].proof, a, n)
                         /\ a \in moved \/ (n >= 1 /\ ~Visible(a))
    BY Zenon DEF RemovedGone
  <2>1. PICK o \in Objects : o = journal[i][p].proof /\ o # None
    BY DEF Traces, Inv, TypeOK, Claims
  <2>2. place[o] # None BY <2>1 DEF Exists
  <2>3. Seen[o] # None /\ Seen[o].dir = place[o].dir BY <2>2, SeenFacts
  <2>4. Astray(Seen, moved, o, p) BY <2>1, <2>3 DEF Traces, Known, Claimed
  <2>5. \A n, a : AboveIn(place, o, a, n) => Above(o, a, n) BY DEF AboveIn, Above, Exists
  <2>6. CASE o \in moved
    <3> DEFINE c == [k \in 0..0 |-> o]
    <3>1. c \in [0..0 -> Objects] /\ c[0] = o /\ 1..0 = {} OBVIOUS
    <3>2. AboveIn(place, o, o, 0)
      <4> HIDE DEF c
      <4> QED BY <3>1 DEF AboveIn
    <3>3. 0 \in 0..(Len(p) - 1) BY PathFacts
    <3> QED BY <2>1, <2>5, <2>6, <3>2, <3>3
  <2>7. CASE o \notin moved
    <3> DEFINE d == place[o].dir
    <3>1. d \in Objects /\ Front(p) # << >> /\ Lost(Seen, moved, d, Front(p))
      BY <2>3, <2>4, <2>7 DEF Astray
    <3>2. Front(p) \in Routes /\ Len(Front(p)) = Len(p) - 1 BY <3>1, FrontFacts DEF Routes
    <3>3. Lost(place, moved, d, Front(p)) BY <3>1, <3>2, LostSeen
    <3>4. PICK n \in 0..((Len(p) - 1) - 1), a \in Objects :
            AboveIn(place, d, a, n) /\ Displaced(place, moved, a)
      BY <3>2, <3>3 DEF Lost
    <3>5. n \in Nat /\ n + 1 \in 0..(Len(p) - 1) /\ n + 1 >= 1 BY <3>4, PathFacts
    <3>6. AboveIn(place, o, a, n + 1)
      <4>1. place \in Tree BY SeenFacts
      <4> QED BY <2>2, <3>4, <3>5, <4>1, AboveNext
    <3>7. a \in moved \/ ~Visible(a) BY <3>4 DEF Displaced, Visible
    <3> QED BY <2>1, <2>5, <3>5, <3>6, <3>7
  <2> QED BY <2>6, <2>7
<1> QED BY <1>1, InvCorrect, TracesCorrect, PTL

-----------------------------------------------------------------------------
(* Of a removal that nothing but crashes has come in the way of: what is    *)
(* there is where it was from the start, in sight or under its hidden name, *)
(* and only in directories that are in sight.                               *)
Home ==
    \A o \in Objects : place[o] # None =>
        /\ Layout[o] # None /\ place[o].dir = Layout[o].dir
        /\ place[o].name \in {Layout[o].name, Hidden(o)}
        /\ place[o].dir # Root => Visible(place[o].dir)

(* A claim was made of the object that was at its path from the start; if   *)
(* it is recorded as removed, that is gone.                                 *)
Rooted(i, p) ==
    LET c == journal[i][p] IN
    /\ c.proof \in Objects
    /\ ResolvesIn(Layout, p, c.proof) /\ c.parent = Inode[Layout[c.proof].dir]
    /\ c.cleanup = "removed" => place[c.proof] = None

(* What is left in a claimed directory has claims of its own, with longer   *)
(* paths.                                                                   *)
Listed(i, p) ==
    \A o \in Objects : place[o] # None /\ place[o].dir = journal[i][p].proof =>
        \E q \in Paths : /\ journal[i][q] # None /\ journal[i][q].proof = o
                         /\ IsPrefix(p, q) /\ Len(p) < Len(q)

Whole(i, p) == Rooted(i, p) /\ Listed(i, p)

(* The plan is what may be deleted of the installation, the longest paths   *)
(* first.                                                                   *)
Planned ==
    /\ pc \in {"idle", "next"} => path = None
    /\ pc # "idle" =>
        /\ todo \subseteq Deletable(who) /\ Deletable(who) \subseteq todo \cup {path}
        /\ pc \in Locked => path \in Deletable(who) /\ \A q \in todo : Len(q) <= Len(path)

(* The cleaner finds the object where the step before has left it.          *)
Progress ==
    /\ pc \in Working => dir = Layout[claim.proof].dir
    /\ pc = "rename" => place[claim.proof] = Target
    /\ pc \in {"verify", "unlink"} => place[claim.proof] = Aside
    /\ pc # "restore"
    /\ pc = "commit" => fine /\ place[claim.proof] = None

(* InterruptedFinishes is not inductive: no step may fail.  Open needs that *)
(* the parent is there if the object is, Look and Rename that no other      *)
(* object is at its place or under its hidden name, Verify that the         *)
(* directory is empty, Take that preservation has not changed.              *)
Calm ==
    /\ ok /\ Home
    /\ \A i \in Installations, p \in Paths : journal[i][p] # None => Whole(i, p)
    /\ Planned /\ Progress

(* What is in sight is at its first place.                                  *)
LEMMA InSight ==
  ASSUME Inv, Home, NEW o \in Objects, Visible(o)
  PROVE  place[o] = Layout[o] /\ Layout[o] # None
<1>1. /\ Layout[o] # None /\ place[o].dir = Layout[o].dir
      /\ place[o].name \in {Layout[o].name, Hidden(o)} /\ place[o].name \in Names
      /\ place[o] # None
  BY DEF Home, Visible, Exists
<1>2. Hidden(o) \in Inodes BY DEF Hidden, Inodes
<1>3. place[o].name = Layout[o].name BY <1>1, <1>2
<1>4. place[o] \in Places /\ Layout[o] \in Places BY <1>1 DEF Inv, TypeOK
<1> QED BY <1>1, <1>3, <1>4 DEF Places

LEMMA ResolvesHome ==
  ASSUME Inv, Home, NEW p \in Seq(Names), NEW o, ResolvesIn(place, p, o)
  PROVE  ResolvesIn(Layout, p, o)
<1>1. CASE p = << >> BY <1>1 DEF ResolvesIn
<1>2. CASE p # << >>
  <2> DEFINE L == Len(p)
  <2>0. L \in Nat /\ L >= 1 /\ \A k \in 1..L : p[k] \in Names BY <1>2
  <2>1. PICK c \in [1..L -> Objects] :
            /\ c[L] = o
            /\ \A k \in 1..L : place[c[k]] = Entry(IF k = 1 THEN Root ELSE c[k - 1], p[k])
    BY <1>2 DEF ResolvesIn
  <2> HIDE DEF L
  <2>2. ASSUME NEW k \in 1..L PROVE Layout[c[k]] = place[c[k]]
    <3>1. k = 1 \/ k - 1 \in 1..L BY <2>0
    <3>2. PICK e \in Objects \cup {Root} : e = IF k = 1 THEN Root ELSE c[k - 1] BY <2>1, <3>1
    <3>3. place[c[k]] = Entry(e, p[k]) /\ p[k] \in Names /\ c[k] \in Objects BY <2>0, <2>1, <3>2
    <3>4. Visible(c[k]) BY <3>3, EntryPlace DEF Visible, Exists
    <3> QED BY <3>3, <3>4, InSight
  <2> QED BY <1>2, <2>1, <2>2 DEF ResolvesIn, L
<1> QED BY <1>1, <1>2

(* Where the object of a claim is, while nothing else has been in the way.  *)
LEMMA ClaimPlace ==
  ASSUME Inv, Calm, pc \in Locked
  PROVE  LET o == claim.proof IN
         /\ o \in Objects /\ Whole(who, path) /\ Layout[o] # None
         /\ Layout[o].dir \in Dirs \cup {Root}
         /\ Layout[o] = Entry(Layout[o].dir, Last(path))
         /\ Front(path) \in Seq(Names) /\ ResolvesIn(Layout, Front(path), Layout[o].dir)
<1>1. /\ who \in Installations /\ path \in Paths /\ claim.proof \in Objects
  BY ClaimType DEF Inv
<1>2. journal[who][path] # None BY DEF Inv, Knows, Live
<1>3. Whole(who, path) BY <1>1, <1>2 DEF Calm
<1>4. ResolvesIn(Layout, path, claim.proof) BY <1>3 DEF Whole, Rooted, Listed, claim
<1>5. Layout \in Tree BY DEF Tree
<1>6. /\ Layout[claim.proof] \in Places /\ Layout[claim.proof].name = Last(path)
      /\ Layout[claim.proof] = Entry(Layout[claim.proof].dir, Layout[claim.proof].name)
      /\ Front(path) \in Seq(Names)
      /\ ResolvesIn(Layout, Front(path), Layout[claim.proof].dir)
  BY <1>1, <1>4, <1>5, Parent
<1>7. Layout[claim.proof] # None BY <1>6
<1> QED BY <1>1, <1>3, <1>6, <1>7

(* Only the object itself is at its path or under its hidden name.          *)
LEMMA Beside ==
  ASSUME Inv, Calm, pc \in Working
  PROVE  LET o == claim.proof IN
         /\ Target = Layout[o] /\ Target # Aside /\ o \in Objects
         /\ place[o] \in {None, Target, Aside}
         /\ \A x \in Objects : place[x] \in {Target, Aside} => x = o
         /\ AtTarget = {x \in Objects : place[x] = Target}
         /\ AtAside = {x \in Objects : place[x] = Aside}
         /\ Target # None /\ Aside # None /\ Aside \in Places
         /\ Aside.name = Hidden(o) /\ Aside.dir = Layout[o].dir
<1> DEFINE o == claim.proof
<1>1. /\ o \in Objects /\ Layout[o] # None /\ dir = Layout[o].dir
      /\ Layout[o] = Entry(Layout[o].dir, Last(path))
  BY ClaimPlace DEF Calm, Progress
<1>2. /\ Target \in Places /\ Target.name \in Names /\ Aside \in Places /\ Aside.name \in Inodes
      /\ Target # Aside /\ Target # None /\ Aside # None /\ Aside.dir = dir
  BY EntryType DEF Inv
<1>3. /\ Target = Layout[o] /\ Aside = Entry(dir, Hidden(o)) BY <1>1 DEF Target, Aside
<1>4. Aside.name = Hidden(o) BY <1>3 DEF Entry
<1>5. /\ AtTarget = {x \in Objects : place[x] = Target}
      /\ AtAside = {x \in Objects : place[x] = Aside}
  <2>1. Target = Entry(Target.dir, Target.name) /\ Aside = Entry(Aside.dir, Aside.name)
    BY DEF Target, Aside, Entry
  <2> QED BY <2>1 DEF AtTarget, AtAside, At
<1> HIDE DEF o
<1>6. ASSUME NEW x \in Objects, place[x] = Target PROVE x = o
  <2>1. Visible(x) BY <1>2, <1>6 DEF Visible, Exists
  <2>2. Layout[x] = Layout[o] BY <1>3, <1>6, <2>1, InSight DEF Calm
  <2> QED BY <1>1, <2>2
<1>7. ASSUME NEW x \in Objects, place[x] = Aside PROVE x = o
  <2>1. Layout[x] # None /\ Aside.name \in {Layout[x].name, Hidden(x)}
    BY <1>2, <1>7 DEF Calm, Home
  <2>2. Aside.name = Inode[x] BY <1>2, <2>1 DEF Hidden
  <2>3. Inode[x] = Inode[o] BY <1>4, <2>2 DEF Hidden
  <2> QED BY <1>1, <2>1, <2>3
<1>8. place[o] \in {None, Target, Aside}
  <2> SUFFICES ASSUME place[o] # None PROVE place[o] \in {Target, Aside} OBVIOUS
  <2>1. place[o] \in Places /\ place[o].dir = dir /\ place[o].name \in {Layout[o].name, Hidden(o)}
    BY <1>1 DEF Calm, Home, Inv, TypeOK
  <2>2. place[o].name = Target.name \/ place[o].name = Aside.name BY <1>3, <1>4, <2>1
  <2>3. Target.dir = dir BY <1>1, <1>3
  <2> QED BY <1>2, <2>1, <2>2, <2>3 DEF Places
<1> QED BY <1>1, <1>2, <1>3, <1>4, <1>5, <1>6, <1>7, <1>8 DEF o

(* Nothing is left in the directory that is deleted: what was in it has a   *)
(* longer path, and comes before it in the plan.                            *)
LEMMA Childless ==
  ASSUME Inv, Calm, pc \in Locked, NEW o \in Objects, place[o] # None
  PROVE  place[o].dir # claim.proof
<1> SUFFICES ASSUME place[o].dir = claim.proof PROVE FALSE OBVIOUS
<1>1. who \in Installations /\ path \in Paths /\ path \in Deletable(who)
  BY ClaimType DEF Inv, Calm, Planned
<1>2. PICK q \in Paths : /\ journal[who][q] # None /\ journal[who][q].proof = o
                         /\ IsPrefix(path, q) /\ Len(path) < Len(q)
  BY ClaimPlace DEF Whole, Rooted, Listed, claim
<1>3. Live(who, q) BY <1>1, <1>2 DEF Calm, Whole, Rooted, Live
<1>4. ~Preserved(who, path) BY <1>1 DEF Deletable
<1>5. Overlaps(path, q) BY <1>2 DEF Overlaps
<1>6. ~Preserved(who, q)
  <2>1. journal[who][q].exclusive BY <1>1, <1>3, <1>4, <1>5 DEF Preserved
  <2>2. journal[who][q].proof # None BY <1>2
  <2>3. ASSUME NEW j \in Installations, NEW r \in Paths, Live(j, r), Overlaps(q, r),
               j = who => ~journal[j][r].exclusive
        PROVE  FALSE
    <3>1. Overlaps(path, r) BY <1>1, <1>2, <2>3, OverlapsAbove
    <3> QED BY <1>4, <2>3, <3>1 DEF Preserved
  <2> QED BY <2>1, <2>2, <2>3 DEF Preserved
<1>7. q \in todo \cup {path} BY <1>3, <1>6 DEF Calm, Planned, Deletable
<1>8. Len(q) <= Len(path) \/ q = path BY <1>7 DEF Calm, Planned
<1>9. Len(path) \in Nat /\ Len(q) \in Nat BY <1>1, PathFacts
<1> QED BY <1>2, <1>8, <1>9

(* The parent of the object is where the path leads, if it is there; it is, *)
(* if the object is.                                                        *)
LEMMA OneParent ==
  ASSUME Inv, Calm, pc \in Locked, NEW d \in Objects \cup {Root},
         ResolvesIn(place, Front(path), d)
  PROVE  d = Layout[claim.proof].dir
<1>1. /\ Front(path) \in Seq(Names) /\ ResolvesIn(Layout, Front(path), Layout[claim.proof].dir)
      /\ Layout[claim.proof].dir \in Objects \cup {Root}
  BY ClaimPlace
<1>2. ResolvesIn(Layout, Front(path), d) BY <1>1, ResolvesHome DEF Calm
<1>3. Layout \in Tree BY DEF Tree
<1>4. \A o, x \in Objects : Layout[o] # None /\ Layout[o] = Layout[x] => o = x OBVIOUS
<1> QED BY <1>1, <1>2, <1>3, <1>4, OneObject

LEMMA ParentThere ==
  ASSUME Inv, Calm, pc \in Locked, place[claim.proof] # None
  PROVE  ResolvesIn(place, Front(path), Layout[claim.proof].dir)
<1> DEFINE o == claim.proof
           p == Front(path)
           e == Layout[o].dir
           L == Len(p)
<1>1. /\ p \in Seq(Names) /\ ResolvesIn(Layout, p, e) /\ e \in Objects \cup {Root}
      /\ o \in Objects /\ place[o] # None
  BY ClaimPlace
<1>2. e # Root => Visible(e) BY <1>1 DEF Calm, Home
<1>3. CASE p = << >> BY <1>1, <1>3 DEF ResolvesIn
<1>4. CASE p # << >>
  <2>0. L \in Nat /\ L >= 1 BY <1>1, <1>4
  <2> HIDE DEF o, p, e, L
  <2>1. PICK c \in [1..L -> Objects] :
            /\ c[L] = e
            /\ \A k \in 1..L : Layout[c[k]] = Entry(IF k = 1 THEN Root ELSE c[k - 1], p[k])
    BY <1>1, <1>4 DEF ResolvesIn, L
  <2> DEFINE J == {j \in 0..(L - 1) : ~Visible(c[L - j])}
  <2>2. J = {}
    <3> SUFFICES ASSUME J # {} PROVE FALSE OBVIOUS
    <3>1. PICK h \in J : \A j \in J : h <= j
      <4>1. J \in SUBSET Nat BY <2>0
      <4> HIDE DEF J
      <4> QED BY <4>1, Least
    <3>2. h # 0
      <4>1. L - 0 = L /\ L \in 1..L BY <2>0
      <4>2. e \in Objects BY <2>1, <4>1
      <4> QED BY <1>2, <2>1, <3>1, <4>1, <4>2
    <3>3. /\ h - 1 \in 0..(L - 1) /\ ~(h <= h - 1) /\ L - (h - 1) \in 1..L
          /\ L - (h - 1) # 1 /\ (L - (h - 1)) - 1 = L - h /\ L - h \in 1..L
      BY <2>0, <3>1, <3>2
    <3>4. Visible(c[L - (h - 1)]) /\ c[L - (h - 1)] \in Objects BY <2>1, <3>1, <3>3
    <3>5. place[c[L - (h - 1)]] = Entry(c[L - h], p[L - (h - 1)])
      BY <2>1, <3>3, <3>4, InSight DEF Calm
    <3>6. place[c[L - (h - 1)]].dir = c[L - h] BY <3>5 DEF Entry
    <3>7. Visible(c[L - h]) BY <2>1, <3>3, <3>4, <3>6 DEF Calm, Home, Visible, Exists
    <3> QED BY <3>1, <3>7
  <2>3. ASSUME NEW k \in 1..L PROVE place[c[k]] = Layout[c[k]]
    <3>1. L - k \in 0..(L - 1) /\ L - (L - k) = k BY <2>0
    <3>2. Visible(c[k]) BY <2>2, <3>1
    <3> QED BY <2>1, <3>2, InSight DEF Calm
  <2> QED BY <1>4, <2>1, <2>3 DEF ResolvesIn, L, p, e, o
<1> QED BY <1>3, <1>4

LEMMA CalmInit == Init => Calm
<1> SUFFICES ASSUME Init PROVE Calm OBVIOUS
<1>1. Home
  <2> SUFFICES ASSUME NEW o \in Objects, place[o] # None
               PROVE  /\ Layout[o] # None /\ place[o].dir = Layout[o].dir
                      /\ place[o].name \in {Layout[o].name, Hidden(o)}
                      /\ place[o].dir # Root => Visible(place[o].dir)
    BY DEF Home
  <2>1. place = Layout BY DEF Init
  <2>2. place[o].dir # Root => place[o].dir \in Objects /\ Layout[place[o].dir] # None
    BY <2>1, TreeAssumption
  <2>3. place[o].dir # Root => Visible(place[o].dir) BY <2>1, <2>2 DEF Visible, Exists
  <2> QED BY <2>1, <2>3
<1>2. \A i \in Installations, p \in Paths : journal[i][p] = None BY DEF Init
<1> QED BY <1>1, <1>2 DEF Init, Calm, Planned, Progress

(* Objects disappear or stay in the directory they are in.                  *)
LEMMA WholeKept ==
  ASSUME Calm, UNCHANGED journal,
         \A o \in Objects : place'[o] # None => place[o] # None /\ place'[o].dir = place[o].dir
  PROVE  \A i \in Installations, p \in Paths : journal'[i][p] # None => Whole(i, p)'
<1> SUFFICES ASSUME NEW i \in Installations, NEW p \in Paths, journal[i][p] # None
             PROVE  Whole(i, p)'
  OBVIOUS
<1>1. Whole(i, p) BY DEF Calm
<1> QED BY <1>1 DEF Whole, Rooted, Listed

(* The tree and the journal are as before.                                  *)
LEMMA CalmSame ==
  ASSUME Inv, Calm, UNCHANGED <<place, journal>>, ok', Planned', Progress'
  PROVE  Calm'
<1>1. Home' BY DEF Calm, Home, Visible, Exists
<1>2. \A i \in Installations, p \in Paths : journal'[i][p] # None => Whole(i, p)'
  BY WholeKept
<1> QED BY <1>1, <1>2 DEF Calm

LEMMA DeletableKept ==
  ASSUME UNCHANGED <<journal, who>>
  PROVE  Deletable(who)' = Deletable(who)
BY DEF Deletable, Live, Preserved

LEMMA CalmRun ==
  ASSUME Inv, Calm,
         \/ \E i \in Installations : Begin(i)
         \/ \E p \in Paths : Take(p)
         \/ Finish \/ Crash
  PROVE  Calm'
<1>1. ASSUME NEW i \in Installations, Begin(i) PROVE Calm'
  <2>1. Deletable(i)' = Deletable(i) BY <1>1 DEF Begin, Deletable, Live, Preserved
  <2>2. Planned'
    <3>1. path' = None BY <1>1 DEF Begin, Calm, Planned
    <3> QED BY <1>1, <2>1, <3>1 DEF Begin, Planned
  <2>3. Progress' BY <1>1 DEF Begin, Progress
  <2> QED BY <1>1, <2>2, <2>3, CalmSame DEF Begin
<1>2. ASSUME NEW p \in Paths, Take(p) PROVE Calm'
  <2>1. UNCHANGED <<place, journal, who>> /\ pc = "next" /\ p \in todo
        /\ todo' = todo \ {p} /\ \A q \in todo : Len(q) <= Len(p)
    BY <1>2 DEF Take, First
  <2>2. Deletable(who)' = Deletable(who) BY <2>1, DeletableKept
  <2>3. Deletable(who) = todo /\ ~Preserved(who, p)
    BY <2>1 DEF Calm, Planned, Deletable
  <2>4. pc' = "open" /\ path' = p /\ ok' = ok BY <1>2, <2>3 DEF Take
  <2>5. Planned' BY <2>1, <2>2, <2>3, <2>4 DEF Planned
  <2>6. Progress' BY <2>4 DEF Progress
  <2> QED BY <2>1, <2>4, <2>5, <2>6, CalmSame DEF Calm
<1>3. ASSUME Finish \/ Crash PROVE Calm'
  <2>1. pc' = "idle" /\ path' = None /\ ok' /\ UNCHANGED <<place, journal>> BY <1>3 DEF Finish, Crash, Calm
  <2>2. Planned' /\ Progress' BY <2>1 DEF Planned, Progress
  <2> QED BY <2>1, <2>2, CalmSame
<1> QED BY <1>1, <1>2, <1>3

(* The plan stays, while the cleaner works on a path.                       *)
LEMMA PlannedKept ==
  ASSUME Inv, Calm, UNCHANGED <<journal, who, path, todo>>, pc \in Locked, pc' \in Locked
  PROVE  Planned'
<1>1. Deletable(who)' = Deletable(who) BY DeletableKept
<1>2. pc # "idle" /\ pc' # "idle" /\ pc' # "next" OBVIOUS
<1> QED BY <1>1, <1>2 DEF Calm, Planned

LEMMA CalmOpen ==
  ASSUME Inv, Calm, Open
  PROVE  Calm'
<1>1. /\ UNCHANGED <<place, journal, who, path, todo, ok, claim>>
      /\ pc = "open"
  BY DEF Open, claim
<1> DEFINE d == Layout[claim.proof].dir
<1>2. /\ d \in Dirs \cup {Root} /\ claim.proof \in Objects /\ claim.parent = Inode[d]
      /\ Front(path) \in Seq(Names)
  BY <1>1, ClaimPlace DEF Whole, Rooted, claim
<1>3. \A e \in Objects \cup {Root} : Resolves(Front(path), e) => e = d
  <2> SUFFICES ASSUME NEW e \in Objects \cup {Root}, Resolves(Front(path), e) PROVE e = d
    OBVIOUS
  <2>1. ResolvesIn(place, Front(path), e) BY DEF Resolves, ResolvesIn
  <2> QED BY <1>1, <2>1, OneParent
<1>4. place[claim.proof] # None => Resolves(Front(path), d)
  <2> SUFFICES ASSUME place[claim.proof] # None PROVE Resolves(Front(path), d) OBVIOUS
  <2>1. ResolvesIn(place, Front(path), d) BY <1>1, ParentThere
  <2> QED BY <2>1 DEF Resolves, ResolvesIn
<1> HIDE DEF d
<1>5. \/ pc' = "commit" /\ fine' /\ place[claim.proof] = None
      \/ pc' = "look" /\ dir' = d
  BY <1>2, <1>3, <1>4 DEF Open
<1>6. Progress' BY <1>1, <1>5 DEF Progress, d
<1>7. Planned' BY <1>1, <1>5, PlannedKept
<1> QED BY <1>1, <1>6, <1>7, CalmSame DEF Calm

LEMMA CalmLook ==
  ASSUME Inv, Calm, Look
  PROVE  Calm'
<1>1. /\ UNCHANGED <<place, journal, who, path, todo, ok, dir, claim, Target, Aside>>
      /\ pc = "look"
  BY DEF Look, claim, Target, Aside
<1> DEFINE o == claim.proof
<1>2. /\ o \in Objects /\ Target # Aside /\ Target # None /\ Aside # None
      /\ place[o] \in {None, Target, Aside}
      /\ \A x \in Objects : place[x] \in {Target, Aside} => x = o
      /\ AtTarget = {x \in Objects : place[x] = Target}
      /\ AtAside = {x \in Objects : place[x] = Aside}
  BY <1>1, Beside
<1> HIDE DEF o
<1>3. \/ pc' = "commit" /\ fine' /\ place[o] = None
      \/ pc' = "unlink" /\ place[o] = Aside
      \/ pc' = "rename" /\ place[o] = Target
  <2>1. CASE place[o] = None
    <3>1. AtTarget = {} /\ AtAside = {} BY <1>2, <2>1
    <3> QED BY <2>1, <3>1 DEF Look
  <2>2. CASE place[o] = Target
    <3>1. AtTarget = {o} /\ AtAside = {} BY <1>2, <2>2
    <3> QED BY <2>2, <3>1 DEF Look, Matches, o
  <2>3. CASE place[o] = Aside
    <3>1. AtTarget = {} /\ AtAside = {o} BY <1>2, <2>3
    <3> QED BY <2>3, <3>1 DEF Look, Matches, o
  <2> QED BY <1>2, <2>1, <2>2, <2>3
<1>4. dir = Layout[claim.proof].dir BY <1>1 DEF Calm, Progress
<1>5. Progress' BY <1>1, <1>3, <1>4 DEF Progress, o
<1>6. Planned' BY <1>1, <1>3, PlannedKept
<1> QED BY <1>1, <1>5, <1>6, CalmSame DEF Calm

LEMMA CalmVerify ==
  ASSUME Inv, Calm, Verify
  PROVE  Calm'
<1>1. /\ UNCHANGED <<place, journal, who, path, todo, ok, dir, claim, Target, Aside>>
      /\ pc = "verify"
  BY DEF Verify, claim, Target, Aside
<1>2. place[claim.proof] = Aside /\ dir = Layout[claim.proof].dir
  BY <1>1 DEF Calm, Progress
<1>3. AtAside = {claim.proof} BY <1>1, <1>2, Beside
<1>4. Empty(claim.proof) BY <1>1, Childless DEF Empty, Exists
<1>5. pc' = "unlink" BY <1>3, <1>4 DEF Verify, Matches
<1>6. Progress' BY <1>1, <1>2, <1>5 DEF Progress
<1>7. Planned' BY <1>1, <1>5, PlannedKept
<1> QED BY <1>1, <1>6, <1>7, CalmSame DEF Calm

LEMMA CalmRename ==
  ASSUME Inv, Calm, Rename
  PROVE  Calm'
<1>1. /\ UNCHANGED <<journal, who, path, todo, ok, dir, claim, Target, Aside>>
      /\ pc = "rename"
  BY DEF Rename, claim, Target, Aside
<1> DEFINE o == claim.proof
<1>2. place[o] = Target /\ dir = Layout[o].dir BY <1>1 DEF Calm, Progress
<1>3. /\ o \in Objects /\ Target # Aside /\ Target # None /\ Target = Layout[o]
      /\ AtTarget = {o} /\ AtAside = {}
      /\ Aside # None /\ Aside.dir = Layout[o].dir /\ Aside.name = Hidden(o)
  BY <1>1, <1>2, Beside
<1>4. place' = [place EXCEPT ![o] = Aside] /\ pc' = "verify" BY <1>3 DEF Rename
<1>5. \A x \in Objects : place[x] # None => place[x].dir # o BY <1>1, Childless
<1> HIDE DEF o
<1>6. /\ \A x \in Objects : x # o => place'[x] = place[x]
      /\ place'[o] = Aside
  BY <1>3, <1>4 DEF Inv, TypeOK
<1>7. Home'
  <2> SUFFICES ASSUME NEW x \in Objects, place'[x] # None
               PROVE  /\ Layout[x] # None /\ place'[x].dir = Layout[x].dir
                      /\ place'[x].name \in {Layout[x].name, Hidden(x)}
                      /\ place'[x].dir # Root => /\ place'[place'[x].dir] # None
                                              /\ place'[place'[x].dir].name \in Names
    BY DEF Home, Hidden, Visible, Exists
  <2>1. place[x] # None /\ place'[x].dir = place[x].dir BY <1>2, <1>3, <1>6
  <2>2. place[x].dir # o BY <1>5, <2>1
  <2>3. place'[x].dir # Root => /\ place'[place'[x].dir] # None
                               /\ place'[place'[x].dir].name \in Names
    <3>1. place[x].dir # Root => Visible(place[x].dir) /\ place[x].dir \in Objects
      BY <2>1 DEF Calm, Home
    <3> QED BY <1>6, <2>1, <2>2, <3>1 DEF Visible, Exists
  <2>4. Layout[x] # None /\ place'[x].dir = Layout[x].dir BY <2>1 DEF Calm, Home
  <2>5. place'[x].name \in {Layout[x].name, Hidden(x)}
    <3>1. CASE x = o BY <1>3, <1>6, <3>1
    <3>2. CASE x # o BY <1>6, <2>1, <3>2 DEF Calm, Home
    <3> QED BY <3>1, <3>2
  <2> QED BY <2>3, <2>4, <2>5
<1>8. \A i \in Installations, p \in Paths : journal'[i][p] # None => Whole(i, p)'
  <2>1. \A x \in Objects : place'[x] # None => place[x] # None /\ place'[x].dir = place[x].dir
    BY <1>2, <1>3, <1>6
  <2> QED BY <1>1, <2>1, WholeKept
<1>9. Progress' BY <1>1, <1>2, <1>4, <1>6 DEF Progress, o
<1>10. Planned' BY <1>1, <1>4, PlannedKept
<1> QED BY <1>1, <1>7, <1>8, <1>9, <1>10 DEF Calm

LEMMA CalmUnlink ==
  ASSUME Inv, Calm, Unlink
  PROVE  Calm'
<1>1. /\ UNCHANGED <<journal, who, path, todo, ok, dir, claim>>
      /\ pc = "unlink"
  BY DEF Unlink, claim
<1> DEFINE o == claim.proof
<1>2. place[o] = Aside BY <1>1 DEF Calm, Progress
<1>3. /\ o \in Objects /\ AtAside = {o}
  BY <1>1, <1>2, Beside
<1>5. \A x \in Objects : place[x] # None => place[x].dir # o BY <1>1, Childless
<1> HIDE DEF o
<1>4. place' = [place EXCEPT ![o] = None] /\ pc' = "commit" /\ fine'
  BY <1>3, <1>5 DEF Unlink, Empty, Exists
<1>6. /\ \A x \in Objects : x # o => place'[x] = place[x]
      /\ place'[o] = None
  BY <1>3, <1>4 DEF Inv, TypeOK
<1>7. Home'
  <2> SUFFICES ASSUME NEW x \in Objects, place'[x] # None
               PROVE  /\ Layout[x] # None /\ place'[x].dir = Layout[x].dir
                      /\ place'[x].name \in {Layout[x].name, Hidden(x)}
                      /\ place'[x].dir # Root => /\ place'[place'[x].dir] # None
                                              /\ place'[place'[x].dir].name \in Names
    BY DEF Home, Hidden, Visible, Exists
  <2>1. place[x] # None /\ place'[x] = place[x] BY <1>6
  <2>2. place[x].dir # o BY <1>5, <2>1
  <2>3. place[x].dir # Root => Visible(place[x].dir) /\ place[x].dir \in Objects
    BY <2>1 DEF Calm, Home
  <2>4. place'[x].dir # Root => /\ place'[place'[x].dir] # None
                               /\ place'[place'[x].dir].name \in Names
    BY <1>6, <2>1, <2>2, <2>3 DEF Visible, Exists
  <2> QED BY <2>1, <2>4 DEF Calm, Home
<1>8. \A i \in Installations, p \in Paths : journal'[i][p] # None => Whole(i, p)'
  BY <1>1, <1>6, WholeKept
<1>9. Progress' BY <1>1, <1>4, <1>6 DEF Progress, o
<1>10. Planned' BY <1>1, <1>4, PlannedKept
<1> QED BY <1>1, <1>7, <1>8, <1>9, <1>10 DEF Calm

LEMMA CalmCommit ==
  ASSUME Inv, Calm, Commit
  PROVE  Calm'
<1>1. /\ UNCHANGED <<place, who, todo>> /\ pc = "commit" /\ pc' = "next" /\ path' = None
      /\ fine /\ place[claim.proof] = None /\ ok'
      /\ journal' = [journal EXCEPT ![who][path].cleanup = "removed"]
  BY DEF Commit, Calm, Progress
<1>2. /\ who \in Installations /\ path \in Paths /\ claim \in Claims
      /\ claim = journal[who][path] /\ claim # None /\ path \in Deletable(who) /\ path \notin todo
  BY <1>1, ClaimType DEF Inv, Knows, claim, Live, Calm, Planned
<1>3. ASSUME NEW i \in Installations, NEW p \in Paths
      PROVE  /\ journal'[i][p] # None <=> journal[i][p] # None
             /\ journal'[i][p] # None =>
                  /\ journal'[i][p].proof = journal[i][p].proof
                  /\ journal'[i][p].parent = journal[i][p].parent
                  /\ journal'[i][p].exclusive = journal[i][p].exclusive
                  /\ journal'[i][p].cleanup =
                        IF i = who /\ p = path THEN "removed" ELSE journal[i][p].cleanup
  <2>1. journal \in [Installations -> [Paths -> Claims \cup {None}]] BY DEF Inv, TypeOK
  <2>2. CASE i # who \/ p # path
    <3>1. journal'[i][p] = journal[i][p] BY <1>1, <1>2, <2>1, <2>2
    <3> QED BY <2>2, <3>1
  <2>3. CASE i = who /\ p = path
    <3> DEFINE c == [claim EXCEPT !.cleanup = "removed"]
    <3>1. journal'[i][p] = c BY <1>1, <1>2, <2>1, <2>3
    <3>2. c \in Claims BY <1>2 DEF Claims, States
    <3>3. /\ c.cleanup = "removed" /\ c.proof = claim.proof /\ c.parent = claim.parent
          /\ c.exclusive = claim.exclusive
      BY <1>2 DEF Claims
    <3>4. c # None BY <3>2
    <3> HIDE DEF c
    <3> QED BY <1>2, <2>3, <3>1, <3>3, <3>4
  <2> QED BY <2>2, <2>3
<1>4. ASSUME NEW i \in Installations, NEW p \in Paths, journal'[i][p] # None PROVE Whole(i, p)'
  <2>1. Whole(i, p) BY <1>3, <1>4 DEF Calm
  <2>2. journal'[i][p].cleanup = "removed" => place[journal'[i][p].proof] = None
    BY <1>1, <1>2, <1>3, <1>4, <2>1 DEF Whole, Rooted
  <2>3. ASSUME NEW o \in Objects, place[o] # None, place[o].dir = journal'[i][p].proof
        PROVE  \E q \in Paths : /\ journal'[i][q] # None /\ journal'[i][q].proof = o
                                /\ IsPrefix(p, q) /\ Len(p) < Len(q)
    <3>1. PICK q \in Paths : /\ journal[i][q] # None /\ journal[i][q].proof = o
                             /\ IsPrefix(p, q) /\ Len(p) < Len(q)
      BY <1>3, <1>4, <2>1, <2>3 DEF Whole, Listed
    <3> QED BY <1>3, <3>1
  <2>4. Rooted(i, p)'
    <3>1. /\ journal'[i][p].proof = journal[i][p].proof
          /\ journal'[i][p].parent = journal[i][p].parent
      BY <1>3, <1>4
    <3>2. /\ journal[i][p].proof \in Objects /\ ResolvesIn(Layout, p, journal[i][p].proof)
          /\ journal[i][p].parent = Inode[Layout[journal[i][p].proof].dir]
      BY <2>1 DEF Whole, Rooted
    <3> QED BY <1>1, <2>2, <3>1, <3>2 DEF Rooted
  <2>5. Listed(i, p)' BY <1>1, <2>3 DEF Listed
  <2> QED BY <2>4, <2>5 DEF Whole
<1>5. \A i \in Installations, p \in Paths :
         Live(i, p)' <=> Live(i, p) /\ ~(i = who /\ p = path)
  BY <1>3 DEF Live
<1>6. ASSUME NEW p \in Paths, journal[who][p] # None
      PROVE  Preserved(who, p)' <=> Preserved(who, p)
  <2>1. journal[who][path].exclusive BY <1>2 DEF Deletable, Preserved
  <2>2. \A j \in Installations, q \in Paths :
           Live(j, q)' /\ Overlaps(p, q) /\ (j = who => ~journal'[j][q].exclusive)
             <=> Live(j, q) /\ Overlaps(p, q) /\ (j = who => ~journal[j][q].exclusive)
    BY <1>2, <1>3, <1>5, <2>1 DEF Live
  <2>3. /\ journal'[who][p].exclusive = journal[who][p].exclusive
        /\ journal'[who][p].proof = journal[who][p].proof
    BY <1>2, <1>3, <1>6
  <2> QED BY <1>1, <2>2, <2>3 DEF Preserved
<1>7. Deletable(who)' = Deletable(who) \ {path}
  BY <1>1, <1>2, <1>5, <1>6 DEF Deletable, Live
<1>8. todo \subseteq Deletable(who) /\ Deletable(who) \subseteq todo \cup {path}
  BY <1>1 DEF Calm, Planned
<1>9. Planned' BY <1>1, <1>2, <1>7, <1>8 DEF Planned
<1>10. Home' BY <1>1 DEF Calm, Home, Visible, Exists
<1>11. Progress' BY <1>1 DEF Progress
<1> QED BY <1>1, <1>4, <1>9, <1>10, <1>11 DEF Calm

LEMMA CalmRecord ==
  ASSUME Inv, Calm, NEW i \in Installations, Record(i), ~disturbed'
  PROVE  Calm'
<1>1. PICK P \in SUBSET Paths, X \in SUBSET Paths, born \in BOOLEAN :
          /\ P # {} /\ X \subseteq P /\ \A p \in P : \E o \in Objects : Resolves(p, o)
          /\ journal' = [journal EXCEPT ![i] =
                [p \in Paths |-> IF p \in P THEN Claim(p, born, p \in X) ELSE None]]
          /\ disturbed' = (disturbed \/ pc # "idle" \/ ~Tidy(P, born))
  BY Zenon DEF Record
<1>2. UNCHANGED <<place, pc, path, ok>> /\ pc = "idle" /\ Tidy(P, born) /\ born
  BY <1>1 DEF Record, Tidy
<1>3. /\ journal \in [Installations -> [Paths -> Claims \cup {None}]] /\ place \in Tree
      /\ \A o, x \in Objects : place[o] # None /\ place[o] = place[x] => o = x
  BY DEF Inv, TypeOK, Tree, OnePerPlace, Exists
<1>4. ASSUME NEW j \in Installations, NEW p \in Paths, j # i PROVE journal'[j][p] = journal[j][p]
  BY <1>1, <1>3, <1>4
<1>5. ASSUME NEW p \in Paths
      PROVE  /\ journal'[i][p] # None => p \in P
             /\ p \in P => /\ journal'[i][p] # None
                           /\ journal'[i][p].proof = Object(p)
                           /\ journal'[i][p].parent = Inode[place[Object(p)].dir]
                           /\ journal'[i][p].cleanup = "pending"
  <2>1. journal'[i][p] = IF p \in P THEN Claim(p, born, p \in X) ELSE None BY <1>1, <1>3
  <2>2. journal'[i][p] \in Claims \cup {None}
    <3>1. journal' \in [Installations -> [Paths -> Claims \cup {None}]]
      BY RecordStep DEF Inv, TypeOK
    <3> QED BY <3>1
  <2>3. ASSUME p \in P PROVE Claim(p, born, p \in X) # None
    <3>1. Object(p) \in Objects /\ Resolves(p, Object(p)) BY <1>1, <2>3 DEF Object
    <3>2. place[Object(p)].dir \in Objects \cup {Root}
      BY <1>3, <3>1, ResolvesPlace, Parent
    <3>3. Claim(p, born, p \in X) \in Claims
      BY <3>1, <3>2 DEF Claim, Claims, States, Inodes
    <3> QED BY <3>3
  <2> QED BY <1>2, <2>1, <2>3 DEF Claim
<1>6. ASSUME NEW p \in P
      PROVE  /\ Object(p) \in Objects /\ ResolvesIn(place, p, Object(p))
             /\ ResolvesIn(Layout, p, Object(p))
             /\ place[Object(p)].dir = Layout[Object(p)].dir
  <2>1. Object(p) \in Objects /\ Resolves(p, Object(p)) BY <1>1 DEF Object
  <2>2. ResolvesIn(place, p, Object(p)) BY <2>1, ResolvesPlace
  <2>3. p \in Seq(Names) BY PathFacts
  <2>4. ResolvesIn(Layout, p, Object(p)) BY <2>2, <2>3, ResolvesHome DEF Calm
  <2>5. place[Object(p)] # None BY <1>3, <2>1, <2>2, Parent
  <2> QED BY <2>1, <2>2, <2>4, <2>5 DEF Calm, Home
<1>7. ASSUME NEW p \in P, NEW o \in Objects, place[o] # None, place[o].dir = Object(p)
      PROVE  \E q \in Paths : /\ journal'[i][q] # None /\ journal'[i][q].proof = o
                              /\ IsPrefix(p, q) /\ Len(p) < Len(q)
  <2>1. Object(p) \in Objects /\ Resolves(p, Object(p)) BY <1>6, ResolvesPlace
  <2>2. PICK q \in P : Resolves(q, o) BY <1>2, <1>7, <2>1 DEF Tidy, Exists
  <2>3. ResolvesIn(place, q, o) /\ q \in Seq(Names) BY <2>2, ResolvesPlace, PathFacts
  <2>4. Object(q) = o BY <1>3, <1>6, <2>3, OneObject
  <2>5. Front(q) \in Seq(Names) /\ ResolvesIn(place, Front(q), Object(p))
    BY <1>3, <1>7, <2>3, Parent
  <2>6. p = Front(q) BY <1>3, <1>6, <2>1, <2>5, OnePath, PathsAreRoutes
  <2>7. IsPrefix(p, q) /\ Len(p) < Len(q)
    <3>1. /\ p \in Seq(Names) /\ Len(q) \in Nat /\ Len(q) >= 1 BY PathFacts
    <3>2. Len(Front(q)) = Len(q) - 1 /\ \A k \in 1..(Len(q) - 1) : Front(q)[k] = q[k]
      BY FrontFacts
    <3> QED BY <2>3, <2>6, <3>1, <3>2, Prefix
  <2> QED BY <1>5, <2>2, <2>4, <2>7
<1>8. ASSUME NEW j \in Installations, NEW p \in Paths, journal'[j][p] # None PROVE Whole(j, p)'
  <2>1. CASE j # i
    <3>1. Whole(j, p) BY <1>4, <1>8, <2>1 DEF Calm
    <3>2. \A q \in Paths : journal'[j][q] = journal[j][q] BY <1>4, <2>1
    <3>3. Rooted(j, p)' BY <1>2, <3>1, <3>2 DEF Whole, Rooted
    <3>4. Listed(j, p)' BY <1>2, <3>1, <3>2 DEF Whole, Listed
    <3> QED BY <3>3, <3>4 DEF Whole
  <2>2. CASE j = i
    <3>1. p \in P BY <1>5, <1>8, <2>2
    <3>2. /\ journal'[j][p].proof = Object(p)
          /\ journal'[j][p].parent = Inode[place[Object(p)].dir]
          /\ journal'[j][p].cleanup # "removed"
      BY <1>5, <2>2, <3>1
    <3>3. Rooted(j, p)' BY <1>2, <1>6, <3>1, <3>2 DEF Rooted
    <3>4. Listed(j, p)' BY <1>2, <1>7, <2>2, <3>1, <3>2 DEF Listed
    <3> QED BY <3>3, <3>4 DEF Whole
  <2> QED BY <2>1, <2>2
<1>9. Home' BY <1>2 DEF Calm, Home, Visible, Exists
<1>10. Planned' /\ Progress' BY <1>2 DEF Calm, Planned, Progress
<1> QED BY <1>2, <1>8, <1>9, <1>10 DEF Calm

LEMMA CalmNext == Inv /\ (disturbed \/ Calm) /\ [Next]_vars => disturbed' \/ Calm'
<1> SUFFICES ASSUME Inv, disturbed \/ Calm, [Next]_vars, ~disturbed' PROVE Calm' OBVIOUS
<1>0. ~disturbed
  BY DEF Next, Removal, Create, Move, Delete, Edit, Record, Begin, Take, Open, Look, Rename,
         Verify, Restore, Unlink, Fail, Commit, Abort, Finish, Crash
<1>1. CASE UNCHANGED vars
  <2>1. UNCHANGED <<claim, Target, Aside>> BY <1>1 DEF claim, Target, Aside
  <2>2. Deletable(who)' = Deletable(who) BY <1>1, DeletableKept
  <2>3. Planned' BY <1>0, <1>1, <2>2 DEF Calm, Planned
  <2>4. Progress' BY <1>0, <1>1, <2>1 DEF Calm, Progress
  <2> QED BY <1>0, <1>1, <2>3, <2>4, CalmSame DEF Calm
<1>2. CASE Next
  <2>1. ~Restore BY <1>0 DEF Calm, Progress, Restore
  <2>2. ~Fail /\ ~Abort BY DEF Fail, Abort
  <2>3. ~ \E o \in Objects, e \in Places : Create(o, e) \/ Move(o, e) BY DEF Create, Move, Edit
  <2>4. ~ \E o \in Objects : Delete(o) BY DEF Delete, Edit
  <2> QED
    BY <1>0, <1>2, <2>1, <2>2, <2>3, <2>4, CalmRecord, CalmRun, CalmOpen, CalmLook, CalmRename,
       CalmVerify, CalmUnlink, CalmCommit
    DEF Next, Removal
<1> QED BY <1>1, <1>2

(* InterruptedFinishes: a removal that only crashes have come in the way of *)
(* reports no failure, however often it is begun again.                     *)
THEOREM RetriesFinish == Spec => []InterruptedFinishes
<1>1. Init => disturbed \/ Calm BY CalmInit
<1>2. (disturbed \/ Calm) => InterruptedFinishes BY DEF Calm, InterruptedFinishes
<1>3. Spec => [](disturbed \/ Calm) BY <1>1, CalmNext, InvCorrect, PTL DEF Spec
<1> QED BY <1>2, <1>3, PTL
=============================================================================
