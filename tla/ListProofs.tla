----------------------------- MODULE ListProofs ----------------------------
(***************************************************************************)
(* Lemmas about numbers, lists and loops that the proofs about several     *)
(* components rest on: induction, what a fold over a list goes through,    *)
(* what a list holds and how often after an element is put in or taken     *)
(* out, and what a stack of loops holds.                                   *)
(***************************************************************************)
EXTENDS LoopStack, Integers, SequencesExt, FiniteSetTheorems, TLAPS

-----------------------------------------------------------------------------
(* Induction over the naturals.  The library's theorem speaks of all       *)
(* predicates; this one speaks of all sets.  It holds because no finite    *)
(* set is mapped into itself one to one and not onto.                      *)

LEMMA NoDescent ==
  ASSUME NEW T \in SUBSET Nat, NEW n \in T, \A k \in T : k # 0 /\ k - 1 \in T
  PROVE  FALSE
<1> DEFINE U == {k \in T : k <= n}
           f == [k \in U |-> k - 1]
<1>1. /\ U \in SUBSET Nat /\ n \in U
      /\ \A k \in U : k \in Nat /\ k <= n /\ k - 1 \in U
  <2>1. n \in Nat /\ \A k \in T : k \in Nat
    OBVIOUS
  <2>2. ASSUME NEW k \in U PROVE k \in Nat /\ k <= n /\ k - 1 \in T /\ k - 1 <= n
    <3>1. k \in T /\ k <= n
      OBVIOUS
    <3>2. k \in Nat /\ n \in Nat /\ k - 1 \in T
      BY <2>1, <3>1
    <3> HIDE DEF U
    <3> QED
      BY <3>1, <3>2
  <2>3. n \in U /\ U \in SUBSET Nat
    <3>1. n <= n
      BY <2>1
    <3> QED
      BY <2>1, <3>1, Zenon
  <2>4. \A k \in T : k <= n => k \in U
    OBVIOUS
  <2> HIDE DEF U
  <2> QED
    BY <2>2, <2>3, <2>4
<1>2. IsFiniteSet(U)
  BY <1>1, FS_BoundedSetOfNaturals
<1>3. f \in [U -> U] /\ \A j, k \in U : f[j] = f[k] => j = k
  BY <1>1
<1> HIDE DEF f
<1>4. f \in Injection(U, U)
  BY <1>3 DEF Injection, IsInjective
<1>5. f \in Surjection(U, U)
  BY <1>2, <1>4, FS_Injection
<1>6. \E k \in U : f[k] = n
  BY <1>1, <1>5 DEF Surjection
<1> QED
  BY <1>1, <1>6 DEF f

LEMMA SetInduction ==
  ASSUME NEW S, 0 \in S, \A n \in Nat : n \in S => n + 1 \in S
  PROVE  \A n \in Nat : n \in S
<1> SUFFICES ASSUME NEW n \in Nat, n \notin S PROVE FALSE
  OBVIOUS
<1> DEFINE T == {k \in Nat : k \notin S}
<1>1. ASSUME NEW k \in T PROVE k # 0 /\ k - 1 \in T
  <2>1. k # 0 /\ k - 1 \in Nat /\ (k - 1) + 1 = k
    OBVIOUS
  <2> QED
    BY <2>1
<1>2. n \in T
  OBVIOUS
<1>3. T \in SUBSET Nat
  OBVIOUS
<1> HIDE DEF T
<1> QED
  BY <1>1, <1>2, <1>3, NoDescent

(* Min picks the least of a set of naturals.                               *)
LEMMA LeastNumber ==
  ASSUME NEW T \in SUBSET Nat, T # {}
  PROVE  Min(T) \in T /\ \A k \in T : Min(T) <= k
<1> SUFFICES \E m \in T : \A k \in T : m <= k
  BY DEF Min
<1> SUFFICES ASSUME \A m \in T : \E k \in T : k < m PROVE FALSE
  OBVIOUS
<1> DEFINE S == {n \in Nat : \A k \in T : n <= k}
<1>1. 0 \in S
  OBVIOUS
<1>2. ASSUME NEW n \in Nat, n \in S PROVE n + 1 \in S
  <2>1. n \notin T
    BY <1>2
  <2>2. \A k \in T : n <= k /\ k # n /\ k \in Nat
    BY <1>2, <2>1
  <2> QED
    BY <2>2
<1>3. \A n \in Nat : n \in S
  <2> HIDE DEF S
  <2> QED
    BY <1>1, <1>2, SetInduction
<1>4. PICK k \in T : TRUE
  OBVIOUS
<1>5. k \in Nat /\ k + 1 \in S
  BY <1>3
<1> QED
  BY <1>5

LEMMA GreatestUpTo ==
  ASSUME NEW n \in Nat, NEW s \in SUBSET (1 .. n + 1), n + 1 \in s
  PROVE  Max(s) = n + 1
<1>1. \A k \in s : n + 1 >= k /\ k \in Int
  OBVIOUS
<1>2. \A x \in s : (\A k \in s : x >= k) <=> x = n + 1
  BY <1>1
<1> QED
  BY <1>2 DEF Max

LEMMA GreatestIn ==
  ASSUME NEW n \in Nat, NEW s \in SUBSET (1 .. n), s # {}
  PROVE  Max(s) \in s
<1> DEFINE S == {k \in Nat : \A t \in SUBSET (1 .. k) : t # {} => Max(t) \in t}
<1>1. 0 \in S
  <2>1. \A t \in SUBSET (1 .. 0) : t = {}
    OBVIOUS
  <2> QED
    BY <2>1
<1>2. ASSUME NEW k \in Nat, k \in S PROVE k + 1 \in S
  <2> SUFFICES ASSUME NEW t \in SUBSET (1 .. k + 1), t # {} PROVE Max(t) \in t
    OBVIOUS
  <2>1. CASE k + 1 \in t
    BY <2>1, GreatestUpTo
  <2>2. CASE k + 1 \notin t
    <3>1. 1 .. k + 1 = (1 .. k) \cup {k + 1}
      OBVIOUS
    <3>2. t \in SUBSET (1 .. k)
      BY <2>2, <3>1
    <3> QED
      BY <1>2, <3>2
  <2> QED
    BY <2>1, <2>2
<1>3. n \in S => Max(s) \in s
  OBVIOUS
<1> HIDE DEF S
<1> QED
  BY <1>1, <1>2, <1>3, SetInduction

LEMMA LastPlace ==
  ASSUME NEW n \in Nat, NEW k \in 1 .. n
  PROVE  /\ 1 .. k \in SUBSET (1 .. n) /\ 1 .. k # {}
         /\ Max(1 .. k) = k /\ (1 .. k) \ {Max(1 .. k)} = 1 .. k - 1
<1>1. k - 1 \in Nat /\ (k - 1) + 1 = k /\ k \in 1 .. k
  OBVIOUS
<1>2. Max(1 .. k) = k
  BY <1>1, GreatestUpTo
<1> QED
  BY <1>2

(* What a fold over a list of length n computes exists: the definition of  *)
(* the fold picks a function on the sets of places that takes b through    *)
(* the places in order, f being one turn.                                  *)
Folds(g, b, f, n) ==
  \A s \in SUBSET (1 .. n) :
    g[s] = IF s = {} THEN b ELSE f[<<g[s \ {Max(s)}], Max(s)>>]

LEMMA FoldExists ==
  ASSUME NEW R, NEW b \in R, NEW n \in Nat, NEW f \in [R \X (1 .. n) -> R]
  PROVE  \E g \in [SUBSET (1 .. n) -> R] : Folds(g, b, f, n)
<1> DEFINE Turns(g, k) ==
             g = [s \in SUBSET (1 .. k) |->
                    IF s = {} THEN b ELSE f[<<g[s \ {Max(s)}], Max(s)>>]]
           S == {k \in Nat : k <= n => \E g \in [SUBSET (1 .. k) -> R] : Turns(g, k)}
<1>1. 0 \in S
  <2> DEFINE g == [s \in SUBSET (1 .. 0) |-> b]
  <2>1. \A s \in SUBSET (1 .. 0) : s = {}
    OBVIOUS
  <2>2. g \in [SUBSET (1 .. 0) -> R] /\ Turns(g, 0)
    BY <2>1
  <2> QED
    BY <2>2
<1>2. ASSUME NEW k \in Nat, k + 1 <= n, \E g \in [SUBSET (1 .. k) -> R] : Turns(g, k)
      PROVE  \E h \in [SUBSET (1 .. k + 1) -> R] : Turns(h, k + 1)
  <2>1. PICK g \in [SUBSET (1 .. k) -> R] : Turns(g, k)
    BY <1>2
  <2> DEFINE h == [s \in SUBSET (1 .. k + 1) |->
                     IF k + 1 \in s THEN f[<<g[s \ {k + 1}], k + 1>>] ELSE g[s]]
  <2>2. \A s \in SUBSET (1 .. k + 1) :
          /\ s \ {k + 1} \in SUBSET (1 .. k)
          /\ k + 1 \notin s => s \in SUBSET (1 .. k)
          /\ k + 1 \in s => Max(s) = k + 1 /\ s # {}
    <3>1. 1 .. k + 1 = (1 .. k) \cup {k + 1}
      OBVIOUS
    <3> QED
      BY <3>1, GreatestUpTo
  <2>3. k + 1 \in 1 .. n
    BY <1>2
  <2>4. h \in [SUBSET (1 .. k + 1) -> R]
    BY <2>2, <2>3
  <2>5. \A s \in SUBSET (1 .. k + 1) : h[s \ {k + 1}] = g[s \ {k + 1}]
    BY <2>2
  <2>6. ASSUME NEW s \in SUBSET (1 .. k + 1)
        PROVE  h[s] = IF s = {} THEN b ELSE f[<<h[s \ {Max(s)}], Max(s)>>]
    <3>1. CASE k + 1 \in s
      BY <2>2, <2>5, <3>1
    <3>2. CASE k + 1 \notin s
      <4>1. s \in SUBSET (1 .. k) /\ h[s] = g[s]
        BY <2>2, <3>2
      <4>2. g[s] = IF s = {} THEN b ELSE f[<<g[s \ {Max(s)}], Max(s)>>]
        BY <2>1, <4>1
      <4>3. s \ {Max(s)} \in SUBSET (1 .. k) /\ k + 1 \notin s \ {Max(s)}
        BY <3>2, <4>1
      <4>4. h[s \ {Max(s)}] = g[s \ {Max(s)}]
        <5>1. s \ {Max(s)} \in SUBSET (1 .. k + 1)
          OBVIOUS
        <5> QED
          BY <4>3, <5>1
      <4> QED
        BY <4>1, <4>2, <4>4
    <3> QED
      BY <3>1, <3>2
  <2>7. Turns(h, k + 1)
    <3>1. h = [s \in SUBSET (1 .. k + 1) |-> h[s]]
      BY <2>4
    <3> HIDE DEF h
    <3> QED
      BY <2>6, <3>1
  <2> HIDE DEF h, Turns
  <2> QED
    BY <2>4, <2>7
<1> HIDE DEF Turns
<1>3. ASSUME NEW k \in Nat, k \in S PROVE k + 1 \in S
  <2>1. k + 1 \in Nat /\ (k + 1 <= n => k <= n)
    OBVIOUS
  <2> QED
    BY <1>2, <1>3, <2>1
<1>4. n \in S => \E g \in [SUBSET (1 .. n) -> R] : Turns(g, n)
  <2>1. n <= n
    OBVIOUS
  <2> QED
    BY <2>1, Zenon
<1> HIDE DEF S
<1>5. \E g \in [SUBSET (1 .. n) -> R] : Turns(g, n)
  BY <1>1, <1>3, <1>4, SetInduction
<1> QED
  BY <1>5 DEF Turns, Folds

-----------------------------------------------------------------------------
(* What is at the places of a list where one was taken out or put in.      *)

LEMMA RemovedItems ==
  ASSUME NEW S, NEW s \in Seq(S), NEW k \in DOMAIN s
  PROVE  LET r == RemoveAt(s, k)
         IN  /\ r \in Seq(S) /\ Len(r) = Len(s) - 1 /\ DOMAIN r = 1 .. Len(r)
             /\ \A j \in 1 .. Len(r) : r[j] = IF j < k THEN s[j] ELSE s[j + 1]
<1> DEFINE r == RemoveAt(s, k)
           a == SubSeq(s, 1, k - 1)
           b == SubSeq(s, k + 1, Len(s))
<1>0. /\ Len(s) \in Nat /\ DOMAIN s = 1 .. Len(s) /\ k \in 1 .. Len(s)
  OBVIOUS
<1>1. a \in Seq(S) /\ Len(a) = k - 1 /\ \A j \in 1 .. k - 1 : a[j] = s[j]
  BY <1>0
<1>2. /\ b \in Seq(S) /\ Len(b) = Len(s) - k
      /\ \A j \in 1 .. Len(s) - k : b[j] = s[k + j]
  BY <1>0
<1>3. r = a \o b
  BY DEF RemoveAt
<1> HIDE DEF a, b, r
<1>4. /\ r \in Seq(S) /\ Len(r) = Len(a) + Len(b)
      /\ \A j \in 1 .. Len(a) + Len(b) :
            r[j] = IF j <= Len(a) THEN a[j] ELSE b[j - Len(a)]
      /\ DOMAIN r = 1 .. Len(r)
  <2>1. a \in Seq(S) /\ b \in Seq(S)
    BY <1>1, <1>2
  <2> QED
    BY <1>3, <2>1
<1>5. ASSUME NEW j \in 1 .. Len(r) PROVE r[j] = IF j < k THEN s[j] ELSE s[j + 1]
  <2>1. CASE j < k
    <3>1. j \in 1 .. k - 1 /\ j <= Len(a)
      BY <1>0, <1>1, <1>2, <1>4, <2>1
    <3> QED
      BY <1>1, <1>4, <2>1, <3>1
  <2>2. CASE ~ j < k
    <3>1. j - (k - 1) \in 1 .. Len(s) - k /\ k + (j - (k - 1)) = j + 1
      BY <1>0, <1>1, <1>2, <1>4, <2>2
    <3>2. b[j - (k - 1)] = s[j + 1]
      BY <1>2, <3>1
    <3>3. r[j] = b[j - Len(a)] /\ Len(a) = k - 1
      BY <1>0, <1>1, <1>4, <2>2
    <3> QED
      BY <2>2, <3>2, <3>3
  <2> QED
    BY <2>1, <2>2
<1>6. Len(r) = Len(s) - 1
  BY <1>0, <1>1, <1>2, <1>4
<1> QED
  BY <1>4, <1>5, <1>6 DEF r

LEMMA InsertedItems ==
  ASSUME NEW S, NEW s \in Seq(S), NEW k \in 1 .. Len(s) + 1, NEW x \in S
  PROVE  LET r == InsertAt(s, k, x)
         IN  /\ r \in Seq(S) /\ Len(r) = Len(s) + 1 /\ DOMAIN r = 1 .. Len(r)
             /\ \A j \in 1 .. Len(r) :
                  r[j] = IF j < k THEN s[j] ELSE IF j = k THEN x ELSE s[j - 1]
<1> DEFINE r == InsertAt(s, k, x)
           a == SubSeq(s, 1, k - 1)
           b == SubSeq(s, k, Len(s))
           c == a \o <<x>>
<1>0. /\ Len(s) \in Nat /\ DOMAIN s = 1 .. Len(s) /\ k \in Int /\ 1 <= k /\ k <= Len(s) + 1
  OBVIOUS
<1>1. a \in Seq(S) /\ Len(a) = k - 1 /\ \A j \in 1 .. k - 1 : a[j] = s[j]
  BY <1>0
<1>2. /\ b \in Seq(S) /\ Len(b) = Len(s) + 1 - k
      /\ \A j \in 1 .. Len(s) + 1 - k : b[j] = s[k + j - 1]
  BY <1>0
<1>3. r = c \o b
  BY DEF InsertAt
<1> HIDE DEF a, b, r
<1>4. c \in Seq(S) /\ Len(c) = k /\ c[k] = x /\ \A j \in 1 .. k - 1 : c[j] = s[j]
  BY <1>0, <1>1
<1> HIDE DEF c
<1>5. /\ r \in Seq(S) /\ Len(r) = Len(c) + Len(b)
      /\ \A j \in 1 .. Len(c) + Len(b) :
            r[j] = IF j <= Len(c) THEN c[j] ELSE b[j - Len(c)]
      /\ DOMAIN r = 1 .. Len(r)
  <2>1. c \in Seq(S) /\ b \in Seq(S)
    BY <1>2, <1>4
  <2> QED
    BY <1>3, <2>1
<1>6. ASSUME NEW j \in 1 .. Len(r)
      PROVE  r[j] = IF j < k THEN s[j] ELSE IF j = k THEN x ELSE s[j - 1]
  <2>0. j \in Int /\ 1 <= j /\ j <= Len(s) + 1
    BY <1>0, <1>2, <1>4, <1>5
  <2>1. CASE j <= k
    BY <1>0, <1>4, <1>5, <2>0, <2>1
  <2>2. CASE j > k
    <3>1. j - k \in 1 .. Len(s) + 1 - k /\ k + (j - k) - 1 = j - 1
      BY <1>0, <2>0, <2>2
    <3>2. b[j - k] = s[j - 1]
      BY <1>2, <3>1
    <3>3. r[j] = b[j - Len(c)] /\ Len(c) = k
      BY <1>0, <1>4, <1>5, <2>0, <2>2
    <3> QED
      BY <2>2, <3>2, <3>3, <1>0, <2>0
  <2> QED
    BY <1>0, <2>0, <2>1, <2>2
<1>7. Len(r) = Len(s) + 1
  BY <1>0, <1>2, <1>4, <1>5
<1> QED
  BY <1>5, <1>6, <1>7 DEF r

(* The place SelectInSeq finds for an element.                             *)
LEMMA FirstPlace ==
  ASSUME NEW S, NEW s \in Seq(S), NEW x
  PROVE  LET i == SelectInSeq(s, LAMBDA y : y = x)
         IN  /\ i \in Nat
             /\ i = 0 <=> \A j \in DOMAIN s : s[j] # x
             /\ i # 0 => i \in DOMAIN s /\ s[i] = x
<1> DEFINE T == {j \in 1 .. Len(s) : s[j] = x}
<1>1. DOMAIN s = 1 .. Len(s) /\ Len(s) \in Nat
  OBVIOUS
<1>2. CASE T = {}
  <2>1. SelectInSeq(s, LAMBDA y : y = x) = 0
    BY <1>2 DEF SelectInSeq
  <2> QED
    BY <1>1, <1>2, <2>1
<1>3. CASE T # {}
  <2>1. SelectInSeq(s, LAMBDA y : y = x) = Min(T)
    BY <1>3 DEF SelectInSeq
  <2>2. T \in SUBSET Nat /\ 0 \notin T
    OBVIOUS
  <2> HIDE DEF T
  <2>3. Min(T) \in T
    BY <1>3, <2>2, LeastNumber
  <2>4. /\ Min(T) \in Nat /\ Min(T) # 0
        /\ Min(T) \in DOMAIN s /\ s[Min(T)] = x
    BY <1>1, <2>2, <2>3 DEF T
  <2> QED
    BY <2>1, <2>4
<1> QED
  BY <1>2, <1>3

-----------------------------------------------------------------------------
(* The set of the elements of a list.                                      *)

LEMMA AppendList ==
  ASSUME NEW S, NEW s \in Seq(S), NEW x \in S
  PROVE  /\ ToSet(Append(s, x)) = ToSet(s) \cup {x}
         /\ IsInjective(s) /\ x \notin ToSet(s) => IsInjective(Append(s, x))
<1> DEFINE t == Append(s, x)
<1>1. /\ t \in Seq(S) /\ Len(t) = Len(s) + 1 /\ t[Len(t)] = x
      /\ \A k \in 1 .. Len(s) : t[k] = s[k]
      /\ DOMAIN t = 1 .. Len(t) /\ DOMAIN s = 1 .. Len(s) /\ Len(s) \in Nat
  OBVIOUS
<1> HIDE DEF t
<1>2. \A k \in DOMAIN t : k = Len(t) \/ k \in DOMAIN s
  BY <1>1
<1>3. Len(t) \in DOMAIN t /\ \A k \in DOMAIN s : k \in DOMAIN t /\ k # Len(t)
  BY <1>1
<1>4. ToSet(t) = ToSet(s) \cup {x}
  BY <1>1, <1>2, <1>3 DEF ToSet
<1>5. IsInjective(s) /\ x \notin ToSet(s) => IsInjective(t)
  BY <1>1, <1>2 DEF ToSet, IsInjective
<1> QED
  BY <1>4, <1>5 DEF t

LEMMA ConcatList ==
  ASSUME NEW S, NEW s \in Seq(S), NEW t \in Seq(S)
  PROVE  s \o t \in Seq(S) /\ ToSet(s \o t) = ToSet(s) \cup ToSet(t)
<1> DEFINE u == s \o t
<1>1. /\ u \in Seq(S) /\ Len(u) = Len(s) + Len(t)
      /\ \A k \in 1 .. Len(s) : u[k] = s[k]
      /\ \A k \in 1 .. Len(t) : u[Len(s) + k] = t[k]
      /\ DOMAIN u = 1 .. Len(u) /\ DOMAIN s = 1 .. Len(s) /\ DOMAIN t = 1 .. Len(t)
      /\ Len(s) \in Nat /\ Len(t) \in Nat
  OBVIOUS
<1> HIDE DEF u
<1>2. ASSUME NEW k \in DOMAIN u PROVE u[k] \in ToSet(s) \cup ToSet(t)
  <2>1. CASE k \in DOMAIN s
    BY <1>1, <2>1 DEF ToSet
  <2>2. CASE k \notin DOMAIN s
    <3>1. k - Len(s) \in DOMAIN t /\ u[k] = t[k - Len(s)]
      BY <1>1, <1>2, <2>2
    <3> QED
      BY <3>1 DEF ToSet
  <2> QED
    BY <2>1, <2>2
<1>3. \A k \in DOMAIN s : k \in DOMAIN u /\ u[k] = s[k]
  BY <1>1
<1>4. \A k \in DOMAIN t : Len(s) + k \in DOMAIN u /\ u[Len(s) + k] = t[k]
  BY <1>1
<1>5. ToSet(u) \subseteq ToSet(s) \cup ToSet(t)
  BY <1>2 DEF ToSet
<1>6. ToSet(s) \subseteq ToSet(u)
  BY <1>3 DEF ToSet
<1>7. ToSet(t) \subseteq ToSet(u)
  BY <1>4 DEF ToSet
<1> QED
  BY <1>1, <1>5, <1>6, <1>7 DEF u

LEMMA HeadAndTail ==
  ASSUME NEW S, NEW s \in Seq(S), s # <<>>
  PROVE  /\ Head(s) \in S /\ Tail(s) \in Seq(S)
         /\ ToSet(s) = {Head(s)} \cup ToSet(Tail(s))
<1> DEFINE t == Tail(s)
<1>1. /\ Head(s) = s[1] /\ t \in Seq(S) /\ Len(s) \in Nat \ {0} /\ Len(t) = Len(s) - 1
      /\ \A k \in 1 .. Len(t) : t[k] = s[k + 1]
      /\ DOMAIN s = 1 .. Len(s) /\ DOMAIN t = 1 .. Len(t)
      /\ Head(s) \in S
  OBVIOUS
<1> HIDE DEF t
<1>2. 1 \in DOMAIN s /\ \A k \in DOMAIN t : k + 1 \in DOMAIN s /\ t[k] = s[k + 1]
  BY <1>1
<1>3. \A k \in DOMAIN s : k # 1 => k - 1 \in DOMAIN t /\ s[k] = t[k - 1]
  BY <1>1
<1>4. ToSet(s) \subseteq {s[1]} \cup ToSet(t)
  BY <1>3 DEF ToSet
<1>5. s[1] \in ToSet(s) /\ ToSet(t) \subseteq ToSet(s)
  BY <1>2 DEF ToSet
<1>6. ToSet(s) = {s[1]} \cup ToSet(t)
  BY <1>4, <1>5
<1> QED
  BY <1>1, <1>6 DEF t

(* Removing the one place of an element removes the element.               *)
LEMMA RemovedOnce ==
  ASSUME NEW S, NEW s \in Seq(S), IsInjective(s), NEW k \in DOMAIN s
  PROVE  /\ RemoveAt(s, k) \in Seq(S) /\ IsInjective(RemoveAt(s, k))
         /\ ToSet(RemoveAt(s, k)) = ToSet(s) \ {s[k]}
<1> DEFINE r == RemoveAt(s, k)
           Old(j) == IF j < k THEN j ELSE j + 1
<1>1. /\ Len(s) \in Nat /\ DOMAIN s = 1 .. Len(s) /\ k \in 1 .. Len(s)
  OBVIOUS
<1>2. /\ r \in Seq(S) /\ Len(r) = Len(s) - 1
      /\ \A j \in 1 .. Len(r) : r[j] = s[Old(j)]
      /\ DOMAIN r = 1 .. Len(r)
  BY RemovedItems
<1> HIDE DEF r
<1>3. \A j \in DOMAIN r : Old(j) \in DOMAIN s /\ Old(j) # k /\ r[j] = s[Old(j)]
  BY <1>1, <1>2
<1>4. \A i, j \in DOMAIN r : Old(i) = Old(j) => i = j
  BY <1>1, <1>2
<1>5. \A i \in DOMAIN s : i # k => \E j \in DOMAIN r : Old(j) = i
  <2>1. ASSUME NEW i \in DOMAIN s, i < k PROVE i \in DOMAIN r /\ Old(i) = i
    BY <1>1, <1>2, <2>1
  <2>2. ASSUME NEW i \in DOMAIN s, i > k PROVE i - 1 \in DOMAIN r /\ Old(i - 1) = i
    BY <1>1, <1>2, <2>2
  <2> QED
    BY <1>1, <2>1, <2>2
<1> HIDE DEF Old
<1>6. IsInjective(r)
  BY <1>3, <1>4 DEF IsInjective
<1>7. ToSet(r) = ToSet(s) \ {s[k]}
  BY <1>3, <1>5 DEF ToSet, IsInjective
<1> QED
  BY <1>2, <1>6, <1>7 DEF r

(* A list without repetition has its head once.                            *)
LEMMA HeadOnce ==
  ASSUME NEW S, NEW s \in Seq(S), s # <<>>, IsInjective(s)
  PROVE  IsInjective(Tail(s)) /\ Head(s) \notin ToSet(Tail(s))
<1> DEFINE t == Tail(s)
<1>1. /\ Head(s) = s[1] /\ \A k \in DOMAIN t : t[k] = s[k + 1]
      /\ DOMAIN s = 1 .. Len(s) /\ DOMAIN t = 1 .. Len(t)
      /\ Len(s) \in Nat /\ Len(t) = Len(s) - 1
  OBVIOUS
<1> HIDE DEF t
<1>2. \A k \in DOMAIN t : k + 1 \in DOMAIN s /\ k + 1 # 1 /\ 1 \in DOMAIN s
  BY <1>1
<1>3. \A j, k \in DOMAIN t : j + 1 = k + 1 => j = k
  BY <1>1
<1>4. IsInjective(t)
  BY <1>1, <1>2, <1>3 DEF IsInjective
<1>5. s[1] \notin ToSet(t)
  BY <1>1, <1>2 DEF IsInjective, ToSet
<1> QED
  BY <1>1, <1>4, <1>5 DEF t

LEMMA OneCall ==
  ASSUME NEW S, NEW x \in S
  PROVE  <<x>> \in Seq(S) /\ ToSet(<<x>>) = {x}
<1>1. <<x>> \in Seq(S) /\ DOMAIN <<x>> = {1} /\ <<x>>[1] = x
  OBVIOUS
<1> QED
  BY <1>1 DEF ToSet

-----------------------------------------------------------------------------
(* How often an element is in a list, and in its first k places.           *)
Places(s, x) == {i \in DOMAIN s : s[i] = x}
Times(s, x) == Cardinality(Places(s, x))
TimesUpTo(s, x, k) == Cardinality({i \in 1 .. k : s[i] = x})

One(test) == IF test THEN 1 ELSE 0

LEMMA PlacesFinite ==
  ASSUME NEW S, NEW s \in Seq(S), NEW x
  PROVE  IsFiniteSet(Places(s, x)) /\ Times(s, x) \in Nat
<1>1. DOMAIN s = 1 .. Len(s) /\ Len(s) \in Nat
  OBVIOUS
<1>2. IsFiniteSet(DOMAIN s)
  BY <1>1, FS_Interval
<1>3. Places(s, x) \in SUBSET (DOMAIN s)
  BY DEF Places
<1>4. IsFiniteSet(Places(s, x))
  BY <1>2, <1>3, FS_Subset
<1> QED
  BY <1>4, FS_CardinalityType DEF Times

(* Where one set is carried onto another one to one, both are as large.    *)
LEMMA SameSize ==
  ASSUME NEW A, IsFiniteSet(A), NEW B, NEW f \in [A -> B],
         \A x, y \in A : f[x] = f[y] => x = y,
         \A y \in B : \E x \in A : f[x] = y
  PROVE  IsFiniteSet(B) /\ Cardinality(A) = Cardinality(B)
<1>1. f \in Bijection(A, B)
  BY DEF Bijection, Injection, Surjection, IsInjective
<1> QED
  BY <1>1, FS_Bijection DEF ExistsBijection

LEMMA TimesZero ==
  ASSUME NEW S, NEW s \in Seq(S), NEW x
  PROVE  Times(s, x) = 0 <=> \A i \in DOMAIN s : s[i] # x
<1>1. Times(s, x) = 0 <=> Places(s, x) = {}
  BY PlacesFinite, FS_EmptySet DEF Times
<1> QED
  BY <1>1 DEF Places

LEMMA TimesAppend ==
  ASSUME NEW S, NEW s \in Seq(S), NEW y \in S, NEW x
  PROVE  Times(Append(s, y), x) = Times(s, x) + One(y = x)
<1> DEFINE t == Append(s, y)
           n == Len(s) + 1
<1>1. /\ DOMAIN s = 1 .. Len(s) /\ Len(s) \in Nat /\ DOMAIN t = (DOMAIN s) \cup {n}
      /\ n \notin DOMAIN s /\ t[n] = y /\ \A i \in DOMAIN s : t[i] = s[i]
  OBVIOUS
<1> HIDE DEF t, n
<1>2. Places(t, x) = IF y = x THEN Places(s, x) \cup {n} ELSE Places(s, x)
  BY <1>1 DEF Places
<1>3. n \notin Places(s, x) /\ IsFiniteSet(Places(s, x)) /\ Times(s, x) \in Nat
  BY <1>1, PlacesFinite DEF Places
<1>4. Cardinality(Places(s, x) \cup {n}) = Cardinality(Places(s, x)) + 1
  BY <1>3, FS_AddElement
<1> QED
  BY <1>2, <1>3, <1>4 DEF Times, One, t

LEMMA TimesPut ==
  ASSUME NEW S, NEW s \in Seq(S), NEW k \in DOMAIN s, NEW y \in S, NEW x
  PROVE  Times([s EXCEPT ![k] = y], x) = Times(s, x) - One(s[k] = x) + One(y = x)
<1> DEFINE t == [s EXCEPT ![k] = y]
           P == Places(s, x) \ {k}
<1>1. /\ DOMAIN t = DOMAIN s /\ t[k] = y
      /\ \A i \in DOMAIN s : i # k => t[i] = s[i]
  OBVIOUS
<1> HIDE DEF t
<1>2. IsFiniteSet(Places(s, x)) /\ Times(s, x) \in Nat /\ IsFiniteSet(P)
  BY PlacesFinite, FS_RemoveElement
<1>3. Cardinality(P) = Times(s, x) - One(s[k] = x)
  <2>1. k \in Places(s, x) <=> s[k] = x
    BY DEF Places
  <2>2. Cardinality(P) = IF k \in Places(s, x) THEN Cardinality(Places(s, x)) - 1
                                               ELSE Cardinality(Places(s, x))
    BY <1>2, FS_RemoveElement
  <2> QED
    BY <1>2, <2>1, <2>2 DEF Times, One
<1>4. Places(t, x) = IF y = x THEN P \cup {k} ELSE P
  BY <1>1 DEF Places
<1>5. k \notin P /\ Cardinality(P \cup {k}) = Cardinality(P) + 1
  BY <1>2, FS_AddElement
<1> HIDE DEF P
<1>6. Times(t, x) = Cardinality(P) + One(y = x)
  <2>1. Cardinality(P) \in Nat
    BY <1>2, FS_CardinalityType
  <2> QED
    BY <1>4, <1>5, <2>1 DEF Times, One
<1> QED
  BY <1>3, <1>6 DEF t

LEMMA TimesRemoved ==
  ASSUME NEW S, NEW s \in Seq(S), NEW k \in DOMAIN s, NEW x
  PROVE  Times(RemoveAt(s, k), x) = Times(s, x) - One(s[k] = x)
<1> DEFINE r == RemoveAt(s, k)
           P == Places(s, x) \ {k}
           f == [j \in Places(r, x) |-> IF j < k THEN j ELSE j + 1]
<1>1. /\ r \in Seq(S) /\ Len(r) = Len(s) - 1 /\ DOMAIN r = 1 .. Len(r)
      /\ \A j \in 1 .. Len(r) : r[j] = IF j < k THEN s[j] ELSE s[j + 1]
      /\ Len(s) \in Nat /\ DOMAIN s = 1 .. Len(s) /\ k \in 1 .. Len(s)
  BY RemovedItems
<1> HIDE DEF r
<1>2. ASSUME NEW j \in Places(r, x) PROVE f[j] \in P /\ j \in 1 .. Len(r)
  BY <1>1 DEF Places
<1>3. \A i, j \in Places(r, x) : f[i] = f[j] => i = j
  <2>1. \A j \in Places(r, x) : j \in Int
    BY <1>1, <1>2
  <2> QED
    BY <1>1, <2>1
<1>4. ASSUME NEW i \in P PROVE \E j \in Places(r, x) : f[j] = i
  <2>0. i \in 1 .. Len(s) /\ s[i] = x /\ i # k
    BY <1>1 DEF Places
  <2>1. CASE i < k
    <3>1. i \in 1 .. Len(r) /\ r[i] = x
      BY <1>1, <2>0, <2>1
    <3>2. i \in Places(r, x)
      BY <1>1, <3>1 DEF Places
    <3> QED
      BY <2>1, <3>2
  <2>2. CASE i > k
    <3>1. i - 1 \in 1 .. Len(r) /\ ~ (i - 1 < k) /\ (i - 1) + 1 = i
      BY <1>1, <2>0, <2>2
    <3>2. r[i - 1] = x
      BY <1>1, <2>0, <3>1
    <3>3. i - 1 \in Places(r, x)
      BY <1>1, <3>1, <3>2 DEF Places
    <3> QED
      BY <3>1, <3>3
  <2> QED
    BY <1>1, <2>0, <2>1, <2>2
<1>5. f \in [Places(r, x) -> P]
  BY <1>2
<1>6. IsFiniteSet(Places(r, x))
  BY <1>1, PlacesFinite
<1> HIDE DEF f
<1>7. Times(r, x) = Cardinality(P)
  <2> HIDE DEF P
  <2> QED
    BY <1>3, <1>4, <1>5, <1>6, SameSize DEF Times
<1>8. IsFiniteSet(Places(s, x)) /\ Times(s, x) \in Nat
  BY PlacesFinite
<1>9. Cardinality(P) = Times(s, x) - One(s[k] = x)
  <2>1. k \in Places(s, x) <=> s[k] = x
    BY DEF Places
  <2>2. Cardinality(P) = IF k \in Places(s, x) THEN Cardinality(Places(s, x)) - 1
                                               ELSE Cardinality(Places(s, x))
    BY <1>8, FS_RemoveElement
  <2> QED
    BY <1>8, <2>1, <2>2 DEF Times, One
<1> QED
  BY <1>7, <1>9 DEF r

(* What is inserted is what removing it again takes out.                   *)
LEMMA TimesInserted ==
  ASSUME NEW S, NEW s \in Seq(S), NEW k \in 1 .. Len(s) + 1, NEW y \in S, NEW x
  PROVE  Times(InsertAt(s, k, y), x) = Times(s, x) + One(y = x)
<1> DEFINE t == InsertAt(s, k, y)
           r == RemoveAt(t, k)
<1>1. /\ t \in Seq(S) /\ Len(t) = Len(s) + 1 /\ DOMAIN t = 1 .. Len(t)
      /\ \A j \in 1 .. Len(t) :
           t[j] = IF j < k THEN s[j] ELSE IF j = k THEN y ELSE s[j - 1]
      /\ Len(s) \in Nat /\ k \in 1 .. Len(t)
  BY InsertedItems
<1> HIDE DEF t
<1>2. k \in DOMAIN t /\ t[k] = y
  BY <1>1
<1>3. /\ r \in Seq(S) /\ Len(r) = Len(t) - 1 /\ DOMAIN r = 1 .. Len(r)
      /\ \A j \in 1 .. Len(r) : r[j] = IF j < k THEN t[j] ELSE t[j + 1]
  BY <1>1, <1>2, RemovedItems
<1>4. Times(r, x) = Times(t, x) - One(y = x)
  BY <1>1, <1>2, TimesRemoved
<1> HIDE DEF r
<1>5. r = s
  <2>1. Len(r) = Len(s)
    BY <1>1, <1>3
  <2>2. ASSUME NEW j \in 1 .. Len(s) PROVE r[j] = s[j]
    <3>1. CASE j < k
      BY <1>1, <1>3, <2>1, <3>1
    <3>2. CASE ~ j < k
      <4>1. r[j] = t[j + 1] /\ j + 1 \in 1 .. Len(t) /\ ~ (j + 1 < k) /\ j + 1 # k
        BY <1>1, <1>3, <2>1, <3>2
      <4>2. t[j + 1] = s[(j + 1) - 1]
        BY <1>1, <4>1
      <4> QED
        BY <4>1, <4>2
    <3> QED
      BY <3>1, <3>2
  <2> QED
    BY <1>3, <2>1, <2>2
<1>6. Times(t, x) \in Nat /\ Times(s, x) \in Nat
  BY <1>1, PlacesFinite
<1> QED
  BY <1>4, <1>5, <1>6 DEF One, t

(* A list of one value all over.                                           *)
LEMMA TimesConstant ==
  ASSUME NEW n \in Nat, NEW x, NEW s, s = [i \in 1 .. n |-> x]
  PROVE  Times(s, x) = n
<1>1. Places(s, x) = 1 .. n
  BY DEF Places
<1>2. Cardinality(1 .. n) = n
  BY FS_Interval
<1> QED
  BY <1>1, <1>2 DEF Times

LEMMA TimesUpToStep ==
  ASSUME NEW S, NEW s \in Seq(S), NEW x
  PROVE  /\ TimesUpTo(s, x, 0) = 0 /\ TimesUpTo(s, x, Len(s)) = Times(s, x)
         /\ \A k \in Nat : TimesUpTo(s, x, k) \in Nat
         /\ \A k \in 1 .. Len(s) : TimesUpTo(s, x, k) <= Times(s, x)
         /\ \A k \in 1 .. Len(s) :
              TimesUpTo(s, x, k) = TimesUpTo(s, x, k - 1) + One(s[k] = x)
<1> DEFINE P(k) == {i \in 1 .. k : s[i] = x}
<1>1. DOMAIN s = 1 .. Len(s) /\ Len(s) \in Nat
  OBVIOUS
<1>2. ASSUME NEW k \in Nat PROVE IsFiniteSet(P(k)) /\ Cardinality(P(k)) \in Nat
  <2>1. IsFiniteSet(1 .. k)
    BY FS_Interval
  <2>2. P(k) \in SUBSET (1 .. k)
    OBVIOUS
  <2>3. IsFiniteSet(P(k))
    BY <2>1, <2>2, FS_Subset
  <2> QED
    BY <2>3, FS_CardinalityType
<1>3. ASSUME NEW k \in 1 .. Len(s)
      PROVE  Cardinality(P(k)) = Cardinality(P(k - 1)) + One(s[k] = x)
  <2>1. P(k) = (IF s[k] = x THEN P(k - 1) \cup {k} ELSE P(k - 1)) /\ k \notin P(k - 1)
    BY <1>1
  <2>2. k - 1 \in Nat
    BY <1>1
  <2>3. IsFiniteSet(P(k - 1)) /\ Cardinality(P(k - 1)) \in Nat
    BY <1>2, <2>2
  <2> HIDE DEF P
  <2>4. Cardinality(P(k - 1) \cup {k}) = Cardinality(P(k - 1)) + 1
    BY <2>1, <2>3, FS_AddElement
  <2> QED
    BY <2>1, <2>3, <2>4 DEF One
<1>6. ASSUME NEW k \in 1 .. Len(s) PROVE Cardinality(P(k)) <= Times(s, x)
  <2>1. P(k) \in SUBSET Places(s, x)
    BY <1>1 DEF Places
  <2> HIDE DEF P
  <2> QED
    BY <2>1, PlacesFinite, FS_Subset DEF Times
<1>4. P(0) = {} /\ P(Len(s)) = Places(s, x)
  BY <1>1 DEF Places
<1>5. Cardinality(P(0)) = 0 /\ Cardinality(P(Len(s))) = Times(s, x)
  BY <1>4, FS_EmptySet DEF Times
<1> QED
  BY <1>2, <1>3, <1>5, <1>6 DEF TimesUpTo

-----------------------------------------------------------------------------
(* What a stack of loops holds after a loop is pushed or a call is taken,  *)
(* for any set S of calls.                                                 *)

(* Pushing a loop adds its calls.                                          *)
LEMMA PushHolds ==
  ASSUME NEW S, NEW s \in Seq(SUBSET S), NEW loop \in SUBSET S
  PROVE  /\ Push(loop, s) \in Seq(SUBSET S)
         /\ \A c : InStack(c, Push(loop, s)) <=> c \in loop \/ InStack(c, s)
<1>1. CASE loop = {}
  BY <1>1 DEF Push
<1>2. CASE loop # {}
  <2> DEFINE p == <<loop>> \o s
  <2>1. /\ Push(loop, s) = p /\ p \in Seq(SUBSET S) /\ Len(p) = Len(s) + 1
        /\ p[1] = loop /\ \A k \in 1 .. Len(s) : p[k + 1] = s[k]
    BY <1>2 DEF Push
  <2>2. ASSUME NEW c, NEW k \in 1 .. Len(p), c \in p[k]
        PROVE  c \in loop \/ InStack(c, s)
    <3>1. CASE k = 1
      BY <2>1, <2>2, <3>1
    <3>2. CASE k # 1
      <4>1. k - 1 \in 1 .. Len(s) /\ p[k] = s[k - 1]
        BY <2>1, <3>2
      <4> QED
        BY <2>2, <4>1 DEF InStack
    <3> QED
      BY <3>1, <3>2
  <2>3. ASSUME NEW c, c \in loop PROVE \E k \in 1 .. Len(p) : c \in p[k]
    <3>1. 1 \in 1 .. Len(p)
      BY <2>1
    <3> QED
      BY <2>1, <2>3, <3>1
  <2>4. ASSUME NEW c, NEW k \in 1 .. Len(s), c \in s[k]
        PROVE  \E j \in 1 .. Len(p) : c \in p[j]
    <3>1. k + 1 \in 1 .. Len(p) /\ p[k + 1] = s[k]
      BY <2>1
    <3> QED
      BY <2>4, <3>1
  <2> QED
    BY <2>1, <2>2, <2>3, <2>4 DEF InStack
<1> QED
  BY <1>1, <1>2

(* The innermost loop and the others.                                      *)
LEMMA TopOfStack ==
  ASSUME NEW S, NEW s \in Seq(SUBSET S), s # <<>>
  PROVE  /\ Head(s) \in SUBSET S /\ Tail(s) \in Seq(SUBSET S)
         /\ \A c : InStack(c, s) <=> c \in Head(s) \/ InStack(c, Tail(s))
<1>1. /\ Head(s) = s[1] /\ Len(s) \in Nat \ {0} /\ Len(Tail(s)) = Len(s) - 1
      /\ \A k \in 1 .. Len(Tail(s)) : Tail(s)[k] = s[k + 1]
      /\ Head(s) \in SUBSET S /\ Tail(s) \in Seq(SUBSET S)
  OBVIOUS
<1>2. ASSUME NEW c, NEW k \in 1 .. Len(s), c \in s[k]
      PROVE  c \in Head(s) \/ InStack(c, Tail(s))
  <2>1. CASE k = 1
    BY <1>1, <1>2, <2>1
  <2>2. CASE k # 1
    <3>1. k - 1 \in 1 .. Len(Tail(s)) /\ Tail(s)[k - 1] = s[k]
      BY <1>1, <2>2
    <3> QED
      BY <1>2, <3>1 DEF InStack
  <2> QED
    BY <2>1, <2>2
<1>3. ASSUME NEW c, c \in Head(s) PROVE InStack(c, s)
  <2>1. 1 \in 1 .. Len(s)
    BY <1>1
  <2> QED
    BY <1>1, <1>3, <2>1 DEF InStack
<1>4. ASSUME NEW c, NEW k \in 1 .. Len(Tail(s)), c \in Tail(s)[k] PROVE InStack(c, s)
  <2>1. k + 1 \in 1 .. Len(s) /\ s[k + 1] = Tail(s)[k]
    BY <1>1
  <2> QED
    BY <1>4, <2>1 DEF InStack
<1> QED
  BY <1>1, <1>2, <1>3, <1>4 DEF InStack

(* Taking a call leaves the others.                                        *)
LEMMA PopHolds ==
  ASSUME NEW S, NEW s \in Seq(SUBSET S), s # <<>>, NEW c \in Head(s)
  PROVE  /\ c \in S /\ InStack(c, s)
         /\ Pop(c, s) \in Seq(SUBSET S)
         /\ \A d : InStack(d, Pop(c, s)) => InStack(d, s)
         /\ \A d : d # c /\ InStack(d, s) => InStack(d, Pop(c, s))
<1>1. /\ Head(s) \in SUBSET S /\ Tail(s) \in Seq(SUBSET S)
      /\ \A d : InStack(d, s) <=> d \in Head(s) \/ InStack(d, Tail(s))
  BY TopOfStack
<1>2. /\ Pop(c, s) \in Seq(SUBSET S)
      /\ \A d : InStack(d, Pop(c, s)) <=> d \in Head(s) \ {c} \/ InStack(d, Tail(s))
  BY <1>1, PushHolds DEF Pop
<1> QED
  BY <1>1, <1>2
=============================================================================
