-------------------------- MODULE ActivationProofs -------------------------
(***************************************************************************)
(* Proofs about activations, for any states, activations, orders and       *)
(* number of slots.                                                        *)
(***************************************************************************)
EXTENDS Activation, ListProofs

Sorted(l) == \A i, j \in DOMAIN l : i < j => Order[l[i]] <= Order[l[j]]

Books ==
  [slots : [Activations -> Seq(States \cup {None})],
   marks : [Activations -> Seq(BOOLEAN)],
   count : [Activations -> Int],
   regs : [States -> Seq(Activations)]]

(* A slot has a mark, slots and registrations match, lists are in order.   *)
Matched(b) == \A a \in Activations : Len(b.marks[a]) = Len(b.slots[a])
Even(b) == \A a \in Activations, s \in States :
             Times(b.slots[a], s) = Times(b.regs[s], a)
Ascending(b) == \A s \in States : Sorted(b.regs[s])

Good(b) == b \in Books /\ Matched(b) /\ Even(b) /\ Ascending(b)

(* The count is the number of marks that differ from the flag.             *)
Counted(b) == \A a \in Activations : b.count[a] = Times(b.marks[a], ~on[a])

-----------------------------------------------------------------------------
(* Lists of slots and of activations.                                      *)

LEMMA SlotFound ==
  ASSUME NEW l \in Seq(States \cup {None}), NEW s
  PROVE  /\ SlotOf(l, s) \in Nat
         /\ SlotOf(l, s) = 0 <=> \A j \in DOMAIN l : l[j] # s
         /\ SlotOf(l, s) # 0 => SlotOf(l, s) \in DOMAIN l /\ l[SlotOf(l, s)] = s
         /\ SlotOf(l, s) = 0 <=> Times(l, s) = 0
<1>1. /\ SlotOf(l, s) \in Nat
      /\ SlotOf(l, s) = 0 <=> \A j \in DOMAIN l : l[j] # s
      /\ SlotOf(l, s) # 0 => SlotOf(l, s) \in DOMAIN l /\ l[SlotOf(l, s)] = s
  BY FirstPlace DEF SlotOf
<1> QED
  BY <1>1, TimesZero

LEMMA Registered ==
  ASSUME NEW l \in Seq(Activations), Sorted(l), NEW a \in Activations
  PROVE  LET r == RegisterActivation(l, a)
         IN  /\ r \in Seq(Activations) /\ Sorted(r)
             /\ \A x : Times(r, x) = Times(l, x) + One(a = x)
<1> DEFINE r == RegisterActivation(l, a)
<1>1. /\ DOMAIN l = 1 .. Len(l) /\ Len(l) \in Nat /\ \A i \in DOMAIN l : l[i] \in Activations
      /\ \A x \in Activations : Order[x] \in Int
  BY ActivationAssumption
<1>2. CASE l = <<>> \/ Order[a] >= Order[Last(l)]
  <2>1. r = Append(l, a)
    BY <1>2 DEF RegisterActivation
  <2>2. /\ r \in Seq(Activations) /\ DOMAIN r = 1 .. Len(l) + 1
        /\ r[Len(l) + 1] = a /\ \A i \in 1 .. Len(l) : r[i] = l[i]
    BY <2>1
  <2>3. \A i \in DOMAIN l : Order[l[i]] <= Order[a]
    <3> SUFFICES ASSUME NEW i \in DOMAIN l PROVE Order[l[i]] <= Order[a]
      OBVIOUS
    <3>1. l # <<>> /\ Len(l) \in DOMAIN l
      BY <1>1
    <3>2. Order[a] >= Order[l[Len(l)]]
      BY <1>2, <3>1 DEF Last
    <3>3. i = Len(l) \/ i < Len(l)
      BY <1>1
    <3>4. Order[l[i]] <= Order[l[Len(l)]]
      BY <1>1, <3>1, <3>3 DEF Sorted
    <3> QED
      BY <1>1, <3>1, <3>2, <3>4
  <2>4. \A x : Times(r, x) = Times(l, x) + One(a = x)
    BY <2>1, TimesAppend
  <2> HIDE DEF r
  <2>5. Sorted(r)
    <3> SUFFICES ASSUME NEW i \in DOMAIN r, NEW j \in DOMAIN r, i < j
                 PROVE  Order[r[i]] <= Order[r[j]]
      BY DEF Sorted
    <3>1. i \in DOMAIN l /\ r[i] = l[i]
      BY <1>1, <2>2
    <3>2. CASE j = Len(l) + 1
      BY <2>2, <2>3, <3>1, <3>2
    <3>3. CASE j # Len(l) + 1
      <4>1. j \in DOMAIN l /\ r[j] = l[j]
        BY <1>1, <2>2, <3>3
      <4> QED
        BY <3>1, <4>1 DEF Sorted
    <3> QED
      BY <3>2, <3>3
  <2> QED
    BY <2>2, <2>4, <2>5 DEF r
<1>3. CASE ~(l = <<>> \/ Order[a] >= Order[Last(l)])
  <2> DEFINE T == {j \in 1 .. Len(l) : Order[a] <= Order[l[j]]}
             i == Min(T)
  <2>1. Len(l) \in T
    <3>1. Len(l) \in DOMAIN l
      BY <1>1, <1>3
    <3> QED
      BY <1>1, <1>3, <3>1 DEF Last
  <2>2. T \in SUBSET Nat
    OBVIOUS
  <2>3. SelectInSeq(l, LAMBDA b : Order[a] <= Order[b]) = i
    BY <2>1 DEF SelectInSeq
  <2>4. r = InsertAt(l, i, a)
    BY <1>3, <2>3 DEF RegisterActivation
  <2>5. i \in T /\ \A k \in T : i <= k
    <3> HIDE DEF T
    <3> QED
      BY <2>1, <2>2, LeastNumber
  <2> HIDE DEF i
  <2>6. /\ i \in 1 .. Len(l) /\ Order[a] <= Order[l[i]]
        /\ \A k \in 1 .. Len(l) : k < i => Order[l[k]] < Order[a]
    <3>1. i \in 1 .. Len(l) /\ Order[a] <= Order[l[i]]
      BY <2>5
    <3>2. ASSUME NEW k \in 1 .. Len(l), k < i PROVE Order[l[k]] < Order[a]
      <4>1. k \notin T
        BY <2>5, <3>1, <3>2
      <4> QED
        BY <1>1, <4>1
    <3> QED
      BY <3>1, <3>2
  <2> HIDE DEF T, r
  <2>7. /\ r \in Seq(Activations) /\ DOMAIN r = 1 .. Len(l) + 1
        /\ \A j \in 1 .. Len(l) + 1 :
             r[j] = IF j < i THEN l[j] ELSE IF j = i THEN a ELSE l[j - 1]
    <3>1. i \in 1 .. Len(l) + 1
      BY <1>1, <2>6
    <3>2. /\ InsertAt(l, i, a) \in Seq(Activations)
          /\ Len(InsertAt(l, i, a)) = Len(l) + 1
          /\ DOMAIN InsertAt(l, i, a) = 1 .. Len(InsertAt(l, i, a))
          /\ \A j \in 1 .. Len(InsertAt(l, i, a)) :
               InsertAt(l, i, a)[j] = IF j < i THEN l[j] ELSE IF j = i THEN a ELSE l[j - 1]
      BY <3>1, InsertedItems
    <3> QED
      BY <2>4, <3>2
  <2>8. \A x : Times(r, x) = Times(l, x) + One(a = x)
    <3>1. i \in 1 .. Len(l) + 1
      BY <1>1, <2>6
    <3> QED
      BY <2>4, <3>1, TimesInserted
  <2>9. \A k \in 1 .. Len(l) : i <= k => Order[a] <= Order[l[k]]
    <3> SUFFICES ASSUME NEW k \in 1 .. Len(l), i <= k PROVE Order[a] <= Order[l[k]]
      OBVIOUS
    <3>1. k = i \/ Order[l[i]] <= Order[l[k]]
      BY <1>1, <2>6 DEF Sorted
    <3> QED
      BY <1>1, <2>6, <3>1
  <2>10. Sorted(r)
    <3> SUFFICES ASSUME NEW j \in 1 .. Len(l) + 1, NEW k \in 1 .. Len(l) + 1, j < k
                 PROVE  Order[r[j]] <= Order[r[k]]
      BY <2>7 DEF Sorted
    <3>1. CASE k < i
      <4>1. r[j] = l[j] /\ r[k] = l[k] /\ j \in DOMAIN l /\ k \in DOMAIN l
        BY <1>1, <2>6, <2>7, <3>1
      <4> QED
        BY <4>1 DEF Sorted
    <3>2. CASE k = i
      <4>1. r[j] = l[j] /\ r[k] = a /\ j \in 1 .. Len(l)
        BY <1>1, <2>6, <2>7, <3>2
      <4> QED
        BY <1>1, <2>6, <3>2, <4>1
    <3>3. CASE k > i
      <4>0. k - 1 \in 1 .. Len(l) /\ r[k] = l[k - 1] /\ i <= k - 1
        BY <1>1, <2>6, <2>7, <3>3
      <4>1. CASE j < i
        <5>1. r[j] = l[j] /\ j \in 1 .. Len(l) /\ j < k - 1
          BY <1>1, <2>6, <2>7, <3>3, <4>1
        <5> QED
          BY <1>1, <4>0, <5>1 DEF Sorted
      <4>2. CASE j = i
        BY <2>7, <2>9, <4>0, <4>2
      <4>3. CASE j > i
        <5>1. r[j] = l[j - 1] /\ j - 1 \in 1 .. Len(l) /\ j - 1 < k - 1
          BY <1>1, <2>6, <2>7, <3>3, <4>3
        <5> QED
          BY <1>1, <4>0, <5>1 DEF Sorted
      <4> QED
        BY <2>6, <4>1, <4>2, <4>3
    <3> QED
      BY <2>6, <3>1, <3>2, <3>3
  <2> QED
    BY <2>7, <2>8, <2>10 DEF r
<1> QED
  BY <1>2, <1>3

LEMMA Unlisted ==
  ASSUME NEW l \in Seq(Activations), NEW a
  PROVE  LET r == RemoveFirst(l, a)
         IN  /\ r \in Seq(Activations) /\ (Sorted(l) => Sorted(r))
             /\ \A x : Times(r, x) = Times(l, x) - One(a = x /\ Times(l, a) # 0)
<1> DEFINE i == SelectInSeq(l, LAMBDA v : v = a)
           r == RemoveFirst(l, a)
<1>1. DOMAIN l = 1 .. Len(l) /\ Len(l) \in Nat
  OBVIOUS
<1>2. Times(l, a) # 0 <=> \E k \in 1 .. Len(l) : l[k] = a
  BY <1>1, TimesZero
<1>3. CASE Times(l, a) = 0
  <2>1. r = l
    BY <1>2, <1>3 DEF RemoveFirst
  <2>2. \A x : Times(l, x) \in Nat
    BY PlacesFinite
  <2> QED
    BY <1>3, <2>1, <2>2 DEF One
<1>4. CASE Times(l, a) # 0
  <2>1. r = RemoveAt(l, i)
    BY <1>2, <1>4 DEF RemoveFirst
  <2>2. i \in DOMAIN l /\ l[i] = a
    BY <1>1, <1>2, <1>4, FirstPlace
  <2> HIDE DEF i
  <2>3. /\ r \in Seq(Activations) /\ DOMAIN r = 1 .. Len(l) - 1
        /\ \A j \in 1 .. Len(l) - 1 : r[j] = IF j < i THEN l[j] ELSE l[j + 1]
    BY <2>1, <2>2, RemovedItems
  <2>4. \A x : Times(r, x) = Times(l, x) - One(a = x)
    BY <2>1, <2>2, TimesRemoved
  <2> HIDE DEF r
  <2>5. ASSUME Sorted(l) PROVE Sorted(r)
    <3> SUFFICES ASSUME NEW j \in 1 .. Len(l) - 1, NEW k \in 1 .. Len(l) - 1, j < k
                 PROVE  Order[r[j]] <= Order[r[k]]
      BY <2>3 DEF Sorted
    <3> DEFINE Old(n) == IF n < i THEN n ELSE n + 1
    <3>1. /\ r[j] = l[Old(j)] /\ r[k] = l[Old(k)] /\ Old(j) < Old(k)
          /\ Old(j) \in DOMAIN l /\ Old(k) \in DOMAIN l
      BY <1>1, <2>2, <2>3
    <3> QED
      BY <2>5, <3>1 DEF Sorted
  <2> QED
    BY <1>4, <2>3, <2>4, <2>5 DEF One, r
<1> QED
  BY <1>3, <1>4

-----------------------------------------------------------------------------
(* The methods, applied to a book.                                         *)

LEMMA BookParts ==
  ASSUME NEW b \in Books
  PROVE  /\ DOMAIN b = {"slots", "marks", "count", "regs"}
         /\ b.slots \in [Activations -> Seq(States \cup {None})]
         /\ b.marks \in [Activations -> Seq(BOOLEAN)]
         /\ b.count \in [Activations -> Int]
         /\ b.regs \in [States -> Seq(Activations)]
BY DEF Books

(* Of the elements of S, the list l holds as many as k, and d times more x. *)
More(l, k, S, x, d) ==
  \A y \in S : Times(l, y) = Times(k, y) + (IF y = x THEN d ELSE 0)

(* Activation a has s in d slots more, and s lists a d times more.         *)
LEMMA EditsAgree ==
  ASSUME NEW b, Good(b), NEW a \in Activations, NEW s \in States, NEW d \in Int,
         NEW c \in Books, Matched(c), NEW l, NEW r, Sorted(r),
         c.slots = [b.slots EXCEPT ![a] = l], c.regs = [b.regs EXCEPT ![s] = r],
         More(l, b.slots[a], States, s, d), More(r, b.regs[s], Activations, a, d)
  PROVE  Good(c)
<1>1. /\ b.slots \in [Activations -> Seq(States \cup {None})]
      /\ b.regs \in [States -> Seq(Activations)]
  BY BookParts DEF Good
<1>2. Ascending(c)
  BY <1>1 DEF Good, Ascending
<1>3. Even(c)
  <2> SUFFICES ASSUME NEW x \in Activations, NEW u \in States
               PROVE  Times(c.slots[x], u) = Times(c.regs[u], x)
    BY DEF Even
  <2>1. /\ Times(b.slots[x], u) = Times(b.regs[u], x)
        /\ Times(b.regs[u], x) \in Nat
    BY <1>1, PlacesFinite DEF Good, Even
  <2>2. c.slots[x] = (IF x = a THEN l ELSE b.slots[x])
        /\ c.regs[u] = (IF u = s THEN r ELSE b.regs[u])
    BY <1>1
  <2>3. Times(c.slots[x], u) = Times(b.slots[x], u) + (IF x = a /\ u = s THEN d ELSE 0)
    <3>1. CASE x = a
      BY <2>1, <2>2, <3>1 DEF More
    <3>2. CASE x # a
      BY <2>1, <2>2, <3>2
    <3> QED
      BY <3>1, <3>2
  <2>4. Times(c.regs[u], x) = Times(b.regs[u], x) + (IF x = a /\ u = s THEN d ELSE 0)
    <3>1. CASE u = s
      BY <2>1, <2>2, <3>1 DEF More
    <3>2. CASE u # s
      BY <2>1, <2>2, <3>2
    <3> QED
      BY <3>1, <3>2
  <2> QED
    BY <2>1, <2>3, <2>4
<1> QED
  BY <1>2, <1>3 DEF Good

LEMMA AddToGood ==
  ASSUME NEW b, Good(b), on \in [Activations -> BOOLEAN],
         NEW a \in Activations, NEW s \in States
  PROVE  LET c == AddTo(b, a, s)
         IN  /\ Good(c) /\ (Counted(b) => Counted(c))
             /\ \A x \in Activations \ {a} : c.marks[x] = b.marks[x]
             /\ Len(c.marks[a]) = Len(b.marks[a]) + 1
             /\ c.marks[a][Len(b.marks[a]) + 1] # on[a]
             /\ \A i \in DOMAIN b.marks[a] : c.marks[a][i] = b.marks[a][i]
             /\ \A u \in States \ {s} : c.regs[u] = b.regs[u]
<1> DEFINE c == AddTo(b, a, s)
           v == ~on[a]
           l == Append(b.slots[a], s)
           m == Append(b.marks[a], v)
           r == RegisterActivation(b.regs[s], a)
<1>0. v \in BOOLEAN
  BY Zenon
<1>1. /\ DOMAIN b = {"slots", "marks", "count", "regs"}
      /\ b.slots \in [Activations -> Seq(States \cup {None})]
      /\ b.marks \in [Activations -> Seq(BOOLEAN)]
      /\ b.count \in [Activations -> Int]
      /\ b.regs \in [States -> Seq(Activations)]
      /\ b \in Books /\ Matched(b) /\ Sorted(b.regs[s])
  BY BookParts DEF Good, Ascending
<1>2. c = [b EXCEPT !.slots[a] = l, !.marks[a] = m, !.count[a] = @ + 1, !.regs[s] = r]
  BY Zenon DEF AddTo
<1> HIDE DEF c, v, l, m, r
<1>20. c.slots = [b.slots EXCEPT ![a] = l]
  BY <1>1, <1>2
<1>21. c.marks = [b.marks EXCEPT ![a] = m]
  BY <1>1, <1>2
<1>22. c.count = [b.count EXCEPT ![a] = @ + 1]
  BY <1>1, <1>2
<1>23. c.regs = [b.regs EXCEPT ![s] = r]
  BY <1>1, <1>2
<1>24. c = [slots |-> c.slots, marks |-> c.marks, count |-> c.count, regs |-> c.regs]
  BY <1>1, <1>2
<1>3. l \in Seq(States \cup {None}) /\ Len(l) = Len(b.slots[a]) + 1
  BY <1>1 DEF l
<1>4. m \in Seq(BOOLEAN) /\ Len(m) = Len(b.marks[a]) + 1
  BY <1>0, <1>1 DEF m
<1>5. /\ r \in Seq(Activations) /\ Sorted(r)
      /\ \A x : Times(r, x) = Times(b.regs[s], x) + One(a = x)
  BY <1>1, Registered DEF r
<1>6. \A x : Times(l, x) = Times(b.slots[a], x) + One(s = x)
  <2>1. b.slots[a] \in Seq(States \cup {None}) /\ s \in States \cup {None}
    BY <1>1
  <2> QED
    BY <2>1, TimesAppend DEF l
<1>7. \A x : Times(m, x) = Times(b.marks[a], x) + One(v = x)
  <2>1. b.marks[a] \in Seq(BOOLEAN)
    BY <1>1
  <2> QED
    BY <1>0, <2>1, TimesAppend DEF m
<1>8. c \in Books
  <2>1. c.slots \in [Activations -> Seq(States \cup {None})]
    BY <1>1, <1>3, <1>20
  <2>2. c.marks \in [Activations -> Seq(BOOLEAN)]
    BY <1>1, <1>4, <1>21
  <2>3. c.count \in [Activations -> Int]
    BY <1>1, <1>22
  <2>4. c.regs \in [States -> Seq(Activations)]
    BY <1>1, <1>5, <1>23
  <2> QED
    BY <1>24, <2>1, <2>2, <2>3, <2>4 DEF Books
<1>9. Matched(c)
  BY <1>1, <1>20, <1>21, <1>3, <1>4 DEF Matched
<1>10. Good(c)
  <2>1. More(l, b.slots[a], States, s, 1)
    BY <1>6 DEF One, More
  <2>2. More(r, b.regs[s], Activations, a, 1)
    BY <1>5 DEF One, More
  <2> QED
    BY <1>20, <1>23, <1>5, <1>8, <1>9, <2>1, <2>2, EditsAgree
<1>11. ASSUME Counted(b) PROVE Counted(c)
  <2>1. Times(m, v) = Times(b.marks[a], v) + 1
    BY <1>7 DEF One
  <2>2. b.count[a] = Times(b.marks[a], v)
    BY <1>11 DEF Counted, v
  <2>3. c.count[a] = Times(c.marks[a], v)
    BY <1>1, <1>21, <1>22, <2>1, <2>2
  <2>4. \A x \in Activations : x # a => c.count[x] = b.count[x] /\ c.marks[x] = b.marks[x]
    BY <1>1, <1>21, <1>22
  <2> QED
    BY <1>11, <2>3, <2>4 DEF Counted, v
<1>12. \A u \in States \ {s} : c.regs[u] = b.regs[u]
  BY <1>1, <1>23
<1>13. \A x \in Activations \ {a} : c.marks[x] = b.marks[x]
  BY <1>1, <1>21
<1>14. /\ Len(c.marks[a]) = Len(b.marks[a]) + 1
       /\ c.marks[a][Len(b.marks[a]) + 1] = v
       /\ \A i \in DOMAIN b.marks[a] : c.marks[a][i] = b.marks[a][i]
  <2>1. c.marks[a] = m /\ b.marks[a] \in Seq(BOOLEAN)
    BY <1>1, <1>21
  <2> QED
    BY <1>0, <2>1 DEF m
<1>15. v # on[a]
  BY DEF v
<1> QED
  BY <1>10, <1>11, <1>12, <1>13, <1>14, <1>15 DEF c

LEMMA TakeFromGood ==
  ASSUME NEW b, Good(b), NEW a \in Activations, NEW s \in States
  PROVE  LET c == TakeFrom(b, a, s)
             i == SlotOf(b.slots[a], s)
         IN  /\ Good(c) /\ (Counted(b) => Counted(c))
             /\ c.marks = b.marks
             /\ i = 0 => c = b
             /\ i # 0 => i \in DOMAIN c.slots[a] /\ c.slots[a][i] = None
             /\ \A u \in States \ {s} : c.regs[u] = b.regs[u]
<1> DEFINE c == TakeFrom(b, a, s)
           i == SlotOf(b.slots[a], s)
           l == [b.slots[a] EXCEPT ![i] = None]
           r == RemoveFirst(b.regs[s], a)
<1>1. /\ DOMAIN b = {"slots", "marks", "count", "regs"}
      /\ b.slots \in [Activations -> Seq(States \cup {None})]
      /\ b.marks \in [Activations -> Seq(BOOLEAN)]
      /\ b.count \in [Activations -> Int]
      /\ b.regs \in [States -> Seq(Activations)]
      /\ b \in Books /\ Matched(b) /\ Sorted(b.regs[s])
      /\ Times(b.slots[a], s) = Times(b.regs[s], a)
  BY BookParts DEF Good, Ascending, Even
<1>2. CASE i = 0
  BY <1>2 DEF TakeFrom
<1>3. CASE i # 0
  <2>0. c = [b EXCEPT !.slots[a][i] = None, !.regs[s] = r]
    BY <1>3 DEF TakeFrom
  <2> HIDE DEF c, r
  <2>10. c.slots = [b.slots EXCEPT ![a] = l]
    BY <1>1, <2>0
  <2>11. c.marks = b.marks /\ c.count = b.count
    BY <1>1, <2>0
  <2>12. c.regs = [b.regs EXCEPT ![s] = r]
    BY <1>1, <2>0
  <2>13. c = [slots |-> c.slots, marks |-> c.marks, count |-> c.count, regs |-> c.regs]
    BY <1>1, <2>0
  <2>1. /\ c.slots = [b.slots EXCEPT ![a] = l]
        /\ c.marks = b.marks /\ c.count = b.count
        /\ c.regs = [b.regs EXCEPT ![s] = r]
        /\ c = [slots |-> c.slots, marks |-> c.marks, count |-> c.count, regs |-> c.regs]
    BY <2>10, <2>11, <2>12, <2>13
  <2>2. i \in DOMAIN b.slots[a] /\ b.slots[a][i] = s /\ Times(b.slots[a], s) # 0
    BY <1>1, <1>3, SlotFound
  <2> HIDE DEF i
  <2>3. l \in Seq(States \cup {None}) /\ Len(l) = Len(b.slots[a])
    BY <1>1, <2>2
  <2>4. \A x : Times(l, x) = Times(b.slots[a], x) - One(s = x) + One(None = x)
    <3>1. b.slots[a] \in Seq(States \cup {None}) /\ None \in States \cup {None}
      BY <1>1
    <3> QED
      BY <2>2, <3>1, TimesPut
  <2>5. /\ r \in Seq(Activations) /\ Sorted(r)
        /\ \A x : Times(r, x) = Times(b.regs[s], x) - One(a = x /\ Times(b.regs[s], a) # 0)
    BY <1>1, Unlisted DEF r
  <2>6. \A x : Times(b.slots[a], x) \in Nat /\ Times(b.regs[s], x) \in Nat
    BY <1>1, PlacesFinite
  <2> HIDE DEF l, r
  <2>7. c \in Books /\ Matched(c)
    BY <1>1, <2>1, <2>3, <2>5 DEF Books, Matched
  <2>8. Good(c)
    <3>0. PICK d \in Int : d = -1
      OBVIOUS
    <3>1. More(l, b.slots[a], States, s, d)
      BY <2>4, <2>6, <3>0, ActivationAssumption DEF One, More
    <3>2. More(r, b.regs[s], Activations, a, d)
      BY <1>1, <3>0, <2>2, <2>5, <2>6 DEF One, More
    <3> QED
      BY <2>1, <2>5, <2>7, <3>1, <3>2, EditsAgree
  <2>9. Counted(b) => Counted(c)
    BY <2>1 DEF Counted
  <2>14. i \in DOMAIN c.slots[a] /\ c.slots[a][i] = None
    BY <1>1, <2>1, <2>2 DEF l
  <2>15. \A u \in States \ {s} : c.regs[u] = b.regs[u]
    BY <1>1, <2>1
  <2> QED
    BY <1>3, <2>1, <2>8, <2>9, <2>14, <2>15 DEF c, i
<1> QED
  BY <1>2, <1>3

LEMMA CutFromGood ==
  ASSUME NEW b, Good(b), on \in [Activations -> BOOLEAN],
         NEW a \in Activations, NEW s \in States, SlotOf(b.slots[a], s) # 0
  PROVE  LET c == CutFrom(b, a, s)
             n == Len(b.slots[a]) - 1
         IN  /\ Good(c) /\ (Counted(b) => Counted(c))
             /\ n \in Nat /\ Len(b.marks[a]) = n + 1 /\ Len(c.marks[a]) = n
             /\ \A x \in Activations \ {a} : c.marks[x] = b.marks[x]
             /\ \A j \in DOMAIN c.marks[a] : c.marks[a][j] # on[a]
             /\ \A u \in States \ {s} : c.regs[u] = b.regs[u]
<1> DEFINE c == CutFrom(b, a, s)
           i == SlotOf(b.slots[a], s)
           n == Len(b.slots[a]) - 1
           v == ~on[a]
           l == RemoveAt(b.slots[a], i)
           m == [j \in 1 .. n |-> v]
           r == RemoveFirst(b.regs[s], a)
<1>0. v \in BOOLEAN
  BY Zenon
<1>1. /\ DOMAIN b = {"slots", "marks", "count", "regs"}
      /\ b.slots \in [Activations -> Seq(States \cup {None})]
      /\ b.marks \in [Activations -> Seq(BOOLEAN)]
      /\ b.count \in [Activations -> Int]
      /\ b.regs \in [States -> Seq(Activations)]
      /\ b \in Books /\ Matched(b) /\ Sorted(b.regs[s])
      /\ Times(b.slots[a], s) = Times(b.regs[s], a)
  BY BookParts DEF Good, Ascending, Even
<1>2. i \in DOMAIN b.slots[a] /\ b.slots[a][i] = s /\ Times(b.slots[a], s) # 0
  BY <1>1, SlotFound
<1>3. c = [b EXCEPT !.slots[a] = l, !.marks[a] = m, !.count[a] = n, !.regs[s] = r]
  BY Zenon DEF CutFrom
<1> HIDE DEF c, i, l, m, v, r
<1>4. n \in Nat
  BY <1>1, <1>2
<1>5. l \in Seq(States \cup {None}) /\ Len(l) = n
  <2>1. b.slots[a] \in Seq(States \cup {None})
    BY <1>1
  <2> QED
    BY <1>2, <2>1, RemovedItems DEF l
<1>6. m \in Seq(BOOLEAN) /\ Len(m) = n /\ Times(m, v) = n
  <2>1. m \in Seq(BOOLEAN) /\ Len(m) = n
    BY <1>0, <1>4 DEF m
  <2> QED
    BY <1>4, <2>1, TimesConstant DEF m
<1> HIDE DEF n
<1>20. c.slots = [b.slots EXCEPT ![a] = l]
  BY <1>1, <1>3
<1>21. c.marks = [b.marks EXCEPT ![a] = m]
  BY <1>1, <1>3
<1>22. c.count = [b.count EXCEPT ![a] = n]
  BY <1>1, <1>3
<1>23. c.regs = [b.regs EXCEPT ![s] = r]
  BY <1>1, <1>3
<1>24. c = [slots |-> c.slots, marks |-> c.marks, count |-> c.count, regs |-> c.regs]
  BY <1>1, <1>3
<1>7. \A x : Times(l, x) = Times(b.slots[a], x) - One(s = x)
  <2>1. b.slots[a] \in Seq(States \cup {None})
    BY <1>1
  <2> QED
    BY <1>2, <2>1, TimesRemoved DEF l
<1>8. /\ r \in Seq(Activations) /\ Sorted(r)
      /\ \A x : Times(r, x) = Times(b.regs[s], x) - One(a = x /\ Times(b.regs[s], a) # 0)
  BY <1>1, Unlisted DEF r
<1>9. \A x : Times(b.slots[a], x) \in Nat /\ Times(b.regs[s], x) \in Nat
  BY <1>1, PlacesFinite
<1>10. c \in Books
  <2>1. c.slots \in [Activations -> Seq(States \cup {None})]
    BY <1>1, <1>5, <1>20
  <2>2. c.marks \in [Activations -> Seq(BOOLEAN)]
    BY <1>1, <1>6, <1>21
  <2>3. c.count \in [Activations -> Int]
    BY <1>1, <1>4, <1>22
  <2>4. c.regs \in [States -> Seq(Activations)]
    BY <1>1, <1>8, <1>23
  <2> QED
    BY <1>24, <2>1, <2>2, <2>3, <2>4 DEF Books
<1>11. Matched(c)
  BY <1>1, <1>5, <1>6, <1>20, <1>21 DEF Matched
<1>12. Good(c)
  <2>0. PICK d \in Int : d = -1
    OBVIOUS
  <2>1. More(l, b.slots[a], States, s, d)
    BY <1>7, <1>9, <2>0 DEF One, More
  <2>2. More(r, b.regs[s], Activations, a, d)
    BY <1>1, <1>2, <1>8, <1>9, <2>0 DEF One, More
  <2> QED
    BY <1>8, <1>10, <1>11, <1>20, <1>23, <2>1, <2>2, EditsAgree
<1>13. ASSUME Counted(b) PROVE Counted(c)
  <2>1. c.count[a] = Times(c.marks[a], v)
    BY <1>1, <1>6, <1>21, <1>22
  <2>2. \A x \in Activations : x # a => c.count[x] = b.count[x] /\ c.marks[x] = b.marks[x]
    BY <1>1, <1>21, <1>22
  <2> QED
    BY <1>13, <2>1, <2>2 DEF Counted, v
<1>14. /\ Len(b.marks[a]) = n + 1 /\ Len(c.marks[a]) = n
       /\ \A x \in Activations \ {a} : c.marks[x] = b.marks[x]
  BY <1>1, <1>4, <1>6, <1>21 DEF Matched, n
<1>16. \A j \in DOMAIN c.marks[a] : c.marks[a][j] = v
  BY <1>1, <1>4, <1>21 DEF m
<1>17. v # on[a]
  BY DEF v
<1>15. \A u \in States \ {s} : c.regs[u] = b.regs[u]
  BY <1>1, <1>23
<1> QED
  BY <1>4, <1>12, <1>13, <1>14, <1>15, <1>16, <1>17 DEF c, n

LEMMA PutAtGood ==
  ASSUME NEW b, Good(b), NEW a \in Activations, NEW s \in States, NEW i,
         i # 0 => i \in DOMAIN b.slots[a] /\ b.slots[a][i] = None
  PROVE  LET c == PutAt(b, a, i, s)
         IN  /\ Good(c) /\ (Counted(b) => Counted(c))
             /\ c.marks = b.marks
             /\ \A u \in States \ {s} : c.regs[u] = b.regs[u]
<1> DEFINE c == PutAt(b, a, i, s)
           l == [b.slots[a] EXCEPT ![i] = s]
           r == RegisterActivation(b.regs[s], a)
<1>1. /\ DOMAIN b = {"slots", "marks", "count", "regs"}
      /\ b.slots \in [Activations -> Seq(States \cup {None})]
      /\ b.marks \in [Activations -> Seq(BOOLEAN)]
      /\ b.count \in [Activations -> Int]
      /\ b.regs \in [States -> Seq(Activations)]
      /\ b \in Books /\ Matched(b) /\ Sorted(b.regs[s])
  BY BookParts DEF Good, Ascending
<1>2. CASE i = 0
  BY <1>2 DEF PutAt
<1>3. CASE i # 0
  <2>0. c = [b EXCEPT !.slots[a][i] = s, !.regs[s] = r]
    BY <1>3 DEF PutAt
  <2> HIDE DEF c, r
  <2>10. c.slots = [b.slots EXCEPT ![a] = l]
    BY <1>1, <2>0
  <2>11. c.marks = b.marks /\ c.count = b.count
    BY <1>1, <2>0
  <2>12. c.regs = [b.regs EXCEPT ![s] = r]
    BY <1>1, <2>0
  <2>13. c = [slots |-> c.slots, marks |-> c.marks, count |-> c.count, regs |-> c.regs]
    BY <1>1, <2>0
  <2>3. l \in Seq(States \cup {None}) /\ Len(l) = Len(b.slots[a])
    BY <1>1, <1>3
  <2>4. \A x : Times(l, x) = Times(b.slots[a], x) - One(None = x) + One(s = x)
    <3>1. b.slots[a] \in Seq(States \cup {None}) /\ s \in States \cup {None}
      BY <1>1
    <3> QED
      BY <1>3, <3>1, TimesPut
  <2>5. /\ r \in Seq(Activations) /\ Sorted(r)
        /\ \A x : Times(r, x) = Times(b.regs[s], x) + One(a = x)
    BY <1>1, Registered DEF r
  <2>6. \A x : Times(b.slots[a], x) \in Nat /\ Times(b.regs[s], x) \in Nat
    BY <1>1, PlacesFinite
  <2> HIDE DEF l
  <2>7. c \in Books /\ Matched(c)
    <3>1. c.slots \in [Activations -> Seq(States \cup {None})]
      BY <1>1, <2>3, <2>10
    <3>2. c.regs \in [States -> Seq(Activations)]
      BY <1>1, <2>5, <2>12
    <3>3. c \in Books
      BY <1>1, <2>11, <2>13, <3>1, <3>2 DEF Books
    <3>4. Matched(c)
      BY <1>1, <2>3, <2>10, <2>11 DEF Matched
    <3> QED
      BY <3>3, <3>4
  <2>8. Good(c)
    <3>1. More(l, b.slots[a], States, s, 1)
      BY <2>4, <2>6, ActivationAssumption DEF One, More
    <3>2. More(r, b.regs[s], Activations, a, 1)
      BY <2>5, <2>6 DEF One, More
    <3> QED
      BY <2>10, <2>12, <2>5, <2>7, <3>1, <3>2, EditsAgree
  <2>9. Counted(b) => Counted(c)
    BY <2>11 DEF Counted
  <2>14. \A u \in States \ {s} : c.regs[u] = b.regs[u]
    BY <1>1, <2>12
  <2> QED
    BY <2>8, <2>9, <2>11, <2>14 DEF c
<1> QED
  BY <1>2, <1>3

(* How the book changes along the loop of a state's destructor.            *)
LEMMA FastTaken ==
  ASSUME NEW b \in Books, NEW a \in Activations, NEW s \in States
  PROVE  LET c == RemoveActivatorFast(b, a, s)
             i == SlotOf(b.slots[a], s)
         IN  /\ c \in Books
             /\ c.marks = b.marks /\ c.count = b.count /\ c.regs = b.regs
             /\ i = 0 => c = b
             /\ i # 0 => c.slots = [b.slots EXCEPT ![a] = [@ EXCEPT ![i] = None]]
<1> DEFINE c == RemoveActivatorFast(b, a, s)
           i == SlotOf(b.slots[a], s)
           l == [b.slots[a] EXCEPT ![i] = None]
<1>1. /\ DOMAIN b = {"slots", "marks", "count", "regs"}
      /\ b.slots \in [Activations -> Seq(States \cup {None})]
      /\ b.marks \in [Activations -> Seq(BOOLEAN)]
      /\ b.count \in [Activations -> Int]
      /\ b.regs \in [States -> Seq(Activations)]
  BY BookParts
<1>2. CASE i = 0
  BY <1>2 DEF RemoveActivatorFast
<1>3. CASE i # 0
  <2>1. c = [b EXCEPT !.slots[a][i] = None]
    BY <1>3 DEF RemoveActivatorFast
  <2> HIDE DEF c
  <2>2. c.slots = [b.slots EXCEPT ![a] = l]
    BY <1>1, <2>1
  <2>3. c.marks = b.marks /\ c.count = b.count /\ c.regs = b.regs
    BY <1>1, <2>1
  <2>4. c = [slots |-> c.slots, marks |-> c.marks, count |-> c.count, regs |-> c.regs]
    BY <1>1, <2>1
  <2>5. i \in DOMAIN b.slots[a]
    BY <1>1, <1>3, SlotFound
  <2>6. l \in Seq(States \cup {None})
    BY <1>1, <2>5
  <2>7. c.slots \in [Activations -> Seq(States \cup {None})]
    BY <1>1, <2>2, <2>6
  <2>8. c \in Books
    BY <1>1, <2>3, <2>4, <2>7 DEF Books
  <2> QED
    BY <1>3, <2>2, <2>3, <2>8 DEF c, l
<1> QED
  BY <1>2, <1>3

LEMMA DestructorTurns ==
  ASSUME NEW b \in Books, NEW s \in States
  PROVE  \E g : /\ g[0] = b
                /\ \A k \in 1 .. Len(b.regs[s]) :
                     g[k] = RemoveActivatorFast(g[k - 1], b.regs[s][k], s)
                /\ Deregister(b, s) = [g[Len(b.regs[s])] EXCEPT !.regs[s] = <<>>]
<1> DEFINE l == b.regs[s]
           n == Len(l)
           f == [p \in Books \X (1 .. n) |-> RemoveActivatorFast(p[1], l[p[2]], s)]
           Turns(g) == g = [t \in SUBSET (1 .. n) |->
                              IF t = {} THEN b
                              ELSE RemoveActivatorFast(g[t \ {Max(t)}], l[Max(t)], s)]
           it == CHOOSE g : Turns(g)
           g == [k \in 0 .. n |-> it[1 .. k]]
<1>1. l \in Seq(Activations) /\ n \in Nat /\ DOMAIN l = 1 .. n
      /\ \A k \in 1 .. n : l[k] \in Activations
  BY BookParts
<1>2. f \in [Books \X (1 .. n) -> Books]
  BY <1>1, FastTaken
<1>3. \E h : Turns(h)
  <2>1. PICK h \in [SUBSET (1 .. n) -> Books] : Folds(h, b, f, n)
    <3> HIDE DEF f, n
    <3> QED
      BY <1>1, <1>2, FoldExists
  <2>2. ASSUME NEW t \in SUBSET (1 .. n), t # {}
        PROVE  f[<<h[t \ {Max(t)}], Max(t)>>]
                 = RemoveActivatorFast(h[t \ {Max(t)}], l[Max(t)], s)
    <3>1. Max(t) \in 1 .. n /\ h[t \ {Max(t)}] \in Books
      <4>1. Max(t) \in t
        BY <1>1, <2>2, GreatestIn
      <4>2. t \ {Max(t)} \in SUBSET (1 .. n)
        OBVIOUS
      <4> QED
        BY <2>1, <4>1, <4>2
    <3> QED
      BY <3>1
  <2> HIDE DEF f
  <2>3. Turns(h)
    BY <2>1, <2>2 DEF Folds
  <2> QED
    BY <2>3
<1>4. Turns(it)
  <2> HIDE DEF Turns
  <2> QED
    BY <1>3
<1>5. Deregister(b, s) = [it[1 .. n] EXCEPT !.regs[s] = <<>>]
  BY <1>1 DEF Deregister, FoldLeft, MapThenFoldSet
<1> HIDE DEF it
<1>6. g[0] = b
  <2>1. {} \in SUBSET (1 .. n) /\ 1 .. 0 = {} /\ 0 \in 0 .. n
    BY <1>1
  <2> QED
    BY <1>4, <2>1
<1>7. ASSUME NEW k \in 1 .. n PROVE g[k] = RemoveActivatorFast(g[k - 1], l[k], s)
  <2>1. /\ 1 .. k \in SUBSET (1 .. n) /\ 1 .. k # {}
        /\ Max(1 .. k) = k /\ (1 .. k) \ {Max(1 .. k)} = 1 .. k - 1
    BY <1>1, LastPlace
  <2>2. it[1 .. k] = RemoveActivatorFast(it[1 .. k - 1], l[k], s)
    BY <1>4, <2>1
  <2>3. k \in 0 .. n /\ k - 1 \in 0 .. n
    BY <1>1
  <2> QED
    BY <2>2, <2>3
<1>8. g[n] = it[1 .. n]
  BY <1>1
<1> HIDE DEF g
<1> QED
  BY <1>5, <1>6, <1>7, <1>8

(* The slots that hold something else than s.                              *)
Spared(b, c, s) ==
  \A a \in Activations : \A j \in DOMAIN b.slots[a] :
    b.slots[a][j] # s => c.slots[a][j] = b.slots[a][j]

(* A deleted state is in no slot any more, and nothing else has changed.   *)
LEMMA DeregisterGood ==
  ASSUME NEW b, Good(b), NEW s \in States
  PROVE  LET c == Deregister(b, s)
         IN  /\ Good(c) /\ (Counted(b) => Counted(c))
             /\ c.marks = b.marks
             /\ c.regs = [b.regs EXCEPT ![s] = <<>>]
             /\ Spared(b, c, s)
<1> DEFINE c == Deregister(b, s)
           l == b.regs[s]
           n == Len(l)
<1>1. /\ b.slots \in [Activations -> Seq(States \cup {None})]
      /\ b.regs \in [States -> Seq(Activations)]
      /\ b \in Books /\ Matched(b)
      /\ l \in Seq(Activations) /\ n \in Nat
      /\ \A k \in 1 .. n : l[k] \in Activations
      /\ \A a \in Activations : Times(b.slots[a], s) = Times(l, a)
  BY BookParts DEF Good, Even
<1>2. PICK g : /\ g[0] = b
               /\ \A k \in 1 .. n : g[k] = RemoveActivatorFast(g[k - 1], l[k], s)
               /\ c = [g[n] EXCEPT !.regs[s] = <<>>]
  BY <1>1, DestructorTurns
<1> HIDE DEF c, l, n
<1> DEFINE Off(u, a, k) == IF u = s THEN TimesUpTo(l, a, k) ELSE 0
           Same(h) == /\ h \in Books
                      /\ h.marks = b.marks /\ h.count = b.count /\ h.regs = b.regs
           Kept(h) == \A a \in Activations :
                        /\ DOMAIN h.slots[a] = DOMAIN b.slots[a]
                        /\ \A j \in DOMAIN b.slots[a] :
                             b.slots[a][j] # s => h.slots[a][j] = b.slots[a][j]
           Fewer(h, k) == \A a \in Activations, u \in States :
                            Times(h.slots[a], u) = Times(b.slots[a], u) - Off(u, a, k)
           P(k) == Same(g[k]) /\ Kept(g[k]) /\ Fewer(g[k], k)
           S == {k \in Nat : k <= n => P(k)}
<1>4. P(0)
  <2>1. \A a \in Activations, u \in States :
          Off(u, a, 0) = 0 /\ Times(b.slots[a], u) \in Nat
    BY <1>1, TimesUpToStep, PlacesFinite
  <2> QED
    BY <1>1, <1>2, <2>1
<1>5. ASSUME NEW k \in 1 .. n, P(k - 1) PROVE P(k)
  <2> DEFINE h == g[k - 1]
             a == l[k]
             i == SlotOf(h.slots[a], s)
             q == [h.slots[a] EXCEPT ![i] = None]
  <2>1. a \in Activations /\ k - 1 \in Nat
    BY <1>1
  <2>2. /\ h \in Books /\ h.marks = b.marks /\ h.count = b.count /\ h.regs = b.regs
        /\ Kept(h) /\ Fewer(h, k - 1)
    BY <1>5
  <2>3. h.slots \in [Activations -> Seq(States \cup {None})]
    BY <2>2, BookParts
  <2>4. g[k] = RemoveActivatorFast(h, a, s)
    BY <1>2
  <2> HIDE DEF h, a, P, S, Kept, Fewer
  <2>5. /\ \A x \in Activations : TimesUpTo(l, x, k) = TimesUpTo(l, x, k - 1) + One(a = x)
        /\ \A x \in Activations : TimesUpTo(l, x, k - 1) \in Nat
        /\ TimesUpTo(l, a, k) <= Times(l, a)
        /\ Times(l, a) \in Nat
    <3>1. k \in 1 .. Len(l)
      BY DEF n
    <3>2. \A x \in Activations : TimesUpTo(l, x, k) = TimesUpTo(l, x, k - 1) + One(a = x)
      BY <1>1, <3>1, TimesUpToStep DEF a
    <3>3. \A x \in Activations : TimesUpTo(l, x, k - 1) \in Nat
      BY <1>1, <2>1, TimesUpToStep
    <3>4. TimesUpTo(l, a, k) <= Times(l, a)
      BY <1>1, <3>1, TimesUpToStep
    <3> QED
      BY <1>1, <3>2, <3>3, <3>4, PlacesFinite
  <2>6. Times(h.slots[a], s) # 0
    <3>1. Times(h.slots[a], s) = Times(l, a) - TimesUpTo(l, a, k - 1)
      BY <1>1, <2>1, <2>2 DEF Fewer
    <3>2. TimesUpTo(l, a, k) = TimesUpTo(l, a, k - 1) + 1
      BY <2>1, <2>5 DEF One
    <3> QED
      BY <2>1, <2>5, <3>1, <3>2
  <2>7. i # 0 /\ i \in DOMAIN h.slots[a] /\ h.slots[a][i] = s
    BY <2>1, <2>3, <2>6, SlotFound
  <2>8. /\ Same(g[k]) /\ g[k].slots = [h.slots EXCEPT ![a] = q]
    BY <2>1, <2>2, <2>4, <2>7, FastTaken
  <2> HIDE DEF i, q, Same
  <2>9. /\ \A x \in Activations : x # a => g[k].slots[x] = h.slots[x]
        /\ g[k].slots[a] = q
    BY <2>1, <2>3, <2>8
  <2>10. Kept(g[k])
    <3> SUFFICES ASSUME NEW x \in Activations
                 PROVE  /\ DOMAIN g[k].slots[x] = DOMAIN b.slots[x]
                        /\ \A j \in DOMAIN b.slots[x] :
                             b.slots[x][j] # s => g[k].slots[x][j] = b.slots[x][j]
      BY DEF Kept
    <3>1. /\ DOMAIN h.slots[x] = DOMAIN b.slots[x]
          /\ \A j \in DOMAIN b.slots[x] :
               b.slots[x][j] # s => h.slots[x][j] = b.slots[x][j]
      BY <2>2 DEF Kept
    <3>2. CASE x # a
      BY <2>9, <3>1, <3>2
    <3>3. CASE x = a
      <4>1. DOMAIN q = DOMAIN h.slots[a] /\ \A j \in DOMAIN q : j # i => q[j] = h.slots[a][j]
        BY <2>1, <2>3, <2>7 DEF q
      <4>2. b.slots[a][i] = s
        <5>1. i \in DOMAIN b.slots[a]
          BY <2>7, <3>1, <3>3
        <5>2. b.slots[a][i] # s => h.slots[a][i] = b.slots[a][i]
          BY <3>1, <3>3, <5>1
        <5> QED
          BY <2>7, <5>2
      <4> QED
        BY <2>9, <3>1, <3>3, <4>1, <4>2
    <3> QED
      BY <3>2, <3>3
  <2>11. Fewer(g[k], k)
    <3> SUFFICES ASSUME NEW x \in Activations, NEW u \in States
                 PROVE  Times(g[k].slots[x], u) = Times(b.slots[x], u) - Off(u, x, k)
      BY DEF Fewer
    <3>1. /\ Times(h.slots[x], u) = Times(b.slots[x], u) - Off(u, x, k - 1)
          /\ Times(b.slots[x], u) \in Nat
      BY <1>1, <2>2, PlacesFinite DEF Fewer
    <3>2. Off(u, x, k) = Off(u, x, k - 1) + One(u = s /\ a = x) /\ Off(u, x, k - 1) \in Nat
      <4>1. CASE u = s
        BY <2>5, <4>1 DEF One
      <4>2. CASE u # s
        BY <4>2 DEF One
      <4> QED
        BY <4>1, <4>2
    <3> HIDE DEF Off
    <3>3. CASE x # a
      <4>1. Off(u, x, k) = Off(u, x, k - 1)
        BY <3>2, <3>3 DEF One
      <4> QED
        BY <2>9, <3>1, <3>3, <4>1
    <3>4. CASE x = a
      <4>1. Times(q, u) = Times(h.slots[a], u) - One(s = u) + One(None = u)
        <5>1. h.slots[a] \in Seq(States \cup {None}) /\ None \in States \cup {None}
          BY <2>1, <2>3
        <5> QED
          BY <2>7, <5>1, TimesPut DEF q
      <4>2. None # u
        BY ActivationAssumption
      <4>3. Times(q, u) = Times(h.slots[a], u) - One(s = u)
        BY <3>1, <3>2, <3>4, <4>1, <4>2 DEF One
      <4>4. Off(u, x, k) = Off(u, x, k - 1) + One(s = u)
        BY <3>2, <3>4 DEF One
      <4> QED
        BY <2>9, <3>1, <3>2, <3>4, <4>3, <4>4 DEF One
    <3> QED
      BY <3>3, <3>4
  <2> QED
    BY <2>8, <2>10, <2>11 DEF P
<1>6. P(n)
  <2> HIDE DEF P
  <2>1. ASSUME NEW k \in Nat, k \in S PROVE k + 1 \in S
    <3>1. (k + 1) - 1 = k /\ k + 1 \in Nat /\ (k + 1 <= n => k <= n /\ k + 1 \in 1 .. n)
      BY <1>1
    <3> QED
      BY <1>5, <2>1, <3>1
  <2>2. 0 \in S
    BY <1>4
  <2>3. n \in S => P(n)
    BY <1>1
  <2> HIDE DEF S
  <2> QED
    BY <1>1, <2>1, <2>2, <2>3, SetInduction
<1>7. /\ g[n] \in Books /\ DOMAIN g[n] = {"slots", "marks", "count", "regs"}
      /\ g[n].marks = b.marks /\ g[n].count = b.count /\ g[n].regs = b.regs
      /\ g[n].slots \in [Activations -> Seq(States \cup {None})]
      /\ g[n].marks \in [Activations -> Seq(BOOLEAN)]
      /\ g[n].count \in [Activations -> Int]
  BY <1>6, BookParts
<1>20. c.slots = g[n].slots
  BY <1>2, <1>7
<1>21. c.marks = b.marks /\ c.count = b.count
  BY <1>2, <1>7
<1>22. c.regs = [b.regs EXCEPT ![s] = <<>>]
  BY <1>1, <1>2, <1>7
<1>23. c = [slots |-> c.slots, marks |-> c.marks, count |-> c.count, regs |-> c.regs]
  BY <1>2, <1>7
<1>24. c.regs \in [States -> Seq(Activations)]
  BY <1>1, <1>22
<1>8. c \in Books
  BY <1>7, <1>20, <1>21, <1>23, <1>24 DEF Books
<1>9. /\ \A a \in Activations : DOMAIN c.slots[a] = DOMAIN b.slots[a]
      /\ \A a \in Activations : \A j \in DOMAIN b.slots[a] :
           b.slots[a][j] # s => c.slots[a][j] = b.slots[a][j]
  BY <1>6, <1>20
<1>10. Matched(c)
  <2> SUFFICES ASSUME NEW a \in Activations PROVE Len(c.marks[a]) = Len(c.slots[a])
    BY DEF Matched
  <2>1. Len(b.marks[a]) = Len(b.slots[a]) /\ DOMAIN c.slots[a] = DOMAIN b.slots[a]
    BY <1>1, <1>9 DEF Matched
  <2>2. b.slots[a] \in Seq(States \cup {None}) /\ c.slots[a] \in Seq(States \cup {None})
    BY <1>1, <1>7, <1>20
  <2>3. Len(c.slots[a]) = Len(b.slots[a])
    BY <2>1, <2>2
  <2> QED
    BY <1>21, <2>1, <2>3
<1>11. Ascending(c)
  <2> SUFFICES ASSUME NEW u \in States PROVE Sorted(c.regs[u])
    BY DEF Ascending
  <2>1. Sorted(b.regs[u])
    BY DEF Good, Ascending
  <2>2. CASE u = s
    BY <1>1, <1>22, <2>2 DEF Sorted
  <2>3. CASE u # s
    BY <1>1, <1>22, <2>1, <2>3
  <2> QED
    BY <2>2, <2>3
<1>12. Even(c)
  <2> SUFFICES ASSUME NEW a \in Activations, NEW u \in States
               PROVE  Times(c.slots[a], u) = Times(c.regs[u], a)
    BY DEF Even
  <2>1. /\ Times(b.slots[a], u) = Times(b.regs[u], a)
        /\ Times(b.slots[a], u) \in Nat
    BY <1>1, PlacesFinite DEF Good, Even
  <2>2. Times(c.slots[a], u) = Times(b.slots[a], u) - Off(u, a, n)
    BY <1>6, <1>20
  <2>3. CASE u = s
    <3>1. TimesUpTo(l, a, n) = Times(l, a)
      BY <1>1, TimesUpToStep DEF n
    <3>2. Times(<<>>, a) = 0
      <4>1. <<>> \in Seq(Activations) /\ DOMAIN <<>> = {}
        OBVIOUS
      <4> QED
        BY <4>1, TimesZero
    <3>3. c.regs[u] = <<>>
      BY <1>1, <1>22, <2>3
    <3> QED
      BY <1>1, <2>1, <2>2, <2>3, <3>1, <3>2, <3>3
  <2>4. CASE u # s
    <3>1. c.regs[u] = b.regs[u]
      BY <1>1, <1>22, <2>4
    <3> QED
      BY <2>1, <2>2, <2>4, <3>1
  <2> QED
    BY <2>3, <2>4
<1>13. Counted(b) => Counted(c)
  BY <1>21 DEF Counted
<1> QED
  BY <1>8, <1>9, <1>10, <1>11, <1>12, <1>13, <1>21, <1>22 DEF Good, Spared, c

-----------------------------------------------------------------------------
(* The loop that moves the registrations of an inlet to its replacement.   *)

LEMMA MoveGood ==
  ASSUME NEW b, Good(b), NEW a \in Activations, NEW s \in States, NEW n \in States
  PROVE  LET c == Move(b, a, s, n)
         IN  /\ Good(c) /\ (Counted(b) => Counted(c))
             /\ c.marks = b.marks
             /\ \A u \in States \ {s, n} : c.regs[u] = b.regs[u]
<1> DEFINE i == SlotOf(b.slots[a], s)
           d == TakeFrom(b, a, s)
           c == PutAt(d, a, i, n)
<1> HIDE DEF i, d, c
<1>3. /\ Good(d) /\ (Counted(b) => Counted(d)) /\ d.marks = b.marks
      /\ \A u \in States \ {s} : d.regs[u] = b.regs[u]
  BY TakeFromGood DEF d
<1>4. i # 0 => i \in DOMAIN d.slots[a] /\ d.slots[a][i] = None
  BY TakeFromGood DEF d, i
<1>5. /\ Good(c) /\ (Counted(d) => Counted(c)) /\ c.marks = d.marks
      /\ \A u \in States \ {n} : c.regs[u] = d.regs[u]
  BY <1>3, <1>4, PutAtGood DEF c
<1>6. c = Move(b, a, s, n)
  BY DEF c, d, i, Move
<1> QED
  BY <1>3, <1>5, <1>6

Moved(b, s, n, l) == FoldLeft(LAMBDA c, a : Move(c, a, s, n), b, l)

LEMMA MoveTurns ==
  ASSUME NEW b, Good(b), NEW s \in States, NEW n \in States, NEW l \in Seq(Activations)
  PROVE  \E g : /\ g[0] = b
                /\ \A k \in 1 .. Len(l) : g[k] = Move(g[k - 1], l[k], s, n)
                /\ Moved(b, s, n, l) = g[Len(l)]
<1> DEFINE R == {c \in Books : Good(c)}
           m == Len(l)
           f == [p \in R \X (1 .. m) |-> Move(p[1], l[p[2]], s, n)]
           Turns(g) == g = [t \in SUBSET (1 .. m) |->
                              IF t = {} THEN b ELSE Move(g[t \ {Max(t)}], l[Max(t)], s, n)]
           it == CHOOSE g : Turns(g)
           g == [k \in 0 .. m |-> it[1 .. k]]
<1>1. b \in R /\ m \in Nat /\ DOMAIN l = 1 .. m /\ \A k \in 1 .. m : l[k] \in Activations
  BY DEF Good
<1>0. ASSUME NEW c \in R, NEW k \in 1 .. m PROVE Move(c, l[k], s, n) \in R
  <2>1. Good(c) /\ l[k] \in Activations
    BY <1>1
  <2>2. Good(Move(c, l[k], s, n))
    BY <2>1, MoveGood
  <2> QED
    BY <2>2 DEF Good
<1> HIDE DEF R
<1>2. f \in [R \X (1 .. m) -> R]
  BY <1>0
<1>3. \E h : Turns(h)
  <2>1. PICK h \in [SUBSET (1 .. m) -> R] : Folds(h, b, f, m)
    <3> HIDE DEF f, m
    <3> QED
      BY <1>1, <1>2, FoldExists
  <2>2. ASSUME NEW t \in SUBSET (1 .. m), t # {}
        PROVE  f[<<h[t \ {Max(t)}], Max(t)>>] = Move(h[t \ {Max(t)}], l[Max(t)], s, n)
    <3>1. Max(t) \in 1 .. m /\ h[t \ {Max(t)}] \in R
      <4>1. Max(t) \in t
        BY <1>1, <2>2, GreatestIn
      <4>2. t \ {Max(t)} \in SUBSET (1 .. m)
        OBVIOUS
      <4> QED
        BY <2>1, <4>1, <4>2
    <3> QED
      BY <3>1
  <2> HIDE DEF f
  <2>3. Turns(h)
    BY <2>1, <2>2 DEF Folds
  <2> QED
    BY <2>3
<1>4. Turns(it)
  <2> HIDE DEF Turns
  <2> QED
    BY <1>3
<1>5. Moved(b, s, n, l) = it[1 .. m]
  BY <1>1 DEF Moved, FoldLeft, MapThenFoldSet
<1> HIDE DEF it
<1>6. g[0] = b
  <2>1. {} \in SUBSET (1 .. m) /\ 1 .. 0 = {} /\ 0 \in 0 .. m
    BY <1>1
  <2> QED
    BY <1>4, <2>1
<1>7. ASSUME NEW k \in 1 .. m PROVE g[k] = Move(g[k - 1], l[k], s, n)
  <2>1. /\ 1 .. k \in SUBSET (1 .. m) /\ 1 .. k # {}
        /\ Max(1 .. k) = k /\ (1 .. k) \ {Max(1 .. k)} = 1 .. k - 1
    BY <1>1, LastPlace
  <2>2. it[1 .. k] = Move(it[1 .. k - 1], l[k], s, n)
    BY <1>4, <2>1
  <2>3. k \in 0 .. m /\ k - 1 \in 0 .. m
    BY <1>1
  <2> QED
    BY <2>2, <2>3
<1>8. g[m] = it[1 .. m]
  BY <1>1
<1> HIDE DEF g
<1> QED
  BY <1>5, <1>6, <1>7, <1>8

LEMMA MovedGood ==
  ASSUME NEW b, Good(b), NEW s \in States, NEW n \in States
  PROVE  LET c == Moved(b, s, n, b.regs[s])
         IN  /\ Good(c) /\ (Counted(b) => Counted(c))
             /\ c.marks = b.marks
             /\ \A u \in States \ {s, n} : c.regs[u] = b.regs[u]
<1> DEFINE l == b.regs[s]
           m == Len(l)
           c == Moved(b, s, n, l)
           P(d) == /\ Good(d) /\ (Counted(b) => Counted(d))
                   /\ d.marks = b.marks
                   /\ \A u \in States \ {s, n} : d.regs[u] = b.regs[u]
<1>1. l \in Seq(Activations) /\ m \in Nat /\ \A k \in 1 .. m : l[k] \in Activations
  BY BookParts DEF Good
<1> HIDE DEF l
<1>2. PICK g : /\ g[0] = b
               /\ \A k \in 1 .. m : g[k] = Move(g[k - 1], l[k], s, n)
               /\ c = g[m]
  BY <1>1, MoveTurns
<1> HIDE DEF c, m
<1> DEFINE S == {k \in Nat : k <= m => P(g[k])}
<1>3. P(g[0])
  BY <1>2
<1>4. ASSUME NEW k \in 1 .. m, P(g[k - 1]) PROVE P(g[k])
  <2>1. LET d == Move(g[k - 1], l[k], s, n)
        IN  /\ Good(d) /\ (Counted(g[k - 1]) => Counted(d))
            /\ d.marks = g[k - 1].marks
            /\ \A u \in States \ {s, n} : d.regs[u] = g[k - 1].regs[u]
    BY <1>1, <1>4, MoveGood
  <2> QED
    BY <1>2, <1>4, <2>1
<1> HIDE DEF P
<1>5. ASSUME NEW k \in Nat, k \in S PROVE k + 1 \in S
  <2>1. (k + 1) - 1 = k /\ k + 1 \in Nat /\ (k + 1 <= m => k <= m /\ k + 1 \in 1 .. m)
    BY <1>1
  <2> QED
    BY <1>4, <1>5, <2>1
<1>6. 0 \in S /\ (m \in S => P(g[m]))
  BY <1>1, <1>3
<1> HIDE DEF S
<1>7. P(c)
  BY <1>1, <1>2, <1>5, <1>6, SetInduction
<1> QED
  BY <1>7 DEF P, c, l

-----------------------------------------------------------------------------
(* The destructor of an activation takes it from the lists of the states   *)
(* in its slots l: here from the list r of the state u.                    *)

Erased(r, l, u, a) ==
  FoldLeft(LAMBDA k, x : IF x = u THEN RemoveFirst(k, a) ELSE k, r, l)

LEMMA EraseTurns ==
  ASSUME NEW r \in Seq(Activations), NEW l \in Seq(States \cup {None}), NEW u, NEW a
  PROVE  \E g : /\ g[0] = r
                /\ \A k \in 1 .. Len(l) :
                     g[k] = IF l[k] = u THEN RemoveFirst(g[k - 1], a) ELSE g[k - 1]
                /\ Erased(r, l, u, a) = g[Len(l)]
<1> DEFINE R == Seq(Activations)
           m == Len(l)
           Turn(q, x) == IF x = u THEN RemoveFirst(q, a) ELSE q
           f == [p \in R \X (1 .. m) |-> Turn(p[1], l[p[2]])]
           Turns(g) == g = [t \in SUBSET (1 .. m) |->
                              IF t = {} THEN r ELSE Turn(g[t \ {Max(t)}], l[Max(t)])]
           it == CHOOSE g : Turns(g)
           g == [k \in 0 .. m |-> it[1 .. k]]
<1>1. r \in R /\ m \in Nat /\ DOMAIN l = 1 .. m
  OBVIOUS
<1>0. ASSUME NEW q \in R, NEW x PROVE Turn(q, x) \in R
  BY Unlisted
<1>5. Erased(r, l, u, a) = it[1 .. m]
  BY <1>1 DEF Erased, FoldLeft, MapThenFoldSet
<1> HIDE DEF R, Turn
<1>2. f \in [R \X (1 .. m) -> R]
  BY <1>0
<1>3. \E h : Turns(h)
  <2>1. PICK h \in [SUBSET (1 .. m) -> R] : Folds(h, r, f, m)
    <3> HIDE DEF f, m
    <3> QED
      BY <1>1, <1>2, FoldExists
  <2>2. ASSUME NEW t \in SUBSET (1 .. m), t # {}
        PROVE  f[<<h[t \ {Max(t)}], Max(t)>>] = Turn(h[t \ {Max(t)}], l[Max(t)])
    <3>1. Max(t) \in 1 .. m /\ h[t \ {Max(t)}] \in R
      <4>1. Max(t) \in t
        BY <1>1, <2>2, GreatestIn
      <4>2. t \ {Max(t)} \in SUBSET (1 .. m)
        OBVIOUS
      <4> QED
        BY <2>1, <4>1, <4>2
    <3> QED
      BY <3>1
  <2> HIDE DEF f
  <2>3. Turns(h)
    BY <2>1, <2>2 DEF Folds
  <2> QED
    BY <2>3
<1>4. Turns(it)
  <2> HIDE DEF Turns
  <2> QED
    BY <1>3
<1> HIDE DEF it
<1>6. g[0] = r
  <2>1. {} \in SUBSET (1 .. m) /\ 1 .. 0 = {} /\ 0 \in 0 .. m
    BY <1>1
  <2> QED
    BY <1>4, <2>1
<1>7. ASSUME NEW k \in 1 .. m PROVE g[k] = Turn(g[k - 1], l[k])
  <2>1. /\ 1 .. k \in SUBSET (1 .. m) /\ 1 .. k # {}
        /\ Max(1 .. k) = k /\ (1 .. k) \ {Max(1 .. k)} = 1 .. k - 1
    BY <1>1, LastPlace
  <2>2. it[1 .. k] = Turn(it[1 .. k - 1], l[k])
    BY <1>4, <2>1
  <2>3. k \in 0 .. m /\ k - 1 \in 0 .. m
    BY <1>1
  <2> QED
    BY <2>2, <2>3
<1>8. g[m] = it[1 .. m]
  BY <1>1
<1> HIDE DEF g
<1> QED
  BY <1>5, <1>6, <1>7, <1>8 DEF Turn

LEMMA ErasedOften ==
  ASSUME NEW r \in Seq(Activations), NEW l \in Seq(States \cup {None}),
         NEW u \in States, NEW a \in Activations, Times(l, u) = Times(r, a)
  PROVE  LET q == Erased(r, l, u, a)
         IN  /\ q \in Seq(Activations) /\ (Sorted(r) => Sorted(q))
             /\ Times(q, a) = 0 /\ \A x : x # a => Times(q, x) = Times(r, x)
<1> DEFINE m == Len(l)
           q == Erased(r, l, u, a)
           Off(x, k) == IF x = a THEN TimesUpTo(l, u, k) ELSE 0
           P(h, k) == /\ h \in Seq(Activations) /\ (Sorted(r) => Sorted(h))
                      /\ \A x : Times(h, x) = Times(r, x) - Off(x, k)
<1>1. m \in Nat /\ TimesUpTo(l, u, 0) = 0 /\ TimesUpTo(l, u, m) = Times(l, u)
  BY TimesUpToStep
<1>11. \A k \in Nat : TimesUpTo(l, u, k) \in Nat
  BY TimesUpToStep
<1>12. \A k \in 1 .. m : TimesUpTo(l, u, k) <= Times(l, u)
  BY TimesUpToStep
<1>13. \A k \in 1 .. m : TimesUpTo(l, u, k) = TimesUpTo(l, u, k - 1) + One(l[k] = u)
  BY TimesUpToStep
<1>2. PICK g : /\ g[0] = r
               /\ \A k \in 1 .. m :
                    g[k] = IF l[k] = u THEN RemoveFirst(g[k - 1], a) ELSE g[k - 1]
               /\ q = g[m]
  BY EraseTurns
<1>3. \A x : Times(r, x) \in Nat
  BY PlacesFinite
<1> HIDE DEF q, m
<1> DEFINE S == {k \in Nat : k <= m => P(g[k], k)}
<1>4. P(g[0], 0)
  BY <1>1, <1>2, <1>3
<1>5. ASSUME NEW k \in 1 .. m, P(g[k - 1], k - 1) PROVE P(g[k], k)
  <2> DEFINE h == g[k - 1]
  <2>0. k - 1 \in Nat
    BY <1>1
  <2>1. k - 1 \in Nat /\ TimesUpTo(l, u, k - 1) \in Nat
    BY <1>11, <2>0
  <2>2. /\ h \in Seq(Activations) /\ (Sorted(r) => Sorted(h))
        /\ \A x : Times(h, x) = Times(r, x) - Off(x, k - 1)
    BY <1>5
  <2> HIDE DEF h
  <2>3. CASE l[k] # u
    <3>1. TimesUpTo(l, u, k) = TimesUpTo(l, u, k - 1)
      BY <1>13, <2>1, <2>3 DEF One
    <3>2. g[k] = h
      BY <1>2, <2>3 DEF h
    <3> QED
      BY <2>2, <3>1, <3>2
  <2>4. CASE l[k] = u
    <3>1. TimesUpTo(l, u, k) = TimesUpTo(l, u, k - 1) + 1
      BY <1>13, <2>1, <2>4 DEF One
    <3>2. g[k] = RemoveFirst(h, a)
      BY <1>2, <2>4 DEF h
    <3>3. Times(h, a) # 0
      <4>1. Times(h, a) = Times(r, a) - TimesUpTo(l, u, k - 1)
        BY <2>2
      <4>2. TimesUpTo(l, u, k) <= Times(r, a)
        BY <1>12
      <4> QED
        BY <1>3, <2>1, <3>1, <4>1, <4>2
    <3>4. /\ g[k] \in Seq(Activations) /\ (Sorted(h) => Sorted(g[k]))
          /\ \A x : Times(g[k], x) = Times(h, x) - One(a = x)
      <4>1. /\ g[k] \in Seq(Activations) /\ (Sorted(h) => Sorted(g[k]))
            /\ \A x : Times(g[k], x) = Times(h, x) - One(a = x /\ Times(h, a) # 0)
        BY <2>2, <3>2, Unlisted
      <4> QED
        BY <3>3, <4>1 DEF One
    <3>5. ASSUME NEW x PROVE Times(g[k], x) = Times(r, x) - Off(x, k)
      <4>1. Times(g[k], x) = Times(r, x) - Off(x, k - 1) - One(a = x)
        BY <2>2, <3>4
      <4>2. CASE x = a
        BY <1>3, <2>1, <3>1, <4>1, <4>2 DEF One
      <4>3. CASE x # a
        BY <1>3, <4>1, <4>3 DEF One
      <4> QED
        BY <4>2, <4>3
    <3> QED
      BY <2>2, <3>4, <3>5
  <2> QED
    BY <2>3, <2>4
<1> HIDE DEF P
<1>6. ASSUME NEW k \in Nat, k \in S PROVE k + 1 \in S
  <2>1. (k + 1) - 1 = k /\ k + 1 \in Nat /\ (k + 1 <= m => k <= m /\ k + 1 \in 1 .. m)
    BY <1>1
  <2> QED
    BY <1>5, <1>6, <2>1
<1>7. 0 \in S /\ (m \in S => P(g[m], m))
  BY <1>1, <1>4
<1> HIDE DEF S
<1>8. P(q, m)
  BY <1>1, <1>2, <1>6, <1>7, SetInduction
<1>9. Times(q, a) = 0
  BY <1>1, <1>3, <1>8 DEF P
<1>10. \A x : x # a => Times(q, x) = Times(r, x)
  BY <1>3, <1>8 DEF P
<1> QED
  BY <1>8, <1>9, <1>10 DEF P, q

(* The book after the activation a has been deleted.                       *)
Renewed(b, a) ==
  [slots |-> [b.slots EXCEPT ![a] = <<>>],
   marks |-> [b.marks EXCEPT ![a] = <<>>],
   count |-> [b.count EXCEPT ![a] = 0],
   regs |-> [s \in States |-> Erased(b.regs[s], b.slots[a], s, a)]]

LEMMA RenewGood ==
  ASSUME NEW b, Good(b), NEW a \in Activations
  PROVE  LET c == Renewed(b, a)
         IN  Good(c) /\ \A s \in States : b.regs[s] = <<>> => c.regs[s] = <<>>
<1> DEFINE c == Renewed(b, a)
<1>1. /\ b.slots \in [Activations -> Seq(States \cup {None})]
      /\ b.marks \in [Activations -> Seq(BOOLEAN)]
      /\ b.count \in [Activations -> Int]
      /\ b.regs \in [States -> Seq(Activations)]
      /\ b \in Books /\ Matched(b)
  BY BookParts DEF Good
<1>2. /\ c.slots = [b.slots EXCEPT ![a] = <<>>]
      /\ c.marks = [b.marks EXCEPT ![a] = <<>>]
      /\ c.count = [b.count EXCEPT ![a] = 0]
      /\ c.regs = [s \in States |-> Erased(b.regs[s], b.slots[a], s, a)]
      /\ c = [slots |-> c.slots, marks |-> c.marks, count |-> c.count, regs |-> c.regs]
  BY DEF Renewed
<1> HIDE DEF c
<1>3. ASSUME NEW s \in States
      PROVE  /\ c.regs[s] \in Seq(Activations) /\ Sorted(c.regs[s])
             /\ Times(c.regs[s], a) = 0
             /\ \A x : x # a => Times(c.regs[s], x) = Times(b.regs[s], x)
  <2>1. /\ b.regs[s] \in Seq(Activations) /\ b.slots[a] \in Seq(States \cup {None})
        /\ Times(b.slots[a], s) = Times(b.regs[s], a) /\ Sorted(b.regs[s])
    BY <1>1 DEF Good, Even, Ascending
  <2> DEFINE r == b.regs[s]
             l == b.slots[a]
             q == Erased(r, l, s, a)
  <2>2. c.regs[s] = q
    BY <1>2
  <2> HIDE DEF r, l
  <2>3. r \in Seq(Activations) /\ l \in Seq(States \cup {None}) /\ Times(l, s) = Times(r, a)
    BY <2>1 DEF r, l
  <2>4. q \in Seq(Activations) /\ (Sorted(r) => Sorted(q))
    BY <2>3, ErasedOften
  <2>5. Times(q, a) = 0
    BY <2>3, ErasedOften
  <2>6. \A x : x # a => Times(q, x) = Times(r, x)
    BY <2>3, ErasedOften
  <2> QED
    BY <2>1, <2>2, <2>4, <2>5, <2>6 DEF r
<1>4. c \in Books
  <2>1. <<>> \in Seq(States \cup {None}) /\ <<>> \in Seq(BOOLEAN)
    OBVIOUS
  <2>2. /\ c.slots \in [Activations -> Seq(States \cup {None})]
        /\ c.marks \in [Activations -> Seq(BOOLEAN)]
        /\ c.count \in [Activations -> Int]
    BY <1>1, <1>2, <2>1
  <2>3. c.regs \in [States -> Seq(Activations)]
    BY <1>2, <1>3
  <2> QED
    BY <1>2, <2>2, <2>3 DEF Books
<1>5. Matched(c)
  BY <1>1, <1>2 DEF Matched
<1>6. Even(c)
  <2> SUFFICES ASSUME NEW x \in Activations, NEW s \in States
               PROVE  Times(c.slots[x], s) = Times(c.regs[s], x)
    BY DEF Even
  <2>1. CASE x = a
    <3>1. c.slots[x] = <<>>
      BY <1>1, <1>2, <2>1
    <3>2. Times(<<>>, s) = 0
      <4>1. <<>> \in Seq(States) /\ DOMAIN <<>> = {}
        OBVIOUS
      <4> QED
        BY <4>1, TimesZero
    <3> QED
      BY <1>3, <2>1, <3>1, <3>2
  <2>2. CASE x # a
    <3>1. c.slots[x] = b.slots[x]
      BY <1>1, <1>2, <2>2
    <3> QED
      BY <1>3, <2>2, <3>1 DEF Good, Even
  <2> QED
    BY <2>1, <2>2
<1>7. ASSUME NEW s \in States, b.regs[s] = <<>> PROVE c.regs[s] = <<>>
  <2>1. \A x : Times(<<>>, x) = 0
    <3>1. <<>> \in Seq(States) /\ DOMAIN <<>> = {}
      OBVIOUS
    <3> QED
      BY <3>1, TimesZero
  <2>6. c.regs[s] \in Seq(Activations) /\ Times(c.regs[s], a) = 0
    BY <1>3
  <2>7. \A x : x # a => Times(c.regs[s], x) = 0
    BY <1>3, <1>7, <2>1
  <2>2. c.regs[s] \in Seq(Activations) /\ \A x : Times(c.regs[s], x) = 0
    BY <2>6, <2>7
  <2> DEFINE r == c.regs[s]
  <2> HIDE DEF r
  <2>3. r \in Seq(Activations) /\ Times(r, r[1]) = 0
    BY <2>2 DEF r
  <2>4. 1 \notin DOMAIN r
    BY <2>3, TimesZero
  <2>5. r = <<>>
    BY <2>3, <2>4
  <2> QED
    BY <2>5 DEF r
<1> QED
  BY <1>3, <1>4, <1>5, <1>6, <1>7 DEF Good, Ascending, c

-----------------------------------------------------------------------------
(* The invariant.  Edits happen when no assignment is in progress, so a    *)
(* thread that has read a vector of marks writes one of the same length.   *)

DeadUnlisted == \A s \in States \ alive : regs[s] = <<>>

Watched == \A a \in Getters : toGet[a] \in alive \cup {None}

ThreadOK(t) ==
  /\ pc[t] # "idle" => source[t] \in States
  /\ pc[t] \in {"mark", "count", "uncount", "reset"} => walk[t] # <<>>
  /\ pc[t] = "mark" => Len(word[t]) = Len(slots[Head(walk[t])])

IInv ==
  /\ TypeOK /\ Good(Book) /\ DeadUnlisted /\ Watched
  /\ \A t \in Setters : ThreadOK(t)

LEMMA Committed ==
  ASSUME NEW c, Good(c), Commit(c)
  PROVE  Book' = c /\ Good(Book')
<1>1. c = [slots |-> c.slots, marks |-> c.marks, count |-> c.count, regs |-> c.regs]
  BY DEF Good, Books
<1>2. Book' = [slots |-> slots', marks |-> marks', count |-> count', regs |-> regs']
  BY DEF Book
<1>3. Book' = c
  BY <1>1, <1>2 DEF Commit
<1> QED
  BY <1>3

(* What an edit of the registrations leaves.                               *)
Edited ==
  /\ Good(Book') /\ DeadUnlisted' /\ Watched'
  /\ on' \in [Activations -> BOOLEAN] /\ alive' \subseteq States
  /\ toGet' \in [Getters -> States \cup {None}]
  /\ Counted(Book) => Counted(Book)'

LEMMA BookOf ==
  Book.slots = slots /\ Book.marks = marks /\ Book.count = count /\ Book.regs = regs
BY DEF Book

(* The flag stays; only the listed states are listed differently.          *)
LEMMA EditedBy ==
  ASSUME IInv, NEW c, Good(c), Commit(c), Counted(Book) => Counted(c), on' = on,
         alive' \subseteq States,
         \A u \in States \ alive' : c.regs[u] = <<>>,
         Watched', toGet' \in [Getters -> States \cup {None}]
  PROVE  Edited
<1>1. Book' = c /\ Good(Book')
  BY Committed
<1>2. regs' = c.regs
  BY DEF Commit
<1>3. DeadUnlisted'
  BY <1>2 DEF DeadUnlisted
<1>4. Counted(c) => Counted(Book)'
  <2>1. count' = c.count /\ marks' = c.marks
    BY DEF Commit
  <2>2. Book'.count = count' /\ Book'.marks = marks'
    BY DEF Book
  <2> QED
    BY <2>1, <2>2 DEF Counted
<1> QED
  BY <1>1, <1>3, <1>4 DEF Edited, IInv, TypeOK

LEMMA Forgotten ==
  ASSUME IInv, NEW s \in States, NEW A \in SUBSET States, Forget(s), alive \ {s} \subseteq A,
         alive' = A
  PROVE  Watched' /\ toGet' \in [Getters -> States \cup {None}]
BY DEF IInv, TypeOK, Forget, Watched

LEMMA AddActivatorEdits ==
  ASSUME IInv, NEW a \in Activations, NEW s \in States, AddActivator(a, s)
  PROVE  Edited
<1> DEFINE c == AddTo(Book, a, s)
<1>1. /\ Good(c) /\ (Counted(Book) => Counted(c))
      /\ \A u \in States \ {s} : c.regs[u] = regs[u]
  <2>1. Good(Book) /\ on \in [Activations -> BOOLEAN]
    BY DEF IInv, TypeOK
  <2>2. Good(c) /\ (Counted(Book) => Counted(c))
    BY <2>1, AddToGood
  <2>3. \A u \in States \ {s} : c.regs[u] = Book.regs[u]
    BY <2>1, AddToGood
  <2> QED
    BY <2>2, <2>3, BookOf
<1>2. Commit(c) /\ on' = on /\ alive' = alive /\ toGet' = toGet /\ s \in alive
  BY DEF AddActivator
<1> HIDE DEF c
<1>3. \A u \in States \ alive' : c.regs[u] = <<>>
  BY <1>1, <1>2 DEF IInv, DeadUnlisted
<1>4. alive' \subseteq States /\ toGet' \in [Getters -> States \cup {None}] /\ Watched'
  BY <1>2 DEF IInv, TypeOK, Watched
<1> QED
  BY <1>1, <1>2, <1>3, <1>4, EditedBy

LEMMA RemoveActivatorEdits ==
  ASSUME IInv, NEW a \in Activations, NEW s \in States, RemoveActivator(a, s)
  PROVE  Edited
<1> DEFINE c == CutFrom(Book, a, s)
<1>1. /\ Good(c) /\ (Counted(Book) => Counted(c))
      /\ \A u \in States \ {s} : c.regs[u] = regs[u]
  <2>1. SlotOf(Book.slots[a], s) # 0
    BY BookOf DEF RemoveActivator
  <2>2. Good(Book) /\ on \in [Activations -> BOOLEAN]
    BY DEF IInv, TypeOK
  <2>3. Good(c) /\ (Counted(Book) => Counted(c))
    BY <2>1, <2>2, CutFromGood
  <2>4. \A u \in States \ {s} : c.regs[u] = Book.regs[u]
    BY <2>1, <2>2, CutFromGood
  <2> QED
    BY <2>3, <2>4, BookOf
<1>2. Commit(c) /\ on' = on /\ alive' = alive /\ toGet' = toGet /\ s \in alive
  BY DEF RemoveActivator
<1> HIDE DEF c
<1>3. \A u \in States \ alive' : c.regs[u] = <<>>
  BY <1>1, <1>2 DEF IInv, DeadUnlisted
<1>4. alive' \subseteq States /\ toGet' \in [Getters -> States \cup {None}] /\ Watched'
  BY <1>2 DEF IInv, TypeOK, Watched
<1> QED
  BY <1>1, <1>2, <1>3, <1>4, EditedBy

LEMMA ChangeEdits ==
  ASSUME IInv, NEW s \in States, NEW n \in States, Change(s, n)
  PROVE  Edited
<1> DEFINE d == Moved(Book, s, n, regs[s])
           c == Deregister(d, s)
<1>1. /\ Good(d) /\ (Counted(Book) => Counted(d))
      /\ \A u \in States \ {s, n} : d.regs[u] = regs[u]
  BY MovedGood, BookOf DEF IInv
<1>2. Commit(c) /\ on' = on /\ alive' = (alive \ {s}) \cup {n} /\ Forget(s)
  BY DEF Change, Moved
<1> HIDE DEF d
<1>3. /\ Good(c) /\ (Counted(d) => Counted(c))
      /\ c.regs = [d.regs EXCEPT ![s] = <<>>]
  BY <1>1, DeregisterGood
<1> HIDE DEF c
<1>4. \A u \in States \ alive' : c.regs[u] = <<>>
  <2>1. d.regs \in [States -> Seq(Activations)]
    BY <1>1, BookParts DEF Good
  <2> QED
    BY <1>1, <1>2, <1>3, <2>1 DEF IInv, DeadUnlisted
<1>5. alive' \in SUBSET States /\ alive \ {s} \subseteq alive'
  BY <1>2 DEF IInv, TypeOK
<1>6. Watched' /\ toGet' \in [Getters -> States \cup {None}]
  BY <1>2, <1>5, Forgotten
<1> QED
  BY <1>1, <1>2, <1>3, <1>4, <1>5, <1>6, EditedBy

LEMMA RetypeEdits ==
  ASSUME IInv, NEW a \in Activations, NEW s \in States, NEW n \in States, Retype(a, s, n)
  PROVE  Edited
<1> DEFINE i == SlotOf(slots[a], s)
           d == TakeFrom(Book, a, s)
           e == Deregister(d, s)
           c == PutAt(e, a, i, n)
<1>0. Good(Book)
  BY DEF IInv
<1>1. Commit(c) /\ on' = on /\ alive' = (alive \ {s}) \cup {n} /\ Forget(s) /\ i # 0
  BY DEF Retype
<1>3. /\ Good(d) /\ (Counted(Book) => Counted(d))
      /\ \A u \in States \ {s} : d.regs[u] = Book.regs[u]
  BY <1>0, TakeFromGood
<1>4. i \in DOMAIN d.slots[a] /\ d.slots[a][i] = None
  BY <1>0, <1>1, TakeFromGood, BookOf
<1> HIDE DEF i, d
<1>5. i \in DOMAIN d.slots[a] /\ d.slots[a][i] = None /\ None # s
  BY <1>4, ActivationAssumption
<1>6. /\ Good(e) /\ (Counted(d) => Counted(e))
      /\ e.regs = [d.regs EXCEPT ![s] = <<>>]
      /\ Spared(d, e, s)
  BY <1>3, DeregisterGood
<1>7. Matched(d) /\ Matched(e) /\ e.marks = d.marks
  BY <1>3, <1>6, DeregisterGood DEF Good
<1> HIDE DEF e
<1>8. i \in DOMAIN e.slots[a] /\ e.slots[a][i] = None
  <2>1. e.slots[a][i] = None
    BY <1>5, <1>6 DEF Spared
  <2>2. Len(e.slots[a]) = Len(d.slots[a])
    BY <1>7 DEF Matched
  <2>3. e.slots[a] \in Seq(States \cup {None}) /\ d.slots[a] \in Seq(States \cup {None})
    BY <1>3, <1>6, BookParts DEF Good
  <2> QED
    BY <1>5, <2>1, <2>2, <2>3
<1>9. /\ Good(c) /\ (Counted(e) => Counted(c))
      /\ \A u \in States \ {n} : c.regs[u] = e.regs[u]
  <2>1. Good(e) /\ (i # 0 => i \in DOMAIN e.slots[a] /\ e.slots[a][i] = None)
    BY <1>6, <1>8
  <2> QED
    BY <2>1, PutAtGood
<1> HIDE DEF c
<1>10. \A u \in States \ alive' : c.regs[u] = <<>>
  <2>1. d.regs \in [States -> Seq(Activations)]
    BY <1>3, BookParts DEF Good
  <2> QED
    BY <1>1, <1>3, <1>6, <1>9, <2>1, BookOf DEF IInv, DeadUnlisted
<1>11. alive' \in SUBSET States /\ alive \ {s} \subseteq alive'
  BY <1>1 DEF IInv, TypeOK
<1>12. Watched' /\ toGet' \in [Getters -> States \cup {None}]
  BY <1>1, <1>11, Forgotten
<1> QED
  BY <1>1, <1>3, <1>6, <1>9, <1>10, <1>11, <1>12, EditedBy

LEMMA GetVarEdits ==
  ASSUME IInv, NEW a \in Getters, NEW s \in States, GetVar(a, s)
  PROVE  Edited
<1> DEFINE w == toGet[a]
           i == IF w = None THEN 0 ELSE SlotOf(slots[a], w)
           b == IF i = 0 THEN Book ELSE TakeFrom(Book, a, w)
<1>0. /\ Good(Book) /\ a \in Activations /\ slots \in [Activations -> Seq(States \cup {None})]
      /\ on \in [Activations -> BOOLEAN] /\ w \in alive \cup {None} /\ alive \subseteq States
      /\ toGet \in [Getters -> States \cup {None}]
  BY ActivationAssumption DEF IInv, TypeOK, Watched
<1>1. /\ \/ i # 0 /\ Commit(PutAt(b, a, i, s))
         \/ i = 0 /\ Commit(AddTo(b, a, s))
      /\ on' = on /\ alive' = alive \cup {s} /\ toGet' = [toGet EXCEPT ![a] = s]
  BY DEF GetVar
<1> HIDE DEF w
<1>2. /\ Good(b) /\ (Counted(Book) => Counted(b))
      /\ \A u \in States \ alive : b.regs[u] = regs[u]
      /\ i # 0 => i \in DOMAIN b.slots[a] /\ b.slots[a][i] = None
  <2>1. CASE i = 0
    BY <1>0, <2>1, BookOf
  <2>2. CASE i # 0
    <3>1. i = SlotOf(slots[a], w) /\ b = TakeFrom(Book, a, w) /\ w \in alive /\ w \in States
      BY <1>0, <2>2
    <3> HIDE DEF i, b
    <3>3. /\ Good(b) /\ (Counted(Book) => Counted(b))
          /\ \A u \in States \ {w} : b.regs[u] = Book.regs[u]
      BY <1>0, <3>1, TakeFromGood
    <3>4. i \in DOMAIN b.slots[a] /\ b.slots[a][i] = None
      <4>1. i = SlotOf(Book.slots[a], w)
        BY <3>1, BookOf
      <4> QED
        BY <1>0, <2>2, <3>1, <4>1, TakeFromGood
    <3> QED
      BY <1>0, <3>1, <3>3, <3>4, BookOf
  <2> QED
    BY <2>1, <2>2
<1> HIDE DEF i, b
<1>3. \E c : /\ Commit(c) /\ Good(c) /\ (Counted(Book) => Counted(c))
             /\ \A u \in States \ {s} : c.regs[u] = b.regs[u]
  <2>1. CASE i # 0 /\ Commit(PutAt(b, a, i, s))
    BY <1>0, <1>2, <2>1, PutAtGood
  <2>2. CASE i = 0 /\ Commit(AddTo(b, a, s))
    BY <1>0, <1>2, <2>2, AddToGood
  <2> QED
    BY <1>1, <2>1, <2>2
<1>4. PICK c : /\ Commit(c) /\ Good(c) /\ (Counted(Book) => Counted(c))
               /\ \A u \in States \ {s} : c.regs[u] = b.regs[u]
  BY <1>3
<1>5. \A u \in States \ alive' : c.regs[u] = <<>>
  BY <1>1, <1>2, <1>4 DEF IInv, DeadUnlisted
<1>6. alive' \subseteq States /\ toGet' \in [Getters -> States \cup {None}]
  BY <1>0, <1>1
<1>7. Watched'
  BY <1>0, <1>1 DEF IInv, Watched
<1> QED
  BY <1>1, <1>4, <1>5, <1>6, <1>7, EditedBy

LEMMA DeleteStateEdits ==
  ASSUME IInv, NEW s \in States, DeleteState(s)
  PROVE  Edited
<1> DEFINE c == Deregister(Book, s)
<1>1. Commit(c) /\ on' = on /\ alive' = alive \ {s} /\ Forget(s)
  BY DEF DeleteState
<1>2. /\ Good(c) /\ (Counted(Book) => Counted(c))
      /\ c.regs = [regs EXCEPT ![s] = <<>>]
  BY DeregisterGood, BookOf DEF IInv
<1> HIDE DEF c
<1>3. \A u \in States \ alive' : c.regs[u] = <<>>
  BY <1>1, <1>2 DEF IInv, TypeOK, DeadUnlisted
<1>4. alive' \in SUBSET States /\ alive \ {s} \subseteq alive'
  BY <1>1 DEF IInv, TypeOK
<1>5. Watched' /\ toGet' \in [Getters -> States \cup {None}]
  BY <1>1, <1>4, Forgotten
<1> QED
  BY <1>1, <1>2, <1>3, <1>4, <1>5, EditedBy

LEMMA RenewEdits ==
  ASSUME IInv, NEW a \in Activations, Renew(a)
  PROVE  Edited
<1> DEFINE c == Renewed(Book, a)
<1>0. /\ Good(Book) /\ on \in [Activations -> BOOLEAN] /\ alive \subseteq States
      /\ marks \in [Activations -> Seq(BOOLEAN)] /\ count \in [Activations -> Int]
      /\ toGet \in [Getters -> States \cup {None}]
  BY DEF IInv, TypeOK
<1>1. Commit(c)
  BY BookOf DEF Renew, Commit, Renewed, Erased
<1>2. /\ marks' = [marks EXCEPT ![a] = <<>>] /\ on' = [on EXCEPT ![a] = TRUE]
      /\ count' = [count EXCEPT ![a] = 0] /\ alive' = alive
      /\ toGet' = [b \in Getters |-> IF b = a THEN None ELSE toGet[b]]
  BY DEF Renew
<1>3. Good(c) /\ \A u \in States : regs[u] = <<>> => c.regs[u] = <<>>
  BY <1>0, RenewGood, BookOf
<1> HIDE DEF c
<1>4. Book' = c /\ Good(Book') /\ regs' = c.regs
  BY <1>1, <1>3, Committed DEF Commit
<1>5. DeadUnlisted'
  BY <1>2, <1>3, <1>4 DEF IInv, DeadUnlisted
<1>6. on' \in [Activations -> BOOLEAN] /\ alive' \subseteq States
      /\ toGet' \in [Getters -> States \cup {None}] /\ Watched'
  BY <1>0, <1>2 DEF IInv, Watched
<1>7. ASSUME Counted(Book) PROVE Counted(Book)'
  <2> SUFFICES ASSUME NEW x \in Activations PROVE count'[x] = Times(marks'[x], ~(on'[x]))
    BY DEF Counted, Book
  <2>1. CASE x = a
    <3>1. \A v : Times(<<>>, v) = 0
      <4>1. <<>> \in Seq(BOOLEAN) /\ DOMAIN <<>> = {}
        OBVIOUS
      <4> QED
        BY <4>1, TimesZero
    <3>2. count'[x] = 0 /\ marks'[x] = <<>>
      BY <1>0, <1>2, <2>1
    <3> QED
      BY <3>1, <3>2
  <2>2. CASE x # a
    <3>1. count'[x] = count[x] /\ marks'[x] = marks[x] /\ on'[x] = on[x]
      BY <1>0, <1>2, <2>2
    <3>2. count[x] = Times(marks[x], ~on[x])
      BY <1>7, BookOf DEF Counted
    <3> QED
      BY <3>1, <3>2
  <2> QED
    BY <2>1, <2>2
<1> QED
  BY <1>4, <1>5, <1>6, <1>7 DEF Edited

LEMMA EditStepEdits ==
  ASSUME IInv, EditStep
  PROVE  Edited /\ Quiet /\ UNCHANGED threadVars
<1>1. ASSUME NEW a \in Activations, NEW s \in States, AddActivator(a, s)
      PROVE  Edited /\ Quiet /\ UNCHANGED threadVars
  BY <1>1, AddActivatorEdits DEF AddActivator
<1>2. ASSUME NEW a \in Activations, NEW s \in States, RemoveActivator(a, s)
      PROVE  Edited /\ Quiet /\ UNCHANGED threadVars
  BY <1>2, RemoveActivatorEdits DEF RemoveActivator
<1>3. ASSUME NEW s \in States, NEW n \in States, Change(s, n)
      PROVE  Edited /\ Quiet /\ UNCHANGED threadVars
  <2>1. Quiet /\ UNCHANGED threadVars
    BY <1>3 DEF Change
  <2> QED
    BY <1>3, <2>1, ChangeEdits
<1>4. ASSUME NEW a \in Activations, NEW s \in States, NEW n \in States, Retype(a, s, n)
      PROVE  Edited /\ Quiet /\ UNCHANGED threadVars
  BY <1>4, RetypeEdits DEF Retype
<1>5. ASSUME NEW a \in Getters, NEW s \in States, GetVar(a, s)
      PROVE  Edited /\ Quiet /\ UNCHANGED threadVars
  BY <1>5, GetVarEdits DEF GetVar
<1>6. ASSUME NEW s \in States, DeleteState(s)
      PROVE  Edited /\ Quiet /\ UNCHANGED threadVars
  BY <1>6, DeleteStateEdits DEF DeleteState
<1>7. ASSUME NEW a \in Activations, Renew(a)
      PROVE  Edited /\ Quiet /\ UNCHANGED threadVars
  <2>1. Quiet /\ UNCHANGED threadVars
    BY <1>7 DEF Renew
  <2> QED
    BY <1>7, <2>1, RenewEdits
<1> QED
  BY <1>1, <1>2, <1>3, <1>4, <1>5, <1>6, <1>7 DEF EditStep

LEMMA EditStepInv ==
  ASSUME IInv, EditStep
  PROVE  IInv'
<1>1. Edited /\ Quiet /\ UNCHANGED threadVars
  BY EditStepEdits
<1>2. Good(Book')
  BY <1>1 DEF Edited
<1>3. Book'.slots = slots' /\ Book'.marks = marks' /\ Book'.count = count' /\ Book'.regs = regs'
  BY DEF Book
<1>4. /\ slots' \in [Activations -> Seq(States \cup {None})]
      /\ marks' \in [Activations -> Seq(BOOLEAN)]
      /\ count' \in [Activations -> Int]
      /\ regs' \in [States -> Seq(Activations)]
      /\ \A a \in Activations : Len(marks'[a]) = Len(slots'[a])
  BY <1>2, <1>3, BookParts DEF Good, Matched
<1>5. TypeOK'
  BY <1>1, <1>4 DEF Edited, IInv, TypeOK, threadVars
<1>6. ASSUME NEW t \in Setters PROVE ThreadOK(t)'
  BY <1>1 DEF IInv, ThreadOK, Quiet, threadVars
<1>7. Good(Book)' /\ DeadUnlisted' /\ Watched'
  BY <1>1, <1>2 DEF Edited
<1> QED
  BY <1>5, <1>6, <1>7 DEF IInv

(* An assignment changes marks and counts only.                            *)
LEMMA SameLists ==
  ASSUME IInv, slots' = slots, regs' = regs, alive' = alive, toGet' = toGet,
         marks' \in [Activations -> Seq(BOOLEAN)], count' \in [Activations -> Int],
         \A a \in Activations : Len(marks'[a]) = Len(marks[a])
  PROVE  /\ Good(Book)' /\ DeadUnlisted' /\ Watched'
         /\ slots' \in [Activations -> Seq(States \cup {None})]
         /\ regs' \in [States -> Seq(Activations)]
         /\ alive' \subseteq States /\ toGet' \in [Getters -> States \cup {None}]
         /\ \A a \in Activations : Len(marks'[a]) = Len(slots'[a])
<1> DEFINE c == Book'
<1>1. /\ c.slots = slots /\ c.marks = marks' /\ c.count = count' /\ c.regs = regs
      /\ c = [slots |-> c.slots, marks |-> c.marks, count |-> c.count, regs |-> c.regs]
  BY DEF Book
<1> HIDE DEF c
<1>2. /\ Good(Book) /\ slots \in [Activations -> Seq(States \cup {None})]
      /\ regs \in [States -> Seq(Activations)] /\ alive \subseteq States
      /\ toGet \in [Getters -> States \cup {None}]
      /\ \A a \in Activations : Len(marks[a]) = Len(slots[a])
  BY DEF IInv, TypeOK
<1>3. c \in Books
  BY <1>1, <1>2 DEF Books
<1>4. Matched(c) /\ Even(c) /\ Ascending(c)
  BY <1>1, <1>2, BookOf DEF Good, Matched, Even, Ascending
<1>5. Good(c)
  BY <1>3, <1>4 DEF Good
<1>6. DeadUnlisted' /\ Watched'
  BY DEF IInv, DeadUnlisted, Watched
<1> QED
  BY <1>2, <1>5, <1>6 DEF c

(* The activation that a thread is at.                                     *)
LEMMA AtHead ==
  ASSUME IInv, NEW t \in Setters, walk[t] # <<>>
  PROVE  /\ Head(walk[t]) \in Activations /\ Tail(walk[t]) \in Seq(Activations)
         /\ slots[Head(walk[t])] \in Seq(States \cup {None})
         /\ marks[Head(walk[t])] \in Seq(BOOLEAN)
         /\ on[Head(walk[t])] \in BOOLEAN
         /\ Len(marks[Head(walk[t])]) = Len(slots[Head(walk[t])])
<1>1. walk[t] \in Seq(Activations)
  BY DEF IInv, TypeOK
<1>2. Head(walk[t]) \in Activations /\ Tail(walk[t]) \in Seq(Activations)
  BY <1>1
<1> QED
  BY <1>2 DEF IInv, TypeOK

(* The slot that a thread is about to mark.                                *)
LEMMA MarkRead ==
  ASSUME IInv, NEW t \in Setters, ReadMark(t)
  PROVE  LET a == Head(walk[t])
         IN  /\ walk[t] # <<>> /\ word'[t] \in Seq(BOOLEAN) /\ Len(word'[t]) = Len(slots[a])
             /\ \E i \in DOMAIN marks[a] :
                  /\ marks[a][i] # on[a]
                  /\ word' = [word EXCEPT ![t] = [marks[a] EXCEPT ![i] = on[a]]]
<1> DEFINE a == Head(walk[t])
           i == SlotOf(slots[a], source[t])
<1>1. /\ walk[t] # <<>> /\ i # 0 /\ marks[a][i] # on[a]
      /\ word' = [word EXCEPT ![t] = [marks[a] EXCEPT ![i] = on[a]]]
  BY DEF ReadMark
<1>2. /\ slots[a] \in Seq(States \cup {None}) /\ marks[a] \in Seq(BOOLEAN)
      /\ on[a] \in BOOLEAN /\ Len(marks[a]) = Len(slots[a])
  BY <1>1, AtHead
<1>3. i \in DOMAIN slots[a]
  BY <1>1, <1>2, SlotFound
<1>4. i \in DOMAIN marks[a]
  BY <1>2, <1>3
<1>5. word \in [Setters -> Seq(BOOLEAN)]
  BY DEF IInv, TypeOK
<1> HIDE DEF a, i
<1>6. word'[t] \in Seq(BOOLEAN) /\ Len(word'[t]) = Len(slots[a])
  BY <1>1, <1>2, <1>4, <1>5
<1>7. \E j \in DOMAIN marks[a] :
        /\ marks[a][j] # on[a]
        /\ word' = [word EXCEPT ![t] = [marks[a] EXCEPT ![j] = on[a]]]
  BY <1>1, <1>4
<1> QED
  BY <1>1, <1>6, <1>7 DEF a

LEMMA SetterStepInv ==
  ASSUME IInv, NEW t \in Setters, SetterStep(t) \/ \E s \in States : Assign(t, s)
  PROVE  IInv'
<1> DEFINE a == Head(walk[t])
<1>0. /\ slots \in [Activations -> Seq(States \cup {None})]
      /\ marks \in [Activations -> Seq(BOOLEAN)]
      /\ on \in [Activations -> BOOLEAN] /\ count \in [Activations -> Int]
      /\ regs \in [States -> Seq(Activations)] /\ alive \subseteq States
      /\ pc \in [Setters -> {"idle", "walk", "mark", "count", "uncount", "reset"}]
      /\ source \in [Setters -> States \cup {None}]
      /\ walk \in [Setters -> Seq(Activations)]
      /\ word \in [Setters -> Seq(BOOLEAN)] /\ seen \in [Setters -> Int]
      /\ \A u \in Setters : ThreadOK(u)
      /\ \A x \in Activations : Len(marks[x]) = Len(slots[x])
  BY DEF IInv, TypeOK
<1>20. ASSUME slots' = slots, regs' = regs, alive' = alive, toGet' = toGet,
              marks' \in [Activations -> Seq(BOOLEAN)], count' \in [Activations -> Int],
              \A x \in Activations : Len(marks'[x]) = Len(marks[x]),
              on' \in [Activations -> BOOLEAN],
              pc' \in [Setters -> {"idle", "walk", "mark", "count", "uncount", "reset"}],
              source' \in [Setters -> States \cup {None}],
              walk' \in [Setters -> Seq(Activations)],
              word' \in [Setters -> Seq(BOOLEAN)], seen' \in [Setters -> Int],
              \A u \in Setters : ThreadOK(u)'
       PROVE  IInv'
  <2>1. /\ Good(Book)' /\ DeadUnlisted' /\ Watched'
        /\ slots' \in [Activations -> Seq(States \cup {None})]
        /\ regs' \in [States -> Seq(Activations)]
        /\ alive' \subseteq States /\ toGet' \in [Getters -> States \cup {None}]
        /\ \A x \in Activations : Len(marks'[x]) = Len(slots'[x])
    BY <1>20, SameLists
  <2> QED
    BY <1>20, <2>1 DEF IInv, TypeOK
<1>1. ASSUME NEW s \in States, Assign(t, s) PROVE IInv'
  <2>1. /\ pc' = [pc EXCEPT ![t] = "walk"] /\ source' = [source EXCEPT ![t] = s]
        /\ walk' = [walk EXCEPT ![t] = regs[s]]
        /\ UNCHANGED <<slots, marks, on, count, regs, alive, toGet, word, seen>>
    BY <1>1 DEF Assign, Goto, actVars, editVars
  <2>2. \A u \in Setters : ThreadOK(u)'
    BY <1>0, <2>1 DEF ThreadOK
  <2> QED
    BY <1>0, <1>20, <2>1, <2>2
<1>2. ASSUME Skip(t) PROVE IInv'
  <2>1. /\ pc[t] = "walk" /\ walk[t] # <<>>
        /\ pc' = [pc EXCEPT ![t] = "walk"] /\ walk' = [walk EXCEPT ![t] = Tail(walk[t])]
        /\ UNCHANGED <<slots, marks, on, count, regs, alive, toGet, source, word, seen>>
    BY <1>2 DEF Skip, NextVisit, Goto, actVars, editVars
  <2>2. \A u \in Setters : ThreadOK(u)'
    BY <1>0, <2>1 DEF ThreadOK
  <2>3. walk' \in [Setters -> Seq(Activations)]
    BY <1>0, <2>1, AtHead
  <2> QED
    BY <1>0, <1>20, <2>1, <2>2, <2>3
<1>3. ASSUME ReadMark(t) PROVE IInv'
  <2>1. /\ pc[t] = "walk" /\ walk[t] # <<>>
        /\ pc' = [pc EXCEPT ![t] = "mark"]
        /\ UNCHANGED <<slots, marks, on, count, regs, alive, toGet, source, walk, seen>>
    BY <1>3 DEF ReadMark, Goto, actVars, editVars
  <2>2. word'[t] \in Seq(BOOLEAN) /\ Len(word'[t]) = Len(slots[a])
    BY <1>3, MarkRead
  <2>3. \E v : word' = [word EXCEPT ![t] = v]
    BY <1>3 DEF ReadMark
  <2>4. word' \in [Setters -> Seq(BOOLEAN)] /\ \A u \in Setters \ {t} : word'[u] = word[u]
    BY <1>0, <2>2, <2>3
  <2>5. ASSUME NEW u \in Setters PROVE ThreadOK(u)'
    <3>1. CASE u = t
      BY <1>0, <2>1, <2>2, <3>1 DEF ThreadOK
    <3>2. CASE u # t
      BY <1>0, <2>1, <2>4, <3>2 DEF ThreadOK
    <3> QED
      BY <3>1, <3>2
  <2> QED
    BY <1>0, <1>20, <2>1, <2>4, <2>5
<1>4. ASSUME WriteMark(t) PROVE IInv'
  <2>1. /\ pc[t] = "mark" /\ marks' = [marks EXCEPT ![a] = word[t]]
        /\ pc' = [pc EXCEPT ![t] = "count"]
        /\ UNCHANGED <<slots, on, count, regs, alive, toGet, source, walk, word, seen>>
    BY <1>4 DEF WriteMark, Goto, editVars
  <2>2. walk[t] # <<>> /\ Len(word[t]) = Len(slots[a])
    BY <1>0, <2>1 DEF ThreadOK
  <2>3. a \in Activations
    BY <2>2, AtHead
  <2> HIDE DEF a
  <2>4. marks' \in [Activations -> Seq(BOOLEAN)]
        /\ \A x \in Activations : Len(marks'[x]) = Len(marks[x])
    BY <1>0, <2>1, <2>2, <2>3
  <2>5. \A u \in Setters : ThreadOK(u)'
    BY <1>0, <2>1, <2>2 DEF ThreadOK
  <2> QED
    BY <1>0, <1>20, <2>1, <2>4, <2>5
<1>5. ASSUME ReadCount(t) PROVE IInv'
  <2>1. /\ pc[t] = "count" /\ seen' = [seen EXCEPT ![t] = count[a]]
        /\ pc' = [pc EXCEPT ![t] = "uncount"]
        /\ UNCHANGED <<slots, marks, on, count, regs, alive, toGet, source, walk, word>>
    BY <1>5 DEF ReadCount, Goto, actVars, editVars
  <2>2. walk[t] # <<>>
    BY <1>0, <2>1 DEF ThreadOK
  <2>3. a \in Activations
    BY <2>2, AtHead
  <2>4. \A u \in Setters : ThreadOK(u)'
    BY <1>0, <2>1, <2>2 DEF ThreadOK
  <2> HIDE DEF a
  <2>5. seen' \in [Setters -> Int]
    BY <1>0, <2>1, <2>3
  <2> QED
    BY <1>0, <1>20, <2>1, <2>4, <2>5
<1>6. ASSUME WriteCount(t) PROVE IInv'
  <2>1. /\ pc[t] = "uncount" /\ count' = [count EXCEPT ![a] = seen[t] - 1]
        /\ \/ pc' = [pc EXCEPT ![t] = "reset"] /\ walk' = walk
           \/ pc' = [pc EXCEPT ![t] = "walk"] /\ walk' = [walk EXCEPT ![t] = Tail(walk[t])]
        /\ UNCHANGED <<slots, marks, on, regs, alive, toGet, source, word, seen>>
    BY <1>6 DEF WriteCount, NextVisit, Goto, editVars
  <2>2. walk[t] # <<>>
    BY <1>0, <2>1 DEF ThreadOK
  <2>3. a \in Activations /\ walk' \in [Setters -> Seq(Activations)]
    BY <1>0, <2>1, <2>2, AtHead
  <2>4. \A u \in Setters : ThreadOK(u)'
    BY <1>0, <2>1, <2>2 DEF ThreadOK
  <2> HIDE DEF a
  <2>5. count' \in [Activations -> Int]
    BY <1>0, <2>1, <2>3
  <2>6. pc' \in [Setters -> {"idle", "walk", "mark", "count", "uncount", "reset"}]
    BY <1>0, <2>1
  <2> QED
    BY <1>0, <1>20, <2>1, <2>3, <2>4, <2>5, <2>6
<1>7. ASSUME Reset(t) PROVE IInv'
  <2>1. /\ pc[t] = "reset" /\ on' = [on EXCEPT ![a] = ~@]
        /\ count' = [count EXCEPT ![a] = Len(marks[a])]
        /\ pc' = [pc EXCEPT ![t] = "walk"] /\ walk' = [walk EXCEPT ![t] = Tail(walk[t])]
        /\ UNCHANGED <<slots, marks, regs, alive, toGet, source, word, seen>>
    BY <1>7 DEF Reset, NextVisit, Goto, editVars
  <2>2. walk[t] # <<>>
    BY <1>0, <2>1 DEF ThreadOK
  <2>3. a \in Activations /\ walk' \in [Setters -> Seq(Activations)]
    BY <1>0, <2>1, <2>2, AtHead
  <2>4. \A u \in Setters : ThreadOK(u)'
    BY <1>0, <2>1, <2>2 DEF ThreadOK
  <2> HIDE DEF a
  <2>5. count' \in [Activations -> Int]
    BY <1>0, <2>1, <2>3
  <2>6. on' \in [Activations -> BOOLEAN]
    BY <1>0, <2>1
  <2> QED
    BY <1>0, <1>20, <2>1, <2>3, <2>4, <2>5, <2>6
<1>8. ASSUME Assigned(t) PROVE IInv'
  <2>1. /\ pc' = [pc EXCEPT ![t] = "idle"] /\ source' = [source EXCEPT ![t] = None]
        /\ word' = [word EXCEPT ![t] = <<>>] /\ seen' = [seen EXCEPT ![t] = 0]
        /\ UNCHANGED <<slots, marks, on, count, regs, alive, toGet, walk>>
    BY <1>8 DEF Assigned, Goto, actVars, editVars
  <2>2. \A u \in Setters : ThreadOK(u)'
    BY <1>0, <2>1 DEF ThreadOK
  <2> QED
    BY <1>0, <1>20, <2>1, <2>2
<1> QED
  BY <1>1, <1>2, <1>3, <1>4, <1>5, <1>6, <1>7, <1>8 DEF SetterStep

LEMMA InitInv == Init => IInv
<1> SUFFICES ASSUME Init PROVE IInv
  OBVIOUS
<1>1. TypeOK
  BY ActivationAssumption DEF Init, TypeOK
<1>2. \A x : Times(<<>>, x) = 0
  <2>1. <<>> \in Seq(States) /\ DOMAIN <<>> = {}
    OBVIOUS
  <2> QED
    BY <2>1, TimesZero
<1>3. Good(Book)
  <2>1. Book \in Books
    BY <1>1 DEF TypeOK, Book, Books
  <2>2. Matched(Book) /\ Even(Book)
    BY <1>2, BookOf DEF Init, Matched, Even
  <2>3. Ascending(Book)
    BY BookOf DEF Init, Ascending, Sorted
  <2> QED
    BY <2>1, <2>2, <2>3 DEF Good
<1>4. DeadUnlisted /\ Watched /\ \A t \in Setters : ThreadOK(t)
  BY DEF Init, DeadUnlisted, Watched, ThreadOK
<1> QED
  BY <1>1, <1>3, <1>4 DEF IInv

LEMMA NextInv == IInv /\ [Next]_vars => IInv'
<1> SUFFICES ASSUME IInv, [Next]_vars PROVE IInv'
  OBVIOUS
<1>1. CASE EditStep
  BY <1>1, EditStepInv
<1>2. ASSUME NEW t \in Setters, SetterStep(t) \/ \E s \in States : Assign(t, s)
      PROVE  IInv'
  BY <1>2, SetterStepInv
<1>3. CASE UNCHANGED vars
  BY <1>3 DEF vars, IInv, TypeOK, Good, Book, Books, Matched, Even, Ascending, DeadUnlisted,
              Watched, ThreadOK
<1> QED
  BY <1>1, <1>2, <1>3 DEF Next

(* The registrations agree in every state, whatever the threads do.        *)
THEOREM SpecIInv == Spec => []IInv
<1> QED
  BY InitInv, NextInv, PTL DEF Spec

(* TypeOK: every variable has its type, and an activation has a mark for   *)
(* each slot, whatever was added, removed, replaced or written over.       *)
THEOREM Types == Spec => []TypeOK
<1>1. IInv => TypeOK
  BY DEF IInv
<1> QED
  BY <1>1, SpecIInv, PTL

(* Mutual: no activation is left with a pointer to a deleted state, and no *)
(* state with one to a deleted activation.                                 *)
THEOREM Registrations == Spec => []Mutual
<1>1. IInv => Mutual
  BY BookOf DEF IInv, Good, Even, DeadUnlisted, Mutual, Times, Places
<1> QED
  BY <1>1, SpecIInv, PTL

(* ByOrder: a state triggers its activations by ascending order.           *)
THEOREM Ordered == Spec => []ByOrder
<1>1. IInv => ByOrder
  BY BookOf DEF IInv, Good, Ascending, Sorted, ByOrder
<1> QED
  BY <1>1, SpecIInv, PTL

-----------------------------------------------------------------------------
(* One thread assigns states.  Then the count of an activation is the      *)
(* number of marks that are not on, but for the moment between the two     *)
(* writes, and the vector that the thread writes back is the current one.  *)

OneSetter == \A t, u \in Setters : t = u

Owed(a) == Times(marks[a], ~on[a])

Round(t) ==
  LET a == Head(walk[t])
  IN  /\ pc[t] = "mark" =>
           \E i \in DOMAIN marks[a] :
             marks[a][i] # on[a] /\ word[t] = [marks[a] EXCEPT ![i] = on[a]]
      /\ pc[t] \in {"count", "uncount"} => count[a] = Owed(a) + 1 /\ Len(marks[a]) > 0
      /\ pc[t] = "uncount" => seen[t] = count[a]
      /\ pc[t] = "reset" => Owed(a) = 0 /\ Len(marks[a]) > 0

Between(a) == \E t \in Setters : pc[t] \in {"count", "uncount"} /\ a = Head(walk[t])

RInv ==
  /\ IInv
  /\ \A t \in Setters : Round(t)
  /\ \A a \in Activations : Between(a) \/ count[a] = Owed(a)

LEMMA OwedNone ==
  ASSUME IInv, NEW a \in Activations
  PROVE  /\ Owed(a) \in Nat
         /\ Owed(a) = 0 <=> \A i \in DOMAIN marks[a] : marks[a][i] = on[a]
<1>1. marks[a] \in Seq(BOOLEAN) /\ on[a] \in BOOLEAN
  BY DEF IInv, TypeOK
<1>2. \A i \in DOMAIN marks[a] : marks[a][i] \in BOOLEAN
  BY <1>1
<1> DEFINE v == ~on[a]
           p == on[a]
           m == marks[a]
<1>3. \A x \in BOOLEAN : x # v <=> x = p
  BY <1>1, Zenon
<1> HIDE DEF v
<1>4. Times(m, v) \in Nat /\ (Times(m, v) = 0 <=> \A i \in DOMAIN m : m[i] # v)
  BY <1>1, PlacesFinite, TimesZero
<1>5. Times(m, v) = 0 <=> \A i \in DOMAIN m : m[i] = p
  BY <1>2, <1>3, <1>4
<1> QED
  BY <1>4, <1>5 DEF Owed, v

(* One more mark is on.                                                    *)
LEMMA OwedMarked ==
  ASSUME IInv, NEW a \in Activations, NEW i \in DOMAIN marks[a], marks[a][i] # on[a],
         marks'[a] = [marks[a] EXCEPT ![i] = on[a]], on'[a] = on[a]
  PROVE  Owed(a)' = Owed(a) - 1
<1>1. marks[a] \in Seq(BOOLEAN) /\ on[a] \in BOOLEAN
  BY DEF IInv, TypeOK
<1>2. marks[a][i] \in BOOLEAN
  BY <1>1
<1> DEFINE v == ~on[a]
           p == on[a]
           m == marks[a]
<1>3. m[i] = v /\ p # v
  BY <1>1, <1>2, Zenon
<1>4. Owed(a) = Times(m, v)
  BY DEF Owed
<1> DEFINE w == ~(on'[a])
<1>5. Owed(a)' = Times(marks'[a], w)
  BY DEF Owed
<1>6. w = v
  BY Zenon
<1> HIDE DEF v, w
<1>7. Times([m EXCEPT ![i] = p], v) = Times(m, v) - One(m[i] = v) + One(p = v)
  BY <1>1, TimesPut
<1>8. Times(m, v) \in Nat
  BY <1>1, PlacesFinite
<1>9. Times([m EXCEPT ![i] = p], v) = Times(m, v) - 1
  BY <1>3, <1>7, <1>8 DEF One
<1> QED
  BY <1>4, <1>5, <1>6, <1>9

(* The flag flips and clears all marks.                                    *)
LEMMA OwedFlipped ==
  ASSUME IInv, NEW a \in Activations, Owed(a) = 0,
         marks'[a] = marks[a], on'[a] = ~on[a]
  PROVE  Owed(a)' = Len(marks[a])
<1>1. marks[a] \in Seq(BOOLEAN) /\ on[a] \in BOOLEAN
  BY DEF IInv, TypeOK
<1> DEFINE p == on[a]
           m == marks[a]
<1>2. \A i \in DOMAIN m : m[i] = p
  BY OwedNone
<1> DEFINE w == ~(on'[a])
<1>3. w = p
  BY <1>1, Zenon
<1>7. Owed(a)' = Times(m, w)
  BY DEF Owed
<1> HIDE DEF w
<1>4. Owed(a)' = Times(m, p)
  BY <1>3, <1>7
<1>5. m = [i \in 1 .. Len(m) |-> p] /\ Len(m) \in Nat
  BY <1>1, <1>2
<1> HIDE DEF m, p
<1>6. Times(m, p) = Len(m)
  BY <1>5, TimesConstant
<1> QED
  BY <1>4, <1>6 DEF m

LEMMA InitRounds == Init => RInv
<1> SUFFICES ASSUME Init PROVE RInv
  OBVIOUS
<1>1. IInv
  BY InitInv
<1>2. \A t \in Setters : Round(t)
  BY DEF Init, Round
<1>3. ASSUME NEW a \in Activations PROVE count[a] = Owed(a)
  <2>1. Owed(a) = 0
    BY <1>1, OwedNone DEF Init
  <2> QED
    BY <2>1 DEF Init
<1> QED
  BY <1>1, <1>2, <1>3 DEF RInv

LEMMA EditRounds ==
  ASSUME RInv, EditStep
  PROVE  RInv'
<1>1. IInv /\ IInv' /\ Edited /\ Quiet /\ pc' = pc
  BY EditStepEdits, EditStepInv DEF RInv, threadVars
<1>2. \A a \in Activations : ~Between(a)
  BY <1>1 DEF Between, Quiet
<1>3. Counted(Book)
  BY <1>2, BookOf DEF RInv, Counted, Owed
<1>4. Counted(Book)'
  BY <1>1, <1>3 DEF Edited
<1>5. \A a \in Activations : (count[a] = Owed(a))'
  BY <1>4 DEF Counted, Book, Owed
<1>6. \A t \in Setters : Round(t)'
  BY <1>1 DEF Quiet, Round
<1> QED
  BY <1>1, <1>5, <1>6 DEF RInv

LEMMA SetterRounds ==
  ASSUME OneSetter, RInv, NEW t \in Setters,
         SetterStep(t) \/ \E s \in States : Assign(t, s)
  PROVE  RInv'
<1> DEFINE a == Head(walk[t])
           Exact == \A x \in Activations : Between(x) \/ count[x] = Owed(x)
<1>0. /\ IInv /\ IInv' /\ Round(t) /\ \A u \in Setters : u = t
      /\ \A x \in Activations : Between(x) \/ count[x] = Owed(x)
      /\ pc \in [Setters -> {"idle", "walk", "mark", "count", "uncount", "reset"}]
      /\ walk \in [Setters -> Seq(Activations)] /\ seen \in [Setters -> Int]
      /\ marks \in [Activations -> Seq(BOOLEAN)] /\ on \in [Activations -> BOOLEAN]
      /\ count \in [Activations -> Int] /\ word \in [Setters -> Seq(BOOLEAN)]
      /\ ThreadOK(t)
  BY SetterStepInv DEF RInv, IInv, TypeOK, OneSetter
<1>20. ASSUME Round(t)', \A x \in Activations : Between(x)' \/ (count[x] = Owed(x))'
       PROVE  RInv'
  BY <1>0, <1>20 DEF RInv
<1>21. ASSUME pc[t] \notin {"count", "uncount"}
       PROVE  \A x \in Activations : count[x] = Owed(x)
  BY <1>0, <1>21 DEF Between
<1>22. ASSUME NEW x \in Activations, marks'[x] = marks[x], on'[x] = on[x]
       PROVE  Owed(x)' = Owed(x)
  BY <1>22 DEF Owed
<1>23. ASSUME pc[t] \in {"mark", "count", "uncount", "reset"} PROVE a \in Activations
  BY <1>0, <1>23, AtHead DEF ThreadOK
<1>24. ASSUME pc[t] \in {"idle", "walk"}, pc'[t] \in {"idle", "walk"}, UNCHANGED actVars
       PROVE  RInv'
  <2>1. Round(t)'
    BY <1>24 DEF Round
  <2>2. \A x \in Activations : (count[x] = Owed(x))'
    BY <1>21, <1>22, <1>24 DEF actVars
  <2> QED
    BY <1>20, <2>1, <2>2
<1>1. ASSUME NEW s \in States, Assign(t, s) PROVE RInv'
  <2>1. pc[t] = "idle" /\ pc'[t] = "walk" /\ UNCHANGED actVars
    BY <1>0, <1>1 DEF Assign, Goto
  <2> QED
    BY <1>24, <2>1
<1>2. ASSUME Skip(t) PROVE RInv'
  <2>1. pc[t] = "walk" /\ pc'[t] = "walk" /\ UNCHANGED actVars
    BY <1>0, <1>2 DEF Skip, NextVisit, Goto
  <2> QED
    BY <1>24, <2>1
<1>3. ASSUME ReadMark(t) PROVE RInv'
  <2>1. /\ pc[t] = "walk" /\ pc'[t] = "mark" /\ walk' = walk
        /\ slots' = slots /\ marks' = marks /\ on' = on /\ count' = count
    BY <1>0, <1>3 DEF ReadMark, Goto, actVars
  <2>2. \E i \in DOMAIN marks[a] :
          marks[a][i] # on[a] /\ word' = [word EXCEPT ![t] = [marks[a] EXCEPT ![i] = on[a]]]
    BY <1>0, <1>3, MarkRead
  <2>3. \E i \in DOMAIN marks[a] :
          marks[a][i] # on[a] /\ word'[t] = [marks[a] EXCEPT ![i] = on[a]]
    BY <1>0, <2>2
  <2>4. Round(t)'
    BY <2>1, <2>3 DEF Round
  <2>5. \A x \in Activations : (count[x] = Owed(x))'
    BY <1>21, <1>22, <2>1
  <2> QED
    BY <1>20, <2>4, <2>5
<1>4. ASSUME WriteMark(t) PROVE RInv'
  <2>1. /\ pc[t] = "mark" /\ pc'[t] = "count" /\ walk' = walk /\ on' = on /\ count' = count
        /\ marks' = [marks EXCEPT ![a] = word[t]]
    BY <1>0, <1>4 DEF WriteMark, Goto
  <2>2. PICK i \in DOMAIN marks[a] :
          marks[a][i] # on[a] /\ word[t] = [marks[a] EXCEPT ![i] = on[a]]
    BY <1>0, <2>1 DEF Round
  <2>3. PICK z \in Activations : z = a
    BY <1>23, <2>1
  <2>4. marks[z] \in Seq(BOOLEAN)
    BY <1>0
  <2>5. /\ i \in DOMAIN marks[z] /\ marks[z][i] # on[z] /\ on'[z] = on[z]
        /\ marks'[z] = [marks[z] EXCEPT ![i] = on[z]]
        /\ \A x \in Activations \ {z} : marks'[x] = marks[x]
    BY <1>0, <2>1, <2>2, <2>3
  <2>6. Owed(z)' = Owed(z) - 1
    BY <1>0, <2>5, OwedMarked
  <2>7. count[z] = Owed(z) /\ Owed(z) \in Nat
    BY <1>0, <1>21, <2>1, OwedNone
  <2>8. Len(marks'[z]) > 0
    BY <2>4, <2>5
  <2>12. Head(walk'[t]) = z
    BY <2>1, <2>3
  <2> HIDE DEF a
  <2>9. Round(t)'
    BY <2>1, <2>6, <2>7, <2>8, <2>12 DEF Round
  <2>10. ASSUME NEW x \in Activations, x # z PROVE (count[x] = Owed(x))'
    BY <1>21, <1>22, <2>1, <2>5, <2>10
  <2>11. Between(z)'
    BY <2>1, <2>12 DEF Between
  <2> QED
    BY <1>20, <2>9, <2>10, <2>11
<1>5. ASSUME ReadCount(t) PROVE RInv'
  <2>1. /\ pc[t] = "count" /\ pc'[t] = "uncount" /\ walk' = walk
        /\ marks' = marks /\ on' = on /\ count' = count /\ seen'[t] = count[a]
    BY <1>0, <1>5 DEF ReadCount, Goto, actVars
  <2>2. a \in Activations
    BY <1>23, <2>1
  <2>3. \A x \in Activations : Owed(x)' = Owed(x)
    BY <1>22, <2>1
  <2>4. Round(t)'
    BY <1>0, <2>1, <2>2, <2>3 DEF Round
  <2>5. \A x \in Activations : Between(x) => Between(x)'
    BY <1>0, <2>1 DEF Between
  <2> QED
    BY <1>0, <1>20, <2>1, <2>3, <2>4, <2>5
<1>6. ASSUME WriteCount(t) PROVE RInv'
  <2>1. /\ pc[t] = "uncount" /\ marks' = marks /\ on' = on
        /\ count' = [count EXCEPT ![a] = seen[t] - 1]
        /\ \/ seen[t] = 1 /\ pc'[t] = "reset" /\ walk' = walk
           \/ pc'[t] = "walk"
    BY <1>0, <1>6 DEF WriteCount, NextVisit, Goto
  <2>2. a \in Activations
    BY <1>23, <2>1
  <2>3. \A x \in Activations : Owed(x)' = Owed(x)
    BY <1>22, <2>1
  <2>4. seen[t] = count[a] /\ count[a] = Owed(a) + 1 /\ Owed(a) \in Nat /\ Len(marks[a]) > 0
    BY <1>0, <2>1, <2>2, OwedNone DEF Round
  <2>5. \A x \in Activations \ {a} : count[x] = Owed(x)
    BY <1>0 DEF Between
  <2> HIDE DEF a
  <2>6. \A x \in Activations : (count[x] = Owed(x))'
    <3>1. count'[a] = Owed(a)
      BY <1>0, <2>1, <2>2, <2>4
    <3>2. \A x \in Activations \ {a} : count'[x] = count[x]
      BY <1>0, <2>1
    <3> QED
      BY <2>3, <2>5, <3>1, <3>2
  <2>7. Round(t)'
    BY <2>1, <2>2, <2>3, <2>4 DEF Round, a
  <2> QED
    BY <1>20, <2>6, <2>7
<1>7. ASSUME Reset(t) PROVE RInv'
  <2>1. /\ pc[t] = "reset" /\ pc'[t] = "walk" /\ marks' = marks
        /\ on' = [on EXCEPT ![a] = ~on[a]] /\ count' = [count EXCEPT ![a] = Len(marks[a])]
    BY <1>0, <1>7 DEF Reset, NextVisit, Goto
  <2>2. PICK z \in Activations : z = a
    BY <1>23, <2>1
  <2>3. Owed(z) = 0
    BY <1>0, <2>1, <2>2 DEF Round
  <2>4. \A x \in Activations : count[x] = Owed(x)
    BY <1>21, <2>1
  <2>5. marks'[z] = marks[z] /\ on'[z] = ~on[z] /\ count'[z] = Len(marks[z])
    BY <1>0, <2>1, <2>2
  <2>6. Owed(z)' = Len(marks[z])
    BY <1>0, <2>3, <2>5, OwedFlipped
  <2>7. ASSUME NEW x \in Activations, x # z PROVE (count[x] = Owed(x))'
    <3>1. marks'[x] = marks[x] /\ on'[x] = on[x] /\ count'[x] = count[x]
      BY <1>0, <2>1, <2>2, <2>7
    <3> QED
      BY <1>22, <2>4, <3>1
  <2>8. Round(t)'
    BY <2>1 DEF Round
  <2> HIDE DEF a
  <2> QED
    BY <1>20, <2>5, <2>6, <2>7, <2>8
<1>8. ASSUME Assigned(t) PROVE RInv'
  <2>1. pc[t] = "walk" /\ pc'[t] = "idle" /\ UNCHANGED actVars
    BY <1>0, <1>8 DEF Assigned, Goto
  <2> QED
    BY <1>24, <2>1
<1> QED
  BY <1>1, <1>2, <1>3, <1>4, <1>5, <1>6, <1>7, <1>8 DEF SetterStep

LEMMA NextRounds ==
  ASSUME OneSetter
  PROVE  RInv /\ [Next]_vars => RInv'
<1> SUFFICES ASSUME RInv, [Next]_vars PROVE RInv'
  OBVIOUS
<1>1. CASE EditStep
  BY <1>1, EditRounds
<1>2. ASSUME NEW t \in Setters, SetterStep(t) \/ \E s \in States : Assign(t, s)
      PROVE  RInv'
  BY <1>2, SetterRounds
<1>3. CASE UNCHANGED vars
  <2>1. IInv'
    BY NextInv DEF RInv
  <2>2. \A t \in Setters : Round(t)'
    BY <1>3 DEF vars, RInv, Round, Owed
  <2>3. \A x \in Activations : Between(x)' \/ (count[x] = Owed(x))'
    BY <1>3 DEF vars, RInv, Between, Owed
  <2> QED
    BY <2>1, <2>2, <2>3 DEF RInv
<1> QED
  BY <1>1, <1>2, <1>3 DEF Next

(* With one thread assigning states, RInv holds in every state.            *)
THEOREM SpecRInv == ASSUME OneSetter PROVE Spec => []RInv
<1>1. RInv /\ [Next]_vars => RInv'
  BY NextRounds
<1> QED
  BY <1>1, InitRounds, PTL DEF Spec

(* CountsDown: with one thread assigning states, xcount is the number of   *)
(* slots still awaited, whatever was edited since.                         *)
THEOREM Counts == ASSUME OneSetter PROVE Spec => []CountsDown
<1>1. RInv => CountsDown
  <2> SUFFICES ASSUME RInv, Quiet, NEW a \in Activations
               PROVE  count[a] = Cardinality(DOMAIN marks[a] \ Arrived(a))
    BY DEF CountsDown
  <2>1. count[a] = Owed(a)
    BY DEF RInv, Between, Quiet
  <2>2. marks[a] \in Seq(BOOLEAN) /\ on[a] \in BOOLEAN
    BY DEF RInv, IInv, TypeOK
  <2> DEFINE v == ~on[a]
             p == on[a]
  <2>3. \A x \in BOOLEAN : x = v <=> x # p
    BY <2>2, Zenon
  <2>4. Owed(a) = Times(marks[a], v)
    BY DEF Owed
  <2> HIDE DEF v
  <2>5. Places(marks[a], v) = DOMAIN marks[a] \ Arrived(a)
    BY <2>2, <2>3 DEF Places, Arrived
  <2> QED
    BY <2>1, <2>4, <2>5 DEF Times
<1> QED
  BY <1>1, SpecRInv, PTL

-----------------------------------------------------------------------------
(* Each activation is a reusable barrier: every step of the code is a step *)
(* of Rendezvous or leaves its variables alone.                            *)

LEMMA Sizes ==
  ASSUME IInv
  PROVE  \A a \in Activations :
           /\ marks[a] \in Seq(BOOLEAN) /\ Len(slots[a]) = Len(marks[a])
           /\ Len(marks[a]) \in Nat /\ DOMAIN marks[a] = 1 .. Len(marks[a])
           /\ Arrived(a) = {i \in 1 .. Len(marks[a]) : marks[a][i] = on[a]}
BY DEF IInv, TypeOK, Arrived

LEMMA Stays ==
  ASSUME IInv, IInv', marks' = marks, on' = on
  PROVE  UNCHANGED Abstract!rvVars
<1>1. \A a \in Activations : Len(slots'[a]) = Len(slots[a])
  BY DEF IInv, TypeOK
<1>2. \A a \in Activations : Arrived(a)' = Arrived(a)
  BY DEF Arrived
<1> QED
  BY <1>1, <1>2 DEF Abstract!rvVars

(* The activations other than z.                                           *)
Others(z) ==
  \A x \in Activations \ {z} : marks'[x] = marks[x] /\ on'[x] = on[x]

LEMMA OthersStay ==
  ASSUME IInv, IInv', NEW z \in Activations, Others(z)
  PROVE  \A x \in Activations \ {z} :
           Len(slots'[x]) = Len(slots[x]) /\ Arrived(x)' = Arrived(x)
<1> SUFFICES ASSUME NEW x \in Activations \ {z}
             PROVE  Len(slots'[x]) = Len(slots[x]) /\ Arrived(x)' = Arrived(x)
  OBVIOUS
<1>1. marks'[x] = marks[x] /\ on'[x] = on[x]
  BY DEF Others
<1>2. Len(slots[x]) = Len(marks[x]) /\ Len(slots'[x]) = Len(marks'[x])
  BY DEF IInv, TypeOK
<1> QED
  BY <1>1, <1>2 DEF Arrived

LEMMA Arrives ==
  ASSUME IInv, IInv', NEW z \in Activations, Others(z), on' = on,
         NEW i \in DOMAIN marks[z], marks[z][i] # on[z],
         marks'[z] = [marks[z] EXCEPT ![i] = on[z]]
  PROVE  Abstract!Next
<1>1. /\ Len(slots'[z]) = Len(slots[z]) /\ i \in 1 .. Len(slots[z])
      /\ i \notin Arrived(z) /\ Arrived(z)' = Arrived(z) \cup {i}
  <2>1. /\ marks[z] \in Seq(BOOLEAN) /\ Len(slots[z]) = Len(marks[z])
        /\ Len(slots'[z]) = Len(marks'[z]) /\ on'[z] = on[z]
    BY DEF IInv, TypeOK
  <2> QED
    BY <2>1 DEF Arrived
<1>2. \A x \in Activations : Len(slots'[x]) = Len(slots[x])
  BY <1>1, OthersStay
<1>3. \A x \in Activations : Arrived(x)' = IF x = z THEN Arrived(z) \cup {i} ELSE Arrived(x)
  BY <1>1, OthersStay
<1>4. Abstract!Arrive(z, i)
  BY <1>1, <1>2, <1>3 DEF Abstract!Arrive
<1> QED
  BY <1>1, <1>4 DEF Abstract!Next

LEMMA Fires ==
  ASSUME IInv, IInv', NEW z \in Activations, marks' = marks, on' = [on EXCEPT ![z] = ~on[z]],
         Owed(z) = 0, Len(marks[z]) > 0
  PROVE  Abstract!Next
<1>0. /\ Len(slots[z]) = Len(marks[z]) /\ Len(slots'[z]) = Len(marks'[z])
      /\ marks[z] \in Seq(BOOLEAN) /\ on \in [Activations -> BOOLEAN]
  BY DEF IInv, TypeOK
<1>1. Others(z)
  BY <1>0 DEF Others
<1>2. \A i \in DOMAIN marks[z] : marks[z][i] = on[z]
  BY OwedNone
<1>3. Arrived(z) = 1 .. Len(slots[z]) /\ Len(slots[z]) > 0
  BY <1>0, <1>2 DEF Arrived
<1>4. Arrived(z)' = {}
  BY <1>0, <1>2 DEF Arrived
<1>5. \A x \in Activations : Len(slots'[x]) = Len(slots[x])
  BY <1>0, <1>1, OthersStay
<1>6. \A x \in Activations : Arrived(x)' = IF x = z THEN {} ELSE Arrived(x)
  BY <1>1, <1>4, OthersStay
<1>7. Abstract!Fire(z)
  BY <1>3, <1>5, <1>6 DEF Abstract!Fire
<1> QED
  BY <1>7 DEF Abstract!Next

LEMMA Grows ==
  ASSUME IInv, IInv', NEW z \in Activations, on' = on, Others(z),
         Len(marks'[z]) = Len(marks[z]) + 1,
         marks'[z][Len(marks[z]) + 1] # on[z],
         \A i \in DOMAIN marks[z] : marks'[z][i] = marks[z][i]
  PROVE  Abstract!Next
<1>0. /\ Len(slots[z]) = Len(marks[z]) /\ Len(slots'[z]) = Len(marks'[z])
      /\ marks[z] \in Seq(BOOLEAN) /\ marks'[z] \in Seq(BOOLEAN)
  BY DEF IInv, TypeOK
<1>1. DOMAIN marks'[z] = DOMAIN marks[z] \cup {Len(marks[z]) + 1}
  BY <1>0
<1>2. Arrived(z)' = Arrived(z)
  BY <1>1 DEF Arrived
<1>3. \A x \in Activations : Len(slots'[x]) = IF x = z THEN Len(slots[z]) + 1 ELSE Len(slots[x])
  BY <1>0, OthersStay
<1>4. \A x \in Activations : Arrived(x)' = Arrived(x)
  BY <1>2, OthersStay
<1>5. Abstract!Grow(z)
  BY <1>3, <1>4 DEF Abstract!Grow
<1> QED
  BY <1>5 DEF Abstract!Next

LEMMA Shrinks ==
  ASSUME IInv, IInv', NEW z \in Activations, on' = on, Others(z),
         NEW n \in Nat, Len(marks[z]) = n + 1, Len(marks'[z]) = n,
         \A i \in DOMAIN marks'[z] : marks'[z][i] # on[z]
  PROVE  Abstract!Next
<1>0. Len(slots[z]) = Len(marks[z]) /\ Len(slots'[z]) = Len(marks'[z])
  BY DEF IInv, TypeOK
<1>2. Arrived(z)' = {}
  BY DEF Arrived
<1>3. \A x \in Activations : Len(slots'[x]) = IF x = z THEN Len(slots[z]) - 1 ELSE Len(slots[x])
  BY <1>0, OthersStay
<1>4. \A x \in Activations : Arrived(x)' = IF x = z THEN {} ELSE Arrived(x)
  BY <1>2, OthersStay
<1>1. Len(slots[z]) > 0
  BY <1>0
<1>5. Abstract!Shrink(z)
  BY <1>1, <1>3, <1>4 DEF Abstract!Shrink
<1> QED
  BY <1>5 DEF Abstract!Next

LEMMA Renews ==
  ASSUME IInv, IInv', NEW z \in Activations, Renew(z)
  PROVE  Abstract!Next
<1>0. /\ slots' = [slots EXCEPT ![z] = <<>>] /\ marks' = [marks EXCEPT ![z] = <<>>]
      /\ on' = [on EXCEPT ![z] = TRUE]
  BY DEF Renew
<1>1. /\ slots \in [Activations -> Seq(States \cup {None})]
      /\ marks \in [Activations -> Seq(BOOLEAN)] /\ on \in [Activations -> BOOLEAN]
  BY DEF IInv, TypeOK
<1>2. \A x \in Activations : Len(slots'[x]) = IF x = z THEN 0 ELSE Len(slots[x])
  BY <1>0, <1>1
<1>3. \A x \in Activations : Arrived(x)' = IF x = z THEN {} ELSE Arrived(x)
  BY <1>0, <1>1 DEF Arrived
<1>4. Abstract!Renew(z)
  BY <1>0, <1>2, <1>3 DEF Abstract!Renew
<1> QED
  BY <1>4 DEF Abstract!Next

LEMMA EditRefines ==
  ASSUME IInv, IInv', EditStep
  PROVE  [Abstract!Next]_(Abstract!rvVars)
<1>0. Good(Book) /\ on \in [Activations -> BOOLEAN]
  BY DEF IInv, TypeOK
<1>1. ASSUME NEW c, Commit(c), c.marks = marks, on' = on
      PROVE  UNCHANGED Abstract!rvVars
  BY <1>1, Stays DEF Commit
<1>2. ASSUME NEW a \in Activations, NEW s \in States, Commit(AddTo(Book, a, s)), on' = on
      PROVE  Abstract!Next
  <2> DEFINE c == AddTo(Book, a, s)
  <2>1. marks' = c.marks
    BY <1>2 DEF Commit
  <2>2. /\ \A x \in Activations \ {a} : c.marks[x] = Book.marks[x]
        /\ Len(c.marks[a]) = Len(Book.marks[a]) + 1
        /\ c.marks[a][Len(Book.marks[a]) + 1] # on[a]
        /\ \A i \in DOMAIN Book.marks[a] : c.marks[a][i] = Book.marks[a][i]
    BY <1>0, AddToGood
  <2> HIDE DEF c
  <2>3. /\ Len(marks'[a]) = Len(marks[a]) + 1
        /\ marks'[a][Len(marks[a]) + 1] # on[a]
        /\ \A i \in DOMAIN marks[a] : marks'[a][i] = marks[a][i]
    BY <2>1, <2>2, BookOf
  <2>4. Others(a)
    BY <1>2, <2>1, <2>2, BookOf DEF Others
  <2> QED
    BY <1>2, <2>3, <2>4, Grows
<1>3. ASSUME NEW a \in Activations, NEW s \in States, AddActivator(a, s)
      PROVE  Abstract!Next
  BY <1>2, <1>3 DEF AddActivator
<1>4. ASSUME NEW a \in Activations, NEW s \in States, RemoveActivator(a, s)
      PROVE  Abstract!Next
  <2> DEFINE c == CutFrom(Book, a, s)
             n == Len(slots[a]) - 1
  <2>1. marks' = c.marks /\ on' = on /\ SlotOf(Book.slots[a], s) # 0
    BY <1>4, BookOf DEF RemoveActivator, Commit
  <2>2. /\ \A x \in Activations \ {a} : c.marks[x] = Book.marks[x]
        /\ \A j \in DOMAIN c.marks[a] : c.marks[a][j] # on[a]
    BY <1>0, <2>1, CutFromGood
  <2>3. n \in Nat /\ Len(Book.marks[a]) = n + 1 /\ Len(c.marks[a]) = n
    BY <1>0, <2>1, CutFromGood, BookOf
  <2> HIDE DEF c, n
  <2>4. /\ n \in Nat /\ Len(marks[a]) = n + 1 /\ Len(marks'[a]) = n
        /\ \A j \in DOMAIN marks'[a] : marks'[a][j] # on[a]
    BY <2>1, <2>2, <2>3, BookOf
  <2>5. Others(a)
    BY <2>1, <2>2, BookOf DEF Others
  <2> QED
    BY <2>1, <2>4, <2>5, Shrinks
<1>5. ASSUME NEW s \in States, NEW n \in States, Change(s, n)
      PROVE  UNCHANGED Abstract!rvVars
  <2> DEFINE d == Moved(Book, s, n, regs[s])
             c == Deregister(d, s)
  <2>1. Commit(c) /\ on' = on
    BY <1>5 DEF Change, Moved
  <2>2. Good(d) /\ d.marks = marks
    BY <1>0, MovedGood, BookOf
  <2> HIDE DEF d
  <2>3. c.marks = marks
    BY <2>2, DeregisterGood
  <2> HIDE DEF c
  <2> QED
    BY <1>1, <2>1, <2>3
<1>6. ASSUME NEW a \in Activations, NEW s \in States, NEW n \in States, Retype(a, s, n)
      PROVE  UNCHANGED Abstract!rvVars
  <2> DEFINE i == SlotOf(slots[a], s)
             d == TakeFrom(Book, a, s)
             e == Deregister(d, s)
             c == PutAt(e, a, i, n)
  <2>1. Commit(c) /\ on' = on
    BY <1>6 DEF Retype
  <2>2. c.marks = e.marks
    BY DEF PutAt
  <2>3. Good(d) /\ d.marks = Book.marks
    BY <1>0, TakeFromGood
  <2> HIDE DEF d
  <2>4. e.marks = d.marks
    BY <2>3, DeregisterGood
  <2> HIDE DEF c, e
  <2> QED
    BY <1>1, <2>1, <2>2, <2>3, <2>4, BookOf
<1>7. ASSUME NEW a \in Getters, NEW s \in States, GetVar(a, s)
      PROVE  Abstract!Next \/ UNCHANGED Abstract!rvVars
  <2> DEFINE i == IF toGet[a] = None THEN 0 ELSE SlotOf(slots[a], toGet[a])
             b == IF i = 0 THEN Book ELSE TakeFrom(Book, a, toGet[a])
  <2>1. /\ on' = on /\ a \in Activations
        /\ \/ i # 0 /\ Commit(PutAt(b, a, i, s))
           \/ i = 0 /\ Commit(AddTo(b, a, s))
    BY <1>7, ActivationAssumption DEF GetVar
  <2>2. CASE i = 0 /\ Commit(AddTo(b, a, s))
    <3>1. b = Book
      BY <2>2
    <3> HIDE DEF b
    <3>2. Commit(AddTo(Book, a, s))
      BY <2>2, <3>1
    <3> QED
      BY <1>2, <2>1, <3>2
  <2>3. CASE i # 0 /\ Commit(PutAt(b, a, i, s))
    <3>1. b = TakeFrom(Book, a, toGet[a])
      BY <2>3
    <3> HIDE DEF i, b
    <3>2. b.marks = marks
      BY <3>1, BookOf DEF TakeFrom
    <3>3. PutAt(b, a, i, s).marks = marks
      BY <3>2 DEF PutAt
    <3> QED
      BY <1>1, <2>1, <2>3, <3>3
  <2> QED
    BY <2>1, <2>2, <2>3
<1>8. ASSUME NEW s \in States, DeleteState(s)
      PROVE  UNCHANGED Abstract!rvVars
  <2> DEFINE c == Deregister(Book, s)
  <2>1. Commit(c) /\ on' = on
    BY <1>8 DEF DeleteState
  <2>2. c.marks = marks
    BY <1>0, DeregisterGood, BookOf
  <2> HIDE DEF c
  <2> QED
    BY <1>1, <2>1, <2>2
<1>9. ASSUME NEW a \in Activations, Renew(a) PROVE Abstract!Next
  BY <1>9, Renews
<1> QED
  BY <1>3, <1>4, <1>5, <1>6, <1>7, <1>8, <1>9 DEF EditStep

LEMMA SetterRefines ==
  ASSUME OneSetter, RInv, RInv', NEW t \in Setters,
         SetterStep(t) \/ \E s \in States : Assign(t, s)
  PROVE  [Abstract!Next]_(Abstract!rvVars)
<1>0. /\ IInv /\ IInv' /\ Round(t) /\ ThreadOK(t)
      /\ marks \in [Activations -> Seq(BOOLEAN)] /\ on \in [Activations -> BOOLEAN]
  BY DEF RInv, IInv, TypeOK
<1>1. CASE marks' = marks /\ on' = on
  BY <1>0, <1>1, Stays
<1>2. CASE WriteMark(t)
  <2> DEFINE a == Head(walk[t])
  <2>1. /\ pc[t] = "mark" /\ on' = on /\ marks' = [marks EXCEPT ![a] = word[t]]
    BY <1>2 DEF WriteMark
  <2>2. PICK i \in DOMAIN marks[a] :
          marks[a][i] # on[a] /\ word[t] = [marks[a] EXCEPT ![i] = on[a]]
    BY <1>0, <2>1 DEF Round
  <2>3. PICK z \in Activations : z = a
    BY <1>0, <2>1, AtHead DEF ThreadOK
  <2>4. /\ i \in DOMAIN marks[z] /\ marks[z][i] # on[z]
        /\ marks'[z] = [marks[z] EXCEPT ![i] = on[z]]
        /\ Others(z)
    BY <1>0, <2>1, <2>2, <2>3 DEF Others
  <2> HIDE DEF a
  <2> QED
    BY <1>0, <2>1, <2>4, Arrives
<1>3. CASE Reset(t)
  <2> DEFINE a == Head(walk[t])
  <2>1. pc[t] = "reset" /\ marks' = marks /\ on' = [on EXCEPT ![a] = ~on[a]]
    BY <1>3 DEF Reset
  <2>2. PICK z \in Activations : z = a
    BY <1>0, <2>1, AtHead DEF ThreadOK
  <2>3. Owed(z) = 0 /\ Len(marks[z]) > 0 /\ on' = [on EXCEPT ![z] = ~on[z]]
    BY <1>0, <2>1, <2>2 DEF Round
  <2> HIDE DEF a
  <2> QED
    BY <1>0, <2>1, <2>3, Fires
<1>4. CASE Skip(t) \/ ReadMark(t) \/ ReadCount(t) \/ WriteCount(t) \/ Assigned(t)
           \/ \E s \in States : Assign(t, s)
  <2>1. marks' = marks /\ on' = on
    BY <1>4 DEF Skip, ReadMark, ReadCount, WriteCount, Assigned, Assign, actVars
  <2> QED
    BY <1>1, <2>1
<1> QED
  BY <1>2, <1>3, <1>4 DEF SetterStep

(* ImplementsRendezvous: with one thread assigning states, an activation   *)
(* fires when all its slots have arrived and only then, and no edit of the *)
(* registrations fires it or loses an arrival.                             *)
THEOREM Implements == ASSUME OneSetter PROVE Spec => ImplementsRendezvous
<1>1. Init => Abstract!Init
  <2> SUFFICES ASSUME Init PROVE Abstract!Init
    OBVIOUS
  <2>1. \A a \in Activations : Len(slots[a]) = 0 /\ Arrived(a) = {}
    BY DEF Init, Arrived
  <2>2. on = [a \in Activations |-> TRUE]
    BY DEF Init
  <2> QED
    BY <2>1, <2>2 DEF Abstract!Init
<1>2. RInv /\ [Next]_vars => RInv'
  BY NextRounds
<1>3. RInv /\ [Next]_vars => [Abstract!Next]_(Abstract!rvVars)
  <2> SUFFICES ASSUME RInv, [Next]_vars PROVE [Abstract!Next]_(Abstract!rvVars)
    OBVIOUS
  <2>1. RInv' /\ IInv /\ IInv'
    BY <1>2 DEF RInv
  <2>2. CASE EditStep
    BY <2>1, <2>2, EditRefines
  <2>3. ASSUME NEW t \in Setters, SetterStep(t) \/ \E s \in States : Assign(t, s)
        PROVE  [Abstract!Next]_(Abstract!rvVars)
    BY <2>1, <2>3, SetterRefines
  <2>4. CASE UNCHANGED vars
    <3>1. marks' = marks /\ on' = on
      BY <2>4 DEF vars
    <3> QED
      BY <2>1, <3>1, Stays
  <2> QED
    BY <2>2, <2>3, <2>4 DEF Next
<1> QED
  BY <1>1, <1>3, SpecRInv, PTL DEF Spec, ImplementsRendezvous, Abstract!Spec
=============================================================================
