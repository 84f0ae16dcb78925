------------------------------- MODULE HubProofs -------------------------------
(***************************************************************************)
(* What is true of every hub of more than one slot, and of every hub of    *)
(* one slot that does not slide: the state of the AtomicHub follows from   *)
(* the messages stored (HubIsRight), nobody waits in vain, and the hub is  *)
(* a Broadcast.                                                            *)
(***************************************************************************)
EXTENDS Hub, FiniteSetTheorems, SequenceTheorems, WellFoundedInduction, TLAPS

-----------------------------------------------------------------------------
(* Numbers and sequences.                                                  *)

(* A set of natural numbers has a least one. *)
LEMMA LeastMember ==
    ASSUME NEW T, T \subseteq Nat, T # {}
    PROVE  \E x \in T : \A y \in T : x <= y
<1> DEFINE Smaller == {ss \in Nat \X Nat : ss[1] < ss[2]}
<1>1. IsWellFoundedOn(Smaller, Nat)
  BY Zenon, NatLessThanWellFounded DEF OpToRel
<1>2. \A x, y \in Nat : <<y, x>> \in Smaller <=> y < x
  OBVIOUS
<1> HIDE DEF Smaller
<1>3. PICK x \in T : \A y \in T : ~ (<<y, x>> \in Smaller)
  BY <1>1, WFMin
<1>4. \A y \in T : x \in Nat /\ y \in Nat /\ ~(y < x)
  BY <1>2, <1>3
<1>5. \A y \in T : x <= y
  BY <1>4
<1> QED
  BY <1>5

(* Less is the smaller of two numbers. *)
LEMMA LessIs ==
    ASSUME NEW m \in Nat, NEW n \in Nat
    PROVE  Less(m, n) = IF m <= n THEN m ELSE n
<1> DEFINE T == {m, n}
           l == IF m <= n THEN m ELSE n
<1>1. l \in T /\ \A y \in T : l <= y
  OBVIOUS
<1>2. \A x \in T : (\A y \in T : x <= y) => x = l
  OBVIOUS
<1> HIDE DEF T, l
<1>3. Min(T) = l
  BY <1>1, <1>2 DEF Min
<1> QED
  BY <1>3 DEF Less, T, l

(* The members of a sequence. *)
LEMMA Members ==
    ASSUME NEW S, NEW s \in Seq(S)
    PROVE  ToSet(s) = {s[i] : i \in 1 .. Len(s)} /\ ToSet(s) \subseteq S
  BY DEF ToSet

(* A sequence is its first n elements and the others. *)
LEMMA Halves ==
    ASSUME NEW S, NEW s \in Seq(S), NEW n \in 0 .. Len(s)
    PROVE  /\ First(s, n) \in Seq(S) /\ Len(First(s, n)) = n
           /\ \A i \in 1 .. n : First(s, n)[i] = s[i]
           /\ Without(s, n) \in Seq(S) /\ Len(Without(s, n)) = Len(s) - n
           /\ \A i \in 1 .. Len(s) - n : Without(s, n)[i] = s[n + i]
           /\ First(s, n) \o Without(s, n) = s
<1>1. /\ First(s, n) \in Seq(S) /\ Len(First(s, n)) = n
      /\ \A i \in 1 .. n : First(s, n)[i] = s[i]
  BY DEF First
<1>2. /\ Without(s, n) \in Seq(S) /\ Len(Without(s, n)) = Len(s) - n
      /\ \A i \in 1 .. Len(s) - n : Without(s, n)[i] = s[n + i]
  BY DEF Without
<1>3. First(s, n) \o Without(s, n) = s
  <2> DEFINE t == First(s, n) \o Without(s, n)
  <2>1. t \in Seq(S) /\ Len(t) = Len(s)
    BY <1>1, <1>2
  <2>2. ASSUME NEW i \in 1 .. Len(s)
        PROVE  t[i] = s[i]
    <3>1. CASE i <= n
      BY <1>1, <1>2, <3>1
    <3>2. CASE i > n
      <4>1. t[i] = Without(s, n)[i - n] /\ i - n \in 1 .. Len(s) - n
        BY <1>1, <1>2, <3>2
      <4> QED
        BY <1>2, <4>1
    <3>3. i \in Int /\ n \in Int
      OBVIOUS
    <3> HIDE DEF t
    <3> QED
      BY <3>1, <3>2, <3>3
  <2> HIDE DEF t
  <2>3. t = s
    BY <2>1, <2>2, SeqEqual
  <2> QED
    BY <2>3 DEF t
<1> QED
  BY <1>1, <1>2, <1>3

-----------------------------------------------------------------------------
(* What unsafeRemove leaves.                                               *)

Keeping(s, S, n, kept) ==
    kept = [i \in 0 .. n |->
               IF i = 0 THEN <<>>
               ELSE IF s[i] \in S THEN kept[i - 1] ELSE Append(kept[i - 1], s[i])]

Kept(s, S) == CHOOSE kept : Keeping(s, S, Len(s), kept)

(* Removed takes the last value of a function that is one of Keeping. *)
LEMMA RemovedIsKept == ASSUME NEW s, NEW S PROVE Removed(s, S) = Kept(s, S)[Len(s)]
  BY DEF Removed, Kept, Keeping

(* There is a function of Keeping: otherwise take the least n without. *)
LEMMA KeepingExists ==
    ASSUME NEW s, NEW S, NEW n \in Nat
    PROVE  \E kept : Keeping(s, S, n, kept)
<1> DEFINE Bad == {m \in Nat : ~ \E kept : Keeping(s, S, m, kept)}
<1> SUFFICES ASSUME Bad # {}
             PROVE  FALSE
  OBVIOUS
<1>1. PICK m \in Bad : \A k \in Bad : m <= k
  <2>1. Bad \subseteq Nat
    OBVIOUS
  <2> HIDE DEF Bad
  <2> QED
    BY <2>1, LeastMember
<1>2. m # 0
  <2>1. Keeping(s, S, 0, [i \in 0 .. 0 |-> <<>>])
    BY DEF Keeping
  <2> QED
    BY <2>1
<1>3. PICK f : Keeping(s, S, m - 1, f)
  <2>1. m - 1 \in Nat /\ ~(m <= m - 1)
    BY <1>2
  <2>2. m - 1 \notin Bad
    BY <1>1, <2>1
  <2> QED
    BY <2>1, <2>2
<1> DEFINE g == [i \in 0 .. m |->
                    IF i = m THEN IF s[m] \in S THEN f[m - 1] ELSE Append(f[m - 1], s[m])
                    ELSE f[i]]
<1>4. \A i \in 0 .. m - 1 : g[i] = f[i]
  OBVIOUS
<1>5. \A i \in 0 .. m : g[i] = IF i = 0 THEN <<>>
                               ELSE IF s[i] \in S THEN g[i - 1] ELSE Append(g[i - 1], s[i])
  <2> SUFFICES ASSUME NEW i \in 0 .. m
               PROVE  g[i] = IF i = 0 THEN <<>>
                             ELSE IF s[i] \in S THEN g[i - 1] ELSE Append(g[i - 1], s[i])
    OBVIOUS
  <2>1. CASE i = m
    BY <1>2, <2>1
  <2>2. CASE i # m
    <3>1. i \in 0 .. m - 1
      BY <2>2
    <3>2. f[i] = IF i = 0 THEN <<>>
                 ELSE IF s[i] \in S THEN f[i - 1] ELSE Append(f[i - 1], s[i])
      BY <1>3, <3>1 DEF Keeping
    <3>3. i # 0 => i - 1 \in 0 .. m - 1
      BY <3>1
    <3> QED
      BY <1>4, <3>1, <3>2, <3>3
  <2> QED
    BY <2>1, <2>2
<1>6. g = [i \in 0 .. m |-> g[i]]
  OBVIOUS
<1>7. Keeping(s, S, m, g)
  <2> HIDE DEF g
  <2> QED
    BY <1>5, <1>6 DEF Keeping
<1> QED
  BY <1>7

(* The members of s that are not in S, in their order. *)
Sifted(D, s, S, n, r) ==
    /\ r \in Seq(D)
    /\ \A i \in 1 .. Len(r) : \E a \in 1 .. n : r[i] = s[a] /\ s[a] \notin S
    /\ \A a \in 1 .. n : s[a] \notin S => \E i \in 1 .. Len(r) : r[i] = s[a]
    /\ \A i, j \in 1 .. Len(r) :
          i < j => \E a, b \in 1 .. n : a < b /\ s[a] = r[i] /\ s[b] = r[j]

(* One step of the recursion of Removed. *)
LEMMA SiftedAppend ==
    ASSUME NEW D, NEW s \in Seq(D), NEW S, NEW n \in 1 .. Len(s), NEW r,
           Sifted(D, s, S, n - 1, r)
    PROVE  Sifted(D, s, S, n, IF s[n] \in S THEN r ELSE Append(r, s[n]))
<1>1. 1 .. n = (1 .. n - 1) \cup {n} /\ s[n] \in D /\ r \in Seq(D) /\ n - 1 < n
  BY DEF Sifted
<1>2. CASE s[n] \in S
  BY <1>1, <1>2 DEF Sifted
<1>3. CASE s[n] \notin S
  <2> DEFINE t == Append(r, s[n])
  <2>1. /\ t \in Seq(D) /\ Len(t) = Len(r) + 1 /\ t[Len(r) + 1] = s[n]
        /\ \A i \in 1 .. Len(r) : t[i] = r[i]
    BY <1>1
  <2>2. Len(r) \in Nat /\ 1 .. Len(t) = (1 .. Len(r)) \cup {Len(r) + 1}
        /\ Len(r) + 1 \in 1 .. Len(t)
    BY <1>1, <2>1
  <2> HIDE DEF t
  <2>3. \A i \in 1 .. Len(t) : \E a \in 1 .. n : t[i] = s[a] /\ s[a] \notin S
    <3> SUFFICES ASSUME NEW i \in 1 .. Len(t)
                 PROVE  \E a \in 1 .. n : t[i] = s[a] /\ s[a] \notin S
      OBVIOUS
    <3>1. CASE i = Len(r) + 1
      BY <1>3, <2>1, <3>1
    <3>2. CASE i \in 1 .. Len(r)
      <4>1. PICK a \in 1 .. n - 1 : r[i] = s[a] /\ s[a] \notin S
        BY <3>2 DEF Sifted
      <4> QED
        BY <1>1, <2>1, <3>2, <4>1
    <3> QED
      BY <2>2, <3>1, <3>2
  <2>4. \A a \in 1 .. n : s[a] \notin S => \E i \in 1 .. Len(t) : t[i] = s[a]
    BY <1>1, <2>1, <2>2 DEF Sifted
  <2>5. ASSUME NEW i \in 1 .. Len(t), NEW j \in 1 .. Len(t), i < j
        PROVE  \E a, b \in 1 .. n : a < b /\ s[a] = t[i] /\ s[b] = t[j]
    <3>1. i \in 1 .. Len(r) /\ t[i] = r[i]
      BY <2>1, <2>2, <2>5
    <3>2. CASE j = Len(r) + 1
      <4>1. PICK a \in 1 .. n - 1 : s[a] = r[i]
        BY <3>1 DEF Sifted
      <4>2. a \in 1 .. n /\ n \in 1 .. n /\ a < n /\ t[j] = s[n]
        BY <2>1, <3>2
      <4> QED
        BY <3>1, <4>1, <4>2
    <3>3. CASE j \in 1 .. Len(r)
      <4>1. PICK a, b \in 1 .. n - 1 : a < b /\ s[a] = r[i] /\ s[b] = r[j]
        BY <2>5, <3>1, <3>3 DEF Sifted
      <4> QED
        BY <1>1, <2>1, <3>1, <3>3, <4>1
    <3> QED
      BY <2>2, <3>2, <3>3
  <2>6. Sifted(D, s, S, n, t)
    BY <2>1, <2>3, <2>4, <2>5 DEF Sifted
  <2> QED
    BY <1>3, <2>6 DEF t
<1> QED
  BY <1>2, <1>3

(* unsafeRemove keeps the others, in their order. *)
LEMMA RemovedIsSifted ==
    ASSUME NEW D, NEW s \in Seq(D), NEW S
    PROVE  Sifted(D, s, S, Len(s), Removed(s, S))
<1> DEFINE kept == Kept(s, S)
           Bad == {n \in 0 .. Len(s) : ~Sifted(D, s, S, n, kept[n])}
<1>1. Keeping(s, S, Len(s), kept)
  <2>1. Len(s) \in Nat
    OBVIOUS
  <2> QED
    BY <2>1, KeepingExists DEF Kept
<1>2. kept[0] = <<>>
      /\ \A n \in 1 .. Len(s) :
            kept[n] = IF s[n] \in S THEN kept[n - 1] ELSE Append(kept[n - 1], s[n])
  <2> HIDE DEF kept
  <2>1. \A n \in 0 .. Len(s) :
            kept[n] = IF n = 0 THEN <<>>
                      ELSE IF s[n] \in S THEN kept[n - 1] ELSE Append(kept[n - 1], s[n])
    BY <1>1 DEF Keeping
  <2>2. 0 \in 0 .. Len(s) /\ \A n \in 1 .. Len(s) : n \in 0 .. Len(s) /\ n # 0
    OBVIOUS
  <2> QED
    BY <2>1, <2>2
<1> HIDE DEF kept
<1>3. Bad = {}
  <2> SUFFICES ASSUME Bad # {}
               PROVE  FALSE
    OBVIOUS
  <2>1. PICK n \in Bad : \A k \in Bad : n <= k
    <3>1. Bad \subseteq Nat
      OBVIOUS
    <3> HIDE DEF Bad
    <3> QED
      BY <3>1, LeastMember
  <2>2. n \in 1 .. Len(s)
    <3>1. Sifted(D, s, S, 0, <<>>)
      BY DEF Sifted
    <3> QED
      BY <1>2, <3>1
  <2>3. n - 1 \in 0 .. Len(s) /\ ~(n <= n - 1)
    BY <2>2
  <2>4. Sifted(D, s, S, n - 1, kept[n - 1])
    BY <2>1, <2>3
  <2> DEFINE r == kept[n - 1]
  <2>5. Sifted(D, s, S, n, IF s[n] \in S THEN r ELSE Append(r, s[n]))
    <3>1. Sifted(D, s, S, n - 1, r)
      BY <2>4
    <3> HIDE DEF r
    <3> QED
      BY <2>2, <3>1, SiftedAppend
  <2>6. Sifted(D, s, S, n, kept[n])
    BY <1>2, <2>2, <2>5
  <2> QED
    BY <2>6
<1>4. Len(s) \in 0 .. Len(s)
  OBVIOUS
<1> QED
  BY <1>3, <1>4, RemovedIsKept DEF kept

(* The larger of two numbers. *)
LEMMA MaxIs ==
    ASSUME NEW m \in Int, NEW n \in Int
    PROVE  Max({m, n}) = IF m >= n THEN m ELSE n
<1> DEFINE T == {m, n}
           l == IF m >= n THEN m ELSE n
<1>1. l \in T /\ \A y \in T : l >= y
  OBVIOUS
<1>2. \A x \in T : (\A y \in T : x >= y) => x = l
  OBVIOUS
<1> HIDE DEF T, l
<1>3. Max(T) = l
  BY <1>1, <1>2 DEF Max
<1> QED
  BY <1>3 DEF T, l

(* The largest of one number. *)
LEMMA MaxOfOne ==
    ASSUME NEW m \in Int
    PROVE  Max({m}) = m
  BY DEF Max

(* Different places less than a capacity apart have different slots. *)
LEMMA SameRemainder ==
    ASSUME NEW c \in Nat \ {0}, NEW a \in Int, NEW b \in Int,
           a % c = b % c, a - b < c, b - a < c
    PROVE  a = b
<1> DEFINE x == a \div c
           y == b \div c
<1>1. x \in Int /\ y \in Int
  BY SMT
<1>2. a = c * x + (a % c)
  BY SMT
<1>3. b = c * y + (b % c)
  BY SMT
<1>4. (a % c) \in Int
  BY SMT
<1> HIDE DEF x, y
<1> DEFINE r == a % c
           u == c * x
           v == c * y
<1>5. u - v < c /\ v - u < c /\ u \in Int /\ v \in Int
  <2>1. u \in Int /\ v \in Int
    BY <1>1
  <2>2. a = u + r /\ b = v + r /\ r \in Int
    BY <1>2, <1>3, <1>4
  <2> HIDE DEF u, v, r
  <2> QED
    BY <2>1, <2>2
<1>6. x = y
  BY <1>1, <1>5, Z3
<1> QED
  BY <1>2, <1>3, <1>6

-----------------------------------------------------------------------------
Capacity == kind.capacity
Slots == 0 .. Capacity - 1
Mail == Publishers \X Nat
Hubs ==
    [array: [Slots -> Mail \cup {NoMessage}], needs: [Slots -> Int],
     publisherIndex: Nat, subscribersIndex: Nat, subscriberCount: Int,
     subscriberIndex: [Subscriptions -> Nat]]

Low(h) ==
    IF Single THEN (IF h.needs[0] = 0 THEN h.publisherIndex ELSE h.publisherIndex - 1)
    ELSE h.subscribersIndex

Behind(h, S, k) == {s \in S : Cursor(h, s) <= k}

Counts(h, S) == IsFiniteSet(S) /\ h.subscriberCount = Cardinality(S)

Fits(h, l, S) ==
    /\ h.publisherIndex = Len(l)
    /\ Low(h) \in 0 .. Len(l) /\ Len(l) <= Low(h) + Capacity
    /\ \A s \in S : Cursor(h, s) \in Low(h) .. Len(l)
    /\ \A k \in Low(h) .. Len(l) - 1 :
          /\ h.array[Slot(k)] = l[k + 1]
          /\ h.needs[Slot(k)] = Cardinality(Behind(h, S, k))

(* The capacity is a positive number. *)
LEMMA CapacityIs == ASSUME kind \in Kinds PROVE Capacity \in Nat /\ Capacity > 0
  BY KindsAssumption DEF Capacity

(* Every place of the log has a slot of the ring. *)
LEMMA SlotIs ==
    ASSUME kind \in Kinds, NEW k \in Int
    PROVE  Slot(k) \in Slots /\ (k = 0 => Slot(k) = 0)
<1>1. Capacity \in Nat \ {0}
  BY CapacityIs
<1>2. Slot(k) = k % Capacity
  BY DEF Slot, Capacity
<1> HIDE DEF Capacity
<1>3. k % Capacity \in 0 .. Capacity - 1
  BY <1>1
<1>4. 0 % Capacity = 0
  BY <1>1
<1> QED
  BY <1>2, <1>3, <1>4 DEF Slots

(* Places of the log less than the capacity apart have different slots. *)
LEMMA SlotsDiffer ==
    ASSUME kind \in Kinds, NEW j \in Int, NEW k \in Int, Slot(j) = Slot(k),
           j - k < Capacity, k - j < Capacity
    PROVE  j = k
<1>1. Capacity \in Nat \ {0}
  BY CapacityIs
<1>2. Slot(j) = j % Capacity /\ Slot(k) = k % Capacity
  BY DEF Slot, Capacity
<1> HIDE DEF Capacity
<1> QED
  BY <1>1, <1>2, SameRemainder

(* A hub of one slot. *)
LEMMA SingleIs ==
    ASSUME kind \in Kinds
    PROVE  Single <=> Capacity = 1
  BY DEF Single, Capacity

(* Where a subscription is: where it left off, or where the ring slid to. *)
LEMMA CursorIs ==
    ASSUME NEW h \in Hubs, NEW s \in Subscriptions
    PROVE  /\ Cursor(h, s) \in Nat
           /\ Single => Cursor(h, s) = h.subscriberIndex[s]
           /\ ~Single => Cursor(h, s) = IF h.subscriberIndex[s] >= h.subscribersIndex
                                        THEN h.subscriberIndex[s] ELSE h.subscribersIndex
<1>1. h.subscriberIndex[s] \in Nat /\ h.subscribersIndex \in Nat
  BY DEF Hubs
<1>2. CASE Single
  BY <1>1, <1>2 DEF Cursor
<1>3. CASE ~Single
  <2> DEFINE m == h.subscriberIndex[s]
             n == h.subscribersIndex
  <2>1. Cursor(h, s) = Max({m, n})
    BY <1>3 DEF Cursor
  <2>2. m \in Int /\ n \in Int /\ m \in Nat /\ n \in Nat
    BY <1>1
  <2> HIDE DEF m, n
  <2>3. Max({m, n}) = IF m >= n THEN m ELSE n
    BY <2>2, MaxIs
  <2>4. Cursor(h, s) \in Nat /\ Cursor(h, s) = IF m >= n THEN m ELSE n
    BY <2>1, <2>2, <2>3
  <2> QED
    BY <1>3, <2>4 DEF m, n
<1> QED
  BY <1>2, <1>3

(* The types of the fields of the AtomicHub. *)
LEMMA HubIs ==
    ASSUME NEW h \in Hubs
    PROVE  /\ h.array \in [Slots -> Mail \cup {NoMessage}] /\ h.needs \in [Slots -> Int]
           /\ h.publisherIndex \in Nat /\ h.subscribersIndex \in Nat
           /\ h.subscriberCount \in Int /\ h.subscriberIndex \in [Subscriptions -> Nat]
  BY DEF Hubs

(* What a store does to each field. *)
LEMMA StoreIs ==
    ASSUME kind \in Kinds, NEW h \in Hubs, NEW ms \in Seq(Mail), Len(ms) <= Capacity
    PROVE  LET g == Store(h, ms)
               p == h.publisherIndex
           IN  /\ g \in Hubs
               /\ g.publisherIndex = p + Len(ms)
               /\ g.subscribersIndex = h.subscribersIndex
               /\ g.subscriberCount = h.subscriberCount
               /\ g.subscriberIndex = h.subscriberIndex
               /\ \A j \in 1 .. Len(ms) : /\ g.array[Slot(p + j - 1)] = ms[j]
                                          /\ g.needs[Slot(p + j - 1)] = h.subscriberCount
               /\ \A i \in Slots : (\A j \in 1 .. Len(ms) : Slot(p + j - 1) # i)
                                      => g.array[i] = h.array[i] /\ g.needs[i] = h.needs[i]
<1> DEFINE p == h.publisherIndex
           into(i) == {j \in DOMAIN ms : Slot(p + j - 1) = i}
           a == [i \in DOMAIN h.array |-> IF into(i) = {} THEN h.array[i] ELSE ms[Max(into(i))]]
           n == [i \in DOMAIN h.needs |-> IF into(i) = {} THEN h.needs[i] ELSE h.subscriberCount]
           g == Store(h, ms)
<1>1. p \in Nat /\ DOMAIN ms = 1 .. Len(ms) /\ Len(ms) \in Nat /\ Capacity \in Nat
  BY HubIs, CapacityIs
<1>2. DOMAIN h.array = Slots /\ DOMAIN h.needs = Slots
  BY HubIs
<1>3. g = [h EXCEPT !.array = a, !.needs = n, !.publisherIndex = p + Len(ms)]
  BY DEF Store
<1>4. \A j \in 1 .. Len(ms) : into(Slot(p + j - 1)) = {j} /\ Slot(p + j - 1) \in Slots
  <2> SUFFICES ASSUME NEW j \in 1 .. Len(ms)
               PROVE  into(Slot(p + j - 1)) = {j} /\ Slot(p + j - 1) \in Slots
    OBVIOUS
  <2>1. ASSUME NEW i \in 1 .. Len(ms), Slot(p + i - 1) = Slot(p + j - 1)
        PROVE  i = j
    <3>1. p + i - 1 \in Int /\ p + j - 1 \in Int
          /\ (p + i - 1) - (p + j - 1) < Capacity /\ (p + j - 1) - (p + i - 1) < Capacity
      BY <1>1
    <3>2. p + i - 1 = p + j - 1
      BY <2>1, <3>1, SlotsDiffer
    <3> QED
      BY <1>1, <3>2
  <2>2. Slot(p + j - 1) \in Slots
    BY <1>1, SlotIs
  <2> QED
    BY <1>1, <2>1, <2>2
<1>5. \A j \in 1 .. Len(ms) : Max({j}) = j
  BY MaxOfOne
<1>6. \A i \in Slots : into(i) # {} => \E j \in 1 .. Len(ms) : into(i) = {j}
  <2> SUFFICES ASSUME NEW i \in Slots, NEW j \in into(i)
               PROVE  \E k \in 1 .. Len(ms) : into(i) = {k}
    OBVIOUS
  <2>1. j \in 1 .. Len(ms) /\ Slot(p + j - 1) = i
    BY <1>1
  <2>2. into(Slot(p + j - 1)) = {j}
    BY <1>4, <2>1
  <2> HIDE DEF into
  <2> QED
    BY <2>1, <2>2
<1>7. a \in [Slots -> Mail \cup {NoMessage}]
  <2>1. \A i \in Slots : into(i) # {} => ms[Max(into(i))] \in Mail
    BY <1>5, <1>6
  <2>2. \A i \in Slots : h.array[i] \in Mail \cup {NoMessage}
    BY HubIs
  <2> HIDE DEF into
  <2> QED
    BY <1>2, <2>1, <2>2
<1>8. n \in [Slots -> Int]
  BY <1>2, HubIs
<1>9. \A j \in 1 .. Len(ms) : /\ a[Slot(p + j - 1)] = ms[j]
                              /\ n[Slot(p + j - 1)] = h.subscriberCount
  <2> SUFFICES ASSUME NEW j \in 1 .. Len(ms)
               PROVE  /\ a[Slot(p + j - 1)] = ms[j]
                      /\ n[Slot(p + j - 1)] = h.subscriberCount
    OBVIOUS
  <2>1. into(Slot(p + j - 1)) = {j} /\ Slot(p + j - 1) \in Slots /\ Max({j}) = j
    BY <1>4, <1>5
  <2> HIDE DEF into
  <2> QED
    BY <1>2, <2>1
<1>10. \A i \in Slots : (\A j \in 1 .. Len(ms) : Slot(p + j - 1) # i)
                           => a[i] = h.array[i] /\ n[i] = h.needs[i]
  BY <1>1, <1>2
<1> HIDE DEF a, n, into
<1>11. /\ g.array = a /\ g.needs = n /\ g.publisherIndex = p + Len(ms)
       /\ g.subscribersIndex = h.subscribersIndex
       /\ g.subscriberCount = h.subscriberCount
       /\ g.subscriberIndex = h.subscriberIndex
       /\ g \in Hubs
  <2>1. p + Len(ms) \in Nat
    BY <1>1
  <2> HIDE DEF g, p
  <2> QED
    BY <1>3, <1>7, <1>8, <2>1 DEF Hubs
<1> HIDE DEF g
<1>12. /\ g \in Hubs
       /\ g.publisherIndex = p + Len(ms)
       /\ g.subscribersIndex = h.subscribersIndex
       /\ g.subscriberCount = h.subscriberCount
       /\ g.subscriberIndex = h.subscriberIndex
       /\ \A j \in 1 .. Len(ms) : /\ g.array[Slot(p + j - 1)] = ms[j]
                                  /\ g.needs[Slot(p + j - 1)] = h.subscriberCount
       /\ \A i \in Slots : (\A j \in 1 .. Len(ms) : Slot(p + j - 1) # i)
                              => g.array[i] = h.array[i] /\ g.needs[i] = h.needs[i]
  BY <1>9, <1>10, <1>11
<1> QED
  BY <1>12 DEF g, p

(* The cursors depend on two fields only. *)
LEMMA CursorStays ==
    ASSUME NEW h, NEW g, g.subscriberIndex = h.subscriberIndex,
           g.subscribersIndex = h.subscribersIndex
    PROVE  /\ \A s \in Subscriptions : Cursor(g, s) = Cursor(h, s)
           /\ \A S \in SUBSET Subscriptions : \A k : Behind(g, S, k) = Behind(h, S, k)
<1>1. \A s \in Subscriptions : Cursor(g, s) = Cursor(h, s)
  BY DEF Cursor
<1> QED
  BY <1>1 DEF Behind

(* Nobody needs a slot if it was passed by all. *)
LEMMA BehindIs ==
    ASSUME NEW h \in Hubs, NEW S \in SUBSET Subscriptions, IsFiniteSet(S), NEW k
    PROVE  /\ IsFiniteSet(Behind(h, S, k)) /\ Cardinality(Behind(h, S, k)) \in Nat
           /\ Cardinality(S) \in Nat
           /\ Cardinality(Behind(h, S, k)) = 0 <=> Behind(h, S, k) = {}
<1>1. Behind(h, S, k) \in SUBSET S
  BY DEF Behind
<1> HIDE DEF Behind
<1>2. IsFiniteSet(Behind(h, S, k))
  BY <1>1, FS_Subset
<1> QED
  BY <1>2, FS_CardinalityType, FS_EmptySet

(* The oldest place in use: the single slot, or subscribersIndex of a ring. *)
LEMMA LowIs ==
    ASSUME NEW h \in Hubs, kind \in Kinds
    PROVE  /\ Low(h) \in Int
           /\ Single => Low(h) <= h.publisherIndex
           /\ ~Single => Low(h) = h.subscribersIndex
           /\ Single => /\ 0 \in Slots /\ Slots = {0} /\ h.needs[0] \in Int
                        /\ h.needs[0] = 0 => Low(h) = h.publisherIndex
                        /\ h.needs[0] # 0 => Low(h) = h.publisherIndex - 1
<1>1. Capacity \in Nat /\ Capacity > 0 /\ (Single <=> Capacity = 1)
  BY CapacityIs, SingleIs
<1>2. Single => Slots = {0}
  BY <1>1 DEF Slots
<1>3. Single => h.needs[0] \in Int
  BY <1>2, HubIs
<1>4. h.publisherIndex \in Nat /\ h.subscribersIndex \in Nat
  BY HubIs
<1>5. CASE Single
  BY <1>2, <1>3, <1>4, <1>5 DEF Low
<1>6. CASE ~Single
  BY <1>4, <1>6 DEF Low
<1> QED
  BY <1>5, <1>6

(* Messages that are stored while there is room. *)
LEMMA StoreFits ==
    ASSUME kind \in Kinds, NEW h \in Hubs, NEW S \in SUBSET Subscriptions, NEW l \in Seq(Mail),
           Counts(h, S), Fits(h, l, S), NEW ms \in Seq(Mail),
           Len(l) + Len(ms) <= Low(h) + Capacity
    PROVE  /\ Counts(Store(h, ms), S) /\ Fits(Store(h, ms), l \o ms, S)
           /\ Store(h, ms) \in Hubs
           /\ \A s \in Subscriptions : Cursor(Store(h, ms), s) = Cursor(h, s)
<1> DEFINE g == Store(h, ms)
           L == Low(h)
           M == Low(g)
           p == Len(l)
           n == Len(ms)
           t == l \o ms
<1>1. /\ h.publisherIndex = p /\ L \in 0 .. p /\ p <= L + Capacity
      /\ \A s \in S : Cursor(h, s) \in L .. p
      /\ \A k \in L .. p - 1 : /\ h.array[Slot(k)] = l[k + 1]
                               /\ h.needs[Slot(k)] = Cardinality(Behind(h, S, k))
  BY DEF Fits
<1>2. IsFiniteSet(S) /\ h.subscriberCount = Cardinality(S)
  BY DEF Counts
<1>3. p \in Nat /\ n \in Nat /\ Capacity \in Nat /\ Capacity > 0 /\ p + n <= L + Capacity
  BY CapacityIs
<1>4. n <= Capacity
  BY <1>1, <1>3
<1>5. /\ g \in Hubs
      /\ g.publisherIndex = p + n
      /\ g.subscribersIndex = h.subscribersIndex
      /\ g.subscriberCount = h.subscriberCount
      /\ g.subscriberIndex = h.subscriberIndex
      /\ \A j \in 1 .. n : /\ g.array[Slot(p + j - 1)] = ms[j]
                           /\ g.needs[Slot(p + j - 1)] = h.subscriberCount
      /\ \A i \in Slots : (\A j \in 1 .. n : Slot(p + j - 1) # i)
                             => g.array[i] = h.array[i] /\ g.needs[i] = h.needs[i]
  <2>1. n <= Capacity /\ h.publisherIndex = p
    BY <1>1, <1>4
  <2> HIDE DEF p
  <2> QED
    BY <2>1, StoreIs
<1>6. t \in Seq(Mail) /\ Len(t) = p + n
      /\ (\A k \in 1 .. p : t[k] = l[k]) /\ (\A k \in p + 1 .. p + n : t[k] = ms[k - p])
  BY <1>3
<1> HIDE DEF g, t
<1>7. /\ \A s \in Subscriptions : Cursor(g, s) = Cursor(h, s)
      /\ \A k : Behind(g, S, k) = Behind(h, S, k)
  BY <1>5, CursorStays
<1>8. M = L \/ (M = p + n /\ S = {})
  <2>1. CASE ~Single
    BY <1>5, <2>1, LowIs
  <2>2. CASE Single
    <3>1. Capacity = 1 /\ Slots = {0}
      BY <2>2, SingleIs, LowIs
    <3>2. /\ h.needs[0] = 0 => L = p
          /\ h.needs[0] # 0 => L = p - 1
      BY <1>1, <2>2, LowIs
    <3>3. /\ g.needs[0] = 0 => M = p + n
          /\ g.needs[0] # 0 => M = p + n - 1
      BY <1>5, <2>2, LowIs
    <3>4. CASE n = 0
      <4>1. g.needs[0] = h.needs[0]
        BY <1>5, <3>1, <3>4
      <4> QED
        BY <1>3, <3>2, <3>3, <3>4, <4>1
    <3>5. CASE n # 0
      <4>1. n = 1 /\ L = p
        <5>1. L \in 0 .. p /\ p \in Nat /\ n \in Nat /\ n # 0 /\ p + n <= L + 1
          BY <1>1, <1>3, <3>1, <3>5
        <5> HIDE DEF L, p, n
        <5> QED
          BY <5>1
      <4>2. Slot(p + 1 - 1) = 0
        <5>1. Slot(p + 1 - 1) \in Slots
          BY <1>3, SlotIs
        <5> QED
          BY <3>1, <5>1
      <4>3. g.needs[0] = Cardinality(S)
        <5>1. 1 \in 1 .. n
          BY <4>1
        <5> QED
          BY <1>2, <1>5, <4>2, <5>1
      <4>4. Cardinality(S) = 0 => S = {}
        BY <1>2, FS_EmptySet
      <4> HIDE DEF M, L, p, n
      <4>5. CASE g.needs[0] = 0
        BY <3>3, <4>3, <4>4, <4>5
      <4>6. CASE g.needs[0] # 0
        <5>1. M = p + n - 1
          BY <3>3, <4>6
        <5> QED
          BY <1>3, <4>1, <5>1
      <4> QED
        BY <4>5, <4>6
    <3> QED
      BY <3>4, <3>5
  <2> QED
    BY <2>1, <2>2
<1> HIDE DEF M, L, p, n
<1>9. M \in L .. p + n /\ p + n <= M + Capacity
  BY <1>1, <1>3, <1>8
<1>10. \A s \in S : Cursor(g, s) \in M .. p + n
  <2>1. CASE M = L
    BY <1>1, <1>3, <1>7, <2>1
  <2>2. CASE S = {}
    BY <2>2
  <2> QED
    BY <1>8, <2>1, <2>2
<1>11. ASSUME NEW k \in M .. p + n - 1
       PROVE  g.array[Slot(k)] = t[k + 1] /\ g.needs[Slot(k)] = Cardinality(Behind(g, S, k))
  <2>1. k \in Int /\ k >= L /\ L \in Int
    BY <1>1, <1>3, <1>9
  <2>2. Slot(k) \in Slots
    BY <2>1, SlotIs
  <2>3. CASE k < p
    <3>1. ASSUME NEW j \in 1 .. n
          PROVE  Slot(p + j - 1) # Slot(k)
      <4>1. p + j - 1 \in Int /\ (p + j - 1) - k < Capacity /\ k - (p + j - 1) < Capacity
            /\ p + j - 1 # k
        BY <1>3, <2>1, <2>3
      <4> QED
        BY <2>1, <4>1, SlotsDiffer
    <3>2. g.array[Slot(k)] = h.array[Slot(k)] /\ g.needs[Slot(k)] = h.needs[Slot(k)]
      BY <1>5, <2>2, <3>1
    <3>3. k \in L .. p - 1 /\ k + 1 \in 1 .. p
      BY <1>1, <1>3, <2>1, <2>3
    <3>4. t[k + 1] = l[k + 1]
      BY <1>6, <3>3
    <3>5. h.array[Slot(k)] = l[k + 1] /\ h.needs[Slot(k)] = Cardinality(Behind(h, S, k))
      BY <1>1, <3>3
    <3> QED
      BY <1>7, <3>2, <3>4, <3>5
  <2>4. CASE k >= p
    <3> DEFINE j == k - p + 1
    <3>1. j \in 1 .. n /\ p + j - 1 = k /\ k + 1 \in p + 1 .. p + n /\ (k + 1) - p = j
      BY <1>3, <2>1, <2>4
    <3>2. t[k + 1] = ms[j]
      BY <1>6, <3>1
    <3> HIDE DEF j
    <3>3. g.array[Slot(k)] = ms[j] /\ g.needs[Slot(k)] = Cardinality(S)
      <4>1. g.array[Slot(p + j - 1)] = ms[j] /\ g.needs[Slot(p + j - 1)] = h.subscriberCount
        BY <1>5, <3>1
      <4> QED
        BY <1>2, <3>1, <4>1
    <3>4. Behind(g, S, k) = S
      <4>1. \A s \in S : Cursor(h, s) <= k
        BY <1>1, <1>3, <2>1, <2>4
      <4> QED
        BY <1>7, <4>1 DEF Behind
    <3> QED
      BY <3>2, <3>3, <3>4
  <2>5. k < p \/ k >= p
    BY <1>3, <2>1
  <2> QED
    BY <2>3, <2>4, <2>5
<1>12. Fits(g, t, S)
  <2>1. M \in 0 .. p + n
    BY <1>1, <1>3, <1>9
  <2> QED
    <3>1. /\ g.publisherIndex = Len(t) /\ M \in 0 .. Len(t) /\ Len(t) <= M + Capacity
          /\ \A s \in S : Cursor(g, s) \in M .. Len(t)
          /\ \A k \in M .. Len(t) - 1 :
                /\ g.array[Slot(k)] = t[k + 1]
                /\ g.needs[Slot(k)] = Cardinality(Behind(g, S, k))
      <4> DEFINE q == p + n
      <4>1. /\ g.publisherIndex = q /\ M \in 0 .. q /\ q <= M + Capacity
            /\ \A s \in S : Cursor(g, s) \in M .. q
        BY <1>5, <1>9, <1>10, <2>1
      <4>2. \A k \in M .. q - 1 :
                /\ g.array[Slot(k)] = t[k + 1]
                /\ g.needs[Slot(k)] = Cardinality(Behind(g, S, k))
        <5> SUFFICES ASSUME NEW k \in M .. q - 1
                     PROVE  /\ g.array[Slot(k)] = t[k + 1]
                            /\ g.needs[Slot(k)] = Cardinality(Behind(g, S, k))
          OBVIOUS
        <5>1. k \in M .. p + n - 1
          BY <1>1, <1>3, <1>9 DEF q
        <5> HIDE DEF q
        <5> QED
          BY <5>1, <1>11
      <4>3. Len(t) = q
        BY <1>6
      <4> HIDE DEF q
      <4> QED
        BY ONLY <4>1, <4>2, <4>3
    <3> QED
      BY ONLY <3>1 DEF Fits, M
<1>13. Counts(g, S)
  BY <1>2, <1>5 DEF Counts
<1> QED
  BY <1>5, <1>7, <1>12, <1>13 DEF g, t

Passed(h, s, n) == {Slot(Cursor(h, s) + i) : i \in 0 .. n - 1}
Freed(h, s, n) == {i \in Passed(h, s, n) : h.needs[i] = 1}

(* So many places, so many slots. *)
LEMMA SlotsOfPlaces ==
    ASSUME kind \in Kinds, NEW a \in Int, NEW b \in Int, a <= b,
           NEW T, \A x \in T : \E k \in a .. b - 1 : x = Slot(k)
    PROVE  IsFiniteSet(T) /\ Cardinality(T) \in Nat /\ Cardinality(T) <= b - a
<1> DEFINE P == a .. b - 1
           f == [k \in P |-> Slot(k)]
           R == {Slot(k) : k \in P}
           d == b - 1
<1>1. IsFiniteSet(P) /\ Cardinality(P) = b - a
  <2>1. d \in Int /\ b - a = (IF a > d THEN 0 ELSE d - a + 1) /\ P = a .. d
    OBVIOUS
  <2> HIDE DEF d, P
  <2> QED
    BY <2>1, FS_Interval
<1>2. f \in Surjection(P, R)
  BY DEF Surjection
<1>3. T \in SUBSET R
  OBVIOUS
<1> HIDE DEF P, f, R
<1>4. IsFiniteSet(R) /\ Cardinality(R) <= b - a
  BY <1>1, <1>2, FS_Surjection
<1>5. IsFiniteSet(T) /\ Cardinality(T) <= Cardinality(R)
  BY <1>3, <1>4, FS_Subset
<1> QED
  BY <1>4, <1>5, FS_CardinalityType

Passing(h, s, n, g) ==
    /\ g \in Hubs
    /\ g.array = h.array
    /\ g.publisherIndex = h.publisherIndex
    /\ g.subscriberCount = h.subscriberCount
    /\ g.subscribersIndex = h.subscribersIndex + Cardinality(Freed(h, s, n))
    /\ Cardinality(Freed(h, s, n)) \in Nat
    /\ g.subscriberIndex = [h.subscriberIndex EXCEPT ![s] = Cursor(h, s) + n]
    /\ \A i \in Slots : g.needs[i] = IF i \in Passed(h, s, n) THEN h.needs[i] - 1
                                     ELSE h.needs[i]

(* What a poll of n messages does to each field. *)
LEMMA PassIs ==
    ASSUME kind \in Kinds, NEW h \in Hubs, NEW s \in Subscriptions, NEW n \in Nat
    PROVE  Passing(h, s, n, Pass(h, s, n))
<1> DEFINE g == Pass(h, s, n)
           F == Freed(h, s, n)
           c == Cursor(h, s)
           ns == [i \in DOMAIN h.needs |-> IF i \in Passed(h, s, n) THEN h.needs[i] - 1
                                           ELSE h.needs[i]]
           si == [h.subscriberIndex EXCEPT ![s] = c + n]
           f == Cardinality(F)
           x == h.subscribersIndex + f
<1>1. c \in Nat
  BY CursorIs
<1>2. g = [h EXCEPT !.needs = ns, !.subscribersIndex = x, !.subscriberIndex = si]
  BY DEF Pass, Passed, Freed
<1>3. f \in Nat
  <2>1. \A y \in F : \E k \in c .. (c + n) - 1 : y = Slot(k)
    <3> SUFFICES ASSUME NEW y \in F
                 PROVE  \E k \in c .. (c + n) - 1 : y = Slot(k)
      OBVIOUS
    <3>1. PICK i \in 0 .. n - 1 : y = Slot(c + i)
      BY DEF Freed, Passed
    <3>2. c + i \in c .. (c + n) - 1
      BY <1>1
    <3> HIDE DEF c
    <3> QED
      BY <3>1, <3>2
  <2>2. c \in Int /\ c + n \in Int /\ c <= c + n
    BY <1>1
  <2> HIDE DEF c, F
  <2> QED
    BY <2>1, <2>2, SlotsOfPlaces
<1>4. ns \in [Slots -> Int] /\ \A i \in Slots : ns[i] = IF i \in Passed(h, s, n) THEN h.needs[i] - 1
                                                     ELSE h.needs[i]
  BY HubIs
<1>5. si \in [Subscriptions -> Nat]
  BY <1>1, HubIs
<1>0. x \in Nat
  BY <1>3, HubIs
<1> HIDE DEF ns, si, f, g, c, x
<1>6. /\ g \in Hubs
      /\ g.array = h.array
      /\ g.publisherIndex = h.publisherIndex
      /\ g.subscriberCount = h.subscriberCount
      /\ g.subscribersIndex = x
      /\ g.subscriberIndex = si
      /\ g.needs = ns
  BY <1>0, <1>2, <1>3, <1>4, <1>5 DEF Hubs
<1>7. /\ g \in Hubs
      /\ g.array = h.array
      /\ g.publisherIndex = h.publisherIndex
      /\ g.subscriberCount = h.subscriberCount
      /\ g.subscribersIndex = h.subscribersIndex + f
      /\ f \in Nat
      /\ g.subscriberIndex = [h.subscriberIndex EXCEPT ![s] = c + n]
      /\ \A i \in Slots : g.needs[i] = IF i \in Passed(h, s, n) THEN h.needs[i] - 1
                                                ELSE h.needs[i]
  BY <1>3, <1>4, <1>6 DEF si, x
<1> QED
  BY <1>7 DEF Passing, g, f, c

(* Two subscriptions that need a slot. *)
LEMMA TwoNeed ==
    ASSUME NEW T, IsFiniteSet(T), NEW s \in T, NEW t \in T, s # t
    PROVE  Cardinality(T) # 1
<1> SUFFICES ASSUME Cardinality(T) = 1
             PROVE  FALSE
  OBVIOUS
<1>1. PICK x : T = {x}
  BY FS_Singleton
<1> QED
  BY <1>1

(* A ring: no subscription is overtaken by the slots that become free. *)
LEMMA RingPasses ==
    ASSUME kind \in Kinds, NEW h \in Hubs, NEW S \in SUBSET Subscriptions, NEW l \in Seq(Mail),
           Counts(h, S), Fits(h, l, S), ~Single,
           NEW s \in S, NEW n \in Nat, Cursor(h, s) + n <= Len(l)
    PROVE  LET g == Pass(h, s, n)
           IN  /\ Low(g) \in Low(h) .. Cursor(h, s) + n
               /\ Cursor(g, s) = Cursor(h, s) + n
               /\ \A t \in S \ {s} : Cursor(g, t) = Cursor(h, t) /\ Low(g) <= Cursor(g, t)
<1> DEFINE g == Pass(h, s, n)
           F == Freed(h, s, n)
           f == Cardinality(F)
           c == Cursor(h, s)
           L == Low(h)
           M == Low(g)
           p == Len(l)
<1>1. /\ h.publisherIndex = p /\ L \in 0 .. p /\ p <= L + Capacity
      /\ \A t \in S : Cursor(h, t) \in L .. p
      /\ \A k \in L .. p - 1 : h.needs[Slot(k)] = Cardinality(Behind(h, S, k))
  BY DEF Fits
<1>2. /\ g \in Hubs
      /\ g.subscribersIndex = h.subscribersIndex + f
      /\ f \in Nat
      /\ g.subscriberIndex = [h.subscriberIndex EXCEPT ![s] = c + n]
  <2>1. Passing(h, s, n, g)
    BY PassIs
  <2> HIDE DEF g
  <2> QED
    BY <2>1 DEF Passing
<1>3. L = h.subscribersIndex /\ M = g.subscribersIndex /\ M = L + f /\ L \in Nat
  <2>1. L = h.subscribersIndex /\ M = g.subscribersIndex /\ h.subscribersIndex \in Nat
    BY <1>2, LowIs, HubIs
  <2> HIDE DEF L, M, f, g
  <2> QED
    BY <1>2, <2>1
<1>4. c \in L .. p /\ c \in Nat /\ p \in Nat /\ c + n <= p
  BY <1>1, CursorIs
<1>5. IsFiniteSet(S)
  BY DEF Counts
<1>6. ASSUME NEW x \in F
      PROVE  \E k \in c .. c + n - 1 : /\ x = Slot(k)
                                       /\ \A t \in S \ {s} : Cursor(h, t) > k
  <2>1. PICK i \in 0 .. n - 1 : x = Slot(c + i) /\ h.needs[x] = 1
    BY DEF Freed, Passed
  <2> DEFINE k == c + i
  <2>2. k \in c .. c + n - 1 /\ k \in L .. p - 1 /\ k \in Int /\ c <= k
    BY <1>3, <1>4
  <2>3. x = Slot(k) /\ h.needs[x] = 1
    BY <2>1
  <2> HIDE DEF k
  <2>4. Cardinality(Behind(h, S, k)) = 1
    BY <1>1, <2>2, <2>3
  <2>5. s \in Behind(h, S, k) /\ IsFiniteSet(Behind(h, S, k))
    BY <1>5, <2>2, BehindIs DEF Behind
  <2>6. ASSUME NEW t \in S \ {s}, Cursor(h, t) <= k
        PROVE  FALSE
    <3>1. t \in Behind(h, S, k)
      BY <2>6 DEF Behind
    <3> QED
      BY <2>4, <2>5, <3>1, TwoNeed
  <2>7. \A t \in S \ {s} : Cursor(h, t) \in Int
    BY <1>1, <1>3
  <2>8. \A t \in S \ {s} : Cursor(h, t) > k
    BY <2>2, <2>6, <2>7
  <2> QED
    BY <2>2, <2>3, <2>8
<1> HIDE DEF F, g, L, M
<1>7. f <= n
  <2>1. c \in Int /\ c + n \in Int /\ c <= c + n
    BY <1>4
  <2>2. c .. c + n - 1 = c .. (c + n) - 1
    BY <1>4
  <2> DEFINE b == c + n
  <2>3. \A x \in F : \E k \in c .. b - 1 : x = Slot(k)
    BY <1>6, <2>2
  <2>4. b \in Int /\ b - c = n
    BY <1>4
  <2> HIDE DEF b, c
  <2>5. Cardinality(F) <= b - c
    BY <2>1, <2>3, <2>4, SlotsOfPlaces DEF b
  <2> QED
    BY <2>4, <2>5
<1>8. ASSUME NEW t \in S \ {s}
      PROVE  f = 0 \/ f <= Cursor(h, t) - c
  <2> DEFINE b == Cursor(h, t)
  <2>1. b \in L .. p /\ b \in Int
    BY <1>1, <1>3, <1>4
  <2>2. \A x \in F : \E k \in c .. b - 1 : x = Slot(k)
    <3> SUFFICES ASSUME NEW x \in F
                 PROVE  \E k \in c .. b - 1 : x = Slot(k)
      OBVIOUS
    <3>1. PICK k \in c .. c + n - 1 : x = Slot(k) /\ b > k
      BY <1>6
    <3>2. k \in c .. b - 1
      BY <1>4, <2>1, <3>1
    <3> QED
      BY <3>1, <3>2
  <2> HIDE DEF b
  <2>3. CASE c <= b
    <3>1. c \in Int
      BY <1>4
    <3> HIDE DEF c
    <3>2. Cardinality(F) <= b - c
      BY <2>1, <2>2, <2>3, <3>1, SlotsOfPlaces
    <3> QED
      BY <3>2 DEF b
  <2>4. CASE b < c
    <3>1. F = {}
      BY <1>4, <2>1, <2>2, <2>4
    <3> QED
      BY <3>1, FS_EmptySet
  <2>5. c <= b \/ b < c
    BY <1>4, <2>1
  <2> QED
    BY <2>3, <2>4, <2>5
<1> HIDE DEF f, c, p
<1>9. M \in L .. c + n
  BY <1>2, <1>3, <1>4, <1>7
<1>10. Cursor(g, s) = c + n
  <2>1. g.subscriberIndex[s] = c + n
    BY <1>2, HubIs
  <2>2. Cursor(g, s) = IF g.subscriberIndex[s] >= g.subscribersIndex
                       THEN g.subscriberIndex[s] ELSE g.subscribersIndex
    BY <1>2, CursorIs
  <2>3. c + n >= g.subscribersIndex
    BY <1>3, <1>4, <1>9
  <2> QED
    BY <2>1, <2>2, <2>3
<1>11. ASSUME NEW t \in S \ {s}
       PROVE  Cursor(g, t) = Cursor(h, t) /\ M <= Cursor(g, t)
  <2> DEFINE i == h.subscriberIndex[t]
  <2>1. g.subscriberIndex[t] = i /\ i \in Nat
    BY <1>2, HubIs
  <2>2. Cursor(h, t) = IF i >= h.subscribersIndex THEN i ELSE h.subscribersIndex
    BY CursorIs
  <2>3. Cursor(g, t) = IF g.subscriberIndex[t] >= g.subscribersIndex
                       THEN g.subscriberIndex[t] ELSE g.subscribersIndex
    BY <1>2, CursorIs
  <2> HIDE DEF i
  <2>4. Cursor(h, t) = (IF i >= L THEN i ELSE L) /\ Cursor(g, t) = IF i >= M THEN i ELSE M
    BY <1>3, <2>1, <2>2, <2>3
  <2>5. L <= M /\ M <= Cursor(h, t) /\ M \in Int
    <3>1. Cursor(h, t) \in L .. p
      BY <1>1
    <3>2. f = 0 \/ f <= Cursor(h, t) - c
      BY <1>8
    <3> QED
      BY <1>2, <1>3, <1>4, <3>1, <3>2
  <2> QED
    BY <1>3, <2>1, <2>4, <2>5
<1> QED
  BY <1>9, <1>10, <1>11 DEF g, L, M, c

(* A single slot. *)
LEMMA SinglePasses ==
    ASSUME kind \in Kinds, NEW h \in Hubs, NEW S \in SUBSET Subscriptions, NEW l \in Seq(Mail),
           Counts(h, S), Fits(h, l, S), Single,
           NEW s \in S, NEW n \in Nat, Cursor(h, s) + n <= Len(l)
    PROVE  LET g == Pass(h, s, n)
           IN  /\ Low(g) \in Low(h) .. Cursor(h, s) + n
               /\ Cursor(g, s) = Cursor(h, s) + n
               /\ \A t \in S \ {s} : Cursor(g, t) = Cursor(h, t) /\ Low(g) <= Cursor(g, t)
<1> DEFINE g == Pass(h, s, n)
           c == Cursor(h, s)
           L == Low(h)
           M == Low(g)
           p == Len(l)
<1>1. /\ h.publisherIndex = p /\ L \in 0 .. p
      /\ \A t \in S : Cursor(h, t) \in L .. p
      /\ \A k \in L .. p - 1 : h.needs[Slot(k)] = Cardinality(Behind(h, S, k))
  BY DEF Fits
<1>2. /\ g \in Hubs
      /\ g.publisherIndex = p
      /\ g.subscriberIndex = [h.subscriberIndex EXCEPT ![s] = c + n]
      /\ \A i \in Slots : g.needs[i] = IF i \in Passed(h, s, n) THEN h.needs[i] - 1
                                       ELSE h.needs[i]
  <2>1. Passing(h, s, n, g)
    BY PassIs
  <2>2. h.publisherIndex = p
    BY <1>1
  <2> HIDE DEF g, p
  <2> QED
    BY <2>1, <2>2 DEF Passing
<1>3. /\ Slots = {0} /\ h.needs[0] \in Int
      /\ h.needs[0] = 0 => L = p
      /\ h.needs[0] # 0 => L = p - 1
  BY <1>1, LowIs
<1>4. /\ g.needs[0] = 0 => M = p
      /\ g.needs[0] # 0 => M = p - 1
  BY <1>2, LowIs
<1>5. c \in L .. p /\ c \in Nat /\ p \in Nat /\ c + n <= p
  BY <1>1, CursorIs
<1>6. IsFiniteSet(S)
  BY DEF Counts
<1> HIDE DEF g, L, M, p
<1>7. /\ Cursor(g, s) = c + n
      /\ \A t \in S \ {s} : Cursor(g, t) = Cursor(h, t)
  BY <1>2, CursorIs, HubIs
<1> HIDE DEF c
<1>8. L \in p - 1 .. p /\ L \in Int /\ L >= 0
  BY <1>1, <1>3, <1>5
<1>9. CASE n = 0
  <2>1. Passed(h, s, n) = {}
    BY <1>9 DEF Passed
  <2>2. g.needs[0] = h.needs[0]
    BY <1>2, <1>3, <2>1
  <2>3. M = L
    BY <1>3, <1>4, <2>2
  <2>4. \A t \in S \ {s} : L <= Cursor(h, t)
    BY <1>1, <1>5, <1>8
  <2>5. M \in L .. c + n
    BY <1>5, <1>8, <1>9, <2>3
  <2> QED
    BY <1>7, <2>3, <2>4, <2>5 DEF g, L, M, c
<1>10. CASE n # 0
  <2>1. n = 1 /\ c = p - 1 /\ L = p - 1
    BY <1>5, <1>8, <1>10
  <2>2. Slot(p - 1) = 0
    <3>1. Slot(p - 1) \in Slots
      BY <1>5, SlotIs
    <3> QED
      BY <1>3, <3>1
  <2>3. 0 \in Passed(h, s, n)
    <3>1. Slot(c + 0) = 0 /\ 0 \in 0 .. n - 1
      BY <1>5, <2>1, <2>2
    <3> QED
      BY <3>1 DEF Passed, c
  <2>4. g.needs[0] = h.needs[0] - 1
    BY <1>2, <1>3, <2>3
  <2> DEFINE B == Behind(h, S, p - 1)
  <2>5. h.needs[0] = Cardinality(B)
    <3>1. p - 1 \in L .. p - 1
      BY <1>5, <2>1
    <3> QED
      BY <1>1, <2>2, <3>1
  <2>6. s \in B /\ IsFiniteSet(B)
    <3>1. c <= p - 1
      BY <1>5, <2>1
    <3> QED
      BY <1>6, <3>1, BehindIs DEF Behind, c
  <2>7. M \in L .. c + n
    BY <1>4, <1>5, <2>1
  <2>8. ASSUME NEW t \in S \ {s}
        PROVE  M <= Cursor(h, t)
    <3>1. Cursor(h, t) \in L .. p
      BY <1>1
    <3>2. CASE g.needs[0] # 0
      BY <1>4, <1>5, <2>1, <3>1, <3>2
    <3>3. CASE g.needs[0] = 0
      <4>1. Cardinality(B) = 1
        BY <1>3, <2>4, <2>5, <3>3
      <4>2. t \notin B
        BY <2>6, <4>1, TwoNeed
      <4>3. ~(Cursor(h, t) <= p - 1)
        BY <4>2 DEF Behind
      <4> QED
        BY <1>4, <1>5, <2>1, <3>1, <3>3, <4>3
    <3> QED
      BY <3>2, <3>3
  <2> QED
    BY <1>7, <2>7, <2>8 DEF g, L, M, c
<1> QED
  BY <1>9, <1>10

(* What a subscription takes is what it has not taken; the slots that      *)
(* nobody needs any more are free.                                         *)
LEMMA PassFits ==
    ASSUME kind \in Kinds, NEW h \in Hubs, NEW S \in SUBSET Subscriptions, NEW l \in Seq(Mail),
           Counts(h, S), Fits(h, l, S),
           NEW s \in S, NEW n \in Nat, Cursor(h, s) + n <= Len(l)
    PROVE  /\ Pass(h, s, n) \in Hubs
           /\ Counts(Pass(h, s, n), S) /\ Fits(Pass(h, s, n), l, S)
           /\ Cursor(Pass(h, s, n), s) = Cursor(h, s) + n
           /\ \A t \in S \ {s} : Cursor(Pass(h, s, n), t) = Cursor(h, t)
<1> DEFINE g == Pass(h, s, n)
           c == Cursor(h, s)
           L == Low(h)
           M == Low(g)
           p == Len(l)
<1>1. /\ h.publisherIndex = p /\ L \in 0 .. p /\ p <= L + Capacity
      /\ \A t \in S : Cursor(h, t) \in L .. p
      /\ \A k \in L .. p - 1 : /\ h.array[Slot(k)] = l[k + 1]
                               /\ h.needs[Slot(k)] = Cardinality(Behind(h, S, k))
  BY DEF Fits
<1>2. /\ g \in Hubs
      /\ g.array = h.array
      /\ g.publisherIndex = p
      /\ g.subscriberCount = h.subscriberCount
      /\ \A i \in Slots : g.needs[i] = IF i \in Passed(h, s, n) THEN h.needs[i] - 1
                                       ELSE h.needs[i]
  <2>1. Passing(h, s, n, g)
    BY PassIs
  <2>2. h.publisherIndex = p
    BY <1>1
  <2> HIDE DEF g, p
  <2> QED
    BY <2>1, <2>2 DEF Passing
<1>3. /\ M \in L .. c + n
      /\ Cursor(g, s) = c + n
      /\ \A t \in S \ {s} : Cursor(g, t) = Cursor(h, t) /\ M <= Cursor(g, t)
  <2>1. CASE Single
    BY <2>1, SinglePasses
  <2>2. CASE ~Single
    BY <2>2, RingPasses
  <2> QED
    BY <2>1, <2>2
<1>4. c \in L .. p /\ c \in Nat /\ p \in Nat /\ c + n <= p /\ L \in Nat
  BY <1>1, CursorIs
<1>5. IsFiniteSet(S) /\ Capacity \in Nat
  BY CapacityIs DEF Counts
<1> HIDE DEF g, L, M, p, c
<1>6. M \in L .. p /\ M \in 0 .. p /\ p <= M + Capacity
  BY <1>1, <1>3, <1>4, <1>5
<1>7. \A t \in S : Cursor(g, t) \in M .. p
  BY <1>1, <1>3, <1>4, <1>6
<1>8. ASSUME NEW k \in M .. p - 1
      PROVE  g.array[Slot(k)] = l[k + 1] /\ g.needs[Slot(k)] = Cardinality(Behind(g, S, k))
  <2>1. k \in L .. p - 1 /\ k \in Int
    BY <1>4, <1>6
  <2>2. Slot(k) \in Slots
    BY <2>1, SlotIs
  <2>3. h.array[Slot(k)] = l[k + 1] /\ h.needs[Slot(k)] = Cardinality(Behind(h, S, k))
    BY <1>1, <2>1
  <2>4. \A t \in S \ {s} : t \in Behind(g, S, k) <=> t \in Behind(h, S, k)
    BY <1>3 DEF Behind
  <2>5. s \in Behind(g, S, k) <=> c + n <= k
    BY <1>3 DEF Behind
  <2>6. s \in Behind(h, S, k) <=> c <= k
    BY DEF Behind, c
  <2>7. Behind(g, S, k) \subseteq S /\ Behind(h, S, k) \subseteq S
    BY DEF Behind
  <2>8. IsFiniteSet(Behind(h, S, k))
    BY <1>5, BehindIs
  <2>9. CASE c <= k /\ k < c + n
    <3>1. Behind(g, S, k) = Behind(h, S, k) \ {s} /\ s \in Behind(h, S, k)
      <4>1. ~(c + n <= k)
        BY <1>4, <2>1, <2>9
      <4> QED
        BY <2>4, <2>5, <2>6, <2>7, <2>9, <4>1
    <3>2. Cardinality(Behind(g, S, k)) = Cardinality(Behind(h, S, k)) - 1
      <4> DEFINE B == Behind(h, S, k)
      <4>1. s \in B /\ IsFiniteSet(B) /\ Behind(g, S, k) = B \ {s}
        BY <2>8, <3>1
      <4> HIDE DEF B
      <4>2. Cardinality(B \ {s}) = Cardinality(B) - 1
        BY <4>1, FS_RemoveElement
      <4> QED
        BY <4>1, <4>2 DEF B
    <3>3. Slot(k) \in Passed(h, s, n)
      <4>1. k - c \in 0 .. n - 1 /\ c + (k - c) = k
        BY <1>4, <2>1, <2>9
      <4> QED
        BY <4>1 DEF Passed, c
    <3> QED
      BY <1>2, <2>2, <2>3, <3>2, <3>3
  <2>10. CASE ~(c <= k /\ k < c + n)
    <3>1. Behind(g, S, k) = Behind(h, S, k)
      <4>1. c + n <= k <=> c <= k
        BY <1>4, <2>1, <2>10
      <4> QED
        <5>1. s \in Behind(g, S, k) <=> s \in Behind(h, S, k)
          BY <2>5, <2>6, <4>1
        <5>2. \A t \in S : t \in Behind(g, S, k) <=> t \in Behind(h, S, k)
          BY <2>4, <5>1
        <5> QED
          BY ONLY <2>7, <5>2
    <3>2. Slot(k) \notin Passed(h, s, n)
      <4> SUFFICES ASSUME NEW i \in 0 .. n - 1, Slot(k) = Slot(c + i)
                   PROVE  FALSE
        BY DEF Passed, c
      <4>1. c + i \in Int /\ k # c + i /\ k - (c + i) < Capacity /\ (c + i) - k < Capacity
        BY <1>1, <1>4, <1>5, <2>1, <2>10
      <4> QED
        BY <2>1, <4>1, SlotsDiffer
    <3> QED
      BY <1>2, <2>2, <2>3, <3>1, <3>2
  <2> QED
    BY <2>9, <2>10
<1>9. Fits(g, l, S)
  BY <1>2, <1>6, <1>7, <1>8 DEF Fits, M, p
<1>10. Counts(g, S)
  BY <1>2 DEF Counts
<1> QED
  BY <1>2, <1>3, <1>9, <1>10 DEF g, c

(* What the hub looks like from outside. *)
LEMMA FullIs ==
    ASSUME kind \in Kinds, NEW h \in Hubs, NEW S \in SUBSET Subscriptions, NEW l \in Seq(Mail),
           Fits(h, l, S)
    PROVE  IsFull(h) <=> Len(l) = Low(h) + Capacity
<1>1. h.publisherIndex = Len(l) /\ Len(l) \in Nat /\ Capacity \in Nat
  BY CapacityIs DEF Fits
<1>2. CASE Single
  <2>1. Capacity = 1
    BY <1>2, SingleIs
  <2>2. /\ h.needs[0] = 0 => Low(h) = Len(l)
        /\ h.needs[0] # 0 => Low(h) = Len(l) - 1
    BY <1>1, <1>2, LowIs
  <2>3. IsFull(h) <=> h.needs[0] # 0
    BY <1>2 DEF IsFull
  <2>4. CASE h.needs[0] = 0
    <3>1. Len(l) # Low(h) + Capacity
      BY <1>1, <2>1, <2>2, <2>4
    <3> QED
      BY <2>3, <2>4, <3>1
  <2>5. CASE h.needs[0] # 0
    <3>1. Len(l) = Low(h) + Capacity
      BY <1>1, <2>1, <2>2, <2>5
    <3> QED
      BY <2>3, <2>5, <3>1
  <2> QED
    BY <2>4, <2>5
<1>3. CASE ~Single
  BY <1>1, <1>3, LowIs DEF IsFull, Capacity
<1> QED
  BY <1>2, <1>3

(* A subscription may take what the log has after its cursor. *)
LEMMA AvailableIs ==
    ASSUME kind \in Kinds, NEW h \in Hubs, NEW S \in SUBSET Subscriptions, NEW l \in Seq(Mail),
           Fits(h, l, S), NEW s \in S
    PROVE  Available(h, s) = Len(l) - Cursor(h, s) /\ Available(h, s) \in Nat
<1> DEFINE c == Cursor(h, s)
           L == Low(h)
           p == Len(l)
<1>1. h.publisherIndex = p /\ L \in 0 .. p /\ c \in L .. p /\ p \in Nat
  BY DEF Fits
<1>2. CASE Single
  <2>1. /\ h.needs[0] = 0 => L = p
        /\ h.needs[0] # 0 => L = p - 1
    BY <1>1, <1>2, LowIs
  <2>2. Available(h, s) = IF h.needs[0] = 0 \/ c = p THEN 0 ELSE 1
    BY <1>1, <1>2, CursorIs DEF Available
  <2> HIDE DEF c, L, p
  <2>3. CASE h.needs[0] = 0
    <3>1. c = p
      BY <1>1, <2>1, <2>3
    <3> QED
      BY <1>1, <2>2, <2>3, <3>1 DEF c, p
  <2>4. CASE h.needs[0] # 0 /\ c = p
    BY <1>1, <2>2, <2>4 DEF c, p
  <2>5. CASE h.needs[0] # 0 /\ c # p
    <3>1. c = p - 1
      BY <1>1, <2>1, <2>5
    <3> QED
      BY <1>1, <2>2, <2>5, <3>1 DEF c, p
  <2> QED
    BY <2>3, <2>4, <2>5
<1>3. CASE ~Single
  <2>1. Available(h, s) = p - c
    BY <1>1, <1>3 DEF Available
  <2> HIDE DEF c, L, p
  <2>2. p - c \in Nat
    BY <1>1
  <2> QED
    BY <2>1, <2>2 DEF c, p
<1> QED
  BY <1>2, <1>3

(* What a subscription takes are the messages after those it took. *)
LEMMA OldestIs ==
    ASSUME kind \in Kinds, NEW h \in Hubs, NEW S \in SUBSET Subscriptions, NEW l \in Seq(Mail),
           Fits(h, l, S), NEW s \in S, NEW n \in Nat, Cursor(h, s) + n <= Len(l)
    PROVE  Oldest(h, s, n) = SubSeq(l, Cursor(h, s) + 1, Cursor(h, s) + n)
<1> DEFINE c == Cursor(h, s)
           L == Low(h)
           p == Len(l)
<1>1. L \in 0 .. p /\ c \in L .. p /\ p \in Nat /\ c + n <= p
      /\ \A k \in L .. p - 1 : h.array[Slot(k)] = l[k + 1]
  BY DEF Fits
<1>2. Oldest(h, s, n) = [i \in 1 .. n |-> h.array[Slot(c + i - 1)]]
  BY DEF Oldest
<1>3. SubSeq(l, c + 1, c + n) = [i \in 1 .. n |-> l[c + i]]
  <2>1. c \in Nat
    BY <1>1
  <2> HIDE DEF c
  <2> DEFINE t == SubSeq(l, c + 1, c + n)
  <2>2. c + n <= Len(l) /\ c + 1 \in Nat /\ c + n \in Nat /\ (c + n) - (c + 1) + 1 = n
    BY <1>1, <2>1
  <2>3. t \in Seq(Mail) /\ Len(t) = n /\ \A i \in 1 .. n : t[i] = l[c + i]
    BY <2>1, <2>2
  <2> HIDE DEF t
  <2>4. t = [i \in 1 .. n |-> t[i]]
    BY <2>3
  <2>5. t = [i \in 1 .. n |-> l[c + i]]
    BY <2>3, <2>4
  <2> QED
    BY <2>5 DEF t
<1> HIDE DEF c, L, p
<1>4. \A i \in 1 .. n : h.array[Slot(c + i - 1)] = l[c + i]
  <2> SUFFICES ASSUME NEW i \in 1 .. n
               PROVE  h.array[Slot(c + i - 1)] = l[c + i]
    OBVIOUS
  <2>1. c + i - 1 \in L .. p - 1 /\ (c + i - 1) + 1 = c + i
    BY <1>1
  <2>2. h.array[Slot(c + i - 1)] = l[(c + i - 1) + 1]
    BY <1>1, <2>1
  <2> QED
    BY <2>1, <2>2
<1>5. Oldest(h, s, n) = SubSeq(l, c + 1, c + n)
  BY <1>2, <1>3, <1>4
<1> QED
  BY <1>5 DEF c

(* A new subscription gets what is stored from now on. *)
Joined(h, s) ==
    [h EXCEPT !.subscriberCount = @ + 1, !.subscriberIndex[s] = h.publisherIndex]

(* subscribe: a new subscription needs nothing of what is stored already. *)
LEMMA JoinFits ==
    ASSUME kind \in Kinds, NEW h \in Hubs, NEW S \in SUBSET Subscriptions, NEW l \in Seq(Mail),
           Counts(h, S), Fits(h, l, S), NEW s \in Subscriptions \ S
    PROVE  /\ Joined(h, s) \in Hubs
           /\ Counts(Joined(h, s), S \cup {s}) /\ Fits(Joined(h, s), l, S \cup {s})
           /\ Cursor(Joined(h, s), s) = Len(l)
           /\ \A t \in S : Cursor(Joined(h, s), t) = Cursor(h, t)
           /\ Low(Joined(h, s)) = Low(h)
<1> DEFINE g == Joined(h, s)
           L == Low(h)
           p == Len(l)
           T == S \cup {s}
<1>1. /\ h.publisherIndex = p /\ L \in 0 .. p /\ p <= L + Capacity
      /\ \A t \in S : Cursor(h, t) \in L .. p
      /\ \A k \in L .. p - 1 : /\ h.array[Slot(k)] = l[k + 1]
                               /\ h.needs[Slot(k)] = Cardinality(Behind(h, S, k))
  BY DEF Fits
<1>2. /\ g \in Hubs
      /\ g.array = h.array /\ g.needs = h.needs
      /\ g.publisherIndex = p
      /\ g.subscribersIndex = h.subscribersIndex
      /\ g.subscriberCount = h.subscriberCount + 1
      /\ g.subscriberIndex = [h.subscriberIndex EXCEPT ![s] = p]
  <2>1. /\ g.array = h.array /\ g.needs = h.needs
        /\ g.publisherIndex = h.publisherIndex
        /\ g.subscribersIndex = h.subscribersIndex
        /\ g.subscriberCount = h.subscriberCount + 1
        /\ g.subscriberIndex = [h.subscriberIndex EXCEPT ![s] = h.publisherIndex]
        /\ g \in Hubs
    <3> DEFINE si == [h.subscriberIndex EXCEPT ![s] = h.publisherIndex]
               x == h.subscriberCount + 1
    <3>1. si \in [Subscriptions -> Nat] /\ x \in Int
      BY HubIs
    <3>2. g = [h EXCEPT !.subscriberCount = x, !.subscriberIndex = si]
      BY DEF Joined
    <3> HIDE DEF g, si, x
    <3>3. /\ g.array = h.array /\ g.needs = h.needs
          /\ g.publisherIndex = h.publisherIndex
          /\ g.subscribersIndex = h.subscribersIndex
          /\ g.subscriberCount = x
          /\ g.subscriberIndex = si
          /\ g \in Hubs
      BY <3>1, <3>2 DEF Hubs
    <3> QED
      BY <3>3 DEF si, x
  <2> HIDE DEF g, p
  <2> QED
    BY <1>1, <2>1
<1>3. Low(g) = L
  BY <1>1, <1>2 DEF Low
<1>4. p \in Nat
  OBVIOUS
<1> HIDE DEF g, L, p
<1>5. \A t \in S : Cursor(g, t) = Cursor(h, t)
  <2> SUFFICES ASSUME NEW t \in S
               PROVE  Cursor(g, t) = Cursor(h, t)
    OBVIOUS
  <2>1. g.subscriberIndex[t] = h.subscriberIndex[t]
    BY <1>2, HubIs
  <2> QED
    BY <1>2, <2>1 DEF Cursor
<1>6. Cursor(g, s) = p
  <2>1. g.subscriberIndex[s] = p
    BY <1>2, HubIs
  <2>2. CASE Single
    BY <1>2, <2>1, <2>2, CursorIs
  <2>3. CASE ~Single
    <3>1. Cursor(g, s) = IF g.subscriberIndex[s] >= g.subscribersIndex
                         THEN g.subscriberIndex[s] ELSE g.subscribersIndex
      BY <1>2, <2>3, CursorIs
    <3>2. g.subscribersIndex = L
      BY <1>2, <1>3, <2>3, LowIs
    <3>3. p >= L
      BY <1>1, <1>4
    <3> QED
      BY <2>1, <3>1, <3>2, <3>3
  <2> QED
    BY <2>2, <2>3
<1>7. ASSUME NEW k \in L .. p - 1
      PROVE  Behind(g, T, k) = Behind(h, S, k)
  <2>1. ~(Cursor(g, s) <= k)
    BY <1>1, <1>4, <1>6
  <2> QED
    BY <1>5, <2>1 DEF Behind
<1>8. \A t \in T : Cursor(g, t) \in L .. p
  <2>1. p \in L .. p
    BY <1>1, <1>4
  <2> QED
    BY <1>1, <1>5, <1>6, <2>1
<1>9. Fits(g, l, T)
  <2> HIDE DEF T
  <2>1. \A k \in L .. p - 1 : /\ g.array[Slot(k)] = l[k + 1]
                              /\ g.needs[Slot(k)] = Cardinality(Behind(g, T, k))
    BY <1>1, <1>2, <1>7
  <2> QED
    BY <1>1, <1>2, <1>3, <1>8, <2>1 DEF Fits, p
<1>10. Counts(g, T)
  <2>1. IsFiniteSet(S) /\ h.subscriberCount = Cardinality(S)
    BY DEF Counts
  <2>2. IsFiniteSet(T) /\ Cardinality(T) = Cardinality(S) + 1
    BY <2>1, FS_AddElement
  <2> QED
    BY <1>2, <2>1, <2>2 DEF Counts
<1> QED
  BY <1>2, <1>3, <1>5, <1>6, <1>9, <1>10 DEF g, L, p

(* A function that is changed at one place. *)
LEMMA ChangeOne ==
    ASSUME NEW A, NEW B, NEW f \in [A -> B], NEW a, NEW b \in B
    PROVE  /\ [f EXCEPT ![a] = b] \in [A -> B]
           /\ \A i \in A : i # a => [f EXCEPT ![a] = b][i] = f[i]
  OBVIOUS

Departed(h) == [h EXCEPT !.subscriberCount = @ - 1]

(* A subscription that has taken everything leaves nothing behind. *)
LEMMA LeaveFits ==
    ASSUME kind \in Kinds, NEW h \in Hubs, NEW S \in SUBSET Subscriptions, NEW l \in Seq(Mail),
           Counts(h, S), Fits(h, l, S), NEW s \in S, Cursor(h, s) = Len(l),
           NEW g, g = Departed(h)
    PROVE  /\ g \in Hubs /\ Counts(g, S \ {s}) /\ Fits(g, l, S \ {s})
           /\ \A t \in S \ {s} : Cursor(g, t) = Cursor(h, t)
<1> DEFINE L == Low(h)
           p == Len(l)
           T == S \ {s}
<1>1. /\ h.publisherIndex = p /\ L \in 0 .. p /\ p <= L + Capacity
      /\ \A t \in S : Cursor(h, t) \in L .. p
      /\ \A k \in L .. p - 1 : /\ h.array[Slot(k)] = l[k + 1]
                               /\ h.needs[Slot(k)] = Cardinality(Behind(h, S, k))
  BY DEF Fits
<1>2. /\ g \in Hubs
      /\ g.array = h.array /\ g.needs = h.needs
      /\ g.publisherIndex = h.publisherIndex
      /\ g.subscribersIndex = h.subscribersIndex
      /\ g.subscriberIndex = h.subscriberIndex
      /\ g.subscriberCount = h.subscriberCount - 1
  <2> DEFINE x == h.subscriberCount - 1
  <2>1. x \in Int /\ g = [h EXCEPT !.subscriberCount = x]
    BY HubIs DEF Departed
  <2> HIDE DEF x
  <2>2. /\ g \in Hubs
        /\ g.array = h.array /\ g.needs = h.needs
        /\ g.publisherIndex = h.publisherIndex
        /\ g.subscribersIndex = h.subscribersIndex
        /\ g.subscriberIndex = h.subscriberIndex
        /\ g.subscriberCount = x
    BY <2>1 DEF Hubs
  <2> QED
    BY <2>2 DEF x
<1>3. Low(g) = L
  BY <1>2 DEF Low
<1>4. p \in Nat /\ Cursor(h, s) = p
  OBVIOUS
<1> HIDE DEF L, p, T
<1>5. \A t \in S : Cursor(g, t) = Cursor(h, t)
  BY <1>2, CursorStays
<1>6. ASSUME NEW k \in L .. p - 1
      PROVE  Behind(g, T, k) = Behind(h, S, k)
  <2>1. ~(Cursor(h, s) <= k)
    BY <1>1, <1>4
  <2> QED
    BY <1>5, <2>1 DEF Behind, T
<1>7. Fits(g, l, T)
  <2>1. \A k \in L .. p - 1 : /\ g.array[Slot(k)] = l[k + 1]
                              /\ g.needs[Slot(k)] = Cardinality(Behind(g, T, k))
    BY <1>1, <1>2, <1>6
  <2>2. \A t \in T : Cursor(g, t) \in L .. p
    BY <1>1, <1>5 DEF T
  <2>3. g.publisherIndex = p
    BY <1>1, <1>2
  <2> QED
    BY <1>1, <1>3, <2>1, <2>2, <2>3 DEF Fits, p
<1>8. Counts(g, T)
  <2>1. IsFiniteSet(S) /\ h.subscriberCount = Cardinality(S)
    BY DEF Counts
  <2>2. IsFiniteSet(S \ {s}) /\ Cardinality(S \ {s}) = Cardinality(S) - 1
    BY <2>1, FS_RemoveElement
  <2> QED
    BY <1>2, <2>1, <2>2 DEF Counts, T
<1> QED
  BY <1>2, <1>5, <1>7, <1>8 DEF T

(* unsubscribe: whoever leaves first passes the messages it did not take. *)
LEMMA LeftFits ==
    ASSUME kind \in Kinds, NEW h \in Hubs, NEW S \in SUBSET Subscriptions, NEW l \in Seq(Mail),
           Counts(h, S), Fits(h, l, S), NEW s \in S
    PROVE  /\ Left(h, s) \in Hubs /\ Counts(Left(h, s), S \ {s}) /\ Fits(Left(h, s), l, S \ {s})
           /\ \A t \in S \ {s} : Cursor(Left(h, s), t) = Cursor(h, t)
<1> DEFINE n == IF Single THEN (IF h.subscriberIndex[s] = h.publisherIndex THEN 0 ELSE 1)
                ELSE Available(h, s)
           c == Cursor(h, s)
           g == Pass(h, s, n)
<1>1. n = Len(l) - c /\ n \in Nat
  <2>1. Available(h, s) = Len(l) - c /\ Available(h, s) \in Nat
    BY AvailableIs
  <2>2. CASE ~Single
    BY <2>1, <2>2
  <2>3. CASE Single
    <3>1. h.publisherIndex = Len(l) /\ Low(h) \in 0 .. Len(l) /\ c \in Low(h) .. Len(l)
      BY DEF Fits
    <3>2. c = h.subscriberIndex[s]
      BY <2>3, CursorIs
    <3>3. Low(h) >= Len(l) - 1
      BY <2>3, <3>1, LowIs
    <3>4. n = IF c = Len(l) THEN 0 ELSE 1
      BY <2>3, <3>1, <3>2
    <3> HIDE DEF n, c
    <3>5. c = Len(l) \/ c = Len(l) - 1
      BY <3>1, <3>3
    <3> QED
      BY <3>1, <3>4, <3>5
  <2> QED
    BY <2>2, <2>3
<1>2. Left(h, s) = Departed(g)
  BY DEF Left, Departed
<1> HIDE DEF n
<1>3. c + n = Len(l) /\ c \in Nat
  BY <1>1, CursorIs
<1>4. /\ g \in Hubs /\ Counts(g, S) /\ Fits(g, l, S)
      /\ Cursor(g, s) = c + n
      /\ \A t \in S \ {s} : Cursor(g, t) = Cursor(h, t)
  <2>1. Cursor(h, s) + n <= Len(l)
    BY <1>3
  <2> QED
    BY <1>1, <2>1, PassFits
<1> HIDE DEF g, c
<1>5. Cursor(g, s) = Len(l)
  BY <1>3, <1>4
<1> DEFINE e == Left(h, s)
<1>6. e = Departed(g)
  BY <1>2
<1> HIDE DEF e
<1>7. /\ e \in Hubs /\ Counts(e, S \ {s}) /\ Fits(e, l, S \ {s})
      /\ \A t \in S \ {s} : Cursor(e, t) = Cursor(g, t)
  <2>1. g \in Hubs /\ Counts(g, S) /\ Fits(g, l, S) /\ Cursor(g, s) = Len(l)
    BY <1>4, <1>5
  <2> QED
    BY <1>6, <2>1, LeaveFits
<1> QED
  BY <1>4, <1>7 DEF e

(* The oldest message of a ring slides out. *)
LEMMA SlidFits ==
    ASSUME kind \in Kinds, NEW h \in Hubs, NEW S \in SUBSET Subscriptions, NEW l \in Seq(Mail),
           Counts(h, S), Fits(h, l, S), ~Single
    PROVE  /\ Slid(h) \in Hubs /\ Counts(Slid(h), S) /\ Fits(Slid(h), l, S)
           /\ \A s \in S : Cursor(Slid(h), s) >= Cursor(h, s)
           /\ Slid(h).subscriberCount = h.subscriberCount
           /\ Len(l) + 1 <= Low(Slid(h)) + Capacity
<1> DEFINE g == Slid(h)
           L == Low(h)
           p == Len(l)
<1>1. /\ h.publisherIndex = p /\ L \in 0 .. p /\ p <= L + Capacity
      /\ \A t \in S : Cursor(h, t) \in L .. p
      /\ \A k \in L .. p - 1 : /\ h.array[Slot(k)] = l[k + 1]
                               /\ h.needs[Slot(k)] = Cardinality(Behind(h, S, k))
  BY DEF Fits
<1>2. p \in Nat /\ L \in Nat /\ L = h.subscribersIndex /\ Capacity \in Nat /\ Capacity > 0
  BY <1>1, LowIs, CapacityIs, HubIs
<1>3. CASE L = p
  <2>1. g = h
    BY <1>1, <1>2, <1>3 DEF Slid
  <2>2. \A t \in S : Cursor(h, t) >= Cursor(h, t)
    BY <1>1
  <2> QED
    BY <1>2, <1>3, <2>1, <2>2
<1>4. CASE L # p
  <2> DEFINE f == h.needs
             ns == [f EXCEPT ![Slot(L)] = 0]
             x == L + 1
  <2>1. ns \in [Slots -> Int] /\ x \in Nat /\ \A i \in Slots : i # Slot(L) => ns[i] = f[i]
    <3>1. x \in Nat /\ f \in [Slots -> Int]
      BY <1>2, HubIs
    <3> HIDE DEF L, x, f
    <3>2. 0 \in Int
      OBVIOUS
    <3>3. ns \in [Slots -> Int] /\ \A i \in Slots : i # Slot(L) => ns[i] = f[i]
      BY <3>1, <3>2, ChangeOne
    <3> QED
      BY <3>1, <3>3
  <2>2. g = [h EXCEPT !.needs = ns, !.subscribersIndex = x]
    BY <1>1, <1>2, <1>4 DEF Slid
  <2> HIDE DEF ns, x, g, L, p
  <2>3. /\ g \in Hubs
        /\ g.array = h.array /\ g.needs = ns
        /\ g.publisherIndex = h.publisherIndex
        /\ g.subscribersIndex = x
        /\ g.subscriberIndex = h.subscriberIndex
        /\ g.subscriberCount = h.subscriberCount
    BY <2>1, <2>2 DEF Hubs
  <2>4. Low(g) = x /\ x = L + 1 /\ x \in 0 .. p
    BY <1>1, <1>2, <1>4, <2>3, LowIs DEF x
  <2>5. ASSUME NEW t \in S
        PROVE  /\ Cursor(g, t) = (IF Cursor(h, t) = L THEN x ELSE Cursor(h, t))
               /\ Cursor(h, t) \in Int
    <3>1. Cursor(h, t) = IF h.subscriberIndex[t] >= h.subscribersIndex
                         THEN h.subscriberIndex[t] ELSE h.subscribersIndex
      BY CursorIs
    <3>2. Cursor(g, t) = IF g.subscriberIndex[t] >= g.subscribersIndex
                         THEN g.subscriberIndex[t] ELSE g.subscribersIndex
      BY <2>3, CursorIs
    <3> DEFINE i == h.subscriberIndex[t]
    <3>3. i \in Nat
      BY HubIs
    <3>4. Cursor(h, t) = (IF i >= L THEN i ELSE L) /\ Cursor(g, t) = (IF i >= x THEN i ELSE x)
      BY <1>2, <2>3, <3>1, <3>2
    <3> HIDE DEF i
    <3> QED
      BY <1>2, <2>4, <3>3, <3>4
  <2>6. \A t \in S : Cursor(g, t) \in x .. p /\ Cursor(g, t) >= Cursor(h, t)
    BY <1>1, <1>2, <1>4, <2>4, <2>5
  <2>7. ASSUME NEW k \in x .. p - 1
        PROVE  /\ g.array[Slot(k)] = l[k + 1]
               /\ g.needs[Slot(k)] = Cardinality(Behind(g, S, k))
    <3>1. k \in L .. p - 1 /\ k \in Int /\ k # L /\ k - L < Capacity /\ L - k < Capacity
          /\ L \in Int
      BY <1>1, <1>2, <2>4, SMTT(30)
    <3>2. Slot(k) # Slot(L) /\ Slot(k) \in Slots
      BY <3>1, SlotsDiffer, SlotIs
    <3>3. \A t \in S : Cursor(g, t) <= k <=> Cursor(h, t) <= k
      BY <1>2, <2>4, <2>5, <3>1, SMTT(30)
    <3>4. Behind(g, S, k) = Behind(h, S, k)
      BY <3>3 DEF Behind
    <3> QED
      BY <1>1, <2>1, <2>3, <3>1, <3>2, <3>4
  <2>8. p + 1 <= x + Capacity /\ p <= x + Capacity
    BY <1>1, <1>2, <2>4
  <2>9. Fits(g, l, S)
    <3>1. g.publisherIndex = p /\ \A t \in S : Cursor(g, t) \in x .. p
      BY <1>1, <2>3, <2>6
    <3> QED
      BY <2>4, <2>7, <2>8, <3>1 DEF Fits, p
  <2>10. Counts(g, S)
    BY <2>3 DEF Counts
  <2> QED
    BY <2>3, <2>4, <2>6, <2>8, <2>9, <2>10 DEF g, p
<1> QED
  BY <1>3, <1>4

(* Messages are heard if somebody subscribed. *)
LEMMA HeardIs ==
    ASSUME NEW h, NEW ms \in Seq(Mail)
    PROVE  /\ Heard(h, ms) \in Seq(Mail) /\ Len(Heard(h, ms)) <= Len(ms)
           /\ Len(Heard(h, ms)) \in Nat
           /\ Heard(h, ms) = (IF h.subscriberCount = 0 THEN <<>> ELSE ms)
  BY DEF Heard

(* A message that is published while there is room. *)
LEMMA PublishFits ==
    ASSUME kind \in Kinds, NEW h \in Hubs, NEW S \in SUBSET Subscriptions, NEW l \in Seq(Mail),
           Counts(h, S), Fits(h, l, S), NEW m \in Mail,
           Len(l) + 1 <= Low(h) + Capacity
    PROVE  /\ Publish(h, m) \in Hubs /\ Counts(Publish(h, m), S)
           /\ Fits(Publish(h, m), l \o Heard(h, <<m>>), S)
           /\ \A s \in Subscriptions : Cursor(Publish(h, m), s) = Cursor(h, s)
<1> DEFINE ms == Heard(h, <<m>>)
<1>1. <<m>> \in Seq(Mail) /\ Len(<<m>>) = 1
  OBVIOUS
<1>2. ms \in Seq(Mail) /\ Len(ms) \in Nat /\ Len(ms) <= 1
  BY <1>1, HeardIs
<1>3. Low(h) \in Int /\ Capacity \in Int
  BY CapacityIs DEF Fits
<1>4. Publish(h, m) = Store(h, ms)
  BY DEF Publish
<1> HIDE DEF ms
<1>5. Len(l) + Len(ms) <= Low(h) + Capacity
  BY <1>2, <1>3
<1> DEFINE g == Store(h, ms)
<1>6. /\ g \in Hubs /\ Counts(g, S) /\ Fits(g, l \o ms, S)
      /\ \A s \in Subscriptions : Cursor(g, s) = Cursor(h, s)
  BY <1>2, <1>5, StoreFits
<1> HIDE DEF g
<1> QED
  BY <1>4, <1>6 DEF g, ms

(* publish does not count subscriptions. *)
LEMMA CountStays ==
    ASSUME kind \in Kinds, NEW h \in Hubs, NEW m \in Mail
    PROVE  Publish(h, m).subscriberCount = h.subscriberCount
<1> DEFINE ms == Heard(h, <<m>>)
<1>1. ms \in Seq(Mail) /\ Len(ms) <= Capacity
  <2>1. <<m>> \in Seq(Mail) /\ Len(<<m>>) = 1
    OBVIOUS
  <2>2. ms \in Seq(Mail) /\ Len(ms) <= 1 /\ Len(ms) \in Nat
    BY <2>1, HeardIs
  <2> HIDE DEF ms
  <2> QED
    BY <2>2, CapacityIs
<1> HIDE DEF ms
<1>2. Store(h, ms).subscriberCount = h.subscriberCount
  BY <1>1, StoreIs
<1> QED
  BY <1>2 DEF Publish, ms

(* A turn of slidingPublish. *)
LEMMA PushFits ==
    ASSUME kind \in Kinds, NEW h \in Hubs, NEW S \in SUBSET Subscriptions, NEW l \in Seq(Mail),
           Counts(h, S), Fits(h, l, S), ~Single, NEW m \in Mail
    PROVE  /\ Publish(Slid(h), m) \in Hubs /\ Counts(Publish(Slid(h), m), S)
           /\ Fits(Publish(Slid(h), m), l \o Heard(h, <<m>>), S)
           /\ \A s \in S : Cursor(Publish(Slid(h), m), s) >= Cursor(h, s)
           /\ Publish(Slid(h), m).subscriberCount = h.subscriberCount
<1> DEFINE e == Slid(h)
           g == Publish(e, m)
<1>1. /\ e \in Hubs /\ Counts(e, S) /\ Fits(e, l, S)
      /\ \A s \in S : Cursor(e, s) >= Cursor(h, s)
      /\ e.subscriberCount = h.subscriberCount
      /\ Len(l) + 1 <= Low(e) + Capacity
  BY SlidFits
<1>2. Heard(e, <<m>>) = Heard(h, <<m>>)
  BY <1>1 DEF Heard
<1> HIDE DEF e
<1>3. /\ g \in Hubs /\ Counts(g, S) /\ Fits(g, l \o Heard(e, <<m>>), S)
      /\ \A s \in Subscriptions : Cursor(g, s) = Cursor(e, s)
  BY <1>1, PublishFits
<1>4. g.subscriberCount = e.subscriberCount
  BY <1>1, CountStays
<1> HIDE DEF g
<1> QED
  BY <1>1, <1>2, <1>3, <1>4 DEF e, g

-----------------------------------------------------------------------------
(* slidingPublish.                                                         *)

Pushing(h, ms, n, after) ==
    after = [i \in 0 .. n |-> IF i = 0 THEN h ELSE Publish(Slid(after[i - 1]), ms[i])]
PushedTo(h, ms) == CHOOSE after : Pushing(h, ms, Len(ms), after)

(* Pushed takes the last value of a function that is one of Pushing. *)
LEMMA PushedIs == ASSUME NEW h, NEW ms PROVE Pushed(h, ms) = PushedTo(h, ms)[Len(ms)]
  BY DEF Pushed, PushedTo, Pushing

(* There is a function of Pushing: otherwise take the least n without. *)
LEMMA PushingExists ==
    ASSUME NEW h, NEW ms, NEW n \in Nat
    PROVE  \E after : Pushing(h, ms, n, after)
<1> DEFINE Bad == {m \in Nat : ~ \E after : Pushing(h, ms, m, after)}
<1> SUFFICES ASSUME Bad # {}
             PROVE  FALSE
  OBVIOUS
<1>1. PICK m \in Bad : \A k \in Bad : m <= k
  <2>1. Bad \subseteq Nat
    OBVIOUS
  <2> HIDE DEF Bad
  <2> QED
    BY <2>1, LeastMember
<1>2. m # 0
  <2>1. Pushing(h, ms, 0, [i \in 0 .. 0 |-> h])
    BY DEF Pushing
  <2> QED
    BY <2>1
<1>3. PICK f : Pushing(h, ms, m - 1, f)
  <2>1. m - 1 \in Nat /\ ~(m <= m - 1)
    BY <1>2
  <2>2. m - 1 \notin Bad
    BY <1>1, <2>1
  <2> QED
    BY <2>1, <2>2
<1> DEFINE g == [i \in 0 .. m |-> IF i = m THEN Publish(Slid(f[m - 1]), ms[m]) ELSE f[i]]
<1>4. \A i \in 0 .. m - 1 : g[i] = f[i]
  OBVIOUS
<1>5. \A i \in 0 .. m : g[i] = IF i = 0 THEN h ELSE Publish(Slid(g[i - 1]), ms[i])
  <2> SUFFICES ASSUME NEW i \in 0 .. m
               PROVE  g[i] = IF i = 0 THEN h ELSE Publish(Slid(g[i - 1]), ms[i])
    OBVIOUS
  <2>1. CASE i = m
    BY <1>2, <2>1
  <2>2. CASE i # m
    <3>1. i \in 0 .. m - 1
      BY <2>2
    <3>2. f[i] = IF i = 0 THEN h ELSE Publish(Slid(f[i - 1]), ms[i])
      BY <1>3, <3>1 DEF Pushing
    <3>3. i # 0 => i - 1 \in 0 .. m - 1
      BY <3>1
    <3> QED
      BY <1>4, <3>1, <3>2, <3>3
  <2> QED
    BY <2>1, <2>2
<1>6. g = [i \in 0 .. m |-> g[i]]
  OBVIOUS
<1>7. Pushing(h, ms, m, g)
  <2> HIDE DEF g
  <2> QED
    BY <1>5, <1>6 DEF Pushing
<1> QED
  BY <1>7

(* What is stored of the first n messages. *)
LEMMA HeardMore ==
    ASSUME NEW h, NEW l \in Seq(Mail), NEW ms \in Seq(Mail), NEW n \in 1 .. Len(ms)
    PROVE  (l \o Heard(h, First(ms, n - 1))) \o Heard(h, <<ms[n]>>) = l \o Heard(h, First(ms, n))
<1>1. CASE h.subscriberCount = 0
  <2>1. (l \o <<>>) \o <<>> = l \o <<>>
    OBVIOUS
  <2> QED
    BY <1>1, <2>1 DEF Heard
<1>2. CASE h.subscriberCount # 0
  <2> DEFINE a == First(ms, n - 1)
             b == <<ms[n]>>
             c == First(ms, n)
  <2>1. a \in Seq(Mail) /\ b \in Seq(Mail) /\ c \in Seq(Mail)
        /\ Len(a) = n - 1 /\ Len(b) = 1 /\ Len(c) = n /\ b[1] = ms[n]
    BY DEF First
  <2>2. /\ \A i \in 1 .. n - 1 : a[i] = ms[i]
        /\ \A i \in 1 .. n : c[i] = ms[i]
    BY DEF First
  <2> HIDE DEF a, b, c
  <2>3. a \o b = c
    <3> DEFINE u == a \o b
    <3>0. /\ u \in Seq(Mail) /\ Len(u) = Len(a) + Len(b)
          /\ \A i \in 1 .. Len(a) : u[i] = a[i]
          /\ \A i \in Len(a) + 1 .. Len(a) + Len(b) : u[i] = b[i - Len(a)]
      <4>1. a \in Seq(Mail) /\ b \in Seq(Mail)
        BY <2>1
      <4> QED
        BY ONLY <4>1
    <3> HIDE DEF u
    <3>1. u \in Seq(Mail) /\ Len(u) = n
      BY <2>1, <3>0
    <3>2. ASSUME NEW i \in 1 .. n
          PROVE  u[i] = c[i]
      <4>1. CASE i = n
        <5>1. i \in Len(a) + 1 .. Len(a) + Len(b) /\ i - Len(a) = 1
          BY <2>1, <4>1
        <5> QED
          BY <2>1, <2>2, <3>0, <4>1, <5>1
      <4>2. CASE i # n
        <5>1. i \in 1 .. n - 1
          BY <4>2
        <5> QED
          BY <2>1, <2>2, <3>0, <5>1
      <4> QED
        BY <4>1, <4>2
    <3>3. u = c
      BY <2>1, <3>1, <3>2, SeqEqual
    <3> QED
      BY <3>3 DEF u
  <2>4. (l \o a) \o b = l \o (a \o b)
    <3>1. l \in Seq(Mail)
      OBVIOUS
    <3> QED
      BY <2>1, <3>1, SMTT(30)
  <2> QED
    BY <1>2, <2>3, <2>4 DEF Heard, a, b, c
<1> QED
  BY <1>1, <1>2

(* What slidingPublish keeps true, turn by turn. *)
PushesTo(h, S, l, ms, n, g) ==
    /\ g \in Hubs /\ Counts(g, S) /\ Fits(g, l \o Heard(h, First(ms, n)), S)
    /\ \A s \in S : Cursor(g, s) >= Cursor(h, s)
    /\ g.subscriberCount = h.subscriberCount

(* slidingPublish keeps the hub right: otherwise take the first bad turn. *)
LEMMA PushedFits ==
    ASSUME kind \in Kinds, NEW h \in Hubs, NEW S \in SUBSET Subscriptions, NEW l \in Seq(Mail),
           Counts(h, S), Fits(h, l, S), ~Single, NEW ms \in Seq(Mail)
    PROVE  PushesTo(h, S, l, ms, Len(ms), Pushed(h, ms))
<1> DEFINE after == PushedTo(h, ms)
           Bad == {n \in 0 .. Len(ms) : ~PushesTo(h, S, l, ms, n, after[n])}
<1>1. Pushing(h, ms, Len(ms), after)
  <2>1. Len(ms) \in Nat
    OBVIOUS
  <2> QED
    BY <2>1, PushingExists DEF PushedTo
<1>2. /\ after[0] = h
      /\ \A n \in 1 .. Len(ms) : after[n] = Publish(Slid(after[n - 1]), ms[n])
  <2> HIDE DEF after
  <2>1. \A n \in 0 .. Len(ms) :
            after[n] = IF n = 0 THEN h ELSE Publish(Slid(after[n - 1]), ms[n])
    BY <1>1 DEF Pushing
  <2> QED
    BY <2>1
<1> HIDE DEF after
<1>3. Bad = {}
  <2> SUFFICES ASSUME Bad # {}
               PROVE  FALSE
    OBVIOUS
  <2>1. PICK n \in Bad : \A k \in Bad : n <= k
    <3>1. Bad \subseteq Nat
      OBVIOUS
    <3> HIDE DEF Bad
    <3> QED
      BY <3>1, LeastMember
  <2>2. n # 0
    <3>1. First(ms, 0) = <<>> /\ Heard(h, <<>>) = <<>> /\ l \o <<>> = l
      BY DEF First, Heard
    <3>2. \A s \in S : Cursor(h, s) >= Cursor(h, s)
      BY CursorIs
    <3>3. PushesTo(h, S, l, ms, 0, after[0])
      BY <1>2, <3>1, <3>2 DEF PushesTo
    <3> QED
      BY <3>3
  <2>3. n \in 1 .. Len(ms) /\ n - 1 \in 0 .. Len(ms) /\ ~(n <= n - 1)
    BY <2>2
  <2> DEFINE e == after[n - 1]
             k == l \o Heard(h, First(ms, n - 1))
             m == ms[n]
             g == Publish(Slid(e), m)
  <2>4. PushesTo(h, S, l, ms, n - 1, e)
    BY <2>1, <2>3
  <2>5. m \in Mail /\ after[n] = g
    BY <1>2, <2>3
  <2>6. k \in Seq(Mail)
    <3> DEFINE x == Heard(h, First(ms, n - 1))
    <3>1. First(ms, n - 1) \in Seq(Mail)
      BY <2>3 DEF First
    <3>2. x \in Seq(Mail) /\ l \in Seq(Mail)
      BY <3>1, HeardIs
    <3> HIDE DEF x
    <3>3. l \o x \in Seq(Mail)
      BY <3>2
    <3> QED
      BY <3>3 DEF x
  <2>7. k \o Heard(h, <<m>>) = l \o Heard(h, First(ms, n))
    BY <2>3, HeardMore
  <2> HIDE DEF e, k, m
  <2>8. /\ e \in Hubs /\ Counts(e, S) /\ Fits(e, k, S)
        /\ \A s \in S : Cursor(e, s) >= Cursor(h, s)
        /\ e.subscriberCount = h.subscriberCount
    BY <2>4 DEF PushesTo, k
  <2>9. /\ g \in Hubs /\ Counts(g, S) /\ Fits(g, k \o Heard(e, <<m>>), S)
        /\ \A s \in S : Cursor(g, s) >= Cursor(e, s)
        /\ g.subscriberCount = e.subscriberCount
    BY <2>5, <2>6, <2>8, PushFits
  <2>10. Heard(e, <<m>>) = Heard(h, <<m>>)
    BY <2>8 DEF Heard
  <2> HIDE DEF g
  <2>11. \A s \in S : Cursor(g, s) >= Cursor(h, s)
    <3>1. \A s \in S : Cursor(g, s) \in Int /\ Cursor(e, s) \in Int /\ Cursor(h, s) \in Int
      BY <2>8, <2>9, CursorIs
    <3> QED
      BY <2>8, <2>9, <3>1
  <2>12. PushesTo(h, S, l, ms, n, g)
    BY <2>7, <2>8, <2>9, <2>10, <2>11 DEF PushesTo
  <2> QED
    BY <2>1, <2>5, <2>12
<1>4. Len(ms) \in 0 .. Len(ms)
  OBVIOUS
<1> QED
  BY <1>3, <1>4, PushedIs DEF after

(* publishAll stores no more than there is room for. *)
LEMMA StoredIs ==
    ASSUME kind \in Kinds, NEW h \in Hubs, NEW S \in SUBSET Subscriptions, NEW l \in Seq(Mail),
           Fits(h, l, S), NEW ms \in Seq(Mail), ms # <<>>
    PROVE  /\ Stored(h, ms) \in Seq(Mail)
           /\ Len(l) + Len(Stored(h, ms)) <= Low(h) + Capacity
           /\ IsFull(h) => Stored(h, ms) = <<>>
           /\ Rest(h, ms) \in Seq(Mail)
<1> DEFINE L == Low(h)
           p == Len(l)
           n == Len(ms)
           f == Fitting(h, ms)
<1>1. h.publisherIndex = p /\ L \in 0 .. p /\ p <= L + Capacity /\ p \in Nat
  BY DEF Fits
<1>2. Capacity \in Nat /\ Capacity > 0 /\ (Single <=> Capacity = 1)
  BY CapacityIs, SingleIs
<1>3. IsFull(h) <=> p = L + Capacity
  BY FullIs
<1>4. n \in Nat /\ n > 0
  BY EmptySeq
<1>5. \A k \in 0 .. n : /\ First(ms, k) \in Seq(Mail) /\ Len(First(ms, k)) = k
                        /\ Without(ms, k) \in Seq(Mail)
                        /\ k = 0 => First(ms, k) = <<>>
  <2> SUFFICES ASSUME NEW k \in 0 .. n
               PROVE  /\ First(ms, k) \in Seq(Mail) /\ Len(First(ms, k)) = k
                      /\ Without(ms, k) \in Seq(Mail)
                      /\ k = 0 => First(ms, k) = <<>>
    OBVIOUS
  <2>1. First(ms, k) \in Seq(Mail) /\ Len(First(ms, k)) = k
    BY DEF First
  <2>2. Without(ms, k) \in Seq(Mail)
    BY DEF Without
  <2>3. k = 0 => First(ms, k) = <<>>
    BY DEF First
  <2> QED
    BY <2>1, <2>2, <2>3
<1>6. CASE Single
  <2>1. f = (IF IsFull(h) THEN <<>> ELSE First(ms, 1))
    BY <1>6 DEF Fitting
  <2>2. CASE IsFull(h)
    <3>1. f = <<>>
      BY <2>1, <2>2
    <3>2. Stored(h, ms) = <<>>
      BY <1>6, <3>1 DEF Stored, Heard
    <3>3. Len(f) = 0 /\ Rest(h, ms) = Without(ms, Len(f))
      BY <1>6, <3>1 DEF Rest
    <3>4. Rest(h, ms) = Without(ms, 0) /\ 0 \in 0 .. n
      BY <1>4, <3>3
    <3>5. Len(<<>>) = 0 /\ <<>> \in Seq(Mail)
      OBVIOUS
    <3> HIDE DEF f, L, p, n
    <3>6. p + 0 <= L + Capacity
      BY <1>1
    <3> QED
      BY <1>5, <3>2, <3>4, <3>5, <3>6 DEF p, L
  <2>3. CASE ~IsFull(h)
    <3>1. f = First(ms, 1) /\ 1 \in 0 .. n
      BY <1>4, <2>1, <2>3
    <3>2. f \in Seq(Mail) /\ Len(f) = 1 /\ Without(ms, 1) \in Seq(Mail)
      BY <1>5, <3>1
    <3>3. Stored(h, ms) = Heard(h, f) /\ Rest(h, ms) = Without(ms, Len(f))
      BY <1>6 DEF Stored, Rest
    <3> HIDE DEF f
    <3>4. Heard(h, f) \in Seq(Mail) /\ Len(Heard(h, f)) <= 1 /\ Len(Heard(h, f)) \in Nat
      BY <3>2, HeardIs
    <3> DEFINE x == Len(Heard(h, f))
    <3>5. p + x <= L + Capacity
      <4>1. x \in Nat /\ x <= 1
        BY <3>4
      <4>2. p # L + Capacity
        BY <1>3, <2>3
      <4> HIDE DEF x, L, p
      <4> QED
        BY <1>1, <1>2, <4>1, <4>2
    <3> QED
      BY <2>3, <3>2, <3>3, <3>4, <3>5
  <2> QED
    BY <2>2, <2>3
<1>7. CASE ~Single
  <2> DEFINE r == Capacity - (p - L)
             k == Less(n, r)
  <2>1. L = h.subscribersIndex
    BY <1>7, LowIs
  <2>2. f = First(ms, k)
    BY <1>1, <1>7, <2>1 DEF Fitting, Capacity
  <2>3. r \in Nat
    BY <1>1, <1>2
  <2>4. k \in 0 .. n /\ k <= r
    <3>1. Less(n, r) = IF n <= r THEN n ELSE r
      BY <1>4, <2>3, LessIs
    <3> HIDE DEF r, n
    <3> QED
      BY <1>4, <2>3, <3>1
  <2>5. Stored(h, ms) = f
    BY <1>7 DEF Stored
  <2>6. f \in Seq(Mail) /\ Len(f) = k
    BY <1>5, <2>2, <2>4
  <2>7. p + k <= L + Capacity
    <3> HIDE DEF k, L, p
    <3> QED
      BY <1>1, <1>2, <2>4
  <2>8. IsFull(h) => f = <<>>
    <3> SUFFICES ASSUME p = L + Capacity
                 PROVE  f = <<>>
      BY <1>3
    <3>1. k = 0
      <4> HIDE DEF k, L, p
      <4> QED
        BY <1>1, <1>2, <2>4
    <3> QED
      BY <1>5, <2>2, <2>4, <3>1
  <2> HIDE DEF f, k
  <2>9. Rest(h, ms) \in Seq(Mail)
    <3>1. CASE f = <<>>
      <4>1. Rest(h, ms) = Without(ms, 0)
        BY <3>1 DEF Rest, f
      <4>2. 0 \in 0 .. n
        BY <1>4
      <4> QED
        BY <1>5, <4>1, <4>2
    <3>2. CASE f # <<>>
      <4>1. Rest(h, ms) = Without(ms, k - 1)
        BY <1>7, <2>6, <3>2 DEF Rest, f
      <4>2. k # 0
        BY <2>6, <3>2, EmptySeq
      <4>3. k - 1 \in 0 .. n
        BY <1>4, <2>4, <4>2
      <4> QED
        BY <1>5, <4>1, <4>3
    <3> QED
      BY <3>1, <3>2
  <2> QED
    BY <2>5, <2>6, <2>7, <2>8, <2>9
<1> QED
  BY <1>6, <1>7

(* Storing nothing makes no room. *)
LEMMA StoreNothing ==
    ASSUME kind \in Kinds, NEW h \in Hubs, NEW ms, ms = <<>>
    PROVE  IsFull(Store(h, ms)) <=> IsFull(h)
<1> DEFINE g == Store(h, ms)
<1>1. ms \in Seq(Mail) /\ Len(ms) = 0 /\ Len(ms) <= Capacity
  BY CapacityIs
<1>2. /\ g.publisherIndex = h.publisherIndex + Len(ms)
      /\ g.subscribersIndex = h.subscribersIndex
      /\ \A i \in Slots : (\A j \in 1 .. Len(ms) : Slot(h.publisherIndex + j - 1) # i)
                             => g.needs[i] = h.needs[i]
  BY <1>1, StoreIs
<1> HIDE DEF g
<1>3. 0 \in Slots /\ h.publisherIndex \in Nat
  BY CapacityIs, HubIs DEF Slots
<1>4. g.publisherIndex = h.publisherIndex
  BY <1>1, <1>2, <1>3
<1>5. g.needs[0] = h.needs[0]
  <2>1. \A j \in 1 .. Len(ms) : FALSE
    BY <1>1
  <2> QED
    BY <1>2, <1>3, <2>1
<1>6. IsFull(g) <=> IsFull(h)
  BY <1>2, <1>4, <1>5 DEF IsFull
<1> QED
  BY <1>6 DEF g

On == {s \in Subscriptions : Subscribed(s)}
Entry == [msg: Mail, who: Publishers, last: BOOLEAN]

(* The hub is what its history makes it. *)
HubIsRight ==
    /\ kind \in Kinds /\ hub \in Hubs
    /\ log \in Seq(Mail) /\ got \in [Subscriptions -> Seq(Mail)]
    /\ Counts(hub, On) /\ Fits(hub, log, On)

Typed ==
    /\ pollers \in [Subscriptions -> Seq(Consumers)]
    /\ publishers \in Seq(Entry)
    /\ loop \in {"none", "pollers", "space"}
    /\ status \in [Subscriptions -> Statuses]
    /\ shutdown \in {"no", "scope", "publishers"}
    /\ closing \in SUBSET Clients
    /\ phase \in [Clients -> Phases]
    /\ surplus \in [Publishers -> Seq(Mail)]
    /\ sent \in [Publishers -> Nat]

(* A consumer is in pollers once, at its subscription. *)
PollersAreOwn ==
    \A s \in Subscriptions :
        /\ \A c \in ToSet(pollers[s]) : Of[c] = s
        /\ \A i, j \in 1 .. Len(pollers[s]) : i < j => pollers[s][i] # pollers[s][j]

(* A consumer that takes has a subscription. *)
TakersAreOpen ==
    \A c \in Consumers : phase[c] # "idle" => status[Of[c]] \notin {"none", "opening"}

(* Only the last message of a publisher is marked so. *)
LastIsLast ==
    \A i, j \in 1 .. Len(publishers) :
        i < j /\ publishers[i].who = publishers[j].who => ~publishers[i].last

OnlyUnderPressure == publishers # <<>> => kind.strategy = "backpressure"

SurplusIsThere == \A p \in Publishers : phase[p] = "surplus" => surplus[p] # <<>>

Waits == /\ PollersAreOwn /\ TakersAreOpen /\ LastIsLast /\ OnlyUnderPressure
         /\ SurplusIsThere /\ WaitersArePending /\ ShutdownClosesAll

Invariant == HubIsRight /\ Typed /\ Waits /\ NobodyWaitsInVain

-----------------------------------------------------------------------------
(* What the next state shows, while the hub stays the same hub.            *)
LEMMA NextShows ==
    ASSUME kind' = kind
    PROVE  /\ \A s \in Subscriptions : Cursor(hub, s)' = Cursor(hub', s)
           /\ \A s \in Subscriptions : Available(hub, s)' = Available(hub', s)
           /\ IsFull(hub)' = IsFull(hub')
           /\ Low(hub)' = Low(hub')
<1>1. \A s \in Subscriptions : Cursor(hub, s)' = Cursor(hub', s)
  BY DEF Cursor, Single
<1>2. \A s \in Subscriptions : Available(hub, s)' = Available(hub', s)
  BY <1>1 DEF Available, Single
<1>3. IsFull(hub)' = IsFull(hub')
  BY DEF IsFull, Single
<1>4. Low(hub)' = Low(hub')
  BY DEF Low, Single
<1> QED
  BY <1>1, <1>2, <1>3, <1>4

(* What fits, in the next state. *)
LEMMA NextFits ==
    ASSUME kind' = kind
    PROVE  /\ (hub \in Hubs)' <=> hub' \in Hubs
           /\ (Counts(hub, On) /\ Fits(hub, log, On))'
                 <=> Counts(hub', On') /\ Fits(hub', log', On')
<1>1. (hub \in Hubs)' <=> hub' \in Hubs
  BY DEF Hubs, Slots, Capacity, Mail
<1>2. Counts(hub, On)' <=> Counts(hub', On')
  BY DEF Counts
<1>3. \A k \in Int : Slot(k)' = Slot(k)
  BY DEF Slot
<1>4. \A k \in Int : Behind(hub, On, k)' = Behind(hub', On', k)
  BY NextShows DEF Behind, On, Subscribed
<1>5. Fits(hub, log, On)' <=> Fits(hub', log', On')
  <2>1. On' \in SUBSET Subscriptions
    BY DEF On
  <2>2. (\A s \in On : Cursor(hub, s) \in Low(hub) .. Len(log))'
        <=> \A s \in On' : Cursor(hub', s) \in Low(hub') .. Len(log')
    BY <2>1, NextShows
  <2>3. (\A k \in Low(hub) .. Len(log) - 1 :
            /\ hub.array[Slot(k)] = log[k + 1]
            /\ hub.needs[Slot(k)] = Cardinality(Behind(hub, On, k)))'
        <=> \A k \in Low(hub') .. Len(log') - 1 :
               /\ hub'.array[Slot(k)] = log'[k + 1]
               /\ hub'.needs[Slot(k)] = Cardinality(Behind(hub', On', k))
    BY <1>3, <1>4, NextShows
  <2> QED
    BY <2>2, <2>3, NextShows DEF Fits, Capacity
<1> QED
  BY <1>1, <1>2, <1>5

(* From hub h, log l, messages received r and subscriptions S to g, m, q   *)
(* and T: what the broadcast allows.                                       *)
Gets(h, r, g, m, q, s) ==
    /\ Cursor(g, s) \in Cursor(h, s) .. Len(m)
    /\ \E k \in Cursor(h, s) .. Cursor(g, s) :
          /\ kind.strategy = "sliding" \/ k = Cursor(h, s)
          /\ q[s] = r[s] \o SubSeq(m, k + 1, Cursor(g, s))

BroadcastStep(h, l, r, S, g, m, q, T) ==
    /\ IsPrefix(l, m)
    /\ \A s \in Subscriptions :
          \/ s \in S \cap T /\ Gets(h, r, g, m, q, s)
          \/ s \in T \ S /\ Cursor(g, s) = Len(l) /\ m = l /\ q[s] = r[s]
          \/ s \notin T /\ q[s] = r[s]

Allowed(h, l, r, S, g, m, q, T) ==
    /\ g \in Hubs /\ m \in Seq(Mail) /\ q \in [Subscriptions -> Seq(Mail)]
    /\ Counts(g, T) /\ Fits(g, m, T)
    /\ BroadcastStep(h, l, r, S, g, m, q, T)

(* The moves of the hub. *)
Stores(h, l, r, S, g, m, q, T) ==
    \E ms \in Seq(Mail) :
        /\ Len(l) + Len(ms) <= Low(h) + Capacity
        /\ g = Store(h, ms) /\ m = l \o ms /\ q = r /\ T = S
Passes(h, l, r, S, g, m, q, T) ==
    \E s \in S, n \in Nat :
        /\ Cursor(h, s) + n <= Len(l)
        /\ g = Pass(h, s, n) /\ m = l /\ T = S
        /\ q = [r EXCEPT ![s] = @ \o Oldest(h, s, n)]
Slides(h, l, r, S, g, m, q, T) ==
    \E ms \in Seq(Mail) :
        /\ kind.strategy = "sliding" /\ ~Single
        /\ g = Pushed(h, ms) /\ m = l \o Heard(h, ms) /\ q = r /\ T = S
Gains(h, l, r, S, g, m, q, T) ==
    \E s \in Subscriptions \ S : g = Joined(h, s) /\ m = l /\ q = r /\ T = S \cup {s}
Loses(h, l, r, S, g, m, q, T) ==
    \E s \in S : g = Left(h, s) /\ m = l /\ q = r /\ T = S \ {s}

-----------------------------------------------------------------------------
(* The log is a prefix of what it grows to. *)
LEMMA MoreIsPrefix ==
    ASSUME NEW l \in Seq(Mail), NEW ms \in Seq(Mail)
    PROVE  /\ IsPrefix(l, l \o ms) /\ l \o ms \in Seq(Mail)
           /\ Len(l \o ms) = Len(l) + Len(ms) /\ IsPrefix(l, l)
<1> DEFINE m == l \o ms
<1>1. /\ m \in Seq(Mail) /\ Len(m) = Len(l) + Len(ms)
      /\ \A i \in 1 .. Len(l) : m[i] = l[i]
  OBVIOUS
<1>2. Len(l) \in Nat /\ Len(ms) \in Nat
  OBVIOUS
<1> HIDE DEF m
<1>3. SubSeq(m, 1, Len(l)) = SubSeq(l, 1, Len(l))
  BY <1>1, <1>2
<1>4. IsPrefix(l, m) /\ IsPrefix(l, l)
  BY <1>1, <1>2, <1>3 DEF IsPrefix
<1> QED
  BY <1>1, <1>4 DEF m

(* A subscription whose cursor stays gets nothing. *)
LEMMA GetsNothing ==
    ASSUME NEW h, NEW g, NEW s \in Subscriptions, NEW m \in Seq(Mail),
           NEW r \in [Subscriptions -> Seq(Mail)],
           Cursor(h, s) \in Nat, Cursor(g, s) = Cursor(h, s), Cursor(h, s) <= Len(m)
    PROVE  Gets(h, r, g, m, r, s)
<1> DEFINE c == Cursor(h, s)
<1>1. c \in Nat /\ c <= Len(m) /\ Len(m) \in Nat /\ r[s] \in Seq(Mail)
  OBVIOUS
<1> HIDE DEF c
<1>2. SubSeq(m, c + 1, c) = <<>>
  BY <1>1
<1>3. r[s] \o SubSeq(m, c + 1, c) = r[s]
  BY <1>1, <1>2
<1>4. c \in c .. Len(m) /\ c \in c .. c
  BY <1>1
<1> QED
  BY <1>3, <1>4 DEF Gets, c

(* Neither does one whose cursor slides. *)
LEMMA GetsSlid ==
    ASSUME NEW h, NEW g, NEW s \in Subscriptions, NEW m \in Seq(Mail),
           NEW r \in [Subscriptions -> Seq(Mail)], kind.strategy = "sliding",
           Cursor(h, s) \in Nat, Cursor(g, s) \in Nat,
           Cursor(g, s) >= Cursor(h, s), Cursor(g, s) <= Len(m)
    PROVE  Gets(h, r, g, m, r, s)
<1> DEFINE c == Cursor(h, s)
           e == Cursor(g, s)
<1>1. c \in Nat /\ e \in Nat /\ c <= e /\ e <= Len(m) /\ Len(m) \in Nat /\ r[s] \in Seq(Mail)
  OBVIOUS
<1> HIDE DEF c, e
<1>2. SubSeq(m, e + 1, e) = <<>>
  BY <1>1
<1>3. r[s] \o SubSeq(m, e + 1, e) = r[s]
  BY <1>1, <1>2
<1>4. e \in c .. Len(m) /\ e \in c .. e
  BY <1>1
<1> QED
  BY <1>3, <1>4 DEF Gets, c, e

(* Where the cursors are. *)
LEMMA CursorFits ==
    ASSUME kind \in Kinds, NEW h \in Hubs, NEW S \in SUBSET Subscriptions, NEW l \in Seq(Mail),
           Fits(h, l, S), NEW s \in S
    PROVE  Cursor(h, s) \in Nat /\ Cursor(h, s) <= Len(l) /\ Len(l) \in Nat
<1>1. Cursor(h, s) \in Nat /\ Len(l) \in Nat
  BY CursorIs
<1>2. Cursor(h, s) \in Low(h) .. Len(l)
  BY DEF Fits
<1> QED
  BY <1>1, <1>2

-----------------------------------------------------------------------------
(* A step that leaves the hub alone is a step of the broadcast. *)
LEMMA StaysAllowed ==
    ASSUME kind \in Kinds, NEW h \in Hubs, NEW S \in SUBSET Subscriptions, NEW l \in Seq(Mail),
           NEW r \in [Subscriptions -> Seq(Mail)], Counts(h, S), Fits(h, l, S)
    PROVE  Allowed(h, l, r, S, h, l, r, S)
<1>1. \A s \in S : Gets(h, r, h, l, r, s)
  BY CursorFits, GetsNothing
<1>2. IsPrefix(l, l)
  BY MoreIsPrefix, EmptySeq
<1> QED
  BY <1>1, <1>2 DEF Allowed, BroadcastStep

(* So is one that stores messages for which there is room, ... *)
LEMMA StoresAllowed ==
    ASSUME kind \in Kinds, NEW h \in Hubs, NEW S \in SUBSET Subscriptions, NEW l \in Seq(Mail),
           NEW r \in [Subscriptions -> Seq(Mail)], Counts(h, S), Fits(h, l, S),
           NEW g, NEW m, NEW q, NEW T, Stores(h, l, r, S, g, m, q, T)
    PROVE  Allowed(h, l, r, S, g, m, q, T)
<1>1. PICK ms \in Seq(Mail) :
         /\ Len(l) + Len(ms) <= Low(h) + Capacity
         /\ g = Store(h, ms) /\ m = l \o ms /\ q = r /\ T = S
  BY DEF Stores
<1>2. /\ Counts(g, S) /\ Fits(g, m, S) /\ g \in Hubs
      /\ \A s \in Subscriptions : Cursor(g, s) = Cursor(h, s)
  BY <1>1, StoreFits
<1>3. IsPrefix(l, m) /\ m \in Seq(Mail) /\ Len(m) = Len(l) + Len(ms)
  BY <1>1, MoreIsPrefix
<1>4. \A s \in S : Gets(h, r, g, m, r, s)
  <2> SUFFICES ASSUME NEW s \in S
               PROVE  Gets(h, r, g, m, r, s)
    OBVIOUS
  <2>1. Cursor(g, s) \in Nat /\ Cursor(g, s) <= Len(m) /\ s \in Subscriptions
    BY <1>2, <1>3, CursorFits
  <2> QED
    BY <1>2, <1>3, <2>1, GetsNothing
<1> QED
  BY <1>1, <1>2, <1>3, <1>4 DEF Allowed, BroadcastStep

(* ... one that hands messages to a subscription, ... *)
LEMMA PassesAllowed ==
    ASSUME kind \in Kinds, NEW h \in Hubs, NEW S \in SUBSET Subscriptions, NEW l \in Seq(Mail),
           NEW r \in [Subscriptions -> Seq(Mail)], Counts(h, S), Fits(h, l, S),
           NEW g, NEW m, NEW q, NEW T, Passes(h, l, r, S, g, m, q, T)
    PROVE  Allowed(h, l, r, S, g, m, q, T)
<1>1. PICK s \in S, n \in Nat :
         /\ Cursor(h, s) + n <= Len(l)
         /\ g = Pass(h, s, n) /\ m = l /\ T = S
         /\ q = [r EXCEPT ![s] = @ \o Oldest(h, s, n)]
  BY DEF Passes
<1>2. /\ g \in Hubs /\ Counts(g, S) /\ Fits(g, l, S)
      /\ Cursor(g, s) = Cursor(h, s) + n
      /\ \A t \in S \ {s} : Cursor(g, t) = Cursor(h, t)
  <2> DEFINE e == Pass(h, s, n)
  <2>1. /\ e \in Hubs /\ Counts(e, S) /\ Fits(e, l, S)
        /\ Cursor(e, s) = Cursor(h, s) + n
        /\ \A t \in S \ {s} : Cursor(e, t) = Cursor(h, t)
    BY <1>1, PassFits
  <2>2. e = g
    BY <1>1
  <2> HIDE DEF e
  <2> QED
    BY <2>1, <2>2
<1> DEFINE c == Cursor(h, s)
           b == SubSeq(l, c + 1, c + n)
<1>3. Oldest(h, s, n) = b
  BY <1>1, OldestIs
<1>4. c \in Nat /\ c + n <= Len(l) /\ Len(l) \in Nat
  BY <1>1, CursorFits
<1>5. b \in Seq(Mail) /\ r[s] \o b \in Seq(Mail)
  <2>1. b \in Seq(Mail)
    <3> HIDE DEF c
    <3> QED
      BY <1>4
  <2> QED
    BY <2>1
<1>6. q \in [Subscriptions -> Seq(Mail)] /\ q[s] = r[s] \o b
      /\ \A t \in Subscriptions : t # s => q[t] = r[t]
  <2> HIDE DEF b
  <2> QED
    BY <1>1, <1>3, <1>5
<1>7. Gets(h, r, g, l, q, s)
  <2> SUFFICES /\ c + n \in c .. Len(l)
               /\ c \in c .. c + n
               /\ q[s] = r[s] \o SubSeq(l, c + 1, c + n)
    BY <1>2 DEF Gets
  <2> HIDE DEF c
  <2> QED
    BY <1>4, <1>6
<1>8. \A t \in S : Gets(h, r, g, l, q, t)
  <2> SUFFICES ASSUME NEW t \in S \ {s}
               PROVE  Gets(h, r, g, l, q, t)
    BY <1>7
  <2>1. Gets(h, r, g, l, r, t)
    BY <1>2, CursorFits, GetsNothing
  <2>2. q[t] = r[t]
    BY <1>6
  <2> QED
    BY <2>1, <2>2 DEF Gets
<1>9. IsPrefix(l, l)
  BY MoreIsPrefix, EmptySeq
<1>10. \A t \in Subscriptions : t \notin S => q[t] = r[t]
  BY <1>6
<1> QED
  BY <1>1, <1>2, <1>6, <1>8, <1>9, <1>10 DEF Allowed, BroadcastStep

(* ... one that slides the oldest messages out for new ones, ... *)
LEMMA SlidesAllowed ==
    ASSUME kind \in Kinds, NEW h \in Hubs, NEW S \in SUBSET Subscriptions, NEW l \in Seq(Mail),
           NEW r \in [Subscriptions -> Seq(Mail)], Counts(h, S), Fits(h, l, S),
           NEW g, NEW m, NEW q, NEW T, Slides(h, l, r, S, g, m, q, T)
    PROVE  Allowed(h, l, r, S, g, m, q, T)
<1>1. PICK ms \in Seq(Mail) :
         /\ kind.strategy = "sliding" /\ ~Single
         /\ g = Pushed(h, ms) /\ m = l \o Heard(h, ms) /\ q = r /\ T = S
  BY DEF Slides
<1>2. PushesTo(h, S, l, ms, Len(ms), g)
  BY <1>1, PushedFits
<1>3. First(ms, Len(ms)) = ms
  <2> DEFINE a == First(ms, Len(ms))
  <2>1. a \in Seq(Mail) /\ Len(a) = Len(ms) /\ \A i \in 1 .. Len(ms) : a[i] = ms[i]
    BY DEF First
  <2> HIDE DEF a
  <2>2. a = ms
    BY <2>1, SeqEqual
  <2> QED
    BY <2>2 DEF a
<1>4. /\ g \in Hubs /\ Counts(g, S) /\ Fits(g, m, S)
      /\ \A s \in S : Cursor(g, s) >= Cursor(h, s)
  BY <1>1, <1>2, <1>3 DEF PushesTo
<1>5. IsPrefix(l, m) /\ m \in Seq(Mail)
  BY <1>1, HeardIs, MoreIsPrefix
<1>6. \A s \in S : Gets(h, r, g, m, r, s)
  <2> SUFFICES ASSUME NEW s \in S
               PROVE  Gets(h, r, g, m, r, s)
    OBVIOUS
  <2>1. Cursor(g, s) \in Nat /\ Cursor(g, s) <= Len(m) /\ Cursor(h, s) \in Nat
    BY <1>4, <1>5, CursorFits
  <2> QED
    BY <1>1, <1>4, <1>5, <2>1, GetsSlid
<1> QED
  BY <1>1, <1>4, <1>5, <1>6 DEF Allowed, BroadcastStep

(* ... one that makes a subscription ... *)
LEMMA GainsAllowed ==
    ASSUME kind \in Kinds, NEW h \in Hubs, NEW S \in SUBSET Subscriptions, NEW l \in Seq(Mail),
           NEW r \in [Subscriptions -> Seq(Mail)], Counts(h, S), Fits(h, l, S),
           NEW g, NEW m, NEW q, NEW T, Gains(h, l, r, S, g, m, q, T)
    PROVE  Allowed(h, l, r, S, g, m, q, T)
<1>1. PICK s \in Subscriptions \ S : g = Joined(h, s) /\ m = l /\ q = r /\ T = S \cup {s}
  BY DEF Gains
<1>2. /\ g \in Hubs /\ Counts(g, T) /\ Fits(g, l, T)
      /\ Cursor(g, s) = Len(l)
      /\ \A t \in S : Cursor(g, t) = Cursor(h, t)
  <2> DEFINE e == Joined(h, s)
             U == S \cup {s}
  <2>1. /\ e \in Hubs
        /\ Counts(e, U) /\ Fits(e, l, U)
        /\ Cursor(e, s) = Len(l)
        /\ \A t \in S : Cursor(e, t) = Cursor(h, t)
        /\ Low(e) = Low(h)
    <3>1. s \in Subscriptions \ S
      OBVIOUS
    <3> QED
      BY <3>1, JoinFits, Zenon
  <2>2. e = g /\ U = T
    BY <1>1
  <2> HIDE DEF e, U
  <2> QED
    BY <2>1, <2>2
<1>3. \A t \in S : Gets(h, r, g, l, r, t)
  BY <1>2, CursorFits, GetsNothing
<1>4. IsPrefix(l, l)
  BY MoreIsPrefix, EmptySeq
<1> QED
  BY <1>1, <1>2, <1>3, <1>4 DEF Allowed, BroadcastStep

(* ... and one that ends a subscription. *)
LEMMA LosesAllowed ==
    ASSUME kind \in Kinds, NEW h \in Hubs, NEW S \in SUBSET Subscriptions, NEW l \in Seq(Mail),
           NEW r \in [Subscriptions -> Seq(Mail)], Counts(h, S), Fits(h, l, S),
           NEW g, NEW m, NEW q, NEW T, Loses(h, l, r, S, g, m, q, T)
    PROVE  Allowed(h, l, r, S, g, m, q, T)
<1>1. PICK s \in S : g = Left(h, s) /\ m = l /\ q = r /\ T = S \ {s}
  BY DEF Loses
<1>2. /\ g \in Hubs /\ Counts(g, T) /\ Fits(g, l, T)
      /\ \A t \in T : Cursor(g, t) = Cursor(h, t)
  BY <1>1, LeftFits
<1>3. \A t \in T : Gets(h, r, g, l, r, t)
  BY <1>1, <1>2, CursorFits, GetsNothing
<1>4. IsPrefix(l, l)
  BY MoreIsPrefix, EmptySeq
<1> QED
  BY <1>1, <1>2, <1>3, <1>4 DEF Allowed, BroadcastStep

(* In a hub of one slot that slides, a subscription that lags behind gets  *)
(* the newest message twice, and counts it down twice (hub.ts:646): the    *)
(* theorems are about the other hubs.                                      *)
SlotsDoNotSlide == \A k \in Kinds : k.strategy = "sliding" => k.capacity # 1

HubMoves == kind' = kind /\ Allowed(hub, log, got, On, hub', log', got', On')

(* A move of the hub keeps it what its history makes it. *)
LEMMA HubMoved ==
    ASSUME HubIsRight, HubMoves
    PROVE  HubIsRight'
<1>1. /\ hub' \in Hubs /\ log' \in Seq(Mail) /\ got' \in [Subscriptions -> Seq(Mail)]
      /\ Counts(hub', On') /\ Fits(hub', log', On') /\ kind' = kind
  BY DEF HubMoves, Allowed
<1>2. (hub \in Hubs)' /\ (Counts(hub, On) /\ Fits(hub, log, On))'
  BY <1>1, NextFits
<1>3. (log \in Seq(Mail) /\ got \in [Subscriptions -> Seq(Mail)])'
  BY <1>1 DEF Mail
<1>4. kind' \in Kinds
  BY <1>1 DEF HubIsRight
<1> QED
  BY <1>2, <1>3, <1>4 DEF HubIsRight

(* Which subscriptions there are depends on the status alone. *)
LEMMA OnIs == On \in SUBSET Subscriptions /\ (status' = status => On' = On)
  BY DEF On, Subscribed

(* The hub may stay as it is. *)
LEMMA HubStays ==
    ASSUME HubIsRight, UNCHANGED <<kind, hub, log, got>>, On' = On
    PROVE  HubMoves
  BY StaysAllowed, OnIs DEF HubIsRight, HubMoves

(* It may store messages for which there is room, ... *)
LEMMA HubStores ==
    ASSUME HubIsRight, UNCHANGED <<kind, got, status>>, NEW ms \in Seq(Mail),
           Len(log) + Len(ms) <= Low(hub) + Capacity,
           hub' = Store(hub, ms), log' = log \o ms
    PROVE  HubMoves
<1>1. Stores(hub, log, got, On, hub', log', got', On')
  BY OnIs DEF Stores
<1> QED
  BY <1>1, StoresAllowed, OnIs DEF HubIsRight, HubMoves

(* ... also by publish, ... *)
LEMMA HubPublishes ==
    ASSUME HubIsRight, UNCHANGED <<kind, got, status>>, NEW m \in Mail, ~IsFull(hub),
           hub' = Publish(hub, m), log' = log \o Heard(hub, <<m>>)
    PROVE  HubMoves
<1> DEFINE ms == Heard(hub, <<m>>)
           n == Len(ms)
           p == Len(log)
           L == Low(hub)
<1>1. <<m>> \in Seq(Mail) /\ Len(<<m>>) = 1
  OBVIOUS
<1>2. ms \in Seq(Mail) /\ n \in Nat /\ n <= 1
  BY <1>1, HeardIs
<1>3. p # L + Capacity /\ L \in 0 .. p /\ p <= L + Capacity /\ p \in Nat
  <2>1. IsFull(hub) <=> p = L + Capacity
    BY FullIs, OnIs DEF HubIsRight
  <2> QED
    BY <2>1, OnIs DEF HubIsRight, Fits
<1>4. Capacity \in Nat
  BY CapacityIs DEF HubIsRight
<1>5. p + n <= L + Capacity
  <2> HIDE DEF p, n, L
  <2> QED
    BY <1>2, <1>3, <1>4
<1>6. hub' = Store(hub, ms) /\ log' = log \o ms
  BY DEF Publish
<1> HIDE DEF ms
<1> QED
  BY <1>2, <1>5, <1>6, HubStores

(* ... and hand messages to a subscription. *)
LEMMA HubPolls ==
    ASSUME HubIsRight, UNCHANGED <<kind, log, status>>, NEW s \in On, NEW n \in Nat,
           n <= Available(hub, s), Polls(s, n)
    PROVE  HubMoves
<1>1. Available(hub, s) = Len(log) - Cursor(hub, s) /\ Cursor(hub, s) \in Nat /\ Len(log) \in Nat
  BY AvailableIs, CursorFits, OnIs DEF HubIsRight
<1>2. Cursor(hub, s) + n <= Len(log)
  BY <1>1
<1>3. Passes(hub, log, got, On, hub', log', got', On')
  BY <1>2, OnIs DEF Passes, Polls
<1> QED
  BY <1>3, PassesAllowed, OnIs DEF HubIsRight, HubMoves

-----------------------------------------------------------------------------
(* What each action does to the hub.                                       *)

LEMMA CompletePollerMoves ==
    ASSUME HubIsRight, NEW s \in Subscriptions, CompletePoller(s)
    PROVE  HubMoves
<1>1. s \in On /\ Available(hub, s) > 0 /\ Available(hub, s) \in Nat
  BY AvailableIs, OnIs DEF CompletePoller, Pollable, On, HubIsRight
<1>2. 1 <= Available(hub, s)
  BY <1>1
<1>3. UNCHANGED <<kind, log, status>> /\ Polls(s, 1)
  BY DEF CompletePoller, closeVars
<1> QED
  BY <1>1, <1>2, <1>3, HubPolls

(* unsafeOnHubEmptySpace publishes into a slot that is free. *)
LEMMA PublishWaitingMoves ==
    ASSUME HubIsRight, Typed, PublishWaiting
    PROVE  HubMoves
<1> DEFINE x == Head(publishers)
<1>1. publishers # <<>> /\ ~IsFull(hub)
  BY DEF PublishWaiting, Room
<1>2. x.msg \in Mail
  <2>1. x \in Entry
    BY <1>1 DEF Typed
  <2> QED
    BY <2>1 DEF Entry
<1>3. /\ UNCHANGED <<kind, got, status>>
      /\ hub' = Publish(hub, x.msg) /\ log' = log \o Heard(hub, <<x.msg>>)
  BY DEF PublishWaiting, closeVars
<1> HIDE DEF x
<1> QED
  BY <1>1, <1>2, <1>3, HubPublishes

(* publish stores its message if the hub is not full. *)
LEMMA PublishOneMoves ==
    ASSUME HubIsRight, Typed, NEW p \in Publishers, PublishOne(p)
    PROVE  HubMoves
<1> DEFINE m == <<p, sent[p] + 1>>
           ms == <<m>>
<1>1. m \in Mail
  BY DEF Typed, Mail
<1>2. UNCHANGED <<kind, got, status>>
  BY DEF PublishOne, Begins, closeVars
<1>3. \/ ~IsFull(hub) /\ hub' = Publish(hub, ms[1]) /\ log' = log \o Heard(hub, ms)
      \/ UNCHANGED <<hub, log>>
  BY DEF PublishOne
<1>4. ms[1] = m
  OBVIOUS
<1>5. \/ ~IsFull(hub) /\ hub' = Publish(hub, m) /\ log' = log \o Heard(hub, <<m>>)
      \/ UNCHANGED <<hub, log>>
  BY <1>3, <1>4
<1> HIDE DEF m
<1> QED
  BY <1>1, <1>2, <1>5, HubPublishes, HubStays, OnIs

(* The messages of publishAll. *)
LEMMA BatchIs ==
    ASSUME NEW p \in Publishers, NEW k \in Nat, NEW n \in Nat, n > 0
    PROVE  /\ [i \in 1 .. n |-> <<p, k + i>>] \in Seq(Mail)
           /\ [i \in 1 .. n |-> <<p, k + i>>] # <<>>
           /\ Len([i \in 1 .. n |-> <<p, k + i>>]) = n
<1> DEFINE ms == [i \in 1 .. n |-> <<p, k + i>>]
<1>1. \A i \in 1 .. n : <<p, k + i>> \in Mail
  BY DEF Mail
<1>2. ms \in Seq(Mail) /\ Len(ms) = n
  BY <1>1
<1> HIDE DEF ms
<1>3. ms # <<>>
  BY <1>2
<1> QED
  BY <1>2, <1>3 DEF ms

(* publishAll stores what fits. *)
LEMMA PublishAllMoves ==
    ASSUME HubIsRight, Typed, NEW p \in Publishers, NEW n \in 2 .. MaxBatch, PublishAll(p, n)
    PROVE  HubMoves /\ Rest(hub, [i \in 1 .. n |-> <<p, sent[p] + i>>]) \in Seq(Mail)
<1> DEFINE ms == [i \in 1 .. n |-> <<p, sent[p] + i>>]
<1>1. ms \in Seq(Mail) /\ ms # <<>>
  <2>1. sent[p] \in Nat /\ n \in Nat /\ n > 0
    BY BoundsAssumption DEF Typed
  <2> HIDE DEF ms
  <2> QED
    BY <2>1, BatchIs DEF ms
<1>2. UNCHANGED <<kind, got, status>>
  BY DEF PublishAll, Begins, closeVars
<1>3. hub' = Store(hub, Stored(hub, ms)) /\ log' = log \o Stored(hub, ms)
  BY DEF PublishAll
<1> HIDE DEF ms
<1>4. /\ Stored(hub, ms) \in Seq(Mail)
      /\ Len(log) + Len(Stored(hub, ms)) <= Low(hub) + Capacity
      /\ Rest(hub, ms) \in Seq(Mail)
  BY <1>1, StoredIs, OnIs DEF HubIsRight
<1>5. HubMoves
  BY <1>2, <1>3, <1>4, HubStores
<1> QED
  BY <1>4, <1>5 DEF ms

(* SlidingStrategy.handleSurplus makes room for each message. *)
LEMMA SlideMoves ==
    ASSUME SlotsDoNotSlide, HubIsRight, Typed, NEW p \in Publishers, Slide(p)
    PROVE  HubMoves
<1>1. kind.strategy = "sliding" /\ ~Single
  BY DEF Slide, SlotsDoNotSlide, HubIsRight, Single
<1>2. surplus[p] \in Seq(Mail)
  BY DEF Typed
<1>3. /\ UNCHANGED <<kind, got, status>>
      /\ hub' = Pushed(hub, surplus[p]) /\ log' = log \o Heard(hub, surplus[p])
  BY DEF Slide, closeVars
<1>4. Slides(hub, log, got, On, hub', log', got', On')
  BY <1>1, <1>2, <1>3, OnIs DEF Slides
<1> QED
  BY <1>3, <1>4, SlidesAllowed, OnIs DEF HubIsRight, HubMoves

(* takeUpTo hands over no more than there is. *)
LEMMA TakeUpToMoves ==
    ASSUME HubIsRight, Typed, NEW c \in Consumers, NEW n \in 1 .. MaxBatch, TakeUpTo(c, n)
    PROVE  HubMoves
<1> DEFINE s == Of[c]
           r == Ready(s)
<1>1. s \in On
  BY OfAssumption DEF TakeUpTo, Takes, On, Subscribed
<1>2. Available(hub, s) \in Nat
  BY <1>1, AvailableIs, OnIs DEF HubIsRight
<1>3. r \in Nat /\ r <= Available(hub, s)
  BY <1>2 DEF Ready
<1>4. n \in Nat
  BY BoundsAssumption
<1>5. UNCHANGED <<kind, log, status>> /\ Polls(s, Less(n, r))
  BY DEF TakeUpTo, Takes, closeVars
<1> HIDE DEF s, r
<1>6. Less(n, r) = IF n <= r THEN n ELSE r
  BY <1>3, <1>4, LessIs
<1>7. Less(n, r) \in Nat /\ Less(n, r) <= Available(hub, s)
  BY <1>2, <1>3, <1>4, <1>6
<1> QED
  BY <1>1, <1>5, <1>7, HubPolls

(* subscribe adds a subscription. *)
LEMMA SubscribeMoves ==
    ASSUME HubIsRight, Typed, NEW s \in Subscriptions, Subscribe(s)
    PROVE  HubMoves
<1>1. s \notin On /\ On' = On \cup {s}
  BY DEF Subscribe, On, Subscribed, Typed
<1>2. hub' = Joined(hub, s) /\ UNCHANGED <<kind, log, got>>
  BY DEF Subscribe, closeRest, Joined
<1>3. Gains(hub, log, got, On, hub', log', got', On')
  BY <1>1, <1>2 DEF Gains
<1> QED
  BY <1>2, <1>3, GainsAllowed, OnIs DEF HubIsRight, HubMoves

(* unsubscribe removes one. *)
LEMMA UnsubscribeMoves ==
    ASSUME HubIsRight, Typed, NEW s \in Subscriptions, Unsubscribe(s)
    PROVE  HubMoves
<1>1. s \in On /\ On' = On \ {s}
  BY DEF Unsubscribe, On, Subscribed, Typed
<1>2. hub' = Left(hub, s) /\ UNCHANGED <<kind, log, got>>
  BY DEF Unsubscribe, closeRest
<1>3. Loses(hub, log, got, On, hub', log', got', On')
  BY <1>1, <1>2 DEF Loses
<1> QED
  BY <1>2, <1>3, LosesAllowed, OnIs DEF HubIsRight, HubMoves

(* The others leave the hub alone. *)
Quiet == UNCHANGED <<kind, hub, log, got>> /\ On' = On

(* All other actions are quiet. *)
LEMMA QuietSteps ==
    ASSUME Typed
    PROVE  /\ \A p \in Publishers : Drop(p) \/ Put(p) => Quiet
           /\ \A c \in Consumers : TakeNothing(c) \/ Wait(c) => Quiet
           /\ \A c \in Clients : Interrupt(c) \/ End(c) \/ InterruptDeferred(c) => Quiet
           /\ \A s \in Subscriptions : Register(s) \/ Close(s) \/ Closed(s) => Quiet
           /\ Shutdown \/ ShutdownPublishers \/ UNCHANGED vars => Quiet
<1>1. \A p \in Publishers : Drop(p) \/ Put(p) => Quiet
  BY OnIs DEF Drop, Put, Quiet, stateVars, closeVars
<1>2. \A c \in Consumers : TakeNothing(c) \/ Wait(c) => Quiet
  BY OnIs DEF TakeNothing, Takes, Wait, Quiet, closeVars
<1>3. \A c \in Clients : Interrupt(c) \/ End(c) \/ InterruptDeferred(c) => Quiet
  BY OnIs DEF Interrupt, End, InterruptDeferred, Quiet, stateVars, closeVars
<1>4. \A s \in Subscriptions : Register(s) \/ Close(s) \/ Closed(s) => Quiet
  <2> SUFFICES ASSUME NEW s \in Subscriptions, Register(s) \/ Close(s) \/ Closed(s)
               PROVE  Quiet
    OBVIOUS
  <2>1. UNCHANGED <<kind, hub, log, got>>
    BY DEF Register, Close, Closed, closeRest
  <2>2. On' = On
    BY DEF Register, Close, Closed, On, Subscribed, Typed
  <2> QED
    BY <2>1, <2>2 DEF Quiet
<1>5. Shutdown \/ ShutdownPublishers \/ UNCHANGED vars => Quiet
  BY OnIs DEF Shutdown, ShutdownPublishers, Quiet, closeRest, vars, stateVars, closeVars
<1> QED
  BY <1>1, <1>2, <1>3, <1>4, <1>5

(* Every step is a move of the hub. *)
LEMMA NextMoves ==
    ASSUME SlotsDoNotSlide, HubIsRight, Typed, [Next]_vars
    PROVE  HubMoves
<1>1. Quiet => HubMoves
  BY HubStays DEF Quiet
<1>2. CASE UNCHANGED vars
  BY <1>1, <1>2, QuietSteps
<1>3. CASE Loop
  BY <1>3, CompletePollerMoves, PublishWaitingMoves DEF Loop
<1>4. ASSUME NEW p \in Publishers, Produce(p)
      PROVE  HubMoves
  BY <1>1, <1>4, PublishOneMoves, PublishAllMoves, SlideMoves, QuietSteps DEF Produce
<1>5. ASSUME NEW c \in Consumers, Consume(c)
      PROVE  HubMoves
  BY <1>1, <1>5, TakeUpToMoves, QuietSteps DEF Consume
<1>6. ASSUME NEW c \in Clients, Interrupt(c) \/ End(c) \/ InterruptDeferred(c)
      PROVE  HubMoves
  BY <1>1, <1>6, QuietSteps
<1>7. ASSUME NEW s \in Subscriptions,
             Subscribe(s) \/ Register(s) \/ Close(s) \/ Unsubscribe(s) \/ Closed(s)
      PROVE  HubMoves
  BY <1>1, <1>7, SubscribeMoves, UnsubscribeMoves, QuietSteps
<1>8. CASE Shutdown \/ ShutdownPublishers
  BY <1>1, <1>8, QuietSteps
<1> QED
  BY <1>2, <1>3, <1>4, <1>5, <1>6, <1>7, <1>8 DEF Next

-----------------------------------------------------------------------------
(* The members of the lists.                                               *)
LEMMA TailMembers ==
    ASSUME NEW D, NEW s \in Seq(D), s # <<>>
    PROVE  /\ Head(s) \in D /\ Head(s) \in ToSet(s)
           /\ Tail(s) \in Seq(D) /\ ToSet(s) = ToSet(Tail(s)) \cup {Head(s)}
           /\ Len(Tail(s)) = Len(s) - 1 /\ Len(s) \in Nat /\ Len(s) > 0
           /\ \A i \in 1 .. Len(s) - 1 : Tail(s)[i] = s[i + 1]
           /\ Head(s) = s[1]
<1> DEFINE t == Tail(s)
<1>1. /\ Head(s) \in D /\ Head(s) = s[1] /\ Len(s) \in Nat /\ Len(s) > 0
      /\ t \in Seq(D) /\ Len(t) = Len(s) - 1
      /\ \A i \in 1 .. Len(s) - 1 : t[i] = s[i + 1]
  OBVIOUS
<1> HIDE DEF t
<1>2. /\ ToSet(s) = {s[i] : i \in 1 .. Len(s)}
      /\ ToSet(t) = {t[i] : i \in 1 .. Len(s) - 1}
  BY <1>1, Members
<1>3. ToSet(t) = {s[i + 1] : i \in 1 .. Len(s) - 1}
  BY <1>1, <1>2
<1>4. ToSet(s) \subseteq ToSet(t) \cup {s[1]}
  <2> SUFFICES ASSUME NEW i \in 1 .. Len(s), i # 1
               PROVE  s[i] \in ToSet(t)
    BY <1>2
  <2>1. i - 1 \in 1 .. Len(s) - 1 /\ (i - 1) + 1 = i
    BY <1>1
  <2> QED
    BY <1>3, <2>1
<1>5. ToSet(t) \subseteq ToSet(s) /\ s[1] \in ToSet(s)
  BY <1>1, <1>2, <1>3
<1> QED
  BY <1>1, <1>4, <1>5 DEF t

(* The members of a list that got one more. *)
LEMMA AppendMembers ==
    ASSUME NEW D, NEW s \in Seq(D), NEW d \in D
    PROVE  /\ ToSet(Append(s, d)) = ToSet(s) \cup {d}
           /\ Append(s, d) \in Seq(D) /\ Len(Append(s, d)) = Len(s) + 1 /\ Len(s) \in Nat
           /\ \A i \in 1 .. Len(s) : Append(s, d)[i] = s[i]
           /\ Append(s, d)[Len(s) + 1] = d
<1> DEFINE t == Append(s, d)
<1>1. /\ t \in Seq(D) /\ Len(t) = Len(s) + 1 /\ Len(s) \in Nat
      /\ \A i \in 1 .. Len(s) : t[i] = s[i]
      /\ t[Len(s) + 1] = d
  OBVIOUS
<1> HIDE DEF t
<1>2. 1 .. Len(s) + 1 = (1 .. Len(s)) \cup {Len(s) + 1}
  BY <1>1
<1>3. /\ ToSet(s) = {s[i] : i \in 1 .. Len(s)}
      /\ ToSet(t) = {t[i] : i \in 1 .. Len(s) + 1}
  BY <1>1, Members
<1>4. ToSet(t) = ToSet(s) \cup {d}
  BY <1>1, <1>2, <1>3
<1> QED
  BY <1>1, <1>4 DEF t

Joint(s, t) == s \o t

(* The members of joined lists. *)
LEMMA JointMembers ==
    ASSUME NEW D, NEW s \in Seq(D), NEW t \in Seq(D)
    PROVE  /\ ToSet(Joint(s, t)) = ToSet(s) \cup ToSet(t)
           /\ Joint(s, t) \in Seq(D) /\ Len(Joint(s, t)) = Len(s) + Len(t)
           /\ Len(s) \in Nat /\ Len(t) \in Nat
           /\ \A i \in 1 .. Len(s) : Joint(s, t)[i] = s[i]
           /\ \A i \in 1 .. Len(t) : Joint(s, t)[Len(s) + i] = t[i]
<1> DEFINE u == Joint(s, t)
<1>1. /\ u \in Seq(D) /\ Len(u) = Len(s) + Len(t) /\ Len(s) \in Nat /\ Len(t) \in Nat
      /\ \A i \in 1 .. Len(s) : u[i] = s[i]
      /\ \A i \in 1 .. Len(t) : u[Len(s) + i] = t[i]
  BY DEF Joint
<1> HIDE DEF u
<1>2. /\ ToSet(s) = {s[i] : i \in 1 .. Len(s)}
      /\ ToSet(t) = {t[i] : i \in 1 .. Len(t)}
      /\ ToSet(u) = {u[i] : i \in 1 .. Len(s) + Len(t)}
  BY <1>1, Members
<1>3. ToSet(s) \subseteq ToSet(u) /\ ToSet(t) \subseteq ToSet(u)
  <2>1. \A i \in 1 .. Len(t) : Len(s) + i \in 1 .. Len(s) + Len(t)
    BY <1>1
  <2>2. \A i \in 1 .. Len(s) : i \in 1 .. Len(s) + Len(t)
    BY <1>1
  <2> QED
    BY <1>1, <1>2, <2>1, <2>2
<1>4. ToSet(u) \subseteq ToSet(s) \cup ToSet(t)
  <2> SUFFICES ASSUME NEW i \in 1 .. Len(s) + Len(t)
               PROVE  u[i] \in ToSet(s) \cup ToSet(t)
    BY <1>2
  <2>1. CASE i <= Len(s)
    BY <1>1, <1>2, <2>1
  <2>2. CASE i > Len(s)
    <3>1. i - Len(s) \in 1 .. Len(t) /\ Len(s) + (i - Len(s)) = i
      BY <1>1, <2>2
    <3> QED
      BY <1>1, <1>2, <3>1
  <2> QED
    BY <1>1, <2>1, <2>2
<1>5. ToSet(u) = ToSet(s) \cup ToSet(t)
  BY <1>3, <1>4
<1> QED
  BY <1>1, <1>5 DEF u

(* The members that unsafeRemove leaves. *)
LEMMA RemovedMembers ==
    ASSUME NEW D, NEW s \in Seq(D), NEW S
    PROVE  Removed(s, S) \in Seq(D) /\ ToSet(Removed(s, S)) = ToSet(s) \ S
<1> DEFINE r == Removed(s, S)
<1>1. Sifted(D, s, S, Len(s), r)
  BY RemovedIsSifted
<1> HIDE DEF r
<1>2. r \in Seq(D)
  BY <1>1 DEF Sifted
<1>3. ToSet(s) = {s[i] : i \in 1 .. Len(s)} /\ ToSet(r) = {r[i] : i \in 1 .. Len(r)}
  BY <1>2, Members
<1>4. /\ \A i \in 1 .. Len(r) : \E a \in 1 .. Len(s) : r[i] = s[a] /\ s[a] \notin S
      /\ \A a \in 1 .. Len(s) : s[a] \notin S => \E i \in 1 .. Len(r) : r[i] = s[a]
  BY <1>1 DEF Sifted
<1>5. ToSet(r) \subseteq ToSet(s) \ S
  BY <1>3, <1>4
<1>6. ToSet(s) \ S \subseteq ToSet(r)
  BY <1>3, <1>4
<1> QED
  BY <1>2, <1>5, <1>6 DEF r

-----------------------------------------------------------------------------
(* The phase of a client changes.                                          *)
LEMMA GoesIs ==
    ASSUME Typed, NEW c \in Clients, NEW f, Goes(c, f)
    PROVE  \A d \in Clients : phase'[d] = IF d = c THEN f ELSE phase[d]
  BY DEF Goes, Typed

(* The phases when a Deferred is completed or interrupted. *)
LEMMA ResumedIs ==
    ASSUME Typed, NEW c \in Clients, NEW f, Resumed(c, f)
    PROVE  \A d \in Clients :
              phase'[d] = IF d = c /\ phase[c] \in {"taking", "waiting"} THEN f ELSE phase[d]
  BY DEF Resumed, Typed

(* Publishers and consumers are different clients. *)
LEMMA ClientsDiffer ==
    /\ \A p \in Publishers : p \in Clients /\ p \notin Consumers
    /\ \A c \in Consumers : c \in Clients /\ c \notin Publishers
  BY ClientsAssumption DEF Clients

(* Who is in the lists. *)
LEMMA ListsAre ==
    ASSUME Typed
    PROVE  /\ \A s \in Subscriptions : ToSet(pollers[s]) \subseteq Consumers
           /\ ToSet(publishers) \subseteq Entry
           /\ \A x \in ToSet(publishers) : x.who \in Publishers /\ x.last \in BOOLEAN
           /\ \A i \in 1 .. Len(publishers) : publishers[i] \in ToSet(publishers)
<1>1. \A s \in Subscriptions : ToSet(pollers[s]) \subseteq Consumers
  BY Members DEF Typed
<1>2. publishers \in Seq(Entry)
  BY DEF Typed
<1>3. ToSet(publishers) = {publishers[i] : i \in 1 .. Len(publishers)}
      /\ ToSet(publishers) \subseteq Entry
  BY <1>2, Members
<1> QED
  BY <1>1, <1>3 DEF Entry

(* The loops are named. *)
LEMMA LoopsType ==
    ASSUME NEW l \in {"pollers", "space"}, Loops(l)
    PROVE  loop' \in {"none", "pollers", "space"}
  BY DEF Loops

(* Phases stay phases. *)
LEMMA ResumedType ==
    ASSUME Typed, NEW c, NEW f \in Phases, Resumed(c, f) \/ Goes(c, f)
    PROVE  phase' \in [Clients -> Phases]
  BY DEF Resumed, Goes, Typed, Phases

(* The loops keep the types, ... *)
LEMMA TypedLoop ==
    ASSUME Typed, Loop
    PROVE  Typed'
<1>1. ASSUME NEW s \in Subscriptions, CompletePoller(s)
      PROVE  Typed'
  <2>1. pollers[s] \in Seq(Consumers) /\ pollers[s] # <<>>
    BY <1>1 DEF CompletePoller, Pollable, Typed
  <2>2. Tail(pollers[s]) \in Seq(Consumers)
    BY <2>1
  <2>3. pollers' \in [Subscriptions -> Seq(Consumers)]
    BY <1>1, <2>2 DEF CompletePoller, Typed
  <2>4. phase' \in [Clients -> Phases]
    BY <1>1, ResumedType DEF CompletePoller, Phases
  <2>5. loop' \in {"none", "pollers", "space"}
    BY <1>1, LoopsType DEF CompletePoller
  <2>6. UNCHANGED <<publishers, status, shutdown, closing, surplus, sent>>
    BY <1>1 DEF CompletePoller, closeVars, jobVars
  <2> QED
    BY <2>3, <2>4, <2>5, <2>6 DEF Typed, Entry, Mail, Phases, Statuses
<1>2. CASE PublishWaiting
  <2>1. publishers' \in Seq(Entry)
    BY <1>2 DEF PublishWaiting, Room, Typed
  <2>2. phase' \in [Clients -> Phases]
    <3>1. Resumed(Head(publishers).who, "idle") \/ phase' = phase
      BY <1>2 DEF PublishWaiting
    <3> QED
      BY <3>1, ResumedType DEF Typed, Phases
  <2>3. loop' \in {"none", "pollers", "space"}
    BY <1>2, LoopsType DEF PublishWaiting
  <2>4. UNCHANGED <<pollers, status, shutdown, closing, surplus, sent>>
    BY <1>2 DEF PublishWaiting, closeVars, jobVars
  <2> QED
    BY <2>1, <2>2, <2>3, <2>4 DEF Typed, Entry, Mail, Phases, Statuses
<1> QED
  BY <1>1, <1>2 DEF Loop

(* ... so do publishers, ... *)
LEMMA TypedProduce ==
    ASSUME HubIsRight, Typed, NEW p \in Publishers, Produce(p)
    PROVE  Typed'
<1>1. ASSUME NEW rest \in Seq(Mail), NEW k \in Nat, Leaves(p, rest),
             UNCHANGED <<pollers, publishers, status, shutdown, closing>>,
             sent' = [sent EXCEPT ![p] = @ + k], Loops("pollers")
      PROVE  Typed'
  <2>1. surplus' \in [Publishers -> Seq(Mail)]
    BY <1>1 DEF Leaves, Typed
  <2>2. phase' \in [Clients -> Phases]
    BY <1>1, ResumedType DEF Leaves, Phases
  <2>3. loop' \in {"none", "pollers", "space"}
    BY <1>1, LoopsType
  <2>4. sent' \in [Publishers -> Nat]
    BY <1>1 DEF Typed
  <2> QED
    BY <1>1, <2>1, <2>2, <2>3, <2>4 DEF Typed, Entry, Mail, Phases, Statuses
<1>2. CASE PublishOne(p)
  <2> DEFINE ms == <<<<p, sent[p] + 1>>>>
  <2>1. ms \in Seq(Mail) /\ Len(ms) \in Nat /\ <<>> \in Seq(Mail)
    <3>1. <<p, sent[p] + 1>> \in Mail
      BY DEF Typed, Mail
    <3> QED
      BY <3>1
  <2>2. \E rest \in {<<>>, ms} : Leaves(p, rest)
    BY <1>2 DEF PublishOne
  <2>3. /\ UNCHANGED <<pollers, publishers, status, shutdown, closing>>
        /\ sent' = [sent EXCEPT ![p] = @ + Len(ms)] /\ Loops("pollers")
    BY <1>2 DEF PublishOne, Begins, closeVars
  <2> HIDE DEF ms
  <2> QED
    BY <1>1, <2>1, <2>2, <2>3
<1>3. ASSUME NEW n \in 2 .. MaxBatch, PublishAll(p, n)
      PROVE  Typed'
  <2> DEFINE ms == [i \in 1 .. n |-> <<p, sent[p] + i>>]
  <2>1. Rest(hub, ms) \in Seq(Mail)
    BY <1>3, PublishAllMoves
  <2>2. Len(ms) \in Nat
    <3>1. n \in Nat
      BY BoundsAssumption
    <3> QED
      BY <3>1
  <2>3. /\ UNCHANGED <<pollers, publishers, status, shutdown, closing>>
        /\ sent' = [sent EXCEPT ![p] = @ + Len(ms)] /\ Loops("pollers")
        /\ Leaves(p, Rest(hub, ms))
    BY <1>3 DEF PublishAll, Begins, closeVars
  <2> HIDE DEF ms
  <2> QED
    BY <1>1, <2>1, <2>2, <2>3
<1>4. ASSUME Handled(p), NEW f \in Phases, Goes(p, f),
             UNCHANGED <<pollers, status, shutdown, closing, sent>>,
             publishers' \in Seq(Entry), loop' \in {"none", "pollers", "space"}
      PROVE  Typed'
  <2>1. surplus' \in [Publishers -> Seq(Mail)]
    BY <1>4 DEF Handled, Typed
  <2>2. phase' \in [Clients -> Phases]
    BY <1>4, ResumedType
  <2> QED
    BY <1>4, <2>1, <2>2 DEF Typed, Entry, Mail, Phases, Statuses
<1>5. CASE Drop(p)
  BY <1>4, <1>5 DEF Drop, stateVars, closeVars, Phases, Typed
<1>6. CASE Slide(p)
  BY <1>4, <1>6, LoopsType DEF Slide, closeVars, Phases, Typed
<1>7. CASE Put(p)
  <2> DEFINE ms == surplus[p]
             entries == [i \in DOMAIN ms |-> [msg |-> ms[i], who |-> p, last |-> i = Len(ms)]]
  <2>1. ms \in Seq(Mail) /\ DOMAIN ms = 1 .. Len(ms) /\ Len(ms) \in Nat
    BY DEF Typed
  <2>2. \A i \in 1 .. Len(ms) : [msg |-> ms[i], who |-> p, last |-> i = Len(ms)] \in Entry
    BY <2>1 DEF Entry
  <2>3. entries \in Seq(Entry)
    BY <2>1, <2>2
  <2>4. publishers' = publishers \o entries
    BY <1>7 DEF Put
  <2> HIDE DEF entries
  <2>5. publishers' \in Seq(Entry)
    BY <2>3, <2>4 DEF Typed
  <2> QED
    BY <1>4, <1>7, <2>5, LoopsType DEF Put, closeVars, Phases
<1> QED
  BY <1>2, <1>3, <1>5, <1>6, <1>7 DEF Produce

(* ... consumers, ... *)
LEMMA TypedConsume ==
    ASSUME Typed, NEW c \in Consumers, Consume(c)
    PROVE  Typed'
<1>1. ASSUME NEW n \in 1 .. MaxBatch, TakeUpTo(c, n)
      PROVE  Typed'
  BY <1>1, LoopsType
  DEF TakeUpTo, Takes, closeVars, Typed, Entry, Mail, Phases, Statuses
<1>2. CASE TakeNothing(c)
  <2>1. phase' \in [Clients -> Phases]
    BY <1>2, ResumedType DEF TakeNothing, Phases
  <2> QED
    BY <1>2, <2>1 DEF TakeNothing, Takes, closeVars, Typed, Entry, Mail, Phases, Statuses
<1>3. CASE Wait(c)
  <2>1. phase' \in [Clients -> Phases]
    BY <1>3, ResumedType DEF Wait, Phases
  <2>2. pollers' \in [Subscriptions -> Seq(Consumers)]
    BY <1>3, OfAssumption DEF Wait, Typed
  <2> QED
    BY <1>3, <2>1, <2>2, LoopsType
    DEF Wait, closeVars, jobVars, Typed, Entry, Mail, Phases, Statuses
<1> QED
  BY <1>1, <1>2, <1>3 DEF Consume

(* ... interruption, ... *)
LEMMA TypedClients ==
    ASSUME Typed, NEW c \in Clients, Interrupt(c) \/ End(c) \/ InterruptDeferred(c)
    PROVE  Typed'
<1>1. CASE Interrupt(c)
  BY <1>1
  DEF Interrupt, stateVars, closeVars, jobVars, Typed, Entry, Mail, Phases, Statuses
<1>2. CASE End(c)
  <2>1. phase' \in [Clients -> Phases]
    BY <1>2, ResumedType DEF End, Phases
  <2>2. pollers' \in [Subscriptions -> Seq(Consumers)]
    BY <1>2, RemovedMembers DEF End, Typed
  <2>3. publishers' \in Seq(Entry)
    BY <1>2, RemovedMembers DEF End, Typed
  <2> QED
    BY <1>2, <2>1, <2>2, <2>3
    DEF End, closeVars, jobVars, Typed, Entry, Mail, Phases, Statuses
<1>3. CASE InterruptDeferred(c)
  <2>1. phase' \in [Clients -> Phases]
    BY <1>3, ResumedType DEF InterruptDeferred, Phases
  <2> QED
    BY <1>3, <2>1
    DEF InterruptDeferred, stateVars, jobVars, Typed, Entry, Mail, Phases, Statuses
<1> QED
  BY <1>1, <1>2, <1>3

(* ... subscriptions ... *)
LEMMA TypedSubscriptions ==
    ASSUME Typed, NEW s \in Subscriptions,
           Subscribe(s) \/ Register(s) \/ Close(s) \/ Unsubscribe(s) \/ Closed(s)
    PROVE  Typed'
<1>1. status' \in [Subscriptions -> Statuses]
  BY DEF Subscribe, Register, Close, Unsubscribe, Closed, Typed, Statuses
<1>2. UNCHANGED <<publishers, surplus, sent, shutdown, phase>>
  BY DEF Subscribe, Register, Close, Unsubscribe, Closed, closeRest, jobVars
<1>3. pollers' \in [Subscriptions -> Seq(Consumers)] /\ closing' \in SUBSET Clients
  <2>1. CASE Close(s)
    <3>1. ToSet(pollers[s]) \subseteq Consumers
      BY Members DEF Typed
    <3>2. pollers' = [pollers EXCEPT ![s] = <<>>] /\ closing' = closing \cup ToSet(pollers[s])
      BY <2>1 DEF Close
    <3>3. pollers' \in [Subscriptions -> Seq(Consumers)]
      BY <3>2 DEF Typed
    <3> QED
      BY <3>1, <3>2, <3>3 DEF Typed, Clients
  <2>2. CASE ~Close(s)
    BY <2>2 DEF Subscribe, Register, Unsubscribe, Closed, Typed
  <2> QED
    BY <2>1, <2>2
<1>4. loop' \in {"none", "pollers", "space"}
  BY LoopsType DEF Subscribe, Register, Close, Unsubscribe, Closed, Typed
<1> QED
  BY <1>1, <1>2, <1>3, <1>4 DEF Typed, Entry, Mail, Phases, Statuses

(* ... and shutdown. *)
LEMMA TypedShutdown ==
    ASSUME Typed, Shutdown \/ ShutdownPublishers
    PROVE  Typed'
<1>1. CASE Shutdown
  BY <1>1 DEF Shutdown, closeRest, jobVars, Typed, Entry, Mail, Phases, Statuses
<1>2. CASE ShutdownPublishers
  <2>1. {x.who : x \in {y \in ToSet(publishers) : y.last}} \subseteq Publishers
    <3>1. ToSet(publishers) \subseteq Entry
      BY Members DEF Typed
    <3> QED
      BY <3>1 DEF Entry
  <2>2. closing' \in SUBSET Clients /\ publishers' \in Seq(Entry)
    BY <1>2, <2>1 DEF ShutdownPublishers, Typed, Clients
  <2> QED
    BY <1>2, <2>2 DEF ShutdownPublishers, jobVars, Typed, Entry, Mail, Phases, Statuses
<1> QED
  BY <1>1, <1>2

(* Every step keeps the types. *)
LEMMA NextTyped ==
    ASSUME HubIsRight, Typed, [Next]_vars
    PROVE  Typed'
<1>1. CASE UNCHANGED vars
  BY <1>1
  DEF vars, stateVars, closeVars, jobVars, Typed, Entry, Mail, Phases, Statuses
<1>2. CASE Next
  BY <1>2, TypedLoop, TypedProduce, TypedConsume, TypedClients, TypedSubscriptions, TypedShutdown
  DEF Next
<1> QED
  BY <1>1, <1>2

(* The loops: a poller gets its message, ... *)
LEMMA CompletePollerWaits ==
    ASSUME Typed, Waits, NEW s \in Subscriptions, CompletePoller(s)
    PROVE  Waits'
<1> DEFINE c == Head(pollers[s])
           t == Tail(pollers[s])
<1>1. pollers[s] \in Seq(Consumers) /\ pollers[s] # <<>> /\ pollers' = [pollers EXCEPT ![s] = t]
  BY DEF CompletePoller, Pollable, Typed
<1>2. /\ c \in Consumers /\ c \in ToSet(pollers[s]) /\ t \in Seq(Consumers)
      /\ ToSet(pollers[s]) = ToSet(t) \cup {c}
      /\ Len(t) = Len(pollers[s]) - 1 /\ Len(pollers[s]) \in Nat /\ Len(pollers[s]) > 0
      /\ \A i \in 1 .. Len(pollers[s]) - 1 : t[i] = pollers[s][i + 1]
      /\ c = pollers[s][1]
  BY <1>1, TailMembers
<1>3. ToSet(t) = {t[i] : i \in 1 .. Len(t)}
  BY <1>2, Members
<1>4. Resumed(c, "idle")
  BY DEF CompletePoller
<1>5. UNCHANGED <<kind, publishers, status, shutdown, closing, surplus>>
  BY DEF CompletePoller, closeVars, jobVars
<1> HIDE DEF c, t
<1>6. /\ pollers'[s] = t
      /\ \A u \in Subscriptions : u # s => pollers'[u] = pollers[u]
  BY <1>1 DEF Typed
<1>7. \A d \in Clients :
         phase'[d] = IF d = c /\ phase[c] \in {"taking", "waiting"} THEN "idle" ELSE phase[d]
  BY <1>2, <1>4, ClientsDiffer, ResumedIs
<1>8. /\ \A u \in Subscriptions : \A d \in ToSet(pollers[u]) : Of[d] = u
      /\ \A i, j \in 1 .. Len(pollers[s]) : i < j => pollers[s][i] # pollers[s][j]
  BY DEF Waits, PollersAreOwn
<1>9. c \notin ToSet(t)
  <2> SUFFICES ASSUME NEW i \in 1 .. Len(t), t[i] = c
               PROVE  FALSE
    BY <1>3
  <2>1. i + 1 \in 1 .. Len(pollers[s]) /\ 1 \in 1 .. Len(pollers[s]) /\ 1 < i + 1
        /\ pollers[s][i + 1] = pollers[s][1]
    BY <1>2
  <2> QED
    BY <1>8, <2>1
<1>10. \A u \in Subscriptions : ToSet(pollers'[u]) = ToSet(pollers[u]) \ {c}
  <2> SUFFICES ASSUME NEW u \in Subscriptions
               PROVE  ToSet(pollers'[u]) = ToSet(pollers[u]) \ {c}
    OBVIOUS
  <2>1. CASE u = s
    BY <1>2, <1>6, <1>9, <2>1
  <2>2. CASE u # s
    <3>1. c \notin ToSet(pollers[u])
      <4>1. Of[c] = s
        BY <1>2, <1>8
      <4>2. c \in ToSet(pollers[u]) => Of[c] = u
        BY <1>8
      <4> QED
        BY <2>2, <4>1, <4>2
    <3> QED
      BY <1>6, <2>2, <3>1
  <2> QED
    BY <2>1, <2>2
<1>11. PollersAreOwn'
  <2>1. \A u \in Subscriptions : \A d \in ToSet(pollers'[u]) : Of[d] = u
    BY <1>8, <1>10
  <2>2. \A i, j \in 1 .. Len(t) : i < j => t[i] # t[j]
    <3> SUFFICES ASSUME NEW i \in 1 .. Len(t), NEW j \in 1 .. Len(t), i < j
                 PROVE  t[i] # t[j]
      OBVIOUS
    <3>1. /\ i + 1 \in 1 .. Len(pollers[s]) /\ j + 1 \in 1 .. Len(pollers[s]) /\ i + 1 < j + 1
          /\ t[i] = pollers[s][i + 1] /\ t[j] = pollers[s][j + 1]
      BY <1>2
    <3> QED
      BY <1>8, <3>1
  <2>3. \A u \in Subscriptions : \A i, j \in 1 .. Len(pollers'[u]) :
           i < j => pollers'[u][i] # pollers'[u][j]
    BY <1>6, <2>2 DEF Waits, PollersAreOwn
  <2> QED
    BY <2>1, <2>3 DEF PollersAreOwn
<1>12. TakersAreOpen' /\ SurplusIsThere'
  BY <1>5, <1>7, ClientsDiffer DEF Waits, TakersAreOpen, SurplusIsThere
<1>13. WaitersArePending'
  <2>1. \A u \in Subscriptions : \A d \in ToSet(pollers'[u]) : phase'[d] \in {"taking", "leaving"}
    BY <1>7, <1>10, ListsAre, ClientsDiffer DEF Waits, WaitersArePending
  <2>2. \A x \in ToSet(publishers') : phase'[x.who] \in {"waiting", "leaving"}
    BY <1>2, <1>5, <1>7, ListsAre, ClientsDiffer DEF Waits, WaitersArePending
  <2>3. \A d \in Consumers : phase'[d] = "taking" => d \in ToSet(pollers'[Of[d]]) \cup closing'
    <3> SUFFICES ASSUME NEW d \in Consumers, phase'[d] = "taking"
                 PROVE  d \in ToSet(pollers'[Of[d]]) \cup closing
      BY <1>5
    <3>1. d # c /\ phase[d] = "taking"
      BY <1>7, ClientsDiffer
    <3>2. d \in ToSet(pollers[Of[d]]) \cup closing /\ Of[d] \in Subscriptions
      BY <3>1, OfAssumption DEF Waits, WaitersArePending
    <3> QED
      BY <1>10, <3>1, <3>2
  <2>4. \A p \in Publishers :
           phase'[p] = "waiting" =>
              p \in {x.who : x \in {y \in ToSet(publishers') : y.last}} \cup closing'
    BY <1>2, <1>5, <1>7, ClientsDiffer DEF Waits, WaitersArePending
  <2> QED
    BY <2>1, <2>2, <2>3, <2>4 DEF WaitersArePending
<1> QED
  BY <1>5, <1>11, <1>12, <1>13
  DEF Waits, LastIsLast, OnlyUnderPressure, ShutdownClosesAll

(* ... and a waiting publisher is done with its last message.              *)
LEMMA PublishWaitingWaits ==
    ASSUME Typed, Waits, PublishWaiting
    PROVE  Waits'
<1> DEFINE x == Head(publishers)
           t == Tail(publishers)
<1>1. publishers \in Seq(Entry) /\ publishers # <<>> /\ publishers' = t
  BY DEF PublishWaiting, Room, Typed
<1>2. /\ x \in Entry /\ x \in ToSet(publishers) /\ t \in Seq(Entry)
      /\ ToSet(publishers) = ToSet(t) \cup {x}
      /\ Len(t) = Len(publishers) - 1 /\ Len(publishers) \in Nat /\ Len(publishers) > 0
      /\ \A i \in 1 .. Len(publishers) - 1 : t[i] = publishers[i + 1]
      /\ x = publishers[1]
  BY <1>1, TailMembers
<1>3. ToSet(t) = {t[i] : i \in 1 .. Len(t)}
  BY <1>2, Members
<1>4. IF x.last THEN Resumed(x.who, "idle") ELSE phase' = phase
  BY DEF PublishWaiting
<1>5. UNCHANGED <<kind, pollers, status, shutdown, closing, surplus>>
  BY DEF PublishWaiting, closeVars, jobVars
<1> HIDE DEF x, t
<1>6. x.who \in Publishers /\ x.who \in Clients /\ x.last \in BOOLEAN
  BY <1>2, ListsAre, ClientsDiffer
<1>7. \A d \in Clients :
         phase'[d] = IF x.last /\ d = x.who /\ phase[d] \in {"taking", "waiting"} THEN "idle"
                     ELSE phase[d]
  BY <1>4, <1>6, ResumedIs
<1>8. LastIsLast'
  <2> SUFFICES ASSUME NEW i \in 1 .. Len(t), NEW j \in 1 .. Len(t), i < j, t[i].who = t[j].who
               PROVE  ~t[i].last
    BY <1>1 DEF LastIsLast
  <2>1. /\ i + 1 \in 1 .. Len(publishers) /\ j + 1 \in 1 .. Len(publishers) /\ i + 1 < j + 1
        /\ t[i] = publishers[i + 1] /\ t[j] = publishers[j + 1]
    BY <1>2
  <2> QED
    BY <2>1 DEF Waits, LastIsLast
<1>9. x.last => \A y \in ToSet(t) : y.who # x.who
  <2> SUFFICES ASSUME x.last, NEW i \in 1 .. Len(t), t[i].who = x.who
               PROVE  FALSE
    BY <1>3
  <2>1. /\ i + 1 \in 1 .. Len(publishers) /\ 1 \in 1 .. Len(publishers) /\ 1 < i + 1
        /\ t[i] = publishers[i + 1]
    BY <1>2
  <2> QED
    BY <1>2, <2>1 DEF Waits, LastIsLast
<1>10. TakersAreOpen' /\ SurplusIsThere'
  BY <1>5, <1>7, ClientsDiffer DEF Waits, TakersAreOpen, SurplusIsThere
<1>11. OnlyUnderPressure'
  BY <1>1, <1>5 DEF Waits, OnlyUnderPressure
<1>12. WaitersArePending'
  <2>1. \A u \in Subscriptions : \A d \in ToSet(pollers'[u]) : phase'[d] \in {"taking", "leaving"}
    BY <1>5, <1>6, <1>7, ListsAre, ClientsDiffer DEF Waits, WaitersArePending
  <2>2. \A y \in ToSet(publishers') : phase'[y.who] \in {"waiting", "leaving"}
    BY <1>1, <1>2, <1>7, <1>9, ListsAre, ClientsDiffer DEF Waits, WaitersArePending
  <2>3. \A d \in Consumers : phase'[d] = "taking" => d \in ToSet(pollers'[Of[d]]) \cup closing'
    BY <1>5, <1>7, ClientsDiffer DEF Waits, WaitersArePending
  <2>4. \A p \in Publishers :
           phase'[p] = "waiting" =>
              p \in {y.who : y \in {z \in ToSet(publishers') : z.last}} \cup closing'
    <3> SUFFICES ASSUME NEW p \in Publishers, phase'[p] = "waiting", p \notin closing
                 PROVE  \E z \in ToSet(t) : z.last /\ z.who = p
      BY <1>1, <1>5
    <3>1. phase[p] = "waiting" /\ (x.last => p # x.who)
      BY <1>7, ClientsDiffer
    <3>2. \E z \in ToSet(publishers) : z.last /\ z.who = p
      BY <3>1 DEF Waits, WaitersArePending
    <3> QED
      BY <1>2, <3>1, <3>2
  <2> QED
    BY <2>1, <2>2, <2>3, <2>4 DEF WaitersArePending
<1> QED
  BY <1>5, <1>8, <1>10, <1>11, <1>12
  DEF Waits, PollersAreOwn, ShutdownClosesAll

WaitVars == <<kind, pollers, publishers, status, shutdown, closing, phase, surplus>>

(* A step that changes no list, phase or status keeps what is said of them. *)
LEMMA WaitsStay ==
    ASSUME Waits, UNCHANGED WaitVars
    PROVE  Waits'
  BY DEF WaitVars, Waits, PollersAreOwn, TakersAreOpen, LastIsLast, OnlyUnderPressure,
         SurplusIsThere, WaitersArePending, ShutdownClosesAll

-----------------------------------------------------------------------------
(* Publishers: as long as they are not among the waiting ones, ...         *)
LEMMA PublisherWorks ==
    ASSUME Typed, Waits, NEW p \in Publishers, phase[p] \in {"idle", "surplus"},
           NEW f \in {"idle", "surplus"}, Goes(p, f),
           UNCHANGED <<kind, pollers, publishers, status, shutdown, closing>>,
           \A q \in Publishers : q # p => surplus'[q] = surplus[q],
           f = "surplus" => surplus'[p] # <<>>
    PROVE  Waits'
<1>1. \A d \in Clients : phase'[d] = IF d = p THEN f ELSE phase[d]
  BY ClientsDiffer, GoesIs
<1>2. SurplusIsThere'
  BY <1>1, ClientsDiffer DEF Waits, SurplusIsThere
<1>3. TakersAreOpen'
  BY <1>1, ClientsDiffer DEF Waits, TakersAreOpen
<1>4. \A x \in ToSet(publishers) : x.who # p /\ x.who \in Publishers
  BY ListsAre DEF Waits, WaitersArePending
<1>5. WaitersArePending'
  <2>1. \A s \in Subscriptions : \A d \in ToSet(pollers'[s]) : phase'[d] \in {"taking", "leaving"}
    BY <1>1, ListsAre, ClientsDiffer DEF Waits, WaitersArePending
  <2>2. \A x \in ToSet(publishers') : phase'[x.who] \in {"waiting", "leaving"}
    BY <1>1, <1>4, ClientsDiffer DEF Waits, WaitersArePending
  <2>3. \A d \in Consumers : phase'[d] = "taking" => d \in ToSet(pollers'[Of[d]]) \cup closing'
    BY <1>1, ClientsDiffer DEF Waits, WaitersArePending
  <2>4. \A q \in Publishers :
           phase'[q] = "waiting" =>
              q \in {x.who : x \in {y \in ToSet(publishers') : y.last}} \cup closing'
    BY <1>1, ClientsDiffer DEF Waits, WaitersArePending
  <2> QED
    BY <2>1, <2>2, <2>3, <2>4 DEF WaitersArePending
<1> QED
  BY <1>2, <1>3, <1>5
  DEF Waits, PollersAreOwn, LastIsLast, OnlyUnderPressure, ShutdownClosesAll

(* What a call leaves to the strategy. *)
LEMMA LeavesIs ==
    ASSUME Typed, NEW p \in Publishers, NEW rest, Leaves(p, rest)
    PROVE  /\ Goes(p, IF rest = <<>> THEN "idle" ELSE "surplus")
           /\ surplus'[p] = rest
           /\ \A q \in Publishers : q # p => surplus'[q] = surplus[q]
  BY DEF Leaves, Typed

(* ... in publish and publishAll ... *)
LEMMA PublishWaits ==
    ASSUME Typed, Waits, NEW p \in Publishers,
           PublishOne(p) \/ \E n \in 2 .. MaxBatch : PublishAll(p, n)
    PROVE  Waits'
<1>1. /\ phase[p] = "idle"
      /\ UNCHANGED <<kind, pollers, publishers, status, shutdown, closing>>
  BY DEF PublishOne, PublishAll, Begins, At, closeVars
<1>2. \E rest : Leaves(p, rest)
  BY DEF PublishOne, PublishAll
<1>3. PICK rest : Leaves(p, rest)
  BY <1>2
<1> QED
  BY <1>1, <1>3, LeavesIs, PublisherWorks

(* ... and when messages are dropped or slid out, ... *)
LEMMA DropWaits ==
    ASSUME Typed, Waits, NEW p \in Publishers, Drop(p) \/ Slide(p)
    PROVE  Waits'
<1>1. /\ phase[p] = "surplus" /\ Goes(p, "idle")
      /\ UNCHANGED <<kind, pollers, publishers, status, shutdown, closing>>
  BY DEF Drop, Slide, At, stateVars, closeVars
<1>2. \A q \in Publishers : q # p => surplus'[q] = surplus[q]
  BY DEF Drop, Slide, Handled, Typed
<1> QED
  BY <1>1, <1>2, PublisherWorks

(* ... and then with all of their messages.                                *)
LEMMA PutWaits ==
    ASSUME Typed, Waits, NEW p \in Publishers, Put(p)
    PROVE  Waits'
<1> DEFINE ms == surplus[p]
           entries == [i \in DOMAIN ms |-> [msg |-> ms[i], who |-> p, last |-> i = Len(ms)]]
           f == IF shutdown = "no" THEN "waiting" ELSE "leaving"
<1>1. /\ phase[p] = "surplus" /\ kind.strategy = "backpressure" /\ Goes(p, f)
      /\ publishers' = Joint(publishers, entries)
      /\ UNCHANGED <<kind, pollers, status, shutdown, closing>>
  BY DEF Put, At, closeVars, Joint
<1>2. ms \in Seq(Mail) /\ DOMAIN ms = 1 .. Len(ms) /\ Len(ms) \in Nat /\ Len(ms) > 0
  <2>1. ms \in Seq(Mail)
    BY DEF Typed
  <2>2. ms # <<>>
    BY <1>1 DEF Waits, SurplusIsThere
  <2> HIDE DEF ms
  <2> QED
    BY <2>1, <2>2, EmptySeq
<1>3. \A i \in 1 .. Len(ms) : [msg |-> ms[i], who |-> p, last |-> i = Len(ms)] \in Entry
  BY <1>2 DEF Entry
<1>4. /\ entries \in Seq(Entry) /\ Len(entries) = Len(ms)
      /\ \A i \in 1 .. Len(ms) : entries[i].who = p
      /\ \A i \in 1 .. Len(ms) : entries[i].last <=> i = Len(ms)
  <2>1. \A i \in 1 .. Len(ms) :
           entries[i] = [msg |-> ms[i], who |-> p, last |-> i = Len(ms)]
    BY <1>2
  <2>2. entries \in Seq(Entry) /\ Len(entries) = Len(ms)
    BY <1>2, <1>3
  <2>3. \A i \in 1 .. Len(ms) : entries[i].who = p
    BY <2>1
  <2>4. \A i \in 1 .. Len(ms) : entries[i].last <=> i = Len(ms)
    <3> SUFFICES ASSUME NEW i \in 1 .. Len(ms)
                 PROVE  entries[i].last <=> i = Len(ms)
      OBVIOUS
    <3> DEFINE e == entries[i]
               b == i = Len(ms)
    <3>1. e = [msg |-> ms[i], who |-> p, last |-> b]
      BY <2>1
    <3> HIDE DEF e, b
    <3>2. e.last = b
      BY <3>1
    <3>3. e.last <=> b
      BY <3>2
    <3> QED
      BY <3>3 DEF e, b
  <2> QED
    BY <2>2, <2>3, <2>4
<1> DEFINE n == Len(ms)
           k == Len(publishers)
           all == Joint(publishers, entries)
<1> HIDE DEF entries, f, ms
<1>5. publishers \in Seq(Entry)
  BY DEF Typed
<1>6. /\ ToSet(all) = ToSet(publishers) \cup ToSet(entries)
      /\ Len(all) = k + n /\ k \in Nat
      /\ \A i \in 1 .. k : all[i] = publishers[i]
      /\ \A i \in 1 .. n : all[k + i] = entries[i]
  <2>1. entries \in Seq(Entry)
    BY <1>4
  <2>2. ToSet(all) = ToSet(publishers) \cup ToSet(entries)
    BY <1>5, <2>1, JointMembers
  <2>3. Len(all) = Len(publishers) + Len(entries) /\ Len(publishers) \in Nat
    BY <1>5, <2>1, JointMembers
  <2>4. \A i \in 1 .. Len(publishers) : all[i] = publishers[i]
    BY <1>5, <2>1, JointMembers
  <2>5. \A i \in 1 .. Len(entries) : all[Len(publishers) + i] = entries[i]
    BY <1>5, <2>1, JointMembers
  <2> HIDE DEF all
  <2> QED
    BY <1>4, <2>2, <2>3, <2>4, <2>5
<1>7. ToSet(entries) = {entries[i] : i \in 1 .. n}
  BY <1>4, Members
<1>8. \A d \in Clients : phase'[d] = IF d = p THEN f ELSE phase[d]
  BY <1>1, ClientsDiffer, GoesIs
<1>9. f \in {"waiting", "leaving"}
  BY DEF f
<1>10. \A x \in ToSet(publishers) : x.who # p /\ x.who \in Publishers
  BY <1>1, ListsAre DEF Waits, WaitersArePending
<1>11. \A i \in 1 .. k : publishers[i] \in ToSet(publishers)
  BY ListsAre
<1> HIDE DEF all
<1>12. LastIsLast'
  <2> SUFFICES ASSUME NEW i \in 1 .. k + n, NEW j \in 1 .. k + n, i < j, all[i].who = all[j].who
               PROVE  ~all[i].last
    BY <1>1, <1>6 DEF LastIsLast, all
  <2>1. n \in Nat /\ n > 0
    BY <1>2
  <2>2. CASE j <= k
    <3>1. i \in 1 .. k /\ j \in 1 .. k
      BY <1>6, <2>2
    <3> QED
      BY <1>6, <3>1 DEF Waits, LastIsLast
  <2>3. CASE j > k
    <3>1. j - k \in 1 .. n /\ k + (j - k) = j
      BY <1>6, <2>1, <2>3
    <3>2. all[j].who = p
      BY <1>4, <1>6, <3>1 DEF n
    <3>3. ~(i <= k)
      <4>1. i <= k => all[i] = publishers[i] /\ publishers[i].who # p
        BY <1>6, <1>10, <1>11
      <4> QED
        BY <3>2, <4>1
    <3>4. i - k \in 1 .. n /\ k + (i - k) = i /\ i - k # n
      BY <1>6, <2>1, <3>1, <3>3
    <3> QED
      BY <1>4, <1>6, <3>4 DEF n
  <2> QED
    BY <1>6, <2>2, <2>3
<1>13. SurplusIsThere'
  <2>1. \A q \in Publishers : q # p => surplus'[q] = surplus[q]
    BY DEF Put, Handled, Typed
  <2> QED
    BY <1>8, <1>9, <2>1, ClientsDiffer DEF Waits, SurplusIsThere
<1>14. TakersAreOpen'
  BY <1>1, <1>8, ClientsDiffer DEF Waits, TakersAreOpen
<1>15. WaitersArePending'
  <2>1. \A s \in Subscriptions : \A d \in ToSet(pollers'[s]) : phase'[d] \in {"taking", "leaving"}
    BY <1>1, <1>8, ListsAre, ClientsDiffer DEF Waits, WaitersArePending
  <2>2. \A x \in ToSet(publishers') : phase'[x.who] \in {"waiting", "leaving"}
    <3>1. \A x \in ToSet(entries) : x.who = p
      BY <1>4, <1>7 DEF n
    <3>2. \A x \in ToSet(publishers) : phase'[x.who] \in {"waiting", "leaving"}
      BY <1>8, <1>10, ClientsDiffer DEF Waits, WaitersArePending
    <3> QED
      BY <1>1, <1>6, <1>8, <1>9, <3>1, <3>2, ClientsDiffer DEF all
  <2>3. \A d \in Consumers : phase'[d] = "taking" => d \in ToSet(pollers'[Of[d]]) \cup closing'
    BY <1>1, <1>8, ClientsDiffer DEF Waits, WaitersArePending
  <2>4. \A q \in Publishers :
           phase'[q] = "waiting" =>
              q \in {x.who : x \in {y \in ToSet(publishers') : y.last}} \cup closing'
    <3> SUFFICES ASSUME NEW q \in Publishers, phase'[q] = "waiting", q \notin closing
                 PROVE  \E x \in ToSet(all) : x.last /\ x.who = q
      BY <1>1 DEF all
    <3>1. CASE q = p
      <4>1. n \in 1 .. n
        BY <1>2
      <4>2. entries[n] \in ToSet(entries) /\ entries[n].last /\ entries[n].who = p
        BY <1>4, <1>7, <4>1 DEF n
      <4> QED
        BY <1>6, <3>1, <4>2
    <3>2. CASE q # p
      <4>1. phase[q] = "waiting"
        BY <1>8, <3>2, ClientsDiffer
      <4>2. \E x \in ToSet(publishers) : x.last /\ x.who = q
        BY <4>1 DEF Waits, WaitersArePending
      <4> QED
        BY <1>6, <4>2
    <3> QED
      BY <3>1, <3>2
  <2> QED
    BY <2>1, <2>2, <2>3, <2>4 DEF WaitersArePending
<1>16. OnlyUnderPressure'
  BY <1>1 DEF OnlyUnderPressure
<1> QED
  BY <1>1, <1>12, <1>13, <1>14, <1>15, <1>16
  DEF Waits, PollersAreOwn, ShutdownClosesAll

-----------------------------------------------------------------------------
(* Consumers.                                                              *)
LEMMA TakeWaits ==
    ASSUME Typed, Waits, NEW c \in Consumers, TakeNothing(c)
    PROVE  Waits'
<1>1. /\ phase[c] = "idle" /\ status[Of[c]] = "open" /\ Goes(c, "polled")
      /\ UNCHANGED <<kind, pollers, publishers, status, shutdown, closing, surplus>>
  BY DEF TakeNothing, Takes, At, closeVars
<1>2. \A d \in Clients : phase'[d] = IF d = c THEN "polled" ELSE phase[d]
  BY <1>1, ClientsDiffer, GoesIs
<1>3. TakersAreOpen' /\ SurplusIsThere'
  BY <1>1, <1>2, ClientsDiffer DEF Waits, TakersAreOpen, SurplusIsThere
<1>4. WaitersArePending'
  <2>1. \A s \in Subscriptions : \A d \in ToSet(pollers'[s]) : phase'[d] \in {"taking", "leaving"}
    BY <1>1, <1>2, ListsAre, ClientsDiffer DEF Waits, WaitersArePending
  <2>2. \A x \in ToSet(publishers') : phase'[x.who] \in {"waiting", "leaving"}
    BY <1>1, <1>2, ListsAre, ClientsDiffer DEF Waits, WaitersArePending
  <2>3. \A d \in Consumers : phase'[d] = "taking" => d \in ToSet(pollers'[Of[d]]) \cup closing'
    BY <1>1, <1>2, ClientsDiffer DEF Waits, WaitersArePending
  <2>4. \A p \in Publishers :
           phase'[p] = "waiting" =>
              p \in {x.who : x \in {y \in ToSet(publishers') : y.last}} \cup closing'
    BY <1>1, <1>2, ClientsDiffer DEF Waits, WaitersArePending
  <2> QED
    BY <2>1, <2>2, <2>3, <2>4 DEF WaitersArePending
<1> QED
  BY <1>1, <1>3, <1>4
  DEF Waits, PollersAreOwn, LastIsLast, OnlyUnderPressure, ShutdownClosesAll

(* take enters its Deferred, and leaves when the subscription was shut down. *)
LEMMA WaitWaits ==
    ASSUME Typed, Waits, NEW c \in Consumers, Wait(c)
    PROVE  Waits'
<1> DEFINE s == Of[c]
           t == Append(pollers[s], c)
           f == IF ShutDown(s) THEN "leaving" ELSE "taking"
<1>1. /\ phase[c] = "polled" /\ Goes(c, f) /\ pollers' = [pollers EXCEPT ![s] = t]
      /\ UNCHANGED <<kind, publishers, status, shutdown, closing, surplus>>
  BY DEF Wait, At, closeVars, jobVars
<1>2. s \in Subscriptions /\ pollers[s] \in Seq(Consumers)
  BY OfAssumption DEF Typed
<1>3. f \in {"leaving", "taking"}
  OBVIOUS
<1> DEFINE n == Len(pollers[s])
<1>4. /\ ToSet(t) = ToSet(pollers[s]) \cup {c}
      /\ Len(t) = n + 1 /\ n \in Nat
      /\ \A i \in 1 .. n : t[i] = pollers[s][i]
      /\ t[n + 1] = c
  BY <1>2, AppendMembers
<1>5. ToSet(pollers[s]) = {pollers[s][i] : i \in 1 .. n}
  BY <1>2, Members
<1>6. s = Of[c]
  OBVIOUS
<1> HIDE DEF s, t, f
<1>7. pollers'[s] = t /\ \A u \in Subscriptions : u # s => pollers'[u] = pollers[u]
  BY <1>1, <1>2 DEF Typed
<1>8. \A d \in Clients : phase'[d] = IF d = c THEN f ELSE phase[d]
  BY <1>1, ClientsDiffer, GoesIs
<1>9. \A u \in Subscriptions : c \notin ToSet(pollers[u])
  BY <1>1 DEF Waits, WaitersArePending
<1>10. PollersAreOwn'
  <2>1. \A u \in Subscriptions : \A d \in ToSet(pollers'[u]) : Of[d] = u
    BY <1>4, <1>6, <1>7 DEF Waits, PollersAreOwn
  <2>2. \A i, j \in 1 .. n + 1 : i < j => t[i] # t[j]
    <3> SUFFICES ASSUME NEW i \in 1 .. n + 1, NEW j \in 1 .. n + 1, i < j
                 PROVE  t[i] # t[j]
      OBVIOUS
    <3>1. i \in 1 .. n
      BY <1>4
    <3>2. CASE j \in 1 .. n
      BY <1>2, <1>4, <3>1, <3>2 DEF Waits, PollersAreOwn
    <3>3. CASE j = n + 1
      BY <1>2, <1>4, <1>5, <1>9, <3>1, <3>3
    <3> QED
      BY <1>4, <3>2, <3>3
  <2>3. \A u \in Subscriptions : \A i, j \in 1 .. Len(pollers'[u]) :
           i < j => pollers'[u][i] # pollers'[u][j]
    <3> SUFFICES ASSUME NEW u \in Subscriptions
                 PROVE  \A i, j \in 1 .. Len(pollers'[u]) :
                           i < j => pollers'[u][i] # pollers'[u][j]
      OBVIOUS
    <3>1. CASE u = s
      BY <1>4, <1>7, <2>2, <3>1
    <3>2. CASE u # s
      BY <1>7, <3>2 DEF Waits, PollersAreOwn
    <3> QED
      BY <3>1, <3>2
  <2> QED
    BY <2>1, <2>3 DEF PollersAreOwn
<1>11. TakersAreOpen' /\ SurplusIsThere'
  BY <1>1, <1>8, ClientsDiffer DEF Waits, TakersAreOpen, SurplusIsThere
<1>12. WaitersArePending'
  <2>1. \A u \in Subscriptions : \A d \in ToSet(pollers'[u]) : phase'[d] \in {"taking", "leaving"}
    <3> SUFFICES ASSUME NEW u \in Subscriptions, NEW d \in ToSet(pollers'[u])
                 PROVE  phase'[d] \in {"taking", "leaving"}
      OBVIOUS
    <3>1. d = c \/ d \in ToSet(pollers[u])
      BY <1>4, <1>7
    <3>2. CASE d = c
      BY <1>3, <1>8, <3>2, ClientsDiffer
    <3>3. CASE d \in ToSet(pollers[u])
      BY <1>8, <1>9, <3>3, ListsAre, ClientsDiffer DEF Waits, WaitersArePending
    <3> QED
      BY <3>1, <3>2, <3>3
  <2>2. \A x \in ToSet(publishers') : phase'[x.who] \in {"waiting", "leaving"}
    BY <1>1, <1>8, ListsAre, ClientsDiffer DEF Waits, WaitersArePending
  <2>3. \A d \in Consumers : phase'[d] = "taking" => d \in ToSet(pollers'[Of[d]]) \cup closing'
    <3> SUFFICES ASSUME NEW d \in Consumers, phase'[d] = "taking"
                 PROVE  d \in ToSet(pollers'[Of[d]]) \cup closing
      BY <1>1
    <3>1. CASE d = c
      BY <1>4, <1>6, <1>7, <3>1
    <3>2. CASE d # c
      <4>1. d \in ToSet(pollers[Of[d]]) \cup closing /\ Of[d] \in Subscriptions
        BY <1>8, <3>2, ClientsDiffer, OfAssumption DEF Waits, WaitersArePending
      <4> QED
        BY <1>4, <1>7, <4>1
    <3> QED
      BY <3>1, <3>2
  <2>4. \A p \in Publishers :
           phase'[p] = "waiting" =>
              p \in {x.who : x \in {y \in ToSet(publishers') : y.last}} \cup closing'
    BY <1>1, <1>8, ClientsDiffer DEF Waits, WaitersArePending
  <2> QED
    BY <2>1, <2>2, <2>3, <2>4 DEF WaitersArePending
<1> QED
  BY <1>1, <1>10, <1>11, <1>12 DEF Waits, LastIsLast, OnlyUnderPressure, ShutdownClosesAll

-----------------------------------------------------------------------------
(* Interruption: who ends is in no list any more.                          *)
LEMMA EndWaits ==
    ASSUME Typed, Waits, NEW c \in Clients, End(c)
    PROVE  Waits'
<1> DEFINE own == {x \in ToSet(publishers) : x.who = c}
           r == Removed(publishers, own)
<1>1. /\ Goes(c, "idle") /\ publishers' = r
      /\ pollers' = [s \in Subscriptions |-> Removed(pollers[s], {c})]
      /\ UNCHANGED <<kind, status, shutdown, closing, surplus>>
  BY DEF End, closeVars, jobVars
<1>2. \A s \in Subscriptions :
         /\ pollers'[s] \in Seq(Consumers) /\ ToSet(pollers'[s]) = ToSet(pollers[s]) \ {c}
         /\ Sifted(Consumers, pollers[s], {c}, Len(pollers[s]), pollers'[s])
  BY <1>1, RemovedMembers, RemovedIsSifted DEF Typed
<1>3. /\ r \in Seq(Entry) /\ ToSet(r) = ToSet(publishers) \ own
      /\ Sifted(Entry, publishers, own, Len(publishers), r)
  BY RemovedMembers, RemovedIsSifted DEF Typed
<1>4. \A x : x \in own <=> x \in ToSet(publishers) /\ x.who = c
  OBVIOUS
<1> HIDE DEF own, r
<1>5. \A d \in Clients : phase'[d] = IF d = c THEN "idle" ELSE phase[d]
  BY <1>1, GoesIs
<1>6. PollersAreOwn'
  <2>1. \A s \in Subscriptions : \A d \in ToSet(pollers'[s]) : Of[d] = s
    BY <1>2 DEF Waits, PollersAreOwn
  <2>2. \A s \in Subscriptions : \A i, j \in 1 .. Len(pollers'[s]) :
           i < j => pollers'[s][i] # pollers'[s][j]
    <3> SUFFICES ASSUME NEW s \in Subscriptions,
                        NEW i \in 1 .. Len(pollers'[s]), NEW j \in 1 .. Len(pollers'[s]), i < j
                 PROVE  pollers'[s][i] # pollers'[s][j]
      OBVIOUS
    <3>1. \E a, b \in 1 .. Len(pollers[s]) :
             a < b /\ pollers[s][a] = pollers'[s][i] /\ pollers[s][b] = pollers'[s][j]
      BY <1>2, ZenonT(30) DEF Sifted
    <3> QED
      BY <3>1 DEF Waits, PollersAreOwn
  <2> QED
    BY <2>1, <2>2 DEF PollersAreOwn
<1>7. LastIsLast'
  <2> SUFFICES ASSUME NEW i \in 1 .. Len(r), NEW j \in 1 .. Len(r), i < j, r[i].who = r[j].who
               PROVE  ~r[i].last
    BY <1>1 DEF LastIsLast
  <2>1. \E a, b \in 1 .. Len(publishers) :
           a < b /\ publishers[a] = r[i] /\ publishers[b] = r[j]
    BY <1>3 DEF Sifted
  <2> QED
    BY <2>1 DEF Waits, LastIsLast
<1>8. TakersAreOpen' /\ SurplusIsThere'
  BY <1>1, <1>5, ClientsDiffer DEF Waits, TakersAreOpen, SurplusIsThere
<1>9. OnlyUnderPressure'
  <2>1. publishers = <<>> => r = <<>>
    <3> SUFFICES ASSUME publishers = <<>>, r # <<>>
                 PROVE  FALSE
      OBVIOUS
    <3>1. Head(r) \in ToSet(r)
      BY <1>3, TailMembers
    <3>2. ToSet(publishers) = {}
      BY DEF ToSet
    <3> QED
      BY <1>3, <3>1, <3>2
  <2> QED
    BY <1>1, <2>1 DEF Waits, OnlyUnderPressure
<1>10. WaitersArePending'
  <2>1. \A s \in Subscriptions : \A d \in ToSet(pollers'[s]) : phase'[d] \in {"taking", "leaving"}
    BY <1>2, <1>5, ListsAre, ClientsDiffer, SMTT(30) DEF Waits, WaitersArePending
  <2>2. \A x \in ToSet(publishers') : phase'[x.who] \in {"waiting", "leaving"}
    BY <1>1, <1>3, <1>4, <1>5, ListsAre, ClientsDiffer DEF Waits, WaitersArePending
  <2>3. \A d \in Consumers : phase'[d] = "taking" => d \in ToSet(pollers'[Of[d]]) \cup closing'
    <3> SUFFICES ASSUME NEW d \in Consumers, phase'[d] = "taking"
                 PROVE  d \in ToSet(pollers'[Of[d]]) \cup closing
      BY <1>1
    <3>1. d # c /\ phase[d] = "taking"
      BY <1>5, ClientsDiffer
    <3>2. d \in ToSet(pollers[Of[d]]) \cup closing /\ Of[d] \in Subscriptions
      BY <3>1, OfAssumption DEF Waits, WaitersArePending
    <3> QED
      BY <1>2, <3>1, <3>2
  <2>4. \A p \in Publishers :
           phase'[p] = "waiting" =>
              p \in {x.who : x \in {y \in ToSet(publishers') : y.last}} \cup closing'
    <3> SUFFICES ASSUME NEW p \in Publishers, phase'[p] = "waiting", p \notin closing
                 PROVE  \E x \in ToSet(r) : x.last /\ x.who = p
      BY <1>1
    <3>1. p # c /\ phase[p] = "waiting"
      BY <1>5, ClientsDiffer
    <3>2. \E x \in ToSet(publishers) : x.last /\ x.who = p
      BY <3>1 DEF Waits, WaitersArePending
    <3> QED
      BY <1>3, <1>4, <3>1, <3>2
  <2> QED
    BY <2>1, <2>2, <2>3, <2>4 DEF WaitersArePending
<1> QED
  BY <1>1, <1>6, <1>7, <1>8, <1>9, <1>10 DEF Waits, ShutdownClosesAll

(* An interrupted Deferred lets its client go. *)
LEMMA InterruptDeferredWaits ==
    ASSUME Typed, Waits, NEW c \in Clients, InterruptDeferred(c)
    PROVE  Waits'
<1>1. /\ closing' = closing \ {c} /\ Resumed(c, "leaving")
      /\ UNCHANGED <<kind, pollers, publishers, status, shutdown, surplus>>
  BY DEF InterruptDeferred, stateVars, jobVars
<1>2. \A d \in Clients :
         phase'[d] = IF d = c /\ phase[c] \in {"taking", "waiting"} THEN "leaving" ELSE phase[d]
  BY <1>1, ResumedIs
<1>3. TakersAreOpen' /\ SurplusIsThere'
  BY <1>1, <1>2, ClientsDiffer DEF Waits, TakersAreOpen, SurplusIsThere
<1>4. WaitersArePending'
  <2>1. \A s \in Subscriptions : \A d \in ToSet(pollers'[s]) : phase'[d] \in {"taking", "leaving"}
    BY <1>1, <1>2, ListsAre, ClientsDiffer DEF Waits, WaitersArePending
  <2>2. \A x \in ToSet(publishers') : phase'[x.who] \in {"waiting", "leaving"}
    BY <1>1, <1>2, ListsAre, ClientsDiffer DEF Waits, WaitersArePending
  <2>3. \A d \in Consumers : phase'[d] = "taking" => d \in ToSet(pollers'[Of[d]]) \cup closing'
    BY <1>1, <1>2, ClientsDiffer DEF Waits, WaitersArePending
  <2>4. \A p \in Publishers :
           phase'[p] = "waiting" =>
              p \in {x.who : x \in {y \in ToSet(publishers') : y.last}} \cup closing'
    BY <1>1, <1>2, ClientsDiffer DEF Waits, WaitersArePending
  <2> QED
    BY <2>1, <2>2, <2>3, <2>4 DEF WaitersArePending
<1> QED
  BY <1>1, <1>3, <1>4
  DEF Waits, PollersAreOwn, LastIsLast, OnlyUnderPressure, ShutdownClosesAll

-----------------------------------------------------------------------------
(* Subscriptions.                                                          *)
LEMMA SubscriptionWaits ==
    ASSUME Typed, Waits, NEW s \in Subscriptions,
           Subscribe(s) \/ Register(s) \/ Unsubscribe(s) \/ Closed(s)
    PROVE  Waits'
<1>1. UNCHANGED <<kind, pollers, publishers, shutdown, closing, phase, surplus>>
  BY DEF Subscribe, Register, Unsubscribe, Closed, closeRest, jobVars
<1>2. \A t \in Subscriptions : t # s => status'[t] = status[t]
  BY DEF Subscribe, Register, Unsubscribe, Closed, Typed
<1>3. /\ status[s] = "none" \/ status'[s] \notin {"none", "opening"}
      /\ status'[s] = "open" => shutdown = "no"
  BY DEF Subscribe, Register, Unsubscribe, Closed, Typed
<1>4. TakersAreOpen'
  <2> SUFFICES ASSUME NEW c \in Consumers, phase[c] # "idle"
               PROVE  status'[Of[c]] \notin {"none", "opening"}
    BY <1>1 DEF TakersAreOpen
  <2>1. status[Of[c]] \notin {"none", "opening"} /\ Of[c] \in Subscriptions
    BY OfAssumption DEF Waits, TakersAreOpen
  <2> QED
    BY <1>2, <1>3, <2>1
<1>5. ShutdownClosesAll'
  BY <1>1, <1>2, <1>3 DEF Waits, ShutdownClosesAll
<1> QED
  BY <1>1, <1>4, <1>5
  DEF Waits, PollersAreOwn, LastIsLast, OnlyUnderPressure, SurplusIsThere, WaitersArePending

(* shutdown of a subscription takes its pollers along. *)
LEMMA CloseWaits ==
    ASSUME Typed, Waits, NEW s \in Subscriptions, Close(s)
    PROVE  Waits'
<1>1. UNCHANGED <<kind, publishers, shutdown, phase, surplus>>
  BY DEF Close, closeRest, jobVars
<1>2. /\ status'[s] = "closing"
      /\ \A t \in Subscriptions : t # s => status'[t] = status[t]
      /\ closing' = closing \cup ToSet(pollers[s])
      /\ pollers'[s] = <<>>
      /\ \A t \in Subscriptions : t # s => pollers'[t] = pollers[t]
  BY DEF Close, Typed
<1>3. ToSet(<<>>) = {} /\ Len(<<>>) = 0
  BY DEF ToSet
<1>4. \A t \in Subscriptions : ToSet(pollers'[t]) \subseteq ToSet(pollers[t])
  BY <1>2, <1>3
<1>5. PollersAreOwn'
  BY <1>2, <1>3, <1>4 DEF Waits, PollersAreOwn
<1>6. TakersAreOpen' /\ ShutdownClosesAll'
  BY <1>1, <1>2, OfAssumption DEF Waits, TakersAreOpen, ShutdownClosesAll
<1>7. WaitersArePending'
  <2>1. \A t \in Subscriptions : \A d \in ToSet(pollers'[t]) : phase'[d] \in {"taking", "leaving"}
    BY <1>1, <1>4 DEF Waits, WaitersArePending
  <2>2. \A x \in ToSet(publishers') : phase'[x.who] \in {"waiting", "leaving"}
    BY <1>1 DEF Waits, WaitersArePending
  <2>3. \A d \in Consumers : phase'[d] = "taking" => d \in ToSet(pollers'[Of[d]]) \cup closing'
    <3> SUFFICES ASSUME NEW d \in Consumers, phase[d] = "taking"
                 PROVE  d \in ToSet(pollers'[Of[d]]) \cup closing'
      BY <1>1
    <3>1. d \in ToSet(pollers[Of[d]]) \cup closing /\ Of[d] \in Subscriptions
      BY OfAssumption DEF Waits, WaitersArePending
    <3> QED
      BY <1>2, <3>1
  <2>4. \A p \in Publishers :
           phase'[p] = "waiting" =>
              p \in {x.who : x \in {y \in ToSet(publishers') : y.last}} \cup closing'
    BY <1>1, <1>2 DEF Waits, WaitersArePending
  <2> QED
    BY <2>1, <2>2, <2>3, <2>4 DEF WaitersArePending
<1> QED
  BY <1>1, <1>5, <1>6, <1>7 DEF Waits, LastIsLast, OnlyUnderPressure, SurplusIsThere

(* shutdown of the hub takes the publishers along. *)
LEMMA ShutdownWaits ==
    ASSUME Typed, Waits, Shutdown \/ ShutdownPublishers
    PROVE  Waits'
<1>1. CASE Shutdown
  <2>1. /\ UNCHANGED <<kind, pollers, publishers, status, closing, phase, surplus>>
        /\ shutdown' = "scope"
    BY <1>1 DEF Shutdown, closeRest, jobVars
  <2> QED
    BY <2>1 DEF Waits, PollersAreOwn, TakersAreOpen, LastIsLast, OnlyUnderPressure,
                SurplusIsThere, WaitersArePending, ShutdownClosesAll
<1>2. CASE ShutdownPublishers
  <2>1. /\ UNCHANGED <<kind, pollers, status, phase, surplus>>
        /\ closing' = closing \cup {x.who : x \in {y \in ToSet(publishers) : y.last}}
        /\ publishers' = <<>>
        /\ \A s \in Subscriptions : status[s] # "open"
    BY <1>2 DEF ShutdownPublishers, jobVars
  <2>2. ToSet(<<>>) = {} /\ Len(<<>>) = 0
    BY DEF ToSet
  <2>3. LastIsLast' /\ OnlyUnderPressure' /\ ShutdownClosesAll'
    BY <2>1, <2>2 DEF LastIsLast, OnlyUnderPressure, ShutdownClosesAll
  <2>4. WaitersArePending'
    BY <2>1, <2>2 DEF Waits, WaitersArePending
  <2> QED
    BY <2>1, <2>3, <2>4 DEF Waits, PollersAreOwn, TakersAreOpen, SurplusIsThere
<1> QED
  BY <1>1, <1>2

(* Every step keeps what is said of the lists. *)
LEMMA NextWaits ==
    ASSUME Typed, Waits, [Next]_vars
    PROVE  Waits'
<1>1. CASE UNCHANGED vars
  BY <1>1, WaitsStay DEF vars, stateVars, closeVars, jobVars, WaitVars
<1>2. CASE Loop
  BY <1>2, CompletePollerWaits, PublishWaitingWaits DEF Loop
<1>3. ASSUME NEW p \in Publishers, Produce(p)
      PROVE  Waits'
  BY <1>3, PublishWaits, DropWaits, PutWaits DEF Produce
<1>4. ASSUME NEW c \in Consumers, Consume(c)
      PROVE  Waits'
  <2>1. ASSUME NEW n \in 1 .. MaxBatch, TakeUpTo(c, n)
        PROVE  Waits'
    BY <2>1, WaitsStay DEF TakeUpTo, Takes, closeVars, WaitVars
  <2> QED
    BY <1>4, <2>1, TakeWaits, WaitWaits DEF Consume
<1>5. ASSUME NEW c \in Clients, Interrupt(c) \/ End(c) \/ InterruptDeferred(c)
      PROVE  Waits'
  <2>1. CASE Interrupt(c)
    BY <2>1, WaitsStay DEF Interrupt, stateVars, closeVars, jobVars, WaitVars
  <2> QED
    BY <1>5, <2>1, EndWaits, InterruptDeferredWaits
<1>6. ASSUME NEW s \in Subscriptions,
             Subscribe(s) \/ Register(s) \/ Close(s) \/ Unsubscribe(s) \/ Closed(s)
      PROVE  Waits'
  BY <1>6, SubscriptionWaits, CloseWaits
<1> QED
  BY <1>1, <1>2, <1>3, <1>4, <1>5, <1>6, ShutdownWaits DEF Next

PollersLackMessages ==
    \A s \in Subscriptions : pollers[s] # <<>> => ShutDown(s) \/ Available(hub, s) = 0
PublishersLackRoom ==
    publishers # <<>> =>
        IsFull(hub) \/ \E s \in Subscriptions : status[s] = "unsubscribed"

(* NobodyWaitsInVain has a part on pollers and one on publishers. *)
LEMMA VainIs == NobodyWaitsInVain <=> (Idle => PollersLackMessages /\ PublishersLackRoom)
  BY DEF NobodyWaitsInVain, PollersLackMessages, PublishersLackRoom

(* Who is in pollers has an open subscription, or had one. *)
LEMMA PollersAreOpen ==
    ASSUME Typed, Waits, NEW s \in Subscriptions, pollers[s] # <<>>
    PROVE  ShutDown(s) \/ (s \in On /\ status[s] = "open")
<1> DEFINE c == Head(pollers[s])
<1>1. c \in Consumers /\ c \in ToSet(pollers[s])
  BY TailMembers DEF Typed
<1> HIDE DEF c
<1>2. Of[c] = s /\ phase[c] # "idle"
  BY <1>1 DEF Waits, PollersAreOwn, WaitersArePending
<1>3. status[s] \notin {"none", "opening"} /\ status[s] \in Statuses
  BY <1>1, <1>2 DEF Waits, TakersAreOpen, Typed
<1> QED
  BY <1>3 DEF On, Subscribed, ShutDown, Statuses

(* The same in the next state. *)
LEMMA NextPollersAreOpen ==
    ASSUME Typed', Waits', NEW s \in Subscriptions, pollers'[s] # <<>>
    PROVE  ShutDown(s)' \/ (s \in On' /\ status'[s] = "open")
<1> DEFINE c == Head(pollers'[s])
<1>1. c \in Consumers /\ c \in ToSet(pollers'[s])
  BY TailMembers DEF Typed
<1> HIDE DEF c
<1>2. Of[c] = s /\ phase'[c] # "idle"
  BY <1>1 DEF Waits, PollersAreOwn, WaitersArePending
<1>3. status'[s] \notin {"none", "opening"} /\ status'[s] \in Statuses
  BY <1>1, <1>2 DEF Waits, TakersAreOpen, Typed, Statuses
<1> QED
  BY <1>3 DEF On, Subscribed, ShutDown, Statuses

(* When the loops are done, nobody waits for what they look for. *)
LEMMA LoopsEnd ==
    ASSUME HubIsRight', Typed', Waits', kind' = kind,
           NEW l \in {"pollers", "space"}, Loops(l), loop' = "none"
    PROVE  PollersLackMessages' /\ (l = "space" => PublishersLackRoom')
<1>1. ~Work(l)'
  BY DEF Loops
<1>2. PollersLackMessages'
  <2> SUFFICES ASSUME NEW s \in Subscriptions, pollers'[s] # <<>>, ~ShutDown(s)'
               PROVE  Available(hub, s)' = 0
    BY DEF PollersLackMessages
  <2>1. s \in On' /\ Subscribed(s)'
    BY NextPollersAreOpen DEF On
  <2>2. ~(Available(hub, s)' > 0)
    BY <1>1, <2>1 DEF Work, Pollable
  <2>3. Available(hub', s) \in Nat
    <3>1. /\ kind \in Kinds /\ hub' \in Hubs /\ log' \in Seq(Mail) /\ Fits(hub', log', On')
          /\ On' \in SUBSET Subscriptions
      BY NextFits DEF HubIsRight, Mail, On
    <3> QED
      BY <2>1, <3>1, AvailableIs
  <2>4. Available(hub, s)' = Available(hub', s)
    BY NextShows
  <2> QED
    BY <2>2, <2>3, <2>4
<1>3. l = "space" => PublishersLackRoom'
  BY <1>1 DEF Work, Room, PublishersLackRoom
<1> QED
  BY <1>2, <1>3

(* A step without the loops. *)
LEMMA VainStays ==
    ASSUME kind' = kind, loop' = loop, NobodyWaitsInVain,
           \A s \in Subscriptions :
              pollers'[s] # <<>> =>
                 /\ pollers[s] # <<>>
                 /\ ShutDown(s) => ShutDown(s)'
                 /\ Available(hub, s) = 0 => ShutDown(s)' \/ Available(hub', s) = 0,
           publishers' # <<>> => publishers # <<>>,
           \/ \E s \in Subscriptions : status'[s] = "unsubscribed"
           \/ /\ IsFull(hub) => IsFull(hub')
              /\ \A s \in Subscriptions : status[s] # "unsubscribed"
    PROVE  NobodyWaitsInVain'
<1>1. SUFFICES ASSUME loop' = "none"
               PROVE  PollersLackMessages' /\ PublishersLackRoom'
  BY DEF NobodyWaitsInVain, PollersLackMessages, PublishersLackRoom, Idle
<1>2. PollersLackMessages /\ PublishersLackRoom
  BY <1>1, VainIs DEF Idle
<1>3. PollersLackMessages'
  BY <1>2, NextShows DEF PollersLackMessages
<1>4. PublishersLackRoom'
  BY <1>2, NextShows DEF PublishersLackRoom
<1> QED
  BY <1>3, <1>4

(* A step that leaves the hub alone. *)
LEMMA VainQuiet ==
    ASSUME UNCHANGED <<kind, hub, loop>>, NobodyWaitsInVain,
           \A s \in Subscriptions :
              pollers'[s] # <<>> => pollers[s] # <<>> /\ (ShutDown(s) => ShutDown(s)'),
           publishers' # <<>> => publishers # <<>>,
           \A s \in Subscriptions : status[s] = "unsubscribed" => status'[s] = "unsubscribed"
    PROVE  NobodyWaitsInVain'
  BY VainStays

(* Two states in which the subscription is at the same place. *)
LEMMA SameAvailable ==
    ASSUME HubIsRight, HubIsRight', kind' = kind, log' = log,
           NEW s \in On, s \in On', Cursor(hub', s) = Cursor(hub, s)
    PROVE  Available(hub', s) = Available(hub, s)
<1>1. /\ kind \in Kinds /\ hub' \in Hubs /\ log' \in Seq(Mail) /\ Fits(hub', log', On')
      /\ On' \in SUBSET Subscriptions
  BY NextFits DEF HubIsRight, Mail, On
<1>2. Available(hub', s) = Len(log') - Cursor(hub', s)
  BY <1>1, AvailableIs
<1>3. Available(hub, s) = Len(log) - Cursor(hub, s)
  BY AvailableIs, OnIs DEF HubIsRight
<1> QED
  BY <1>2, <1>3

(* The steps that end with both loops. *)
LEMMA SpaceVain ==
    ASSUME HubIsRight', Typed', Waits', kind' = kind, Loops("space")
    PROVE  NobodyWaitsInVain'
<1>1. loop' = "none" => PollersLackMessages' /\ PublishersLackRoom'
  BY LoopsEnd
<1> QED
  BY <1>1 DEF NobodyWaitsInVain, PollersLackMessages, PublishersLackRoom, Idle

(* The steps that make no room. *)
LEMMA PollersVain ==
    ASSUME HubIsRight', Typed', Waits', kind' = kind, Loops("pollers"),
           Idle, NobodyWaitsInVain,
           publishers' # <<>> => publishers # <<>> /\ (IsFull(hub) => IsFull(hub')),
           status' = status
    PROVE  NobodyWaitsInVain'
<1>1. loop' = "none" => PollersLackMessages'
  BY LoopsEnd
<1>2. PublishersLackRoom
  BY VainIs
<1>3. PublishersLackRoom'
  BY <1>2, NextShows DEF PublishersLackRoom
<1> QED
  BY <1>1, <1>3 DEF NobodyWaitsInVain, PollersLackMessages, PublishersLackRoom, Idle

(* Publishers let nobody wait in vain, ... *)
LEMMA ProduceVain ==
    ASSUME HubIsRight, Typed, Waits, NobodyWaitsInVain, HubIsRight', Typed', Waits',
           kind' = kind, NEW p \in Publishers, Produce(p)
    PROVE  NobodyWaitsInVain'
<1>1. CASE PublishOne(p)
  <2>1. /\ Idle /\ Loops("pollers") /\ publishers' = publishers /\ status' = status
        /\ IsFull(hub) => hub' = hub
    BY <1>1 DEF PublishOne, Begins, At, closeVars
  <2> QED
    BY <2>1, PollersVain
<1>2. ASSUME NEW n \in 2 .. MaxBatch, PublishAll(p, n)
      PROVE  NobodyWaitsInVain'
  <2> DEFINE ms == [i \in 1 .. n |-> <<p, sent[p] + i>>]
  <2>1. /\ Idle /\ Loops("pollers") /\ publishers' = publishers /\ status' = status
        /\ hub' = Store(hub, Stored(hub, ms))
    BY <1>2 DEF PublishAll, Begins, At, closeVars
  <2>2. ms \in Seq(Mail) /\ ms # <<>>
    <3>1. sent[p] \in Nat /\ n \in Nat /\ n > 0
      BY BoundsAssumption DEF Typed
    <3> HIDE DEF ms
    <3> QED
      BY <3>1, BatchIs DEF ms
  <2> HIDE DEF ms
  <2>3. IsFull(hub) => Stored(hub, ms) = <<>>
    BY <2>2, StoredIs, OnIs DEF HubIsRight
  <2>4. IsFull(hub) => IsFull(hub')
    <3> DEFINE st == Stored(hub, ms)
    <3>1. st = <<>> => (IsFull(Store(hub, st)) <=> IsFull(hub))
      <4> HIDE DEF st
      <4> QED
        BY StoreNothing DEF HubIsRight
    <3> QED
      BY <2>1, <2>3, <3>1
  <2> QED
    BY <2>1, <2>4, PollersVain
<1>3. CASE Slide(p)
  <2>1. /\ Idle /\ Loops("pollers") /\ publishers' = publishers /\ status' = status
        /\ kind.strategy = "sliding"
    BY <1>3 DEF Slide, At, closeVars
  <2>2. publishers = <<>>
    BY <2>1 DEF Waits, OnlyUnderPressure
  <2> QED
    BY <2>1, <2>2, PollersVain
<1>4. CASE Drop(p)
  BY <1>4, VainQuiet DEF Drop, stateVars, closeVars, ShutDown
<1>5. CASE Put(p)
  BY <1>5, SpaceVain DEF Put
<1> QED
  BY <1>1, <1>2, <1>3, <1>4, <1>5 DEF Produce

(* ... neither do consumers, ... *)
LEMMA ConsumeVain ==
    ASSUME HubIsRight, Typed, Waits, NobodyWaitsInVain, HubIsRight', Typed', Waits',
           kind' = kind, NEW c \in Consumers, Consume(c)
    PROVE  NobodyWaitsInVain'
<1>1. ASSUME NEW n \in 1 .. MaxBatch, TakeUpTo(c, n)
      PROVE  NobodyWaitsInVain'
  BY <1>1, SpaceVain DEF TakeUpTo
<1>2. CASE TakeNothing(c)
  BY <1>2, VainQuiet DEF TakeNothing, Takes, closeVars, ShutDown
<1>3. CASE Wait(c)
  BY <1>3, PollersVain DEF Wait, At, closeVars
<1> QED
  BY <1>1, <1>2, <1>3 DEF Consume

(* ... interruption, ... *)
LEMMA ClientsVain ==
    ASSUME Typed, NobodyWaitsInVain, NEW c \in Clients,
           Interrupt(c) \/ End(c) \/ InterruptDeferred(c)
    PROVE  NobodyWaitsInVain'
<1>1. CASE Interrupt(c)
  BY <1>1, VainQuiet DEF Interrupt, stateVars, closeVars, ShutDown
<1>2. CASE End(c)
  <2>1. \A D, S : \A s \in Seq(D) : s = <<>> => Removed(s, S) = <<>>
    <3> SUFFICES ASSUME NEW D, NEW S, NEW s \in Seq(D), s = <<>>, Removed(s, S) # <<>>
                 PROVE  FALSE
      OBVIOUS
    <3>1. Removed(s, S) \in Seq(D) /\ ToSet(Removed(s, S)) = ToSet(s) \ S
      BY RemovedMembers
    <3>2. Head(Removed(s, S)) \in ToSet(Removed(s, S))
      BY <3>1, TailMembers
    <3>3. ToSet(s) = {}
      BY DEF ToSet
    <3> QED
      BY <3>1, <3>2, <3>3
  <2>2. publishers' # <<>> => publishers # <<>>
    BY <1>2, <2>1 DEF End, Typed
  <2>3. \A s \in Subscriptions : pollers'[s] # <<>> => pollers[s] # <<>>
    BY <1>2, <2>1 DEF End, Typed
  <2> QED
    BY <1>2, <2>2, <2>3, VainQuiet DEF End, closeVars, ShutDown
<1>3. CASE InterruptDeferred(c)
  BY <1>3, VainQuiet DEF InterruptDeferred, stateVars, ShutDown
<1> QED
  BY <1>1, <1>2, <1>3

(* ... new subscriptions, ... *)
LEMMA SubscribeVain ==
    ASSUME HubIsRight, Typed, Waits, NobodyWaitsInVain, HubIsRight',
           kind' = kind, NEW s \in Subscriptions, Subscribe(s)
    PROVE  NobodyWaitsInVain'
<1>1. /\ hub' = Joined(hub, s) /\ s \notin On /\ On' = On \cup {s} /\ status[s] = "none"
      /\ UNCHANGED <<kind, loop, log, pollers, publishers>>
      /\ status' = [status EXCEPT ![s] = "opening"]
  BY DEF Subscribe, Joined, closeRest, On, Subscribed, Typed
<1>2. \A t \in Subscriptions : t # s => status'[t] = status[t]
  BY <1>1 DEF Typed
<1>3. \A t \in On : Cursor(hub', t) = Cursor(hub, t)
  <2>1. \A t \in On : Cursor(Joined(hub, s), t) = Cursor(hub, t)
    <3>1. s \in Subscriptions \ On /\ On \in SUBSET Subscriptions
      BY <1>1, OnIs
    <3>2. /\ kind \in Kinds /\ hub \in Hubs /\ log \in Seq(Mail)
          /\ Counts(hub, On) /\ Fits(hub, log, On)
      BY DEF HubIsRight
    <3> QED
      BY <3>1, <3>2, JoinFits, Zenon
  <2> QED
    BY <1>1, <2>1
<1>4. IsFull(hub) => IsFull(hub')
  BY <1>1 DEF Joined, IsFull, HubIsRight, Hubs
<1>5. ASSUME NEW t \in Subscriptions, pollers[t] # <<>>
      PROVE  /\ ShutDown(t) => ShutDown(t)'
             /\ Available(hub, t) = 0 => ShutDown(t)' \/ Available(hub', t) = 0
  <2>1. t # s
    BY <1>1, <1>5, PollersAreOpen DEF ShutDown
  <2>2. ShutDown(t) => ShutDown(t)'
    BY <1>2, <2>1 DEF ShutDown
  <2>3. t \in On => Available(hub', t) = Available(hub, t)
    BY <1>1, <1>3, SameAvailable
  <2> QED
    BY <1>5, <2>2, <2>3, PollersAreOpen
<1>6. (\E t \in Subscriptions : status[t] = "unsubscribed")
         => \E t \in Subscriptions : status'[t] = "unsubscribed"
  BY <1>1, <1>2
<1> QED
  BY <1>1, <1>4, <1>5, <1>6, VainStays

(* ... subscriptions that leave, whose slots are given away later, ... *)
LEMMA UnsubscribeVain ==
    ASSUME HubIsRight, Typed, Waits, NobodyWaitsInVain, HubIsRight',
           kind' = kind, NEW s \in Subscriptions, Unsubscribe(s)
    PROVE  NobodyWaitsInVain'
<1>1. /\ hub' = Left(hub, s) /\ s \in On /\ On' = On \ {s}
      /\ UNCHANGED <<kind, loop, log, pollers, publishers>>
      /\ status' = [status EXCEPT ![s] = "unsubscribed"]
  BY DEF Unsubscribe, closeRest, On, Subscribed, Typed
<1>2. /\ \A t \in Subscriptions : t # s => status'[t] = status[t]
      /\ status'[s] = "unsubscribed"
  BY <1>1 DEF Typed
<1>3. \A t \in On \ {s} : Cursor(hub', t) = Cursor(hub, t)
  <2>1. \A t \in On \ {s} : Cursor(Left(hub, s), t) = Cursor(hub, t)
    BY <1>1, LeftFits, OnIs DEF HubIsRight
  <2> QED
    BY <1>1, <2>1
<1>4. ASSUME NEW t \in Subscriptions, pollers[t] # <<>>
      PROVE  /\ ShutDown(t) => ShutDown(t)'
             /\ Available(hub, t) = 0 => ShutDown(t)' \/ Available(hub', t) = 0
  <2>1. CASE t = s
    BY <1>2, <2>1 DEF ShutDown
  <2>2. CASE t # s
    <3>1. ShutDown(t) => ShutDown(t)'
      BY <1>2, <2>2 DEF ShutDown
    <3>2. t \in On => Available(hub', t) = Available(hub, t)
      BY <1>1, <1>3, <2>2, SameAvailable
    <3> QED
      BY <1>4, <3>1, <3>2, PollersAreOpen
  <2> QED
    BY <2>1, <2>2
<1> QED
  BY <1>1, <1>2, <1>4, VainStays

(* ... and the other steps of subscriptions. *)
LEMMA SubscriptionsVain ==
    ASSUME HubIsRight, Typed, Waits, NobodyWaitsInVain, HubIsRight', Typed', Waits',
           kind' = kind, NEW s \in Subscriptions,
           Subscribe(s) \/ Register(s) \/ Close(s) \/ Unsubscribe(s) \/ Closed(s)
    PROVE  NobodyWaitsInVain'
<1>1. CASE Register(s)
  <2>1. /\ UNCHANGED <<kind, hub, loop, pollers, publishers>> /\ status[s] = "opening"
        /\ \A t \in Subscriptions : t # s => status'[t] = status[t]
    BY <1>1 DEF Register, closeRest, Typed
  <2> QED
    BY <2>1, VainQuiet DEF ShutDown
<1>2. CASE Close(s)
  <2>1. /\ UNCHANGED <<kind, hub, loop, publishers>>
        /\ status[s] = "open" /\ status'[s] = "closing" /\ pollers'[s] = <<>>
        /\ \A t \in Subscriptions : t # s => status'[t] = status[t] /\ pollers'[t] = pollers[t]
    BY <1>2 DEF Close, closeRest, Typed
  <2> QED
    BY <2>1, VainQuiet DEF ShutDown
<1>3. CASE Closed(s)
  BY <1>3, SpaceVain DEF Closed
<1> QED
  BY <1>1, <1>2, <1>3, SubscribeVain, UnsubscribeVain

(* No step lets anybody wait in vain. *)
LEMMA NextVain ==
    ASSUME Invariant, HubIsRight', Typed', Waits', kind' = kind, [Next]_vars
    PROVE  NobodyWaitsInVain'
<1> USE DEF Invariant
<1>1. CASE UNCHANGED vars
  BY <1>1, VainQuiet DEF vars, stateVars, closeVars, ShutDown
<1>2. CASE Loop
  BY <1>2, SpaceVain DEF Loop, CompletePoller, PublishWaiting
<1>3. CASE Shutdown
  BY <1>3, VainQuiet DEF Shutdown, closeRest, ShutDown
<1>4. CASE ShutdownPublishers
  BY <1>4, VainQuiet DEF ShutdownPublishers, ShutDown
<1> QED
  BY <1>1, <1>2, <1>3, <1>4, ProduceVain, ConsumeVain, ClientsVain, SubscriptionsVain DEF Next

-----------------------------------------------------------------------------
(* The initial state. *)
LEMMA InitHub ==
    ASSUME Init
    PROVE  HubIsRight /\ On = {}
<1>1. kind \in Kinds /\ Capacity \in Nat /\ Capacity > 0
  BY CapacityIs DEF Init
<1>2. On = {}
  BY DEF On, Subscribed, Init
<1>3. /\ hub.array = [i \in Slots |-> NoMessage] /\ hub.needs = [i \in Slots |-> 0]
      /\ hub.publisherIndex = 0 /\ hub.subscribersIndex = 0 /\ hub.subscriberCount = 0
      /\ hub.subscriberIndex = [s \in Subscriptions |-> 0]
      /\ hub \in Hubs
  BY DEF Init, Hubs, Slots, Capacity
<1>4. Counts(hub, {})
  BY <1>3, FS_EmptySet DEF Counts
<1>5. Low(hub) = 0
  <2>1. 0 \in Slots
    BY <1>1 DEF Slots
  <2> QED
    BY <1>3, <2>1 DEF Low
<1>6. Fits(hub, log, {})
  <2>1. log = <<>> /\ Len(<<>>) = 0
    BY DEF Init
  <2> QED
    BY <1>1, <1>3, <1>5, <2>1 DEF Fits
<1> QED
  BY <1>1, <1>2, <1>3, <1>4, <1>6 DEF HubIsRight, Init

(* Nobody waits in the beginning. *)
LEMMA InitRest ==
    ASSUME Init
    PROVE  Typed /\ Waits /\ NobodyWaitsInVain
<1>1. Typed
  BY DEF Init, Typed, Statuses, Phases
<1>2. ToSet(<<>>) = {} /\ Len(<<>>) = 0
  BY DEF ToSet
<1>3. Waits
  BY <1>2, OfAssumption, ClientsDiffer
  DEF Init, Waits, PollersAreOwn, TakersAreOpen, LastIsLast, OnlyUnderPressure,
      SurplusIsThere, WaitersArePending, ShutdownClosesAll
<1>4. NobodyWaitsInVain
  BY DEF Init, NobodyWaitsInVain
<1> QED
  BY <1>1, <1>3, <1>4

(* The state of a hub always follows from its history, and the lists of    *)
(* waiting clients from their phases (hub.ts: the AtomicHubs, the pollers  *)
(* of the subscriptions and the publishers of BackPressureStrategy).       *)
THEOREM HubInvariant == ASSUME SlotsDoNotSlide PROVE Spec => []Invariant
<1>1. Init => Invariant
  BY InitHub, InitRest DEF Invariant
<1>2. Invariant /\ [Next]_vars => Invariant'
  <2> SUFFICES ASSUME Invariant, [Next]_vars
               PROVE  Invariant'
    OBVIOUS
  <2>1. HubMoves /\ HubIsRight'
    BY NextMoves, HubMoved DEF Invariant
  <2>2. Typed' /\ Waits'
    BY NextTyped, NextWaits DEF Invariant
  <2>3. NobodyWaitsInVain'
    BY <2>1, <2>2, NextVain DEF HubMoves
  <2> QED
    BY <2>1, <2>2, <2>3 DEF Invariant
<1> QED
  BY <1>1, <1>2, PTL DEF Spec

(* No consumer waits for a message that is there and no publisher for room *)
(* that is there; whoever waits can be found, and no subscription outlives *)
(* the hub (hub.ts: the loops of the strategies, subscribe and shutdown).  *)
THEOREM HubWaiters == ASSUME SlotsDoNotSlide PROVE Spec => []WaitersAreRight
<1>1. Invariant => WaitersAreRight
  BY DEF Invariant, Waits, WaitersAreRight
<1> QED
  BY <1>1, HubInvariant, PTL

(* The counter of a slot is the number of subscriptions that still need    *)
(* its message, and a ring holds no more than its capacity (hub.ts:        *)
(* subscribers[] of BoundedHubArb, BoundedHubPow2 and BoundedHubSingle).   *)
THEOREM HubSlots == ASSUME SlotsDoNotSlide PROVE Spec => []SlotsAreNeeded
<1>1. Invariant => SlotsAreNeeded
  <2> SUFFICES ASSUME Invariant
               PROVE  SlotsAreNeeded
    OBVIOUS
  <2> DEFINE L == Low(hub)
             p == Len(log)
             o == IF Single THEN hub.publisherIndex - 1 ELSE hub.subscribersIndex
  <2>1. /\ kind \in Kinds /\ hub \in Hubs /\ Fits(hub, log, On) /\ IsFiniteSet(On)
        /\ p \in Nat /\ On \in SUBSET Subscriptions
    BY OnIs DEF Invariant, HubIsRight, Counts
  <2>2. /\ hub.publisherIndex = p /\ L \in 0 .. p /\ p <= L + Capacity
        /\ \A s \in On : Cursor(hub, s) \in L .. p
        /\ \A k \in L .. p - 1 : hub.needs[Slot(k)] = Cardinality(Behind(hub, On, k))
    BY <2>1 DEF Fits
  <2>3. Capacity \in Nat
    BY <2>1, CapacityIs
  <2>4. ~Single => L = hub.subscribersIndex
    BY <2>1, LowIs
  <2>5. ~Single => p - L \in 0 .. Capacity
    <3> HIDE DEF L, p
    <3> QED
      BY <2>1, <2>2, <2>3
  <2>6. \A k : Waiting(k) = Behind(hub, On, k)
    BY DEF Waiting, Behind, On
  <2>7. ASSUME NEW k \in o .. p - 1, k >= 0
        PROVE  hub.needs[Slot(k)] = Cardinality(Behind(hub, On, k))
    <3>1. CASE k \in L .. p - 1
      BY <2>2, <3>1
    <3>2. CASE k \notin L .. p - 1
      <4>1. Single
        BY <2>2, <2>4, <2>7, <3>2
      <4>2. k = p - 1 /\ k \in Int
        BY <2>1, <2>2, <2>7, <4>1
      <4>3. L = p
        BY <2>1, <2>2, <3>2, <4>2
      <4>4. hub.needs[0] = 0
        BY <2>1, <2>2, <4>1, <4>3, LowIs
      <4>5. Slot(k) = 0
        BY <2>1, <4>1, <4>2, SlotIs, LowIs
      <4>6. Behind(hub, On, k) = {}
        BY <2>1, <2>2, <4>2, <4>3 DEF Behind
      <4> QED
        BY <4>4, <4>5, <4>6, FS_EmptySet
    <3> QED
      BY <3>1, <3>2
  <2> QED
    BY <2>2, <2>4, <2>5, <2>6, <2>7 DEF SlotsAreNeeded, Capacity
<1> QED
  BY <1>1, HubInvariant, PTL

(* Every subscription gets the messages stored while it is subscribed, in  *)
(* order and once; only a sliding hub skips some (hub.ts: publish, poll,   *)
(* slide, subscribe and unsubscribe implement Broadcast).                  *)
THEOREM HubBroadcasts == ASSUME SlotsDoNotSlide PROVE Spec => RefinesBroadcast
<1>1. Init => Channel!Init
  <2> SUFFICES ASSUME Init
               PROVE  Channel!Init
    OBVIOUS
  <2>1. {s \in Subscriptions : Subscribed(s)} = {}
    BY InitHub DEF On
  <2> QED
    BY <2>1 DEF Init, Channel!Init
<1>2. Invariant /\ [Next]_vars => [Channel!Next]_(Channel!vars)
  <2> SUFFICES ASSUME Invariant, [Next]_vars
               PROVE  Channel!Next
    OBVIOUS
  <2>1. kind' = kind /\ BroadcastStep(hub, log, got, On, hub', log', got', On')
    BY NextMoves DEF Invariant, HubMoves, Allowed
  <2>2. \A s \in Subscriptions : Cursor(hub, s)' = Cursor(hub', s)
    BY <2>1, NextShows
  <2>3. Channel!IsPrefix(log, log')
    BY <2>1 DEF BroadcastStep, IsPrefix, Channel!IsPrefix
  <2>4. ASSUME NEW s \in Subscriptions, s \in On \cap On', Gets(hub, got, hub', log', got', s)
        PROVE  Channel!Receives(s)
    BY <2>2, <2>4 DEF Gets, Channel!Receives
  <2>5. ASSUME NEW s \in Subscriptions, Cursor(hub', s) = Len(log), log' = log
        PROVE  Channel!Joins(s)
    BY <2>2, <2>5 DEF Channel!Joins
  <2>6. \A s \in Subscriptions :
           \/ s \in On \cap On' /\ Channel!Receives(s)
           \/ s \in On' \ On /\ Channel!Joins(s) /\ got'[s] = got[s]
           \/ s \notin On' /\ got'[s] = got[s]
    BY <2>1, <2>4, <2>5 DEF BroadcastStep
  <2>7. UNCHANGED (kind.strategy = "sliding")
    BY <2>1
  <2> QED
    BY <2>3, <2>6, <2>7, Zenon DEF On, Channel!Next
<1> QED
  BY <1>1, <1>2, HubInvariant, PTL DEF Spec, RefinesBroadcast, Channel!Spec
================================================================================
