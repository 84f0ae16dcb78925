------------------------------ MODULE QueueProofs ------------------------------
(***************************************************************************)
(* The queue is right for any producers and consumers, any capacity and    *)
(* each strategy: whoever waits does so with reason and can be found, and  *)
(* the queue implements a channel.                                         *)
(***************************************************************************)
EXTENDS Queue, SequenceTheorems, WellFoundedInduction, TLAPS

-----------------------------------------------------------------------------
(* Numbers and sequences.                                                  *)

(* A set of natural numbers has a least one. *)
LEMMA LeastMember ==
    ASSUME NEW T, T \subseteq Nat, T # {}
    PROVE  \E x \in T : \A y \in T : x <= y
<1> DEFINE Smaller == {ss \in Nat \X Nat : ss[1] < ss[2]}
<1>1. IsWellFoundedOn(Smaller, Nat)
  BY Zenon, NatLessThanWellFounded DEF OpToRel
<1>2. \A x, y \in Nat : <<y, x>> \in Smaller <=> y < x
  OBVIOUS
<1> HIDE DEF Smaller
<1>3. PICK x \in T : \A y \in T : ~ (<<y, x>> \in Smaller)
  BY <1>1, WFMin
<1>4. \A y \in T : x \in Nat /\ y \in Nat /\ ~(y < x)
  BY <1>2, <1>3
<1>5. \A y \in T : x <= y
  BY <1>4
<1> QED
  BY <1>5

(* Less is the smaller of two numbers. *)
LEMMA LessIs ==
    ASSUME NEW m \in Nat, NEW n \in Nat
    PROVE  Less(m, n) = IF m <= n THEN m ELSE n
<1> DEFINE T == {m, n}
           l == IF m <= n THEN m ELSE n
<1>1. l \in T /\ \A y \in T : l <= y
  OBVIOUS
<1>2. \A x \in T : (\A y \in T : x <= y) => x = l
  OBVIOUS
<1> HIDE DEF T, l
<1>3. Min(T) = l
  BY <1>1, <1>2 DEF Min
<1> QED
  BY <1>3 DEF Less, T, l

(* The members of a sequence. *)
LEMMA Members ==
    ASSUME NEW S, NEW s \in Seq(S)
    PROVE  ToSet(s) = {s[i] : i \in 1 .. Len(s)} /\ ToSet(s) \subseteq S
  BY DEF ToSet

(* A sequence is its first n elements and the others. *)
LEMMA Halves ==
    ASSUME NEW S, NEW s \in Seq(S), NEW n \in 0 .. Len(s)
    PROVE  /\ First(s, n) \in Seq(S) /\ Len(First(s, n)) = n
           /\ \A i \in 1 .. n : First(s, n)[i] = s[i]
           /\ Without(s, n) \in Seq(S) /\ Len(Without(s, n)) = Len(s) - n
           /\ \A i \in 1 .. Len(s) - n : Without(s, n)[i] = s[n + i]
           /\ First(s, n) \o Without(s, n) = s
<1>1. /\ First(s, n) \in Seq(S) /\ Len(First(s, n)) = n
      /\ \A i \in 1 .. n : First(s, n)[i] = s[i]
  BY DEF First
<1>2. /\ Without(s, n) \in Seq(S) /\ Len(Without(s, n)) = Len(s) - n
      /\ \A i \in 1 .. Len(s) - n : Without(s, n)[i] = s[n + i]
  BY DEF Without
<1>3. First(s, n) \o Without(s, n) = s
  <2> DEFINE t == First(s, n) \o Without(s, n)
  <2>1. t \in Seq(S) /\ Len(t) = Len(s)
    BY <1>1, <1>2
  <2>2. ASSUME NEW i \in 1 .. Len(s)
        PROVE  t[i] = s[i]
    <3>1. CASE i <= n
      BY <1>1, <1>2, <3>1
    <3>2. CASE i > n
      <4>1. t[i] = Without(s, n)[i - n] /\ i - n \in 1 .. Len(s) - n
        BY <1>1, <1>2, <3>2
      <4> QED
        BY <1>2, <4>1
    <3>3. i \in Int /\ n \in Int
      OBVIOUS
    <3> HIDE DEF t
    <3> QED
      BY <3>1, <3>2, <3>3
  <2> HIDE DEF t
  <2>3. t = s
    BY <2>1, <2>2, SeqEqual
  <2> QED
    BY <2>3 DEF t
<1> QED
  BY <1>1, <1>2, <1>3

-----------------------------------------------------------------------------
(* What unsafeRemove leaves.                                               *)

Keeping(s, S, n, kept) ==
    kept = [i \in 0 .. n |->
               IF i = 0 THEN <<>>
               ELSE IF s[i] \in S THEN kept[i - 1] ELSE Append(kept[i - 1], s[i])]

Kept(s, S) == CHOOSE kept : Keeping(s, S, Len(s), kept)

(* Removed takes the last value of a function that is one of Keeping. *)
LEMMA RemovedIsKept == ASSUME NEW s, NEW S PROVE Removed(s, S) = Kept(s, S)[Len(s)]
  BY DEF Removed, Kept, Keeping

(* There is a function of Keeping: otherwise take the least n without. *)
LEMMA KeepingExists ==
    ASSUME NEW s, NEW S, NEW n \in Nat
    PROVE  \E kept : Keeping(s, S, n, kept)
<1> DEFINE Bad == {m \in Nat : ~ \E kept : Keeping(s, S, m, kept)}
<1> SUFFICES ASSUME Bad # {}
             PROVE  FALSE
  OBVIOUS
<1>1. PICK m \in Bad : \A k \in Bad : m <= k
  <2>1. Bad \subseteq Nat
    OBVIOUS
  <2> HIDE DEF Bad
  <2> QED
    BY <2>1, LeastMember
<1>2. m # 0
  <2>1. Keeping(s, S, 0, [i \in 0 .. 0 |-> <<>>])
    BY DEF Keeping
  <2> QED
    BY <2>1
<1>3. PICK f : Keeping(s, S, m - 1, f)
  <2>1. m - 1 \in Nat /\ ~(m <= m - 1)
    BY <1>2
  <2>2. m - 1 \notin Bad
    BY <1>1, <2>1
  <2> QED
    BY <2>1, <2>2
<1> DEFINE g == [i \in 0 .. m |->
                    IF i = m THEN IF s[m] \in S THEN f[m - 1] ELSE Append(f[m - 1], s[m])
                    ELSE f[i]]
<1>4. \A i \in 0 .. m - 1 : g[i] = f[i]
  OBVIOUS
<1>5. \A i \in 0 .. m : g[i] = IF i = 0 THEN <<>>
                               ELSE IF s[i] \in S THEN g[i - 1] ELSE Append(g[i - 1], s[i])
  <2> SUFFICES ASSUME NEW i \in 0 .. m
               PROVE  g[i] = IF i = 0 THEN <<>>
                             ELSE IF s[i] \in S THEN g[i - 1] ELSE Append(g[i - 1], s[i])
    OBVIOUS
  <2>1. CASE i = m
    BY <1>2, <2>1
  <2>2. CASE i # m
    <3>1. i \in 0 .. m - 1
      BY <2>2
    <3>2. f[i] = IF i = 0 THEN <<>>
                 ELSE IF s[i] \in S THEN f[i - 1] ELSE Append(f[i - 1], s[i])
      BY <1>3, <3>1 DEF Keeping
    <3>3. i # 0 => i - 1 \in 0 .. m - 1
      BY <3>1
    <3> QED
      BY <1>4, <3>1, <3>2, <3>3
  <2> QED
    BY <2>1, <2>2
<1>6. g = [i \in 0 .. m |-> g[i]]
  OBVIOUS
<1>7. Keeping(s, S, m, g)
  <2> HIDE DEF g
  <2> QED
    BY <1>5, <1>6 DEF Keeping
<1> QED
  BY <1>7

(* The members of s that are not in S, in their order. *)
Sifted(D, s, S, n, r) ==
    /\ r \in Seq(D)
    /\ \A i \in 1 .. Len(r) : \E a \in 1 .. n : r[i] = s[a] /\ s[a] \notin S
    /\ \A a \in 1 .. n : s[a] \notin S => \E i \in 1 .. Len(r) : r[i] = s[a]
    /\ \A i, j \in 1 .. Len(r) :
          i < j => \E a, b \in 1 .. n : a < b /\ s[a] = r[i] /\ s[b] = r[j]

(* One step of the recursion of Removed. *)
LEMMA SiftedAppend ==
    ASSUME NEW D, NEW s \in Seq(D), NEW S, NEW n \in 1 .. Len(s), NEW r,
           Sifted(D, s, S, n - 1, r)
    PROVE  Sifted(D, s, S, n, IF s[n] \in S THEN r ELSE Append(r, s[n]))
<1>1. 1 .. n = (1 .. n - 1) \cup {n} /\ s[n] \in D /\ r \in Seq(D) /\ n - 1 < n
  BY DEF Sifted
<1>2. CASE s[n] \in S
  BY <1>1, <1>2 DEF Sifted
<1>3. CASE s[n] \notin S
  <2> DEFINE t == Append(r, s[n])
  <2>1. /\ t \in Seq(D) /\ Len(t) = Len(r) + 1 /\ t[Len(r) + 1] = s[n]
        /\ \A i \in 1 .. Len(r) : t[i] = r[i]
    BY <1>1
  <2>2. Len(r) \in Nat /\ 1 .. Len(t) = (1 .. Len(r)) \cup {Len(r) + 1}
        /\ Len(r) + 1 \in 1 .. Len(t)
    BY <1>1, <2>1
  <2> HIDE DEF t
  <2>3. \A i \in 1 .. Len(t) : \E a \in 1 .. n : t[i] = s[a] /\ s[a] \notin S
    <3> SUFFICES ASSUME NEW i \in 1 .. Len(t)
                 PROVE  \E a \in 1 .. n : t[i] = s[a] /\ s[a] \notin S
      OBVIOUS
    <3>1. CASE i = Len(r) + 1
      BY <1>3, <2>1, <3>1
    <3>2. CASE i \in 1 .. Len(r)
      <4>1. PICK a \in 1 .. n - 1 : r[i] = s[a] /\ s[a] \notin S
        BY <3>2 DEF Sifted
      <4> QED
        BY <1>1, <2>1, <3>2, <4>1
    <3> QED
      BY <2>2, <3>1, <3>2
  <2>4. \A a \in 1 .. n : s[a] \notin S => \E i \in 1 .. Len(t) : t[i] = s[a]
    BY <1>1, <2>1, <2>2 DEF Sifted
  <2>5. ASSUME NEW i \in 1 .. Len(t), NEW j \in 1 .. Len(t), i < j
        PROVE  \E a, b \in 1 .. n : a < b /\ s[a] = t[i] /\ s[b] = t[j]
    <3>1. i \in 1 .. Len(r) /\ t[i] = r[i]
      BY <2>1, <2>2, <2>5
    <3>2. CASE j = Len(r) + 1
      <4>1. PICK a \in 1 .. n - 1 : s[a] = r[i]
        BY <3>1 DEF Sifted
      <4>2. a \in 1 .. n /\ n \in 1 .. n /\ a < n /\ t[j] = s[n]
        BY <2>1, <3>2
      <4> QED
        BY <3>1, <4>1, <4>2
    <3>3. CASE j \in 1 .. Len(r)
      <4>1. PICK a, b \in 1 .. n - 1 : a < b /\ s[a] = r[i] /\ s[b] = r[j]
        BY <2>5, <3>1, <3>3 DEF Sifted
      <4> QED
        BY <1>1, <2>1, <3>1, <3>3, <4>1
    <3> QED
      BY <2>2, <3>2, <3>3
  <2>6. Sifted(D, s, S, n, t)
    BY <2>1, <2>3, <2>4, <2>5 DEF Sifted
  <2> QED
    BY <1>3, <2>6 DEF t
<1> QED
  BY <1>2, <1>3

(* unsafeRemove keeps the others, in their order. *)
LEMMA RemovedIsSifted ==
    ASSUME NEW D, NEW s \in Seq(D), NEW S
    PROVE  Sifted(D, s, S, Len(s), Removed(s, S))
<1> DEFINE kept == Kept(s, S)
           Bad == {n \in 0 .. Len(s) : ~Sifted(D, s, S, n, kept[n])}
<1>1. Keeping(s, S, Len(s), kept)
  <2>1. Len(s) \in Nat
    OBVIOUS
  <2> QED
    BY <2>1, KeepingExists DEF Kept
<1>2. kept[0] = <<>>
      /\ \A n \in 1 .. Len(s) :
            kept[n] = IF s[n] \in S THEN kept[n - 1] ELSE Append(kept[n - 1], s[n])
  <2> HIDE DEF kept
  <2>1. \A n \in 0 .. Len(s) :
            kept[n] = IF n = 0 THEN <<>>
                      ELSE IF s[n] \in S THEN kept[n - 1] ELSE Append(kept[n - 1], s[n])
    BY <1>1 DEF Keeping
  <2>2. 0 \in 0 .. Len(s) /\ \A n \in 1 .. Len(s) : n \in 0 .. Len(s) /\ n # 0
    OBVIOUS
  <2> QED
    BY <2>1, <2>2
<1> HIDE DEF kept
<1>3. Bad = {}
  <2> SUFFICES ASSUME Bad # {}
               PROVE  FALSE
    OBVIOUS
  <2>1. PICK n \in Bad : \A k \in Bad : n <= k
    <3>1. Bad \subseteq Nat
      OBVIOUS
    <3> HIDE DEF Bad
    <3> QED
      BY <3>1, LeastMember
  <2>2. n \in 1 .. Len(s)
    <3>1. Sifted(D, s, S, 0, <<>>)
      BY DEF Sifted
    <3> QED
      BY <1>2, <3>1
  <2>3. n - 1 \in 0 .. Len(s) /\ ~(n <= n - 1)
    BY <2>2
  <2>4. Sifted(D, s, S, n - 1, kept[n - 1])
    BY <2>1, <2>3
  <2> DEFINE r == kept[n - 1]
  <2>5. Sifted(D, s, S, n, IF s[n] \in S THEN r ELSE Append(r, s[n]))
    <3>1. Sifted(D, s, S, n - 1, r)
      BY <2>4
    <3> HIDE DEF r
    <3> QED
      BY <2>2, <3>1, SiftedAppend
  <2>6. Sifted(D, s, S, n, kept[n])
    BY <1>2, <2>2, <2>5
  <2> QED
    BY <2>6
<1>4. Len(s) \in 0 .. Len(s)
  OBVIOUS
<1> QED
  BY <1>3, <1>4, RemovedIsKept DEF kept

(* Elements that come later. *)
LEMMA WithoutMore ==
    ASSUME NEW D, NEW s \in Seq(D), NEW m \in Nat, NEW n \in Nat, m + n <= Len(s)
    PROVE  Without(Without(s, m), n) = Without(s, m + n)
<1> DEFINE t == Without(s, m)
           u == Without(t, n)
           v == Without(s, m + n)
<1>1. m \in 0 .. Len(s) /\ m + n \in 0 .. Len(s) /\ n \in 0 .. Len(s) - m
  OBVIOUS
<1>2. t \in Seq(D) /\ Len(t) = Len(s) - m /\ \A i \in 1 .. Len(s) - m : t[i] = s[m + i]
  BY <1>1, Halves
<1>3. /\ v \in Seq(D) /\ Len(v) = Len(s) - (m + n)
      /\ \A i \in 1 .. Len(s) - (m + n) : v[i] = s[m + n + i]
  BY <1>1, Halves
<1> HIDE DEF t, v
<1>0. n \in 0 .. Len(t)
  BY <1>1, <1>2
<1>4. u \in Seq(D) /\ Len(u) = Len(t) - n /\ \A i \in 1 .. Len(t) - n : u[i] = t[n + i]
  BY <1>0, <1>2, Halves
<1> HIDE DEF u
<1>5. ASSUME NEW i \in 1 .. Len(u)
      PROVE  u[i] = v[i]
  <2>1. i \in 1 .. Len(t) - n /\ n + i \in 1 .. Len(s) - m /\ i \in 1 .. Len(s) - (m + n)
        /\ m + (n + i) = m + n + i
    BY <1>1, <1>2, <1>4
  <2> QED
    BY <1>2, <1>3, <1>4, <2>1
<1>6. Len(u) = Len(v)
  BY <1>1, <1>2, <1>3, <1>4
<1>7. u = v
  BY <1>3, <1>4, <1>5, <1>6, SeqEqual
<1> QED
  BY <1>7 DEF t, u, v

(* What is left when the first of two joined sequences goes. *)
LEMMA WithoutFirstPart ==
    ASSUME NEW D, NEW s \in Seq(D), NEW t \in Seq(D), NEW n \in 0 .. Len(t)
    PROVE  Without(s \o t, Len(s) + n) = Without(t, n)
<1> DEFINE u == Without(s \o t, Len(s) + n)
           v == Without(t, n)
           st == s \o t
<1>1. /\ st \in Seq(D) /\ Len(st) = Len(s) + Len(t)
      /\ \A i \in 1 .. Len(t) : st[Len(s) + i] = t[i]
  OBVIOUS
<1>2. v \in Seq(D) /\ Len(v) = Len(t) - n /\ \A i \in 1 .. Len(t) - n : v[i] = t[n + i]
  BY Halves
<1>3. Len(s) + n \in 0 .. Len(st)
  BY <1>1
<1> HIDE DEF st
<1>4. /\ Without(st, Len(s) + n) \in Seq(D) /\ Len(Without(st, Len(s) + n)) = Len(st) - (Len(s) + n)
      /\ \A i \in 1 .. Len(st) - (Len(s) + n) : Without(st, Len(s) + n)[i] = st[Len(s) + n + i]
  BY <1>1, <1>3, Halves
<1>5. u = Without(st, Len(s) + n)
  BY DEF st
<1> HIDE DEF u, v
<1>6. Len(s) \in Nat /\ Len(t) \in Nat
  OBVIOUS
<1>7. Len(u) = Len(v) /\ u \in Seq(D)
  <2>1. u \in Seq(D) /\ Len(u) = Len(st) - (Len(s) + n)
    BY <1>4, <1>5
  <2>2. Len(st) - (Len(s) + n) = Len(t) - n
    BY <1>1, <1>6
  <2> QED
    BY <1>2, <2>1, <2>2
<1>8. ASSUME NEW i \in 1 .. Len(v)
      PROVE  u[i] = v[i]
  <2>1. i \in 1 .. Len(t) - n /\ n + i \in 1 .. Len(t) /\ i \in 1 .. Len(st) - (Len(s) + n)
        /\ Len(s) + n + i = Len(s) + (n + i)
    BY <1>1, <1>2, <1>6
  <2> QED
    BY <1>1, <1>2, <1>4, <1>5, <2>1
<1>9. u = v
  BY <1>2, <1>7, <1>8, SeqEqual
<1> QED
  BY <1>9 DEF u, v

Entries == [elem : Elements, who : Producers]

(* The elements of the entries ps. *)
LEMMA ElemsParts ==
    ASSUME NEW ps \in Seq(Entries)
    PROVE  /\ Elems(ps) \in Seq(Elements) /\ Len(Elems(ps)) = Len(ps)
           /\ \A i \in 1 .. Len(ps) : Elems(ps)[i] = ps[i].elem
           /\ Elems(ps) = <<>> <=> ps = <<>>
<1>1. /\ Elems(ps) \in Seq(Elements) /\ Len(Elems(ps)) = Len(ps)
      /\ \A i \in 1 .. Len(ps) : Elems(ps)[i] = ps[i].elem
  <2>1. \A i \in 1 .. Len(ps) : ps[i] \in Entries
    OBVIOUS
  <2>2. \A i \in 1 .. Len(ps) : ps[i].elem \in Elements
    BY <2>1 DEF Entries
  <2>3. Elems(ps) \in [1 .. Len(ps) -> Elements] /\ Len(ps) \in Nat
    BY <2>2 DEF Elems
  <2>4. Elems(ps) \in Seq(Elements) /\ Len(Elems(ps)) = Len(ps)
    BY <2>3
  <2> QED
    BY <2>4 DEF Elems
<1>2. Elems(ps) = <<>> <=> ps = <<>>
  BY <1>1
<1> QED
  BY <1>1, <1>2

(* Taking the first entries away takes their elements away. *)
LEMMA ElemsWithout ==
    ASSUME NEW ps \in Seq(Entries), NEW n \in 0 .. Len(ps)
    PROVE  Elems(Without(ps, n)) = Without(Elems(ps), n)
<1> DEFINE w == Without(ps, n)
           e == Elems(ps)
           u == Elems(w)
           v == Without(e, n)
<1>1. w \in Seq(Entries) /\ Len(w) = Len(ps) - n /\ \A i \in 1 .. Len(ps) - n : w[i] = ps[n + i]
  BY Halves
<1>2. e \in Seq(Elements) /\ Len(e) = Len(ps) /\ \A i \in 1 .. Len(ps) : e[i] = ps[i].elem
  BY ElemsParts
<1> HIDE DEF w, e
<1>3. u \in Seq(Elements) /\ Len(u) = Len(w) /\ \A i \in 1 .. Len(w) : u[i] = w[i].elem
  BY <1>1, ElemsParts
<1>0. n \in 0 .. Len(e)
  BY <1>2
<1>4. v \in Seq(Elements) /\ Len(v) = Len(e) - n /\ \A i \in 1 .. Len(e) - n : v[i] = e[n + i]
  BY <1>0, <1>2, Halves
<1> HIDE DEF u, v
<1>5. Len(u) = Len(v)
  BY <1>1, <1>2, <1>3, <1>4
<1>6. ASSUME NEW i \in 1 .. Len(u)
      PROVE  u[i] = v[i]
  <2>1. i \in 1 .. Len(ps) - n /\ n + i \in 1 .. Len(ps)
    BY <1>1, <1>3
  <2> QED
    BY <1>1, <1>2, <1>3, <1>4, <2>1
<1>7. u = v
  BY <1>3, <1>4, <1>5, <1>6, SeqEqual
<1> QED
  BY <1>7 DEF u, v, w, e

(* Concatenation as an operator that the provers take as it is. *)
Cat(s, t) == s \o t

(* The type and the length of joined sequences. *)
LEMMA CatType ==
    ASSUME NEW D, NEW s \in Seq(D), NEW t \in Seq(D)
    PROVE  Cat(s, t) \in Seq(D) /\ Len(Cat(s, t)) = Len(s) + Len(t)
  BY DEF Cat

(* The elements of joined sequences. *)
LEMMA CatParts ==
    ASSUME NEW D, NEW s \in Seq(D), NEW t \in Seq(D)
    PROVE  \A i \in 1 .. Len(s) + Len(t) :
              Cat(s, t)[i] = IF i <= Len(s) THEN s[i] ELSE t[i - Len(s)]
  BY DEF Cat

(* Joining the empty sequence changes nothing. *)
LEMMA CatEmpty ==
    ASSUME NEW D, NEW s \in Seq(D)
    PROVE  Cat(s, <<>>) = s /\ Cat(<<>>, s) = s
  BY DEF Cat

(* Joining is associative. *)
LEMMA CatTwice ==
    ASSUME NEW D, NEW s \in Seq(D), NEW t \in Seq(D), NEW u \in Seq(D)
    PROVE  Cat(Cat(s, t), u) = Cat(s, Cat(t, u))
  BY DEF Cat

(* A function on 1 .. n is a sequence. *)
LEMMA FunctionIsSeq ==
    ASSUME NEW D, NEW n \in Nat, NEW f \in [1 .. n -> D]
    PROVE  f \in Seq(D) /\ Len(f) = n /\ DOMAIN f = 1 .. n
<1>1. f \in Seq(D)
  OBVIOUS
<1>2. DOMAIN f = 1 .. n /\ Len(f) = n
  <2>1. DOMAIN f = 1 .. n /\ DOMAIN f = 1 .. Len(f) /\ Len(f) \in Nat
    BY <1>1
  <2> QED
    BY <2>1
<1> QED
  BY <1>1, <1>2

(* The members of joined sequences. *)
LEMMA JoinedMembers ==
    ASSUME NEW D, NEW s \in Seq(D), NEW t \in Seq(D)
    PROVE  ToSet(Cat(s, t)) = ToSet(s) \cup ToSet(t)
<1> DEFINE u == Cat(s, t)
<1>1. /\ u \in Seq(D) /\ Len(u) = Len(s) + Len(t)
      /\ \A i \in 1 .. Len(s) : u[i] = s[i] /\ i \in 1 .. Len(u)
      /\ \A i \in 1 .. Len(t) : u[Len(s) + i] = t[i] /\ Len(s) + i \in 1 .. Len(u)
      /\ \A i \in 1 .. Len(u) : i \in 1 .. Len(s) \/ i - Len(s) \in 1 .. Len(t)
  BY DEF Cat
<1>2. \A i \in 1 .. Len(u) : i = Len(s) + (i - Len(s))
  BY <1>1
<1> HIDE DEF u
<1>3. /\ ToSet(s) = {s[i] : i \in 1 .. Len(s)} /\ ToSet(t) = {t[i] : i \in 1 .. Len(t)}
      /\ ToSet(u) = {u[i] : i \in 1 .. Len(u)}
  BY <1>1, Members
<1>4. ToSet(s) \cup ToSet(t) \subseteq ToSet(u)
  BY <1>1, <1>3
<1>5. ASSUME NEW i \in 1 .. Len(u)
      PROVE  u[i] \in ToSet(s) \cup ToSet(t)
  <2>1. CASE i \in 1 .. Len(s)
    BY <1>1, <1>3, <2>1
  <2>2. CASE i - Len(s) \in 1 .. Len(t)
    <3>1. u[i] = t[i - Len(s)]
      BY <1>1, <1>2, <2>2
    <3> QED
      BY <1>3, <2>2, <3>1
  <2> QED
    BY <1>1, <2>1, <2>2
<1>6. ToSet(u) = ToSet(s) \cup ToSet(t)
  BY <1>3, <1>4, <1>5
<1> QED
  BY <1>6 DEF u

(* Joined sequences repeat nothing iff neither does and they are disjoint. *)
LEMMA JoinedInjective ==
    ASSUME NEW D, NEW s \in Seq(D), NEW t \in Seq(D)
    PROVE  IsInjective(Cat(s, t)) <=>
               IsInjective(s) /\ IsInjective(t) /\ ToSet(s) \cap ToSet(t) = {}
<1> DEFINE u == Cat(s, t)
           m == Len(s)
           n == Len(t)
<1>1. /\ u \in Seq(D) /\ Len(u) = m + n /\ m \in Nat /\ n \in Nat
      /\ \A i \in 1 .. m : u[i] = s[i] /\ i \in 1 .. m + n
      /\ \A i \in 1 .. n : u[m + i] = t[i] /\ m + i \in 1 .. m + n
  BY DEF Cat
<1>2. DOMAIN s = 1 .. m /\ DOMAIN t = 1 .. n
  OBVIOUS
<1>3. DOMAIN u = 1 .. m + n
  BY <1>1
<1>4. ToSet(s) = {s[i] : i \in 1 .. m} /\ ToSet(t) = {t[i] : i \in 1 .. n}
  BY Members
<1>7. \A i \in 1 .. m + n : i \in 1 .. m \/ (i - m \in 1 .. n /\ i = m + (i - m))
  BY <1>1
<1> HIDE DEF u, m, n
<1>5. ASSUME IsInjective(u)
      PROVE  IsInjective(s) /\ IsInjective(t) /\ ToSet(s) \cap ToSet(t) = {}
  <2>1. \A i, j \in 1 .. m + n : u[i] = u[j] => i = j
    BY <1>3, <1>5 DEF IsInjective
  <2>2. IsInjective(s)
    BY <1>1, <1>2, <2>1 DEF IsInjective
  <2>3. ASSUME NEW i \in 1 .. n, NEW j \in 1 .. n, t[i] = t[j]
        PROVE  i = j
    <3>1. m + i = m + j
      BY <1>1, <2>1, <2>3
    <3> QED
      BY <1>1, <3>1
  <2>4. IsInjective(t)
    BY <1>2, <2>3 DEF IsInjective
  <2>5. ASSUME NEW i \in 1 .. m, NEW j \in 1 .. n, s[i] = t[j]
        PROVE  FALSE
    <3>1. i = m + j
      BY <1>1, <2>1, <2>5
    <3> QED
      BY <1>1, <3>1
  <2> QED
    BY <1>4, <2>2, <2>4, <2>5
<1>6. ASSUME IsInjective(s), IsInjective(t), ToSet(s) \cap ToSet(t) = {}
      PROVE  IsInjective(u)
  <2>1. \A i, j \in 1 .. m : s[i] = s[j] => i = j
    BY <1>2, <1>6 DEF IsInjective
  <2>2. \A i, j \in 1 .. n : t[i] = t[j] => i = j
    BY <1>2, <1>6 DEF IsInjective
  <2>3. \A i \in 1 .. m, j \in 1 .. n : s[i] # t[j]
    BY <1>4, <1>6
  <2>4. ASSUME NEW i \in 1 .. m + n, NEW j \in 1 .. m + n, u[i] = u[j]
        PROVE  i = j
    <3>1. CASE i \in 1 .. m /\ j \in 1 .. m
      BY <1>1, <2>1, <2>4, <3>1
    <3>2. CASE i \in 1 .. m /\ j - m \in 1 .. n /\ j = m + (j - m)
      <4>1. u[i] = s[i] /\ u[j] = t[j - m]
        BY <1>1, <3>2
      <4> QED
        BY <2>3, <2>4, <3>2, <4>1
    <3>3. CASE j \in 1 .. m /\ i - m \in 1 .. n /\ i = m + (i - m)
      <4>1. u[j] = s[j] /\ u[i] = t[i - m]
        BY <1>1, <3>3
      <4> QED
        BY <2>3, <2>4, <3>3, <4>1
    <3>4. CASE /\ i - m \in 1 .. n /\ i = m + (i - m)
               /\ j - m \in 1 .. n /\ j = m + (j - m)
      <4>1. u[i] = t[i - m] /\ u[j] = t[j - m]
        BY <1>1, <3>4
      <4>2. i - m = j - m
        BY <2>2, <2>4, <3>4, <4>1
      <4> QED
        BY <3>4, <4>2
    <3> QED
      BY <1>7, <3>1, <3>2, <3>3, <3>4
  <2> QED
    BY <1>3, <2>4 DEF IsInjective
<1>8. IsInjective(u) <=> IsInjective(s) /\ IsInjective(t) /\ ToSet(s) \cap ToSet(t) = {}
  BY <1>5, <1>6
<1> QED
  BY <1>8 DEF u

(* A sequence is a prefix of what it is joined to. *)
LEMMA PrefixOfJoined ==
    ASSUME NEW D, NEW s \in Seq(D), NEW t \in Seq(D)
    PROVE  IsPrefix(s, Cat(s, t))
<1> DEFINE u == Cat(s, t)
<1>1. u \in Seq(D) /\ Len(s) \in 0 .. Len(u) /\ \A i \in 1 .. Len(s) : u[i] = s[i]
  BY DEF Cat
<1> HIDE DEF u
<1>2. /\ First(u, Len(s)) \in Seq(D) /\ Len(First(u, Len(s))) = Len(s)
      /\ \A i \in 1 .. Len(s) : First(u, Len(s))[i] = u[i]
  BY <1>1, Halves
<1>3. First(u, Len(s)) = s
  BY <1>1, <1>2, SeqEqual
<1>4. Len(s) <= Len(u)
  BY <1>1
<1> QED
  BY <1>3, <1>4 DEF u, IsPrefix, First

(* The members of both parts of a sequence. *)
LEMMA MembersOfHalves ==
    ASSUME NEW D, NEW s \in Seq(D), NEW n \in 0 .. Len(s)
    PROVE  /\ ToSet(First(s, n)) \subseteq ToSet(s) /\ ToSet(Without(s, n)) \subseteq ToSet(s)
           /\ ToSet(s) = ToSet(First(s, n)) \cup ToSet(Without(s, n))
<1>1. /\ First(s, n) \in Seq(D) /\ Without(s, n) \in Seq(D)
      /\ First(s, n) \o Without(s, n) = s
  BY Halves
<1> DEFINE f == First(s, n)
           w == Without(s, n)
<1> HIDE DEF f, w
<1>2. f \in Seq(D) /\ w \in Seq(D)
  BY <1>1 DEF f, w
<1>3. ToSet(Cat(f, w)) = ToSet(f) \cup ToSet(w)
  BY <1>2, JoinedMembers
<1>4. Cat(f, w) = s
  BY <1>1 DEF f, w, Cat
<1>5. ToSet(s) = ToSet(f) \cup ToSet(w)
  BY <1>3, <1>4
<1> QED
  BY <1>5 DEF f, w

(* The owners and the elements of the entries ps. *)
LEMMA OwnersAre ==
    ASSUME NEW ps \in Seq(Entries)
    PROVE  /\ Owners(ps) = {x.who : x \in ToSet(ps)} /\ Owners(ps) \subseteq Producers
           /\ ToSet(Elems(ps)) = {x.elem : x \in ToSet(ps)}
           /\ ToSet(ps) \subseteq Entries
<1>1. ToSet(ps) = {ps[i] : i \in 1 .. Len(ps)} /\ ToSet(ps) \subseteq Entries
  BY Members
<1>2. Owners(ps) = {x.who : x \in ToSet(ps)}
  BY <1>1 DEF Owners
<1>3. Owners(ps) \subseteq Producers
  BY <1>1, <1>2 DEF Entries
<1>4. ToSet(Elems(ps)) = {ps[i].elem : i \in 1 .. Len(ps)}
  <2> DEFINE e == Elems(ps)
  <2>1. e \in Seq(Elements) /\ Len(e) = Len(ps) /\ \A i \in 1 .. Len(ps) : e[i] = ps[i].elem
    BY ElemsParts
  <2> HIDE DEF e
  <2>2. ToSet(e) = {e[i] : i \in 1 .. Len(ps)}
    BY <2>1, Members
  <2>3. ToSet(e) = {ps[i].elem : i \in 1 .. Len(ps)}
    BY <2>1, <2>2
  <2> QED
    BY <2>3 DEF e
<1> QED
  BY <1>1, <1>2, <1>3, <1>4

-----------------------------------------------------------------------------
(* The loops over the queues.                                              *)

QueuesOK(q) ==
    /\ q.items \in Seq(Elements) /\ Len(q.items) <= Capacity
    /\ q.takers \in Seq(Consumers)
    /\ q.putters \in Seq(Entries)
    /\ q.out \in Seq(Elements)

(* The elements that are in the queue or were handed over, in order. *)
FlowOf(q) == q.out \o (q.items \o Elems(q.putters))

(* No element is lost or overtaken, and nobody new waits. *)
Passed(q, r) ==
    /\ FlowOf(r) = FlowOf(q)
    /\ \E x \in Seq(Elements) : r.out = q.out \o x
    /\ ToSet(r.takers) \subseteq ToSet(q.takers)
    /\ ToSet(r.putters) \subseteq ToSet(q.putters)

Full(q) == q.putters # <<>> => Len(q.items) = Capacity
Idle(q) == q.takers # <<>> => q.items = <<>>
Justified(q) == Full(q) /\ (q.takers # <<>> => q.items = <<>> /\ q.putters = <<>>)

(* The capacity is a positive number. *)
LEMMA CapacityIs == Capacity \in Nat /\ Capacity > 0
  BY CapacityAssumption

(* The type of the flow. *)
LEMMA FlowType ==
    ASSUME NEW q, QueuesOK(q)
    PROVE  /\ q.items \o Elems(q.putters) \in Seq(Elements)
           /\ FlowOf(q) \in Seq(Elements)
<1> DEFINE e == Elems(q.putters)
<1>1. e \in Seq(Elements)
  BY ElemsParts DEF QueuesOK
<1> HIDE DEF e
<1>2. q.items \o e \in Seq(Elements) /\ q.out \o (q.items \o e) \in Seq(Elements)
  BY <1>1 DEF QueuesOK
<1> QED
  BY <1>2 DEF e, FlowOf

(* A loop may do nothing. *)
LEMMA PassedSelf ==
    ASSUME NEW q, QueuesOK(q)
    PROVE  Passed(q, q)
<1>1. <<>> \in Seq(Elements) /\ q.out = q.out \o <<>>
  BY DEF QueuesOK
<1> QED
  BY <1>1 DEF Passed

(* One loop may follow another. *)
LEMMA PassedTwice ==
    ASSUME NEW q, NEW r, NEW s, QueuesOK(q), Passed(q, r), Passed(r, s)
    PROVE  Passed(q, s)
<1>1. PICK x \in Seq(Elements) : r.out = q.out \o x
  BY DEF Passed
<1>2. PICK y \in Seq(Elements) : s.out = r.out \o y
  BY DEF Passed
<1>3. x \o y \in Seq(Elements) /\ q.out \in Seq(Elements)
  BY DEF QueuesOK
<1>4. s.out = q.out \o (x \o y)
  <2>1. Cat(Cat(q.out, x), y) = Cat(q.out, Cat(x, y))
    BY <1>3, CatTwice
  <2> QED
    BY <1>1, <1>2, <2>1 DEF Cat
<1> QED
  BY <1>3, <1>4 DEF Passed

(* Settle hands over as many elements as there are takers and fills the room. *)
LEMMA Settled ==
    ASSUME NEW q, QueuesOK(q)
    PROVE  QueuesOK(Settle(q)) /\ Passed(q, Settle(q)) /\ Justified(Settle(q))
<1> DEFINE e == Elems(q.putters)
           its == q.items
           all == its \o e
           given == Less(Len(q.takers), Len(all))
           kept == Less(Capacity, Len(all) - given)
           moved == given + kept - Len(its)
           rest == Without(all, given)
           r == Settle(q)
<1>1. /\ e \in Seq(Elements) /\ Len(e) = Len(q.putters)
      /\ its \in Seq(Elements) /\ q.takers \in Seq(Consumers)
      /\ q.putters \in Seq(Entries) /\ q.out \in Seq(Elements) /\ Len(its) <= Capacity
  BY ElemsParts DEF QueuesOK
<1>2. all \in Seq(Elements) /\ Len(all) = Len(its) + Len(q.putters)
  <2> HIDE DEF e, its
  <2>1. all \in Seq(Elements) /\ Len(all) = Len(its) + Len(e)
    BY <1>1, ConcatProperties
  <2> QED
    BY <1>1, <2>1
<1>3. r = [items |-> First(rest, kept), takers |-> Without(q.takers, given),
           putters |-> Without(q.putters, moved), out |-> q.out \o First(all, given)]
  BY DEF Settle
<1>4. /\ Len(its) \in Nat /\ Len(q.putters) \in Nat /\ Len(q.takers) \in Nat
      /\ Len(its) <= Capacity
  BY <1>1
<1> HIDE DEF r, e, all, its
<1>5. /\ given \in 0 .. Len(q.takers) /\ given \in 0 .. Len(its) + Len(q.putters)
      /\ kept \in 0 .. Len(its) + Len(q.putters) - given /\ kept <= Capacity
      /\ moved \in 0 .. Len(q.putters)
      /\ Len(q.takers) - given # 0 => kept = 0 /\ Len(q.putters) - moved = 0
      /\ Len(q.putters) - moved # 0 => kept = Capacity
  <2> DEFINE t == Len(q.takers)
             i == Len(its)
             n == Len(all)
  <2>1. t \in Nat /\ i \in Nat /\ i <= Capacity /\ n \in Nat /\ i <= n
        /\ n = i + Len(q.putters) /\ Len(q.putters) \in Nat
    BY <1>2, <1>4
  <2>2. given = Less(t, n) /\ kept = Less(Capacity, n - given) /\ moved = given + kept - i
    OBVIOUS
  <2> HIDE DEF t, i, n, given, kept, moved
  <2>3. /\ given \in 0 .. t /\ given \in 0 .. n
        /\ kept \in 0 .. n - given /\ kept <= Capacity
        /\ i <= given + kept /\ given + kept <= n
        /\ t - given # 0 => kept = 0 /\ given + kept = n
        /\ n - (given + kept) # 0 => kept = Capacity
    <3>1. given = IF t <= n THEN t ELSE n
      BY <2>1, <2>2, LessIs
    <3>2. n - given \in Nat /\ given \in Nat
      BY <2>1, <3>1
    <3>3. kept = IF Capacity <= n - given THEN Capacity ELSE n - given
      BY <2>2, <3>2, CapacityIs, LessIs
    <3>4. CASE t <= n
      <4>1. given = t
        BY <3>1, <3>4
      <4> QED
        BY <2>1, <3>3, <3>4, <4>1, CapacityIs
    <3>5. CASE t > n
      <4>1. given = n
        BY <2>1, <3>1, <3>5
      <4>2. kept = 0
        BY <2>1, <3>3, <4>1, CapacityIs
      <4>3. given + kept = n /\ n - given = 0 /\ n - (given + kept) = 0
        BY <2>1, <4>1, <4>2
      <4>4. given \in 0 .. t /\ given \in 0 .. n /\ i <= given + kept /\ given + kept <= n
        <5>1. n \in 0 .. t /\ n \in 0 .. n /\ i <= n /\ n <= n
          BY <2>1, <3>5
        <5> QED
          BY <4>1, <4>3, <5>1
      <4>5. kept \in 0 .. n - given /\ kept <= Capacity
        BY <4>2, <4>3, CapacityIs
      <4> QED
        BY <4>2, <4>3, <4>4, <4>5
    <3> QED
      BY <2>1, <3>4, <3>5
  <2>5. given \in Nat /\ kept \in Nat
    BY <2>1, <2>3
  <2>6. moved \in 0 .. Len(q.putters) /\ Len(q.putters) - moved = n - (given + kept)
    <3> DEFINE p == Len(q.putters)
    <3>1. p \in Nat /\ n = i + p /\ i \in Nat
      BY <2>1
    <3> HIDE DEF p
    <3>2. moved = (given + kept) - i
      BY <2>2, <2>5, <3>1
    <3>3. i <= given + kept /\ given + kept <= i + p
      BY <2>3, <3>1
    <3>4. moved \in 0 .. p /\ p - moved = (i + p) - (given + kept)
      BY <2>5, <3>1, <3>2, <3>3
    <3> QED
      BY <3>1, <3>4 DEF p
  <2>4. /\ given \in 0 .. t /\ given \in 0 .. i + Len(q.putters)
        /\ kept \in 0 .. i + Len(q.putters) - given /\ kept <= Capacity
        /\ moved \in 0 .. Len(q.putters)
        /\ t - given # 0 => kept = 0 /\ Len(q.putters) - moved = 0
        /\ Len(q.putters) - moved # 0 => kept = Capacity
    BY <2>1, <2>3, <2>5, <2>6
  <2> QED
    BY <2>4 DEF t, i
<1>6. Len(its) + moved = given + kept
  <2> HIDE DEF given, kept
  <2>1. given \in Nat /\ kept \in Nat
    BY <1>5
  <2> QED
    BY <1>4, <2>1
<1> HIDE DEF given, kept, moved
<1>8. given \in 0 .. Len(all) /\ kept \in 0 .. Len(all) - given /\ given \in Nat
  BY <1>2, <1>5
<1>9. /\ First(all, given) \in Seq(Elements)
      /\ rest \in Seq(Elements) /\ Len(rest) = Len(all) - given
      /\ First(all, given) \o rest = all
  BY <1>2, <1>8, Halves
<1> HIDE DEF rest
<1>10. kept \in 0 .. Len(rest)
  BY <1>8, <1>9
<1>11. /\ r.items = First(rest, kept)
       /\ r.items \in Seq(Elements) /\ Len(r.items) = kept
       /\ r.items \o Without(rest, kept) = rest
  BY <1>3, <1>9, <1>10, Halves
<1>12. r.takers = Without(q.takers, given) /\ r.takers \in Seq(Consumers)
       /\ Len(r.takers) = Len(q.takers) - given /\ ToSet(r.takers) \subseteq ToSet(q.takers)
  <2> DEFINE ts == q.takers
             w == Without(ts, given)
  <2>1. r.takers = w
    BY <1>3
  <2>2. ts \in Seq(Consumers) /\ given \in 0 .. Len(ts)
    BY <1>1, <1>5
  <2> HIDE DEF ts
  <2>3. w \in Seq(Consumers) /\ Len(w) = Len(ts) - given
    BY <2>2, Halves
  <2>4. ToSet(w) \subseteq ToSet(ts)
    BY <2>2, MembersOfHalves
  <2> HIDE DEF w
  <2> QED
    BY <2>1, <2>3, <2>4 DEF w, ts
<1>13. r.putters = Without(q.putters, moved) /\ r.putters \in Seq(Entries)
       /\ Len(r.putters) = Len(q.putters) - moved
       /\ ToSet(r.putters) \subseteq ToSet(q.putters)
  <2> DEFINE ps == q.putters
             w == Without(ps, moved)
  <2>1. r.putters = w
    BY <1>3
  <2>2. ps \in Seq(Entries) /\ moved \in 0 .. Len(ps)
    BY <1>1, <1>5
  <2> HIDE DEF ps
  <2>3. w \in Seq(Entries) /\ Len(w) = Len(ps) - moved
    BY <2>2, Halves
  <2>4. ToSet(w) \subseteq ToSet(ps)
    BY <2>2, MembersOfHalves
  <2> HIDE DEF w
  <2> QED
    BY <2>1, <2>3, <2>4 DEF w, ps
<1>14. r.out = q.out \o First(all, given) /\ r.out \in Seq(Elements)
  BY <1>1, <1>3, <1>9, ConcatProperties
<1>15. QueuesOK(r)
  BY <1>5, <1>11, <1>12, <1>13, <1>14 DEF QueuesOK
<1>16. r.items \o Elems(r.putters) = rest
  <2>1. Elems(r.putters) = Without(e, moved)
    BY <1>1, <1>5, <1>13, ElemsWithout DEF e
  <2>2. moved \in 0 .. Len(e)
    BY <1>1, <1>5
  <2>3. Without(e, moved) = Without(all, Len(its) + moved)
    BY <1>1, <2>2, WithoutFirstPart DEF all
  <2>4. given \in Nat /\ kept \in Nat /\ given + kept <= Len(all)
    BY <1>8, <1>2
  <2>5. Without(rest, kept) = Without(all, given + kept)
    BY <1>2, <2>4, WithoutMore DEF rest
  <2> QED
    BY <1>6, <1>11, <2>1, <2>3, <2>5
<1>17. FlowOf(r) = FlowOf(q)
  <2>1. FlowOf(r) = (q.out \o First(all, given)) \o rest
    BY <1>14, <1>16 DEF FlowOf
  <2>2. (q.out \o First(all, given)) \o rest = q.out \o (First(all, given) \o rest)
    <3>1. Cat(Cat(q.out, First(all, given)), rest) = Cat(q.out, Cat(First(all, given), rest))
      BY <1>1, <1>9, CatTwice
    <3> QED
      BY <3>1 DEF Cat
  <2>3. FlowOf(q) = q.out \o all
    BY DEF FlowOf, all, e, its
  <2> QED
    BY <1>9, <2>1, <2>2, <2>3
<1>18. Passed(q, r)
  BY <1>9, <1>12, <1>13, <1>14, <1>17 DEF Passed
<1>21. Justified(r)
  <2>1. Full(r)
    BY <1>5, <1>11, <1>13, EmptySeq DEF Full
  <2>2. r.takers # <<>> => r.items = <<>> /\ r.putters = <<>>
    BY <1>5, <1>11, <1>12, <1>13, EmptySeq
  <2> QED
    BY <2>1, <2>2 DEF Justified
<1> QED
  BY <1>15, <1>18, <1>21 DEF r

(* After unsafeCompleteTakers nobody waits for what is there. *)
LEMMA TakersCompleted ==
    ASSUME NEW q, QueuesOK(q), Full(q)
    PROVE  LET r == CompleteTakers(q)
           IN  QueuesOK(r) /\ Passed(q, r) /\ Justified(r)
<1>1. CASE q.items = <<>> \/ q.takers = <<>>
  <2>1. CompleteTakers(q) = q
    BY <1>1 DEF CompleteTakers
  <2>2. q.items = <<>> => Len(q.items) = 0
    OBVIOUS
  <2>3. Justified(q)
    BY <1>1, <2>2, CapacityIs DEF Justified, Full
  <2> QED
    BY <2>1, <2>3, PassedSelf
<1>2. CASE ~(q.items = <<>> \/ q.takers = <<>>)
  <2>1. CompleteTakers(q) = Settle(q)
    BY <1>2 DEF CompleteTakers
  <2> QED
    BY <2>1, Settled
<1> QED
  BY <1>1, <1>2

(* After unsafeOnQueueEmptySpace nobody waits for what is there. *)
LEMMA EmptySpaceFilled ==
    ASSUME NEW q, QueuesOK(q)
    PROVE  LET r == OnQueueEmptySpace(q)
           IN  QueuesOK(r) /\ Passed(q, r) /\ Full(r) /\ (Idle(q) => Justified(r))
<1>1. CASE Len(q.items) >= Capacity \/ q.putters = <<>>
  <2>1. OnQueueEmptySpace(q) = q
    BY <1>1 DEF OnQueueEmptySpace
  <2>2. Len(q.items) >= Capacity => Len(q.items) = Capacity
    BY CapacityIs DEF QueuesOK
  <2>3. Full(q)
    BY <1>1, <2>2 DEF Full
  <2>4. Len(q.items) = Capacity => q.items # <<>>
    BY CapacityIs
  <2>5. Idle(q) => Justified(q)
    BY <1>1, <2>2, <2>3, <2>4 DEF Idle, Justified
  <2> QED
    BY <2>1, <2>3, <2>5, PassedSelf
<1>2. CASE ~(Len(q.items) >= Capacity \/ q.putters = <<>>)
  <2>1. OnQueueEmptySpace(q) = Settle(q)
    BY <1>2 DEF OnQueueEmptySpace
  <2> QED
    BY <2>1, Settled DEF Justified
<1> QED
  BY <1>1, <1>2

-----------------------------------------------------------------------------
(* The inductive invariant.                                                *)

Flow == FlowOf(Queues)
Through == ToSet(Flow)

(* Only producers under back pressure wait. *)
OnlyBackpressureWaits == strategy # "backpressure" => putters = <<>>

(* An element was offered by the producer that it names. *)
Numbered(e) == e[2] <= sent[e[1]]
OwnElements(p) == {e \in Elements : e[1] = p /\ Numbered(e)}
ElementsAreOwn ==
    /\ \A e \in Through \cup accepted : Numbered(e)
    /\ \A p \in Producers : ToSet(offering[p]) \subseteq OwnElements(p)

FlowIsInjective == IsInjective(Flow)

(* The elements that wait in putters are of the offer under way. *)
PuttersOffer == \A x \in ToSet(putters) : x.elem \in ToSet(offering[x.who])

(* Without sliding an offer that returned true has its elements through. *)
AcceptedStay == strategy # "sliding" => accepted \subseteq Through

(* What an offer still holds is new to the queue. *)
SurplusIsNew(p) ==
    phase[p] = "surplus" =>
        /\ surplus[p] # <<>> /\ IsInjective(surplus[p])
        /\ ToSet(surplus[p]) \subseteq ToSet(offering[p]) \ Through

(* The offer under way has not returned. *)
OfferIsOpen(p) ==
    phase[p] \in {"surplus", "putting", "put", "leaving"} =>
        ToSet(offering[p]) \cap accepted = {}

(* Without sliding the offer under way loses nothing. *)
OfferStays(p) ==
    strategy # "sliding" =>
        /\ phase[p] = "surplus" => ToSet(offering[p]) \subseteq Through \cup ToSet(surplus[p])
        /\ phase[p] = "put" => ToSet(offering[p]) \subseteq Through
        /\ phase[p] = "putting" /\ p \in Owners(putters) => ToSet(offering[p]) \subseteq Through

OfferIsRight(p) ==
    SurplusIsNew(p) /\ OfferIsOpen(p) /\ OfferStays(p) /\ phase[p] # "taking"

(* Deferreds are interrupted by shutdown only. *)
ClosesLater == shutdown = "open" => closing = {}

Inv ==
    /\ TypeOK /\ WaitersAreRight /\ OnlyBackpressureWaits
    /\ ElementsAreOwn /\ FlowIsInjective
    /\ PuttersOffer /\ AcceptedStay /\ ClosesLater
    /\ \A p \in Producers : OfferIsRight(p)

(* An element is its producer and a number. *)
LEMMA ElementIs ==
    /\ \A e \in Elements : e[1] \in Producers /\ e[2] \in Nat
    /\ \A p \in Producers : \A n \in 1 .. MaxOffers[p] :
          <<p, n>> \in Elements /\ <<p, n>>[1] = p /\ <<p, n>>[2] = n
  BY BoundsAssumption DEF Elements

(* The queues of a state are well formed. *)
LEMMA QueuesAreOK ==
    ASSUME TypeOK
    PROVE  QueuesOK(Queues)
  BY DEF TypeOK, QueuesOK, Queues, Entries

(* The flow of a state and its elements. *)
LEMMA FlowIs ==
    ASSUME TypeOK
    PROVE  /\ Flow \in Seq(Elements) /\ Through \subseteq Elements
           /\ items \o Elems(putters) \in Seq(Elements)
           /\ Flow = out \o (items \o Elems(putters))
           /\ Through = ToSet(out) \cup (ToSet(items) \cup ToSet(Elems(putters)))
<1> DEFINE e == Elems(putters)
           b == items \o e
<1>1. items \in Seq(Elements) /\ out \in Seq(Elements)
  BY DEF TypeOK
<1>2. e \in Seq(Elements)
  BY ElemsParts DEF TypeOK, Entries
<1>3. Flow = out \o b
  BY DEF Flow, FlowOf, Queues
<1> HIDE DEF e
<1>4. b \in Seq(Elements) /\ ToSet(b) = ToSet(items) \cup ToSet(e)
  <2>1. b = Cat(items, e)
    BY DEF Cat
  <2> QED
    BY <1>1, <1>2, <2>1, CatType, JoinedMembers
<1> HIDE DEF b
<1>5. Flow \in Seq(Elements) /\ ToSet(Flow) = ToSet(out) \cup ToSet(b)
  <2>1. Flow = Cat(out, b)
    BY <1>3 DEF Cat
  <2>2. b \in Seq(Elements) /\ out \in Seq(Elements)
    BY <1>1, <1>4
  <2>3. Cat(out, b) \in Seq(Elements)
    BY <2>2, CatType
  <2>4. ToSet(Cat(out, b)) = ToSet(out) \cup ToSet(b)
    BY <2>2, JoinedMembers
  <2> QED
    BY <2>1, <2>3, <2>4
<1>6. ToSet(Flow) \subseteq Elements
  BY <1>5, Members
<1> QED
  BY <1>3, <1>4, <1>5, <1>6 DEF Through, b, e

(* What a step may do to a producer whose offer is not at stake. *)
BystanderOf(p) ==
    \/ phase'[p] = phase[p]
    \/ phase[p] = "putting" /\ p \in Owners(putters) /\ phase'[p] = "put"
    \/ phase[p] = "putting" /\ phase'[p] = "leaving"
    \/ phase'[p] = "out"

(* Such a step keeps the producer's offer right. *)
LEMMA Bystander ==
    ASSUME NEW p \in Producers, OfferIsRight(p),
           UNCHANGED <<strategy, offering[p], surplus[p]>>,
           \A e \in ToSet(offering[p]) : e \in Through' => e \in Through,
           \A e \in ToSet(offering[p]) : e \in accepted' => e \in accepted,
           BystanderOf(p),
           p \in Owners(putters)' => p \in Owners(putters),
           strategy # "sliding" =>
               \/ ToSet(offering[p]) \cap Through \subseteq Through'
               \/ phase'[p] \notin {"surplus", "put"} /\ p \notin Owners(putters)'
    PROVE  OfferIsRight(p)'
<1>1. SurplusIsNew(p)'
  BY DEF OfferIsRight, SurplusIsNew, BystanderOf
<1>2. OfferIsOpen(p)'
  BY DEF OfferIsRight, OfferIsOpen, BystanderOf
<1>3. OfferStays(p)'
  BY DEF OfferIsRight, OfferStays, SurplusIsNew, BystanderOf
<1>4. phase'[p] # "taking"
  BY DEF OfferIsRight, BystanderOf
<1> QED
  BY <1>1, <1>2, <1>3, <1>4 DEF OfferIsRight

-----------------------------------------------------------------------------
(* What the loops do to those who wait.                                    *)

(* What Loops assigns. *)
LEMMA LoopsAre ==
    ASSUME NEW b, NEW r, NEW c, NEW s, Loops(b, r, c, s), phase \in [Clients -> Phases]
    PROVE  /\ items' = r.items /\ takers' = r.takers /\ putters' = r.putters /\ out' = r.out
           /\ Flow' = FlowOf(r)
           /\ phase' = [d \in Clients |-> phase'[d]]
           /\ \A d \in Clients :
                 LET m == IF d = c THEN s ELSE phase[d]
                 IN  /\ d \notin Completed(b, r) \/ m \notin {"taking", "putting"} => phase'[d] = m
                     /\ d \in Completed(b, r) /\ m = "taking" => phase'[d] = "taken"
                     /\ d \in Completed(b, r) /\ m = "putting" => phase'[d] = "put"
<1> DEFINE resumed == [taking |-> "taken", putting |-> "put"]
           moved == [phase EXCEPT ![c] = s]
<1>1. /\ items' = r.items /\ takers' = r.takers /\ putters' = r.putters /\ out' = r.out
      /\ phase' = [d \in Clients |->
            IF d \in Completed(b, r) /\ moved[d] \in DOMAIN resumed
            THEN resumed[moved[d]] ELSE moved[d]]
  BY DEF Loops
<1>2. Flow' = FlowOf(r)
  BY <1>1 DEF Flow, FlowOf, Queues
<1>3. /\ DOMAIN resumed = {"taking", "putting"}
      /\ resumed["taking"] = "taken" /\ resumed["putting"] = "put"
  OBVIOUS
<1>4. \A d \in Clients : moved[d] = IF d = c THEN s ELSE phase[d]
  OBVIOUS
<1> HIDE DEF resumed, moved
<1>5. phase' = [d \in Clients |-> phase'[d]]
  BY <1>1
<1>6. ASSUME NEW d \in Clients
      PROVE  LET m == IF d = c THEN s ELSE phase[d]
             IN  /\ d \notin Completed(b, r) \/ m \notin {"taking", "putting"} => phase'[d] = m
                 /\ d \in Completed(b, r) /\ m = "taking" => phase'[d] = "taken"
                 /\ d \in Completed(b, r) /\ m = "putting" => phase'[d] = "put"
  <2>1. phase'[d] = IF d \in Completed(b, r) /\ moved[d] \in DOMAIN resumed
                    THEN resumed[moved[d]] ELSE moved[d]
    BY <1>1
  <2> QED
    BY <1>3, <1>4, <2>1
<1> QED
  BY <1>1, <1>2, <1>5, <1>6

(* The queues were q; c goes to phase s, and may wait from now on. *)
Enters(b, c, s) ==
    /\ b.takers \in Seq(Consumers) /\ b.putters \in Seq(Entries)
    /\ c \in Clients /\ s \in Phases
    /\ c \notin ToSet(takers) /\ c \notin Owners(putters)
    /\ ToSet(takers) \subseteq ToSet(b.takers)
    /\ ToSet(b.takers) \subseteq ToSet(takers) \cup {c}
    /\ Owners(putters) \subseteq Owners(b.putters)
    /\ Owners(b.putters) \subseteq Owners(putters) \cup {c}
    /\ c \in ToSet(b.takers) => s \in {"taking", "leaving"}
    /\ c \in Owners(b.putters) => s \in {"putting", "leaving"}
    /\ s = "taking" => c \in ToSet(b.takers)
    /\ s = "putting" => c \in Owners(b.putters)

(* After the loops whoever waits does so with reason and can be found. *)
LEMMA LoopsRight ==
    ASSUME TypeOK, WaitersArePending, closing' = closing,
           NEW b, NEW c, NEW s, Enters(b, c, s),
           NEW r, QueuesOK(r), Justified(r), Loops(b, r, c, s),
           ToSet(r.takers) \subseteq ToSet(b.takers),
           ToSet(r.putters) \subseteq ToSet(b.putters)
    PROVE  /\ WaitersAreRight'
           /\ phase' \in [Clients -> Phases]
           /\ \A p \in Producers \ {c} :
                 BystanderOf(p) /\ (p \in Owners(putters)' => p \in Owners(putters))
           /\ phase'[c] = s \/ (s = "putting" /\ phase'[c] = "put")
                            \/ (s = "taking" /\ phase'[c] = "taken")
<1>1. phase \in [Clients -> Phases] /\ Producers \cap Consumers = {}
      /\ Producers \subseteq Clients /\ Consumers \subseteq Clients
  BY ClientsAssumption DEF TypeOK, Clients
<1>2. /\ items' = r.items /\ takers' = r.takers /\ putters' = r.putters
      /\ phase' = [d \in Clients |-> phase'[d]]
  BY <1>1, LoopsAre
<1>3. \A d \in Clients :
         LET m == IF d = c THEN s ELSE phase[d]
         IN  /\ d \notin Completed(b, r) \/ m \notin {"taking", "putting"} => phase'[d] = m
             /\ d \in Completed(b, r) /\ m = "taking" => phase'[d] = "taken"
             /\ d \in Completed(b, r) /\ m = "putting" => phase'[d] = "put"
  BY <1>1, LoopsAre
<1> DEFINE T == ToSet(takers)
           O == Owners(putters)
           bT == ToSet(b.takers)
           bO == Owners(b.putters)
           rT == ToSet(r.takers)
           rO == Owners(r.putters)
<1>4. rT \subseteq bT /\ rO \subseteq bO
  <2>1. r.putters \in Seq(Entries) /\ b.putters \in Seq(Entries)
    BY DEF QueuesOK, Enters
  <2>2. rO = {x.who : x \in ToSet(r.putters)} /\ bO = {x.who : x \in ToSet(b.putters)}
    BY <2>1, OwnersAre
  <2> QED
    BY <2>2
<1>5. bT \subseteq Consumers /\ bO \subseteq Producers
  BY Members, OwnersAre DEF Enters
<1>6. /\ \A d \in T : phase[d] \in {"taking", "leaving"}
      /\ \A d \in O : phase[d] \in {"putting", "leaving"}
      /\ \A d \in Clients : phase[d] \in {"taking", "putting"} => d \in T \cup O \cup closing
  BY DEF WaitersArePending
<1>7. \A d : d \in Completed(b, r) <=> d \in bT \ rT \/ d \in bO \ rO
  BY DEF Completed
<1>8. /\ c \in Clients /\ s \in Phases /\ c \notin T /\ c \notin O
      /\ T \subseteq bT /\ bT \subseteq T \cup {c} /\ O \subseteq bO /\ bO \subseteq O \cup {c}
      /\ c \in bT => s \in {"taking", "leaving"}
      /\ c \in bO => s \in {"putting", "leaving"}
      /\ s = "taking" => c \in bT
      /\ s = "putting" => c \in bO
  BY DEF Enters
<1>9. T' = rT /\ Owners(putters)' = rO
  BY <1>2
<1>10. NobodyWaitsInVain'
  BY <1>2 DEF NobodyWaitsInVain, Justified, Full
<1> HIDE DEF T, O, bT, bO, rT, rO
<1>11. \A d \in rT : phase'[d] \in {"taking", "leaving"}
  <2> SUFFICES ASSUME NEW d \in rT
               PROVE  phase'[d] \in {"taking", "leaving"}
    OBVIOUS
  <2>1. d \in Clients /\ d \notin Completed(b, r) /\ d \in bT
    BY <1>1, <1>4, <1>5, <1>7
  <2>2. phase'[d] = IF d = c THEN s ELSE phase[d]
    BY <1>3, <2>1
  <2> QED
    BY <1>6, <1>8, <2>1, <2>2
<1>12. \A d \in rO : phase'[d] \in {"putting", "leaving"}
  <2> SUFFICES ASSUME NEW d \in rO
               PROVE  phase'[d] \in {"putting", "leaving"}
    OBVIOUS
  <2>1. d \in Clients /\ d \notin Completed(b, r) /\ d \in bO
    BY <1>1, <1>4, <1>5, <1>7
  <2>2. phase'[d] = IF d = c THEN s ELSE phase[d]
    BY <1>3, <2>1
  <2> QED
    BY <1>6, <1>8, <2>1, <2>2
<1>13. ASSUME NEW d \in Clients, phase'[d] \in {"taking", "putting"}
       PROVE  d \in rT \cup rO \cup closing
  <2>1. /\ d \notin Completed(b, r)
        /\ (IF d = c THEN s ELSE phase[d]) \in {"taking", "putting"}
    BY <1>3, <1>13
  <2>2. d \in bT \cup bO \cup closing
    BY <1>6, <1>8, <2>1
  <2> QED
    BY <1>7, <2>1, <2>2
<1>14. WaitersArePending'
  <2>1. \A d \in ToSet(takers)' : phase'[d] \in {"taking", "leaving"}
    BY <1>9, <1>11 DEF T
  <2>2. \A d \in Owners(putters)' : phase'[d] \in {"putting", "leaving"}
    BY <1>9, <1>12
  <2>3. \A d \in Clients : phase'[d] \in {"taking", "putting"} =>
            d \in ToSet(takers)' \cup Owners(putters)' \cup closing'
    BY <1>9, <1>13 DEF T
  <2> QED
    BY <2>1, <2>2, <2>3 DEF WaitersArePending
<1>15. \A d \in Clients : phase'[d] \in Phases
  <2> SUFFICES ASSUME NEW d \in Clients
               PROVE  phase'[d] \in Phases
    OBVIOUS
  <2>1. (IF d = c THEN s ELSE phase[d]) \in Phases
    BY <1>1, <1>8
  <2>2. "taken" \in Phases /\ "put" \in Phases
    BY DEF Phases
  <2> HIDE DEF Phases
  <2> QED
    BY <1>3, <2>1, <2>2
<1>16. ASSUME NEW p \in Producers \ {c}
       PROVE  BystanderOf(p) /\ (p \in Owners(putters)' => p \in Owners(putters))
  <2>1. p \in Clients /\ p \notin bT /\ (p \in bO => p \in O) /\ p # c
    BY <1>1, <1>5, <1>8
  <2>2. p \in Completed(b, r) => p \in O /\ phase[p] \in {"putting", "leaving"}
    BY <1>6, <1>7, <2>1
  <2>3. \/ phase'[p] = phase[p]
        \/ p \in Completed(b, r) /\ phase[p] = "putting" /\ phase'[p] = "put"
    BY <1>3, <2>1, <2>2
  <2>4. BystanderOf(p)
    BY <2>2, <2>3 DEF BystanderOf, O
  <2>5. p \in Owners(putters)' => p \in Owners(putters)
    BY <1>4, <1>9, <2>1 DEF O
  <2> QED
    BY <2>4, <2>5
<1>17. phase'[c] = s \/ (s = "putting" /\ phase'[c] = "put")
                     \/ (s = "taking" /\ phase'[c] = "taken")
  BY <1>3, <1>8
<1> QED
  BY <1>2, <1>10, <1>14, <1>15, <1>16, <1>17 DEF WaitersAreRight

-----------------------------------------------------------------------------
(* Steps that lose nothing.                                                *)

(* The elements of new came, and as many as there are takers went. *)
Grows(new) ==
    /\ Flow' = Flow \o new
    /\ Through' = Through \cup ToSet(new)
    /\ FlowIsInjective'
    /\ Channel!Pass(0)

(* A step that extends the flow is one of the channel. *)
LEMMA PassIs ==
    ASSUME TypeOK, NEW x \in Seq(Elements), out' = out \o x,
           NEW new \in Seq(Elements), Flow' = Flow \o new, FlowIsInjective'
    PROVE  Channel!Pass(0)
<1> DEFINE buf == items \o Elems(putters)
<1>1. buf \in Seq(Elements) /\ out \in Seq(Elements) /\ Flow \in Seq(Elements) /\ Flow = out \o buf
  BY FlowIs DEF TypeOK
<1>2. Flow' = out' \o buf'
  BY DEF Flow, FlowOf, Queues
<1> HIDE DEF buf
<1>3. SubSeq(buf, 0 + 1, Len(buf)) = buf
  BY <1>1, SubSeqFull
<1>4. IsPrefix(out, out')
  BY <1>1, PrefixOfJoined DEF Cat
<1>5. IsPrefix(out \o SubSeq(buf, 0 + 1, Len(buf)), out' \o buf')
  <2>1. IsPrefix(Flow, Flow \o new)
    BY <1>1, PrefixOfJoined DEF Cat
  <2> QED
    BY <1>1, <1>2, <1>3, <2>1
<1>6. IsInjective(out' \o buf')
  BY <1>2 DEF FlowIsInjective
<1> QED
  <2>1. Channel!IsPrefix(out, out')
    BY <1>4 DEF IsPrefix, Channel!IsPrefix
  <2>2. Channel!IsPrefix(out \o SubSeq(buf, 0 + 1, Len(buf)), out' \o buf')
    BY <1>5 DEF IsPrefix, Channel!IsPrefix
  <2>3. Channel!IsInjective(out' \o buf')
    BY <1>6 DEF IsInjective, Channel!IsInjective
  <2> QED
    BY <2>1, <2>2, <2>3 DEF Channel!Pass, buf

(* The loops extend the flow by the new elements. *)
LEMMA GrownRight ==
    ASSUME TypeOK, FlowIsInjective,
           NEW q, QueuesOK(q), NEW r, Passed(q, r),
           NEW b, NEW c, NEW s, Loops(b, r, c, s),
           NEW new \in Seq(Elements), FlowOf(q) = Flow \o new,
           IsInjective(new), ToSet(new) \cap Through = {},
           NEW y \in Seq(Elements), q.out = out \o y
    PROVE  Grows(new)
<1>1. Flow \in Seq(Elements) /\ out \in Seq(Elements) /\ phase \in [Clients -> Phases]
  BY FlowIs DEF TypeOK
<1>2. Flow' = FlowOf(r) /\ out' = r.out
  BY <1>1, LoopsAre
<1>3. Flow' = Flow \o new
  BY <1>2 DEF Passed
<1>4. Through' = Through \cup ToSet(new)
  <2>1. ToSet(Cat(Flow, new)) = ToSet(Flow) \cup ToSet(new)
    BY <1>1, JoinedMembers
  <2> QED
    BY <1>3, <2>1 DEF Through, Cat
<1>5. FlowIsInjective'
  <2>1. IsInjective(Flow) /\ ToSet(Flow) \cap ToSet(new) = {}
    BY DEF FlowIsInjective, Through
  <2>2. IsInjective(Cat(Flow, new))
    BY <1>1, <2>1, JoinedInjective
  <2> QED
    BY <1>3, <2>2 DEF FlowIsInjective, Cat
<1>6. PICK x \in Seq(Elements) : r.out = q.out \o x
  BY DEF Passed
<1>7. out' = out \o (y \o x) /\ y \o x \in Seq(Elements)
  <2>1. Cat(Cat(out, y), x) = Cat(out, Cat(y, x)) /\ Cat(y, x) \in Seq(Elements)
    BY <1>1, CatTwice, CatType
  <2> QED
    BY <1>2, <1>6, <2>1 DEF Cat
<1>8. Channel!Pass(0)
  <2> DEFINE z == y \o x
  <2>1. z \in Seq(Elements) /\ out' = out \o z
    BY <1>7
  <2> HIDE DEF z
  <2> QED
    BY <1>3, <1>5, <2>1, PassIs
<1> QED
  BY <1>3, <1>4, <1>5, <1>8 DEF Grows

(* A step that moves no element is one of the channel. *)
LEMMA Unmoved ==
    ASSUME TypeOK, FlowIsInjective, UNCHANGED <<items, putters, out>>
    PROVE  Flow' = Flow /\ Through' = Through /\ FlowIsInjective' /\ Channel!Pass(0)
<1>1. Flow' = Flow
  BY DEF Flow, FlowOf, Queues
<1>2. Through' = Through /\ FlowIsInjective'
  BY <1>1 DEF Through, FlowIsInjective
<1>3. <<>> \in Seq(Elements) /\ out' = out \o <<>> /\ Flow' = Flow \o <<>>
  <2>1. out \in Seq(Elements) /\ Flow \in Seq(Elements)
    BY FlowIs DEF TypeOK
  <2> QED
    BY <1>1, <2>1, ConcatEmptySeq
<1>4. Channel!Pass(0)
  BY <1>2, <1>3, PassIs
<1> QED
  BY <1>1, <1>2, <1>4

(* The steps of the channel, with what holds of accepted. *)
LEMMA ChannelSteps ==
    ASSUME TypeOK', AcceptedStay', accepted \subseteq accepted', strategy' = strategy,
           \/ Channel!Pass(0)
           \/ strategy = "sliding"
              /\ \E k \in 1 .. Len(items \o Elems(putters)) : Channel!Pass(k)
           \/ \E S \in SUBSET ToSet(items \o Elems(putters)) : Channel!Withdraw(S)
    PROVE  Channel!Next
<1> DEFINE buf == items \o Elems(putters)
           D == Elements
<1>1. buf' \in Seq(D) /\ out' \in Seq(D) /\ Flow' = out' \o buf'
  <2> DEFINE e == Elems(putters)
  <2>1. putters' \in Seq(Entries) /\ items' \in Seq(Elements) /\ out' \in Seq(Elements)
    BY DEF TypeOK, Entries
  <2>2. e' \in Seq(Elements)
    BY <2>1, ElemsParts
  <2>3. Flow' = out' \o (items' \o e')
    BY DEF Flow, FlowOf, Queues
  <2> HIDE DEF e
  <2>4. items' \o e' \in Seq(Elements)
    BY <2>1, <2>2
  <2> QED
    BY <2>1, <2>3, <2>4 DEF e
<1> HIDE DEF buf, D
<1>3. ToSet(buf' \o out') = ToSet(buf') \cup ToSet(out')
      /\ ToSet(out' \o buf') = ToSet(buf') \cup ToSet(out')
  <2>1. ToSet(Cat(buf', out')) = ToSet(buf') \cup ToSet(out')
        /\ ToSet(Cat(out', buf')) = ToSet(buf') \cup ToSet(out')
    BY <1>1, JoinedMembers
  <2> QED
    BY <2>1 DEF Cat
<1>4. strategy = "sliding" \/ accepted' \subseteq ToSet(buf' \o out')
  BY <1>1, <1>3 DEF AcceptedStay, Through
<1>5. Channel!ToSet(buf' \o out') = ToSet(buf' \o out')
  BY DEF ToSet, Channel!ToSet
<1>6. Channel!Accept
  BY <1>4, <1>5 DEF Channel!Accept, buf
<1>7. ToSet(buf) = Channel!ToSet(buf)
  BY DEF ToSet, Channel!ToSet
<1>8. (strategy = "sliding")' <=> (strategy = "sliding")
  OBVIOUS
<1> QED
  BY <1>6, <1>7, <1>8 DEF Channel!Next, buf

-----------------------------------------------------------------------------
(* Offers.                                                                 *)

(* The elements of an offer are its producer's, and new. *)
LEMMA NewElements ==
    ASSUME NEW p \in Producers, NEW k \in Nat, NEW n \in Nat, k + n <= MaxOffers[p],
           NEW es, es = [i \in DOMAIN es |-> es[i]], DOMAIN es = 1 .. n,
           \A i \in 1 .. n : es[i] = <<p, k + i>>
    PROVE  /\ es \in Seq(Elements) /\ Len(es) = n /\ IsInjective(es)
           /\ \A e \in ToSet(es) : e[1] = p /\ e[2] \in Nat /\ k < e[2] /\ e[2] <= k + n
<1>1. ASSUME NEW i \in 1 .. n
      PROVE  es[i] \in Elements /\ es[i] = <<p, k + i>>
  <2>1. MaxOffers[p] \in Nat
    BY BoundsAssumption
  <2>2. k + i \in 1 .. MaxOffers[p]
    BY <2>1
  <2> QED
    BY <2>2, ElementIs
<1>2. es \in [1 .. n -> Elements]
  BY <1>1
<1>3. es \in Seq(Elements) /\ Len(es) = n /\ DOMAIN es = 1 .. n
  BY <1>2, FunctionIsSeq
<1>4. ASSUME NEW i \in 1 .. n, NEW j \in 1 .. n, es[i] = es[j]
      PROVE  i = j
  <2>1. k + i = k + j
    BY <1>1, <1>4
  <2> QED
    BY <2>1
<1>5. IsInjective(es)
  BY <1>3, <1>4 DEF IsInjective
<1>7. ASSUME NEW e \in ToSet(es)
      PROVE  e[1] = p /\ e[2] \in Nat /\ k < e[2] /\ e[2] <= k + n
  <2>1. PICK i \in 1 .. n : e = es[i]
    BY <1>3 DEF ToSet
  <2>2. e[1] = p /\ e[2] = k + i
    BY <1>1, <2>1
  <2> QED
    BY <2>2
<1> QED
  BY <1>3, <1>5, <1>7

(* New elements that go to takers and into the buffer are at the end of all. *)
LEMMA FlowJoined ==
    ASSUME NEW D, NEW o \in Seq(D), NEW it \in Seq(D), NEW e \in Seq(D),
           NEW g \in Seq(D), NEW h \in Seq(D),
           e # <<>> => g = <<>> /\ h = <<>>,
           g # <<>> => it = <<>>
    PROVE  Cat(Cat(o, g), Cat(Cat(it, h), e)) = Cat(Cat(o, Cat(it, e)), Cat(g, h))
<1>1. Cat(o, it) \in Seq(D) /\ Cat(it, e) \in Seq(D) /\ Cat(it, h) \in Seq(D)
  BY CatType
<1>2. Cat(o, Cat(it, e)) \in Seq(D)
  BY <1>1, CatType
<1>3. CASE e # <<>>
  <2>1. g = <<>> /\ h = <<>> /\ <<>> \in Seq(D)
    BY <1>3
  <2>2. Cat(o, <<>>) = o /\ Cat(it, <<>>) = it /\ Cat(<<>>, <<>>) = <<>>
    BY <2>1, CatEmpty
  <2>3. Cat(Cat(o, Cat(it, e)), <<>>) = Cat(o, Cat(it, e))
    BY <1>2, CatEmpty
  <2> QED
    BY <2>1, <2>2, <2>3
<1>4. CASE e = <<>>
  <2>1. Cat(Cat(it, h), e) = Cat(it, h) /\ Cat(it, e) = it
    BY <1>1, <1>4, CatEmpty
  <2>2. CASE g = <<>>
    BY <2>1, <2>2, CatEmpty, CatTwice
  <2>3. CASE it = <<>>
    BY <2>1, <2>3, CatEmpty, CatTwice
  <2> QED
    BY <2>2, <2>3
<1> QED
  BY <1>3, <1>4

(* What offer makes of the queues: new goes through, rest does not. *)
Offered(es, n, direct, fits, q) ==
    /\ direct = IF items = <<>> THEN Less(Len(takers), n) ELSE 0
    /\ fits = Less(n - direct, Capacity - Len(items))
    /\ q = [items |-> items \o First(Without(es, direct), fits),
            takers |-> Without(takers, direct),
            putters |-> putters,
            out |-> out \o First(es, direct)]

Divided(q, es, rest, new, y) ==
    /\ QueuesOK(q) /\ Full(q)
    /\ ToSet(q.takers) \subseteq ToSet(takers)
    /\ FlowOf(q) = Flow \o new
    /\ rest \in Seq(Elements)
    /\ es = new \o rest
    /\ q.out = out \o y

(* What an offer does to the queues before the loop. *)
LEMMA OfferedQueues ==
    ASSUME TypeOK, NobodyWaitsInVain, NEW n \in Nat,
           NEW es \in Seq(Elements), Len(es) = n,
           NEW direct, NEW fits, NEW q, Offered(es, n, direct, fits, q)
    PROVE  \E new \in Seq(Elements), y \in Seq(Elements) :
              Divided(q, es, Without(es, direct + fits), new, y)
<1> DEFINE g == First(es, direct)
           u == Without(es, direct)
           h == First(u, fits)
           rest == Without(es, direct + fits)
           e == Elems(putters)
<1>0. /\ direct = IF items = <<>> THEN Less(Len(takers), n) ELSE 0
      /\ fits = Less(n - direct, Capacity - Len(items))
      /\ q.items = items \o h /\ q.takers = Without(takers, direct)
      /\ q.putters = putters /\ q.out = out \o g
  BY DEF Offered
<1>1. /\ items \in Seq(Elements) /\ Len(items) <= Capacity /\ takers \in Seq(Consumers)
      /\ putters \in Seq(Entries) /\ out \in Seq(Elements)
  BY DEF TypeOK, Entries
<1>2. Len(items) \in Nat /\ Len(takers) \in Nat /\ Capacity - Len(items) \in Nat
  BY <1>1, CapacityIs
<1>3. /\ direct \in 0 .. n /\ direct \in 0 .. Len(takers)
      /\ direct # 0 => items = <<>> /\ takers # <<>>
  <2>1. CASE items = <<>>
    <3>1. direct = IF Len(takers) <= n THEN Len(takers) ELSE n
      BY <1>0, <1>2, <2>1, LessIs
    <3>2. Len(takers) # 0 => takers # <<>>
      OBVIOUS
    <3> QED
      BY <1>2, <2>1, <3>1, <3>2
  <2>2. CASE items # <<>>
    BY <1>0, <1>2, <2>2
  <2> QED
    BY <2>1, <2>2
<1>4. n - direct \in Nat /\ direct \in Nat
  BY <1>3
<1>5. fits = IF n - direct <= Capacity - Len(items) THEN n - direct ELSE Capacity - Len(items)
  BY <1>0, <1>2, <1>4, LessIs
<1>6. fits \in 0 .. n - direct /\ fits <= Capacity - Len(items) /\ fits \in Nat
  BY <1>2, <1>4, <1>5
<1>7. /\ g \in Seq(Elements) /\ Len(g) = direct
      /\ u \in Seq(Elements) /\ Len(u) = n - direct /\ g \o u = es
  BY <1>3, Halves
<1>8. Without(u, fits) = rest
  <2>1. direct + fits <= Len(es)
    BY <1>3, <1>6
  <2> QED
    BY <1>4, <1>6, <2>1, WithoutMore
<1> HIDE DEF g, u, rest
<1>9. /\ h \in Seq(Elements) /\ Len(h) = fits
      /\ rest \in Seq(Elements) /\ h \o rest = u
  <2>1. fits \in 0 .. Len(u)
    BY <1>6, <1>7
  <2>2. /\ h \in Seq(Elements) /\ Len(h) = fits
        /\ Without(u, fits) \in Seq(Elements) /\ h \o Without(u, fits) = u
    BY <1>7, <2>1, Halves
  <2> QED
    BY <1>8, <2>2
<1>10. e \in Seq(Elements) /\ (e = <<>> <=> putters = <<>>)
  BY <1>1, ElemsParts
<1> HIDE DEF h, e
<1>12. QueuesOK(q)
  <2>1. items \o h \in Seq(Elements) /\ Len(items \o h) <= Capacity
    <3>1. items \o h \in Seq(Elements) /\ Len(items \o h) = Len(items) + Len(h)
      BY <1>1, <1>9, ConcatProperties
    <3> QED
      BY <1>2, <1>6, <1>9, <3>1, CapacityIs
  <2>2. out \o g \in Seq(Elements)
    BY <1>1, <1>7, ConcatProperties
  <2>3. Without(takers, direct) \in Seq(Consumers)
    BY <1>1, <1>3, Halves
  <2> QED
    BY <1>1, <1>0, <2>1, <2>2, <2>3 DEF QueuesOK
<1>19. ToSet(q.takers) \subseteq ToSet(takers)
  BY <1>1, <1>3, <1>0, MembersOfHalves
<1>13. putters # <<>> => Len(items) = Capacity /\ takers = <<>>
  BY DEF NobodyWaitsInVain
<1>14. putters # <<>> => direct = 0 /\ fits = 0
  BY <1>2, <1>3, <1>4, <1>6, <1>13, CapacityIs
<1>15. (direct = 0 => g = <<>>) /\ (fits = 0 => h = <<>>)
  BY <1>7, <1>9, EmptySeq
<1>16. Full(q)
  <2>1. h = <<>> => items \o h = items
    BY <1>1
  <2> QED
    BY <1>0, <1>13, <1>14, <1>15, <2>1 DEF Full
<1>17. FlowOf(q) = Flow \o (g \o h)
  <2>1. FlowOf(q) = (out \o g) \o ((items \o h) \o e)
    BY <1>0 DEF FlowOf, e
  <2>2. Flow = out \o (items \o e)
    BY FlowIs DEF e
  <2>3. (e # <<>> => g = <<>> /\ h = <<>>) /\ (g # <<>> => items = <<>>)
    BY <1>3, <1>7, <1>10, <1>14, <1>15
  <2>4. (out \o g) \o ((items \o h) \o e) = (out \o (items \o e)) \o (g \o h)
    <3>1. Cat(Cat(out, g), Cat(Cat(items, h), e)) = Cat(Cat(out, Cat(items, e)), Cat(g, h))
      <4>1. /\ out \in Seq(Elements) /\ items \in Seq(Elements) /\ e \in Seq(Elements)
            /\ g \in Seq(Elements) /\ h \in Seq(Elements)
        BY <1>1, <1>7, <1>9, <1>10
      <4> HIDE DEF e, h
      <4> QED
        BY <2>3, <4>1, FlowJoined
    <3> QED
      BY <3>1 DEF Cat
  <2> QED
    BY <2>1, <2>2, <2>4
<1>18. es = (g \o h) \o rest /\ g \o h \in Seq(Elements)
  <2>1. Cat(Cat(g, h), rest) = Cat(g, Cat(h, rest)) /\ Cat(g, h) \in Seq(Elements)
    BY <1>7, <1>9, CatTwice, CatType
  <2> QED
    BY <1>7, <1>9, <2>1 DEF Cat
<1> QED
  <2> DEFINE new == g \o h
  <2>1. new \in Seq(Elements) /\ FlowOf(q) = Flow \o new /\ es = new \o rest
    BY <1>17, <1>18
  <2> HIDE DEF new
  <2>2. q.out = out \o g /\ g \in Seq(Elements) /\ rest \in Seq(Elements)
    BY <1>7, <1>9, <1>0
  <2> QED
    <3>1. Divided(q, es, rest, new, g)
      BY <1>12, <1>16, <1>19, <2>1, <2>2 DEF Divided
    <3> QED
      BY <2>1, <2>2, <3>1 DEF rest

(* A sequence without members is empty. *)
LEMMA NoMembers ==
    ASSUME NEW D, NEW s \in Seq(D), ToSet(s) = {}
    PROVE  s = <<>>
<1>1. s # <<>> => 1 \in DOMAIN s
  OBVIOUS
<1> QED
  BY <1>1 DEF ToSet

(* A step that offers no element of another producer keeps ElementsAreOwn. *)
LEMMA OwnKept ==
    ASSUME TypeOK, ElementsAreOwn, sent' \in [Producers -> Nat],
           \A p \in Producers : sent[p] <= sent'[p],
           \A e \in Through' \cup accepted' : e \in Through \cup accepted \/ Numbered(e)',
           \A p \in Producers :
               ToSet(offering'[p]) \subseteq ToSet(offering[p]) \cup OwnElements(p)'
    PROVE  ElementsAreOwn'
<1>1. sent \in [Producers -> Nat] /\ accepted \subseteq Elements /\ Through \subseteq Elements
  BY FlowIs DEF TypeOK
<1>2. \A e \in Elements : Numbered(e) => Numbered(e)'
  BY <1>1, ElementIs DEF Numbered
<1>3. \A e \in Through' \cup accepted' : Numbered(e)'
  BY <1>1, <1>2 DEF ElementsAreOwn
<1>4. \A p \in Producers : ToSet(offering[p]) \subseteq OwnElements(p)'
  BY <1>2 DEF ElementsAreOwn, OwnElements, Elements
<1> QED
  BY <1>3, <1>4 DEF ElementsAreOwn

(* A producer that does not wait may end its offer. *)
LEMMA PuttersOfferStill ==
    ASSUME TypeOK, PuttersOffer, NEW p, p \notin Owners(putters),
           \A d \in Producers \ {p} : offering'[d] = offering[d],
           ToSet(putters') \subseteq ToSet(putters)
    PROVE  PuttersOffer'
<1>1. putters \in Seq(Entries)
  BY DEF TypeOK, Entries
<1>2. \A x \in ToSet(putters) : x.who \in Owners(putters) /\ x.who \in Producers
  BY <1>1, OwnersAre
<1>3. ASSUME NEW x \in ToSet(putters')
      PROVE  x.elem \in ToSet(offering'[x.who])
  <2>1. x \in ToSet(putters) /\ x.who \in Producers \ {p}
    BY <1>2
  <2> QED
    BY <2>1 DEF PuttersOffer
<1> QED
  BY <1>3 DEF PuttersOffer

(* A client that does not wait is in neither queue. *)
LEMMA IdleIsOutside ==
    ASSUME TypeOK, WaitersArePending, NEW c \in Clients,
           phase[c] \notin {"taking", "putting", "leaving"}
    PROVE  c \notin ToSet(takers) /\ c \notin Owners(putters)
  BY DEF WaitersArePending

(* The loops leave no putter unless there is back pressure. *)
LEMMA StillNoPutters ==
    ASSUME OnlyBackpressureWaits, strategy' = strategy, putters' \in Seq(Entries),
           ToSet(putters') \subseteq ToSet(putters)
    PROVE  OnlyBackpressureWaits'
<1>1. putters = <<>> => ToSet(putters) = {}
  BY DEF ToSet
<1>2. ToSet(putters') = {} => putters' = <<>>
  BY NoMembers
<1> QED
  BY <1>1, <1>2 DEF OnlyBackpressureWaits

(* The type invariant after a loop. *)
LEMMA TypeAfter ==
    ASSUME TypeOK, NEW r, QueuesOK(r),
           items' = r.items, takers' = r.takers, putters' = r.putters, out' = r.out,
           UNCHANGED <<strategy, shutdown, closing, interrupted>>,
           phase' \in [Clients -> Phases],
           offering' \in [Producers -> Seq(Elements)], surplus' \in [Producers -> Seq(Elements)],
           sent' \in [Producers -> Nat], \A p \in Producers : sent'[p] <= MaxOffers[p],
           took' \in [Consumers -> 0 .. MaxTakes], accepted' \subseteq Elements
    PROVE  TypeOK'
<1>1. /\ strategy' \in Strategies /\ shutdown' \in {"open", "takers", "putters"}
      /\ closing' \in SUBSET Clients /\ interrupted' \in [Clients -> BOOLEAN]
  BY DEF TypeOK
<1>2. /\ items' \in Seq(Elements) /\ Len(items') <= Capacity /\ takers' \in Seq(Consumers)
      /\ putters' \in Seq([elem : Elements, who : Producers]) /\ out' \in Seq(Elements)
  BY DEF QueuesOK, Entries
<1> QED
  BY <1>1, <1>2 DEF TypeOK

(* Offer: the elements go to takers, into the buffer, or to the strategy. *)
LEMMA OfferRight ==
    ASSUME Inv, NEW p \in Producers, NEW n \in 1 .. MaxBatch, Offer(p, n)
    PROVE  Inv' /\ Channel!Next
<1>1. PICK es : es = [i \in 1 .. n |-> <<p, sent[p] + i>>]
  OBVIOUS
<1>2. PICK direct : direct = IF items = <<>> THEN Less(Len(takers), n) ELSE 0
  OBVIOUS
<1>3. PICK fits : fits = Less(n - direct, Capacity - Len(items))
  OBVIOUS
<1>4. PICK q : q = [items |-> items \o First(Without(es, direct), fits),
                    takers |-> Without(takers, direct),
                    putters |-> putters,
                    out |-> out \o First(es, direct)]
  OBVIOUS
<1>5. PICK rest : rest = Without(es, direct + fits)
  OBVIOUS
<1>6. PICK r, b, s : /\ r = CompleteTakers(q) /\ b = Queues
                     /\ s = IF rest = <<>> THEN "idle" ELSE "surplus"
  OBVIOUS
<1>7. /\ phase[p] = "idle" /\ sent[p] + n <= MaxOffers[p]
      /\ Loops(b, r, p, s)
      /\ sent' = [sent EXCEPT ![p] = @ + n]
      /\ offering' = [offering EXCEPT ![p] = IF rest = <<>> THEN <<>> ELSE es]
      /\ surplus' = [surplus EXCEPT ![p] = rest]
      /\ accepted' = IF rest = <<>> THEN accepted \cup ToSet(es) ELSE accepted
      /\ UNCHANGED <<strategy, shutdown, closing, interrupted, took>>
  BY <1>1, <1>2, <1>3, <1>4, <1>5, <1>6 DEF Offer, shutdownVars
<1>8. /\ TypeOK /\ NobodyWaitsInVain /\ WaitersArePending /\ OnlyBackpressureWaits
      /\ ElementsAreOwn /\ FlowIsInjective /\ PuttersOffer /\ AcceptedStay
      /\ \A d \in Producers : OfferIsRight(d)
  BY DEF Inv, WaitersAreRight
<1>9. /\ sent \in [Producers -> Nat] /\ n \in Nat /\ p \in Clients
      /\ offering \in [Producers -> Seq(Elements)] /\ surplus \in [Producers -> Seq(Elements)]
      /\ accepted \subseteq Elements /\ took \in [Consumers -> 0 .. MaxTakes]
      /\ phase \in [Clients -> Phases] /\ \A d \in Producers : sent[d] <= MaxOffers[d]
  BY <1>8 DEF TypeOK, Clients
<1>10. /\ es \in Seq(Elements) /\ Len(es) = n /\ IsInjective(es)
       /\ \A e \in ToSet(es) : e[1] = p /\ e[2] \in Nat /\ sent[p] < e[2] /\ e[2] <= sent[p] + n
  <2> DEFINE k == sent[p]
  <2>1. k \in Nat /\ k + n <= MaxOffers[p]
    BY <1>7, <1>9
  <2>2. /\ es = [i \in DOMAIN es |-> es[i]] /\ DOMAIN es = 1 .. n
        /\ \A i \in 1 .. n : es[i] = <<p, k + i>>
    BY <1>1
  <2> HIDE DEF k
  <2>3. /\ es \in Seq(Elements) /\ Len(es) = n /\ IsInjective(es)
        /\ \A e \in ToSet(es) : e[1] = p /\ e[2] \in Nat /\ k < e[2] /\ e[2] <= k + n
    BY <1>9, <2>1, <2>2, NewElements
  <2> QED
    BY <2>3 DEF k
<1>29. PICK new \in Seq(Elements), y \in Seq(Elements) : Divided(q, es, rest, new, y)
  <2>1. Offered(es, n, direct, fits, q)
    BY <1>2, <1>3, <1>4 DEF Offered
  <2>2. \E new \in Seq(Elements), y \in Seq(Elements) :
           Divided(q, es, Without(es, direct + fits), new, y)
    BY <1>8, <1>9, <1>10, <2>1, OfferedQueues
  <2> QED
    BY <1>5, <2>2
<1>11. /\ QueuesOK(q) /\ Full(q)
       /\ ToSet(q.takers) \subseteq ToSet(takers)
       /\ FlowOf(q) = Flow \o new
       /\ rest \in Seq(Elements)
       /\ es = new \o rest
       /\ q.out = out \o y
  BY <1>29 DEF Divided
<1>12. QueuesOK(r) /\ Passed(q, r) /\ Justified(r)
  BY <1>6, <1>11, TakersCompleted
<1>13. /\ ToSet(es) = ToSet(new) \cup ToSet(rest)
       /\ IsInjective(new) /\ IsInjective(rest) /\ ToSet(new) \cap ToSet(rest) = {}
  BY <1>10, <1>11, JoinedMembers, JoinedInjective DEF Cat
<1>14. ToSet(es) \cap (Through \cup accepted) = {} /\ ToSet(es) \subseteq Elements
  <2>1. \A e \in Through \cup accepted : e[2] <= sent[e[1]]
    BY <1>8 DEF ElementsAreOwn, Numbered
  <2>2. \A e \in ToSet(es) : e[1] = p /\ ~(e[2] <= sent[p])
    BY <1>9, <1>10
  <2> QED
    BY <1>10, <2>1, <2>2, Members
<1>15. Grows(new)
  BY <1>7, <1>8, <1>11, <1>12, <1>13, <1>14, GrownRight
<1>16. /\ items' = r.items /\ takers' = r.takers /\ putters' = r.putters /\ out' = r.out
  BY <1>7, <1>9, LoopsAre
<1>17. b.takers = takers /\ b.putters = putters /\ q.putters = putters
  BY <1>4, <1>6 DEF Queues
<1>18. ToSet(r.takers) \subseteq ToSet(b.takers) /\ ToSet(r.putters) \subseteq ToSet(b.putters)
  BY <1>11, <1>12, <1>17 DEF Passed
<1>19. Enters(b, p, s) /\ p \notin Owners(putters)
  <2>1. p \notin ToSet(takers) /\ p \notin Owners(putters)
    BY <1>7, <1>8, <1>9, IdleIsOutside
  <2>2. s \in {"idle", "surplus"} /\ s \in Phases
    BY <1>6 DEF Phases
  <2>3. takers \in Seq(Consumers) /\ putters \in Seq(Entries)
    BY <1>8 DEF TypeOK, Entries
  <2> QED
    BY <1>9, <1>17, <2>1, <2>2, <2>3 DEF Enters
<1>20. /\ WaitersAreRight'
       /\ phase' \in [Clients -> Phases]
       /\ \A d \in Producers \ {p} :
             BystanderOf(d) /\ (d \in Owners(putters)' => d \in Owners(putters))
       /\ phase'[p] = s
  <2>1. s \notin {"putting", "taking"}
    BY <1>6
  <2> QED
    BY <1>7, <1>8, <1>12, <1>18, <1>19, <2>1, LoopsRight
<1>21. TypeOK'
  <2>1. /\ offering' \in [Producers -> Seq(Elements)] /\ surplus' \in [Producers -> Seq(Elements)]
        /\ took' \in [Consumers -> 0 .. MaxTakes] /\ accepted' \subseteq Elements
    BY <1>7, <1>9, <1>10, <1>11, <1>14
  <2>2. sent' \in [Producers -> Nat] /\ \A d \in Producers : sent'[d] <= MaxOffers[d]
    BY <1>7, <1>9
  <2> QED
    BY <1>7, <1>8, <1>12, <1>16, <1>20, <2>1, <2>2, TypeAfter
<1>22. Through' = Through \cup ToSet(new) /\ FlowIsInjective' /\ Channel!Pass(0)
  BY <1>15 DEF Grows
<1>23. ElementsAreOwn'
  <2>1. sent' \in [Producers -> Nat] /\ sent'[p] = sent[p] + n
        /\ \A d \in Producers : sent[d] <= sent'[d]
    BY <1>7, <1>9
  <2>2. \A e \in ToSet(es) : Numbered(e)' /\ e \in OwnElements(p)'
    BY <1>10, <1>14, <2>1 DEF Numbered, OwnElements, Elements
  <2>3. \A e \in Through' \cup accepted' : e \in Through \cup accepted \/ Numbered(e)'
    BY <1>7, <1>13, <1>22, <2>2
  <2>4. \A d \in Producers : ToSet(offering'[d]) \subseteq ToSet(offering[d]) \cup OwnElements(d)'
    <3>1. offering'[p] = <<>> \/ offering'[p] = es
      BY <1>7, <1>9
    <3>2. \A d \in Producers \ {p} : offering'[d] = offering[d]
      BY <1>7, <1>9
    <3>3. ToSet(<<>>) = {}
      BY DEF ToSet
    <3> QED
      BY <2>2, <3>1, <3>2, <3>3
  <2> QED
    BY <1>8, <2>1, <2>3, <2>4, OwnKept
<1>24. PuttersOffer' /\ OnlyBackpressureWaits'
  <2>1. \A d \in Producers \ {p} : offering'[d] = offering[d]
    BY <1>7, <1>9
  <2>2. ToSet(putters') \subseteq ToSet(putters) /\ putters' \in Seq(Entries)
    BY <1>12, <1>16, <1>17, <1>18 DEF QueuesOK
  <2> QED
    BY <1>7, <1>8, <1>19, <2>1, <2>2, PuttersOfferStill, StillNoPutters
<1>25. AcceptedStay'
  <2>1. rest = <<>> => ToSet(es) = ToSet(new)
    <3>1. ToSet(<<>>) = {}
      BY DEF ToSet
    <3> QED
      BY <1>13, <3>1
  <2> QED
    BY <1>7, <1>8, <1>22, <2>1 DEF AcceptedStay
<1>26. OfferIsRight(p)'
  <2>1. CASE rest = <<>>
    BY <1>6, <1>20, <2>1 DEF OfferIsRight, SurplusIsNew, OfferIsOpen, OfferStays
  <2>2. CASE rest # <<>>
    <3>1. phase'[p] = "surplus" /\ offering'[p] = es /\ surplus'[p] = rest /\ accepted' = accepted
      BY <1>6, <1>7, <1>9, <1>20, <2>2
    <3>2. SurplusIsNew(p)'
      BY <1>13, <1>14, <1>22, <2>2, <3>1 DEF SurplusIsNew
    <3>3. OfferIsOpen(p)'
      BY <1>14, <3>1 DEF OfferIsOpen
    <3>4. OfferStays(p)'
      BY <1>13, <1>22, <3>1 DEF OfferStays
    <3> QED
      BY <3>1, <3>2, <3>3, <3>4 DEF OfferIsRight
  <2> QED
    BY <2>1, <2>2
<1>27. ASSUME NEW d \in Producers \ {p}
       PROVE  OfferIsRight(d)'
  <2>1. UNCHANGED <<strategy, offering[d], surplus[d]>>
    BY <1>7, <1>9
  <2>2. \A e \in ToSet(offering[d]) : e[1] # p
    BY <1>8 DEF ElementsAreOwn, OwnElements
  <2>3. \A e \in ToSet(new) \cup ToSet(es) : e[1] = p
    BY <1>10, <1>13
  <2>4. \A e \in ToSet(offering[d]) : e \in Through' => e \in Through
    BY <1>22, <2>2, <2>3
  <2>5. \A e \in ToSet(offering[d]) : e \in accepted' => e \in accepted
    BY <1>7, <2>2, <2>3
  <2>6. BystanderOf(d) /\ (d \in Owners(putters)' => d \in Owners(putters))
    BY <1>20
  <2>7. ToSet(offering[d]) \cap Through \subseteq Through'
    BY <1>22
  <2> QED
    BY <1>8, <2>1, <2>4, <2>5, <2>6, <2>7, Bystander
<1>28. Channel!Next
  <2>1. accepted \subseteq accepted' /\ strategy' = strategy
    BY <1>7
  <2> QED
    BY <1>21, <1>22, <1>25, <2>1, ChannelSteps
<1>30. ClosesLater'
  BY <1>7 DEF Inv, ClosesLater
<1> QED
  BY <1>20, <1>21, <1>22, <1>23, <1>24, <1>25, <1>26, <1>27, <1>28, <1>30 DEF Inv

-----------------------------------------------------------------------------
(* The producer enters putters.                                            *)

(* The entries in putters for the elements of es. *)
EntriesOf(es, p, en) ==
    DOMAIN en = DOMAIN es /\ \A i \in DOMAIN es : en[i] = [elem |-> es[i], who |-> p]

(* The entries of a producer. *)
LEMMA EntriesAre ==
    ASSUME NEW p \in Producers, NEW es \in Seq(Elements), NEW en,
           en = [i \in DOMAIN en |-> en[i]], EntriesOf(es, p, en)
    PROVE  /\ en \in Seq(Entries) /\ Elems(en) = es
           /\ \A x \in ToSet(en) : x.who = p /\ x.elem \in ToSet(es)
           /\ es # <<>> => p \in Owners(en)
<1> DEFINE n == Len(es)
<1>1. n \in Nat /\ DOMAIN es = 1 .. n
  OBVIOUS
<1>2. DOMAIN en = 1 .. n /\ \A i \in 1 .. n : en[i] = [elem |-> es[i], who |-> p]
  BY <1>1 DEF EntriesOf
<1>3. \A i \in 1 .. n : en[i] \in Entries /\ en[i].elem = es[i] /\ en[i].who = p
  <2>1. \A i \in 1 .. n : es[i] \in Elements
    BY <1>1
  <2> QED
    BY <1>2, <2>1 DEF Entries
<1>4. en \in [1 .. n -> Entries]
  BY <1>2, <1>3
<1> HIDE DEF n
<1>5. en \in Seq(Entries) /\ Len(en) = n
  BY <1>1, <1>4, FunctionIsSeq
<1>6. Elems(en) = es
  <2> DEFINE e == Elems(en)
  <2>1. e \in Seq(Elements) /\ Len(e) = n /\ \A i \in 1 .. n : e[i] = en[i].elem
    BY <1>5, ElemsParts
  <2>2. Len(es) = n
    BY DEF n
  <2> HIDE DEF e
  <2>3. e = es
    BY <1>3, <2>1, <2>2, SeqEqual
  <2> QED
    BY <2>3 DEF e
<1>7. ASSUME NEW x \in ToSet(en)
      PROVE  x.who = p /\ x.elem \in ToSet(es)
  <2>1. PICK i \in 1 .. n : x = en[i]
    BY <1>2 DEF ToSet
  <2>2. es[i] \in ToSet(es)
    BY <1>1 DEF ToSet
  <2> QED
    BY <1>3, <2>1, <2>2
<1>8. es # <<>> => p \in Owners(en)
  <2> SUFFICES ASSUME es # <<>>
               PROVE  p \in Owners(en)
    OBVIOUS
  <2>1. 1 \in 1 .. n
    BY DEF n
  <2> QED
    BY <1>3, <1>5, <2>1 DEF Owners
<1> QED
  BY <1>5, <1>6, <1>7, <1>8

(* The elements of joined entries. *)
LEMMA ElemsJoined ==
    ASSUME NEW s \in Seq(Entries), NEW t \in Seq(Entries)
    PROVE  Elems(Cat(s, t)) = Cat(Elems(s), Elems(t))
<1> DEFINE u == Cat(s, t)
           e == Elems(s)
           f == Elems(t)
           l == Elems(u)
           m == Cat(e, f)
<1>1. /\ e \in Seq(Elements) /\ Len(e) = Len(s) /\ \A i \in 1 .. Len(s) : e[i] = s[i].elem
      /\ f \in Seq(Elements) /\ Len(f) = Len(t) /\ \A i \in 1 .. Len(t) : f[i] = t[i].elem
      /\ Len(s) \in Nat /\ Len(t) \in Nat
  BY ElemsParts
<1>2. /\ u \in Seq(Entries) /\ Len(u) = Len(s) + Len(t)
      /\ \A i \in 1 .. Len(s) + Len(t) : u[i] = IF i <= Len(s) THEN s[i] ELSE t[i - Len(s)]
  BY CatType, CatParts
<1> HIDE DEF e, f, u
<1>3. /\ l \in Seq(Elements) /\ Len(l) = Len(s) + Len(t)
      /\ \A i \in 1 .. Len(s) + Len(t) : l[i] = u[i].elem
  BY <1>2, ElemsParts
<1>4. /\ m \in Seq(Elements) /\ Len(m) = Len(s) + Len(t)
      /\ \A i \in 1 .. Len(s) + Len(t) : m[i] = IF i <= Len(s) THEN e[i] ELSE f[i - Len(s)]
  <2>1. m \in Seq(Elements) /\ Len(m) = Len(e) + Len(f)
    BY <1>1, CatType
  <2>2. \A i \in 1 .. Len(e) + Len(f) : m[i] = IF i <= Len(e) THEN e[i] ELSE f[i - Len(e)]
    BY <1>1, CatParts
  <2> QED
    BY <1>1, <2>1, <2>2
<1> HIDE DEF l, m
<1>5. ASSUME NEW i \in 1 .. Len(s) + Len(t)
      PROVE  l[i] = m[i]
  <2>1. CASE i <= Len(s)
    <3>1. i \in 1 .. Len(s)
      BY <1>1, <2>1
    <3> QED
      BY <1>1, <1>2, <1>3, <1>4, <2>1, <3>1
  <2>2. CASE ~(i <= Len(s))
    <3>1. i - Len(s) \in 1 .. Len(t)
      BY <1>1, <2>2
    <3> QED
      BY <1>1, <1>2, <1>3, <1>4, <2>2, <3>1
  <2> QED
    BY <2>1, <2>2
<1>6. l = m
  BY <1>3, <1>4, <1>5, SeqEqual
<1> QED
  BY <1>6 DEF l, m, e, f, u

(* The owners of joined entries. *)
LEMMA OwnersJoined ==
    ASSUME NEW s \in Seq(Entries), NEW t \in Seq(Entries)
    PROVE  Owners(Cat(s, t)) = Owners(s) \cup Owners(t)
<1>1. Cat(s, t) \in Seq(Entries) /\ ToSet(Cat(s, t)) = ToSet(s) \cup ToSet(t)
  BY CatType, JoinedMembers
<1>2. \A u \in Seq(Entries) : \A p : p \in Owners(u) <=> \E x \in ToSet(u) : x.who = p
  BY OwnersAre
<1>3. \A p : p \in Owners(Cat(s, t)) <=> p \in Owners(s) \cup Owners(t)
  BY <1>1, <1>2
<1> QED
  BY <1>3

(* Put: the surplus waits in putters, or goes through at once. *)
LEMMA PutRight ==
    ASSUME Inv, NEW p \in Producers, Put(p)
    PROVE  Inv' /\ Channel!Next
<1>1. PICK en : en = [i \in DOMAIN surplus[p] |-> [elem |-> surplus[p][i], who |-> p]]
  OBVIOUS
<1>2. PICK q : q = [Queues EXCEPT !.putters = @ \o en]
  OBVIOUS
<1>3. PICK m, r, s : /\ m = OnQueueEmptySpace(q) /\ r = CompleteTakers(m)
                     /\ s = IF shutdown = "open" THEN "putting" ELSE "leaving"
  OBVIOUS
<1>4. /\ phase[p] = "surplus" /\ strategy = "backpressure"
      /\ Loops(q, r, p, s)
      /\ surplus' = [surplus EXCEPT ![p] = <<>>]
      /\ UNCHANGED <<strategy, shutdown, closing, interrupted, offering, sent, took, accepted>>
  BY <1>1, <1>2, <1>3 DEF Put, Handled, shutdownVars
<1>5. /\ TypeOK /\ NobodyWaitsInVain /\ WaitersArePending /\ OnlyBackpressureWaits
      /\ ElementsAreOwn /\ FlowIsInjective /\ PuttersOffer /\ AcceptedStay
      /\ \A d \in Producers : OfferIsRight(d)
  BY DEF Inv, WaitersAreRight
<1>6. /\ sent \in [Producers -> Nat] /\ p \in Clients
      /\ offering \in [Producers -> Seq(Elements)] /\ surplus \in [Producers -> Seq(Elements)]
      /\ accepted \subseteq Elements /\ took \in [Consumers -> 0 .. MaxTakes]
      /\ phase \in [Clients -> Phases] /\ \A d \in Producers : sent[d] <= MaxOffers[d]
      /\ takers \in Seq(Consumers) /\ putters \in Seq(Entries)
      /\ items \in Seq(Elements) /\ out \in Seq(Elements) /\ Len(items) <= Capacity
  BY <1>5 DEF TypeOK, Clients, Entries
<1>7. PICK new : new = surplus[p]
  OBVIOUS
<1>8. /\ new \in Seq(Elements) /\ new # <<>> /\ IsInjective(new)
      /\ ToSet(new) \subseteq ToSet(offering[p]) \ Through
  BY <1>4, <1>5, <1>6, <1>7 DEF OfferIsRight, SurplusIsNew
<1>9. /\ en \in Seq(Entries) /\ Elems(en) = new
      /\ \A x \in ToSet(en) : x.who = p /\ x.elem \in ToSet(new)
      /\ p \in Owners(en) /\ \A d \in Owners(en) : d = p
  <2>1. en = [i \in DOMAIN en |-> en[i]] /\ EntriesOf(new, p, en)
    BY <1>1, <1>7 DEF EntriesOf
  <2>2. /\ en \in Seq(Entries) /\ Elems(en) = new
        /\ \A x \in ToSet(en) : x.who = p /\ x.elem \in ToSet(new)
        /\ p \in Owners(en)
    BY <1>8, <2>1, EntriesAre
  <2> QED
    BY <2>2, OwnersAre
<1>10. /\ q.items = items /\ q.takers = takers /\ q.out = out
       /\ q.putters = Cat(putters, en)
  BY <1>2 DEF Queues, Cat
<1>11. QueuesOK(q)
  BY <1>6, <1>9, <1>10, CatType DEF QueuesOK
<1>12. FlowOf(q) = Flow \o new
  <2>1. Elems(q.putters) = Cat(Elems(putters), new)
    BY <1>6, <1>9, <1>10, ElemsJoined
  <2>2. Elems(putters) \in Seq(Elements)
    BY <1>6, ElemsParts
  <2>3. Cat(items, Elems(putters)) \in Seq(Elements)
    BY <1>6, <2>2, CatType
  <2>4. Cat(items, Cat(Elems(putters), new)) = Cat(Cat(items, Elems(putters)), new)
    BY <1>6, <1>8, <2>2, CatTwice
  <2>5. Cat(out, Cat(Cat(items, Elems(putters)), new)) = Cat(Cat(out, Cat(items, Elems(putters))), new)
    BY <1>6, <1>8, <2>3, CatTwice
  <2>6. FlowOf(q) = Cat(out, Cat(items, Cat(Elems(putters), new)))
    BY <1>10, <2>1 DEF FlowOf, Cat
  <2>7. Flow = Cat(out, Cat(items, Elems(putters)))
    BY <1>5, FlowIs DEF Cat
  <2> QED
    BY <2>4, <2>5, <2>6, <2>7 DEF Cat
<1>13. QueuesOK(r) /\ Passed(q, r) /\ Justified(r)
  <2>1. QueuesOK(m) /\ Passed(q, m) /\ Full(m)
    BY <1>3, <1>11, EmptySpaceFilled
  <2>2. QueuesOK(r) /\ Passed(m, r) /\ Justified(r)
    BY <1>3, <2>1, TakersCompleted
  <2> QED
    BY <1>11, <2>1, <2>2, PassedTwice
<1>14. Through' = Through \cup ToSet(new) /\ FlowIsInjective' /\ Channel!Pass(0)
  <2>1. <<>> \in Seq(Elements) /\ q.out = out \o <<>>
    BY <1>6, <1>10
  <2> QED
    BY <1>4, <1>5, <1>8, <1>11, <1>12, <1>13, <2>1, GrownRight DEF Grows
<1>15. /\ items' = r.items /\ takers' = r.takers /\ putters' = r.putters /\ out' = r.out
  BY <1>4, <1>6, LoopsAre
<1>16. /\ ToSet(q.putters) = ToSet(putters) \cup ToSet(en)
       /\ Owners(q.putters) = Owners(putters) \cup Owners(en)
  BY <1>6, <1>9, <1>10, JoinedMembers, OwnersJoined
<1>17. p \notin ToSet(takers) /\ p \notin Owners(putters)
  BY <1>4, <1>5, <1>6, IdleIsOutside
<1>18. Enters(q, p, s)
  <2>1. s \in {"putting", "leaving"} /\ s \in Phases /\ s # "taking"
    BY <1>3 DEF Phases
  <2> QED
    BY <1>6, <1>9, <1>10, <1>11, <1>16, <1>17, <2>1 DEF Enters, QueuesOK
<1>19. /\ WaitersAreRight'
       /\ phase' \in [Clients -> Phases]
       /\ \A d \in Producers \ {p} :
             BystanderOf(d) /\ (d \in Owners(putters)' => d \in Owners(putters))
       /\ phase'[p] \in {"putting", "put", "leaving"}
  <2>1. s \in {"putting", "leaving"} /\ s # "taking"
    BY <1>3
  <2>2. ToSet(r.takers) \subseteq ToSet(q.takers) /\ ToSet(r.putters) \subseteq ToSet(q.putters)
    BY <1>13 DEF Passed
  <2> QED
    BY <1>4, <1>5, <1>13, <1>18, <2>1, <2>2, LoopsRight
<1>20. TypeOK'
  <2>1. /\ offering' \in [Producers -> Seq(Elements)] /\ surplus' \in [Producers -> Seq(Elements)]
        /\ took' \in [Consumers -> 0 .. MaxTakes] /\ accepted' \subseteq Elements
        /\ sent' \in [Producers -> Nat] /\ \A d \in Producers : sent'[d] <= MaxOffers[d]
    BY <1>4, <1>6
  <2> QED
    BY <1>4, <1>5, <1>13, <1>15, <1>19, <2>1, TypeAfter
<1>21. ElementsAreOwn'
  <2>1. \A e \in ToSet(new) : Numbered(e)
    BY <1>5, <1>8 DEF ElementsAreOwn, OwnElements
  <2>2. \A e \in Through' \cup accepted' : e \in Through \cup accepted \/ Numbered(e)'
    BY <1>4, <1>14, <2>1 DEF Numbered
  <2>3. \A d \in Producers : ToSet(offering'[d]) \subseteq ToSet(offering[d]) \cup OwnElements(d)'
    BY <1>4
  <2>4. sent' \in [Producers -> Nat] /\ \A d \in Producers : sent[d] <= sent'[d]
    BY <1>4, <1>6
  <2> QED
    BY <1>5, <2>2, <2>3, <2>4, OwnKept
<1>22. PuttersOffer'
  <2>1. ToSet(putters') \subseteq ToSet(putters) \cup ToSet(en)
    BY <1>13, <1>15, <1>16 DEF Passed
  <2>2. \A x \in ToSet(putters) : x.elem \in ToSet(offering[x.who])
    BY <1>5 DEF PuttersOffer
  <2>3. \A x \in ToSet(en) : x.elem \in ToSet(offering[x.who])
    BY <1>8, <1>9
  <2> QED
    BY <1>4, <2>1, <2>2, <2>3 DEF PuttersOffer
<1>23. OnlyBackpressureWaits' /\ AcceptedStay'
  BY <1>4, <1>5, <1>14 DEF OnlyBackpressureWaits, AcceptedStay
<1>24. OfferIsRight(p)'
  <2>1. ToSet(offering[p]) \cap accepted = {}
    BY <1>4, <1>5 DEF OfferIsRight, OfferIsOpen
  <2>2. ToSet(offering[p]) \subseteq Through'
    BY <1>4, <1>5, <1>7, <1>14 DEF OfferIsRight, OfferStays
  <2>3. SurplusIsNew(p)' /\ OfferIsOpen(p)' /\ OfferStays(p)'
    BY <1>4, <1>19, <2>1, <2>2 DEF SurplusIsNew, OfferIsOpen, OfferStays
  <2> QED
    BY <1>4, <1>19, <2>3 DEF OfferIsRight
<1>25. ASSUME NEW d \in Producers \ {p}
       PROVE  OfferIsRight(d)'
  <2>1. UNCHANGED <<strategy, offering[d], surplus[d]>>
    BY <1>4, <1>6
  <2>2. \A e \in ToSet(offering[d]) : e[1] # p
    BY <1>5 DEF ElementsAreOwn, OwnElements
  <2>3. \A e \in ToSet(new) : e[1] = p
    BY <1>5, <1>8 DEF ElementsAreOwn, OwnElements
  <2>4. \A e \in ToSet(offering[d]) : e \in Through' => e \in Through
    BY <1>14, <2>2, <2>3
  <2>5. \A e \in ToSet(offering[d]) : e \in accepted' => e \in accepted
    BY <1>4
  <2>6. ToSet(offering[d]) \cap Through \subseteq Through'
    BY <1>14
  <2> QED
    BY <1>5, <1>19, <2>1, <2>4, <2>5, <2>6, Bystander
<1>26. Channel!Next
  <2>1. accepted \subseteq accepted' /\ strategy' = strategy
    BY <1>4
  <2> QED
    BY <1>14, <1>20, <1>23, <2>1, ChannelSteps
<1>27. ClosesLater'
  BY <1>4 DEF Inv, ClosesLater
<1> QED
  BY <1>14, <1>19, <1>20, <1>21, <1>22, <1>23, <1>24, <1>25, <1>26, <1>27 DEF Inv

-----------------------------------------------------------------------------
(* Consumers.                                                              *)

(* A consumer's step leaves the offers as they are. *)
LEMMA ConsumerRight ==
    ASSUME Inv, NEW c \in Consumers,
           NEW q, QueuesOK(q), FlowOf(q) = Flow,
           NEW y \in Seq(Elements), q.out = out \o y,
           NEW r, QueuesOK(r), Passed(q, r), Justified(r),
           NEW b, NEW s, Enters(b, c, s), Loops(b, r, c, s),
           b.putters = putters, q.putters = putters, ToSet(q.takers) \subseteq ToSet(b.takers),
           UNCHANGED <<strategy, shutdown, closing, interrupted, offering, surplus, sent, accepted>>,
           took' \in [Consumers -> 0 .. MaxTakes]
    PROVE  Inv' /\ Channel!Next
<1>1. /\ TypeOK /\ NobodyWaitsInVain /\ WaitersArePending /\ OnlyBackpressureWaits
      /\ ElementsAreOwn /\ FlowIsInjective /\ PuttersOffer /\ AcceptedStay
      /\ \A d \in Producers : OfferIsRight(d)
  BY DEF Inv, WaitersAreRight
<1>2. /\ sent \in [Producers -> Nat] /\ c \in Clients /\ c \notin Producers
      /\ offering \in [Producers -> Seq(Elements)] /\ surplus \in [Producers -> Seq(Elements)]
      /\ accepted \subseteq Elements
      /\ phase \in [Clients -> Phases] /\ \A d \in Producers : sent[d] <= MaxOffers[d]
      /\ putters \in Seq(Entries) /\ Flow \in Seq(Elements)
  BY <1>1, ClientsAssumption, FlowIs DEF TypeOK, Clients, Entries
<1>3. Through' = Through /\ FlowIsInjective' /\ Channel!Pass(0)
  <2>1. FlowOf(q) = Flow \o <<>> /\ <<>> \in Seq(Elements)
    BY <1>2
  <2>2. ToSet(<<>>) = {} /\ IsInjective(<<>>)
    BY DEF ToSet, IsInjective
  <2>3. Grows(<<>>)
    BY <1>1, <2>1, <2>2, GrownRight
  <2> QED
    BY <2>2, <2>3 DEF Grows
<1>4. /\ items' = r.items /\ takers' = r.takers /\ putters' = r.putters /\ out' = r.out
  BY <1>2, LoopsAre
<1>5. /\ WaitersAreRight'
      /\ phase' \in [Clients -> Phases]
      /\ \A d \in Producers : BystanderOf(d) /\ (d \in Owners(putters)' => d \in Owners(putters))
  <2>1. ToSet(r.takers) \subseteq ToSet(b.takers) /\ ToSet(r.putters) \subseteq ToSet(b.putters)
    BY DEF Passed
  <2>2. /\ WaitersAreRight'
        /\ phase' \in [Clients -> Phases]
        /\ \A d \in Producers \ {c} :
              BystanderOf(d) /\ (d \in Owners(putters)' => d \in Owners(putters))
    BY <1>1, <2>1, LoopsRight
  <2> QED
    BY <1>2, <2>2
<1>6. TypeOK'
  <2>1. /\ offering' \in [Producers -> Seq(Elements)] /\ surplus' \in [Producers -> Seq(Elements)]
        /\ accepted' \subseteq Elements
        /\ sent' \in [Producers -> Nat] /\ \A d \in Producers : sent'[d] <= MaxOffers[d]
    BY <1>2
  <2> QED
    BY <1>1, <1>4, <1>5, <2>1, TypeAfter
<1>7. ElementsAreOwn'
  BY <1>1, <1>3 DEF ElementsAreOwn, OwnElements, Numbered, Elements
<1>8. PuttersOffer' /\ OnlyBackpressureWaits'
  <2>1. ToSet(putters') \subseteq ToSet(putters) /\ putters' \in Seq(Entries)
    BY <1>4 DEF Passed, QueuesOK
  <2>2. PuttersOffer'
    BY <1>1, <2>1 DEF PuttersOffer
  <2> QED
    BY <1>1, <2>1, <2>2, StillNoPutters
<1>9. AcceptedStay'
  BY <1>1, <1>3 DEF AcceptedStay
<1>10. ASSUME NEW d \in Producers
       PROVE  OfferIsRight(d)'
  <2>1. UNCHANGED <<strategy, offering[d], surplus[d]>>
    OBVIOUS
  <2>2. /\ \A e \in ToSet(offering[d]) : e \in Through' => e \in Through
        /\ \A e \in ToSet(offering[d]) : e \in accepted' => e \in accepted
        /\ ToSet(offering[d]) \cap Through \subseteq Through'
    BY <1>3
  <2> QED
    BY <1>1, <1>5, <2>1, <2>2, Bystander
<1>11. Channel!Next
  BY <1>3, <1>6, <1>9, ChannelSteps
<1>12. ClosesLater'
  BY DEF Inv, ClosesLater
<1> QED
  BY <1>3, <1>5, <1>6, <1>7, <1>8, <1>9, <1>10, <1>11, <1>12 DEF Inv

(* Wait: the consumer enters takers, or gets an element at once. *)
LEMMA WaitRight ==
    ASSUME Inv, NEW c \in Consumers, Wait(c)
    PROVE  Inv' /\ Channel!Next
<1>1. PICK q : q = [Queues EXCEPT !.takers = Append(@, c)]
  OBVIOUS
<1>2. PICK r, s : /\ r = CompleteTakers(q)
                  /\ s = IF shutdown = "open" THEN "taking" ELSE "leaving"
  OBVIOUS
<1>3. /\ phase[c] = "polled"
      /\ Loops(q, r, c, s)
      /\ UNCHANGED <<strategy, shutdown, closing, interrupted, offering, surplus, sent, took,
                     accepted>>
  BY <1>1, <1>2 DEF Wait, shutdownVars, jobVars
<1>4. TypeOK /\ NobodyWaitsInVain /\ WaitersArePending
  BY DEF Inv, WaitersAreRight
<1>5. /\ takers \in Seq(Consumers) /\ putters \in Seq(Entries) /\ c \in Clients
      /\ items \in Seq(Elements) /\ out \in Seq(Elements) /\ Len(items) <= Capacity
      /\ took \in [Consumers -> 0 .. MaxTakes]
  BY <1>4 DEF TypeOK, Clients, Entries
<1>6. /\ q.items = items /\ q.putters = putters /\ q.out = out
      /\ q.takers = Append(takers, c)
  BY <1>1 DEF Queues
<1>7. q.takers \in Seq(Consumers) /\ ToSet(q.takers) = ToSet(takers) \cup {c}
  <2> DEFINE t == Append(takers, c)
  <2>1. /\ t \in Seq(Consumers) /\ Len(t) = Len(takers) + 1 /\ t[Len(takers) + 1] = c
        /\ \A i \in 1 .. Len(takers) : t[i] = takers[i]
    BY <1>5, AppendProperties
  <2>2. /\ Len(takers) \in Nat /\ Len(takers) + 1 \in 1 .. Len(t)
        /\ 1 .. Len(t) = (1 .. Len(takers)) \cup {Len(takers) + 1}
    BY <1>5, <2>1
  <2> HIDE DEF t
  <2>3. ToSet(t) = {t[i] : i \in 1 .. Len(t)} /\ ToSet(takers) = {takers[i] : i \in 1 .. Len(takers)}
    BY <1>5, <2>1, Members
  <2>4. ToSet(t) = ToSet(takers) \cup {c}
    BY <2>1, <2>2, <2>3
  <2> QED
    BY <1>6, <2>1, <2>4 DEF t
<1>8. QueuesOK(q) /\ Full(q) /\ FlowOf(q) = Flow
  BY <1>4, <1>5, <1>6, <1>7 DEF QueuesOK, Full, NobodyWaitsInVain, Flow, FlowOf, Queues
<1>9. QueuesOK(r) /\ Passed(q, r) /\ Justified(r)
  BY <1>2, <1>8, TakersCompleted
<1>10. Enters(q, c, s)
  <2>1. c \notin ToSet(takers) /\ c \notin Owners(putters)
    BY <1>3, <1>4, <1>5, IdleIsOutside
  <2>2. s \in {"taking", "leaving"} /\ s \in Phases /\ s # "putting"
    BY <1>2 DEF Phases
  <2> QED
    BY <1>5, <1>6, <1>7, <2>1, <2>2 DEF Enters
<1>11. <<>> \in Seq(Elements) /\ q.out = out \o <<>>
  BY <1>5, <1>6
<1> QED
  BY <1>3, <1>5, <1>6, <1>8, <1>9, <1>10, <1>11, ConsumerRight

(* TakeItems: elements go out, and putters move up. *)
LEMMA TakeItemsRight ==
    ASSUME Inv, NEW c \in Consumers, NEW n \in 1 .. MaxBatch, TakeItems(c, n)
    PROVE  Inv' /\ Channel!Next
<1>1. PICK k : k = Less(n, Len(items))
  OBVIOUS
<1>2. PICK q : q = [items |-> Without(items, k), takers |-> takers, putters |-> putters,
                    out |-> out \o First(items, k)]
  OBVIOUS
<1>3. PICK b, r, s : b = q /\ r = OnQueueEmptySpace(q) /\ s = "idle"
  OBVIOUS
<1>4. /\ phase[c] = "idle" /\ took[c] < MaxTakes
      /\ Loops(b, r, c, s)
      /\ took' = [took EXCEPT ![c] = @ + 1]
      /\ UNCHANGED <<strategy, shutdown, closing, interrupted, offering, surplus, sent, accepted>>
  <2>1. Begins(c) /\ Loops(b, r, c, s)
    BY <1>1, <1>2, <1>3 DEF TakeItems
  <2>2. /\ phase[c] = "idle" /\ took[c] < MaxTakes
        /\ took' = [took EXCEPT ![c] = @ + 1]
        /\ UNCHANGED <<strategy, shutdown, closing, interrupted, offering, surplus, sent, accepted>>
    BY <2>1 DEF Begins, shutdownVars
  <2> QED
    BY <2>1, <2>2
<1>5. TypeOK /\ NobodyWaitsInVain /\ WaitersArePending
  BY DEF Inv, WaitersAreRight
<1>6. /\ takers \in Seq(Consumers) /\ putters \in Seq(Entries) /\ c \in Clients
      /\ items \in Seq(Elements) /\ out \in Seq(Elements) /\ Len(items) <= Capacity
      /\ took \in [Consumers -> 0 .. MaxTakes] /\ Len(items) \in Nat
  BY <1>5 DEF TypeOK, Clients, Entries
<1>7. k \in 0 .. Len(items)
  <2>1. n \in Nat
    OBVIOUS
  <2>2. k = IF n <= Len(items) THEN n ELSE Len(items)
    BY <1>1, <1>6, <2>1, LessIs
  <2> QED
    BY <1>6, <2>1, <2>2
<1> DEFINE f == First(items, k)
           w == Without(items, k)
           e == Elems(putters)
<1>8. /\ f \in Seq(Elements) /\ w \in Seq(Elements) /\ Len(w) = Len(items) - k
      /\ Cat(f, w) = items
  BY <1>6, <1>7, Halves DEF Cat
<1>9. /\ q.items = w /\ q.takers = takers /\ q.putters = putters /\ q.out = Cat(out, f)
      /\ b.takers = takers /\ b.putters = putters
  BY <1>1, <1>2, <1>3 DEF Queues, Cat
<1> HIDE DEF f, w
<1>10. e \in Seq(Elements)
  BY <1>6, ElemsParts
<1>11. QueuesOK(q)
  <2>1. Cat(out, f) \in Seq(Elements)
    BY <1>6, <1>8, CatType
  <2>2. Len(w) <= Capacity
    BY <1>6, <1>7, <1>8, CapacityIs
  <2> QED
    BY <1>6, <1>8, <1>9, <2>1, <2>2 DEF QueuesOK
<1>12. FlowOf(q) = Flow
  <2>1. FlowOf(q) = Cat(Cat(out, f), Cat(w, e))
    BY <1>9 DEF FlowOf, Cat
  <2> HIDE DEF e
  <2>2. Cat(w, e) \in Seq(Elements)
    BY <1>8, <1>10, CatType
  <2>3. Cat(Cat(out, f), Cat(w, e)) = Cat(out, Cat(f, Cat(w, e)))
    BY <1>6, <1>8, <2>2, CatTwice
  <2>4. Cat(f, Cat(w, e)) = Cat(Cat(f, w), e)
    BY <1>8, <1>10, CatTwice
  <2>5. Flow = Cat(out, Cat(items, e))
    BY <1>5, FlowIs DEF Cat, e
  <2> QED
    BY <1>8, <2>1, <2>3, <2>4, <2>5
<1>13. Idle(q)
  <2>1. items = <<>> => Len(items) = 0
    OBVIOUS
  <2>2. items = <<>> => Len(w) = 0
    BY <1>6, <1>7, <1>8, <2>1
  <2>3. items = <<>> => w = <<>>
    BY <1>8, <2>2, EmptySeq
  <2> QED
    BY <1>5, <1>9, <2>3 DEF Idle, NobodyWaitsInVain
<1>14. QueuesOK(r) /\ Passed(q, r) /\ Justified(r)
  BY <1>3, <1>11, <1>13, EmptySpaceFilled
<1>15. Enters(b, c, s)
  <2>1. c \notin ToSet(takers) /\ c \notin Owners(putters)
    BY <1>4, <1>5, <1>6, IdleIsOutside
  <2>2. s = "idle" /\ s \in Phases
    BY <1>3 DEF Phases
  <2> QED
    BY <1>6, <1>9, <2>1, <2>2 DEF Enters
<1>16. took' \in [Consumers -> 0 .. MaxTakes]
  <2>1. took[c] + 1 \in 0 .. MaxTakes
    BY <1>4, <1>6, BoundsAssumption
  <2> QED
    BY <1>4, <1>6, <2>1
<1>17. q.out = out \o f
  BY <1>9 DEF Cat
<1> QED
  BY <1>4, <1>8, <1>9, <1>11, <1>12, <1>14, <1>15, <1>16, <1>17, ConsumerRight

-----------------------------------------------------------------------------
(* Steps that leave the elements where they are.                           *)

(* A client that is in neither queue, or is told to leave, goes to phase s. *)
LEMMA GoesRight ==
    ASSUME TypeOK, WaitersAreRight, NEW c \in Clients, NEW s \in Phases \ {"taking", "putting"},
           Goes(c, s), UNCHANGED <<items, takers, putters, out, closing>>,
           (c \notin ToSet(takers) /\ c \notin Owners(putters)) \/ s = "leaving"
    PROVE  /\ WaitersAreRight' /\ phase' \in [Clients -> Phases] /\ phase'[c] = s
           /\ \A d \in Clients \ {c} : phase'[d] = phase[d]
<1>1. /\ NobodyWaitsInVain /\ WaitersArePending /\ phase \in [Clients -> Phases]
  BY DEF WaitersAreRight, TypeOK
<1>2. /\ phase' \in [Clients -> Phases] /\ phase'[c] = s
      /\ \A d \in Clients \ {c} : phase'[d] = phase[d]
  BY <1>1 DEF Goes
<1>3. NobodyWaitsInVain'
  BY <1>1 DEF NobodyWaitsInVain
<1>4. ToSet(takers) \subseteq Clients /\ Owners(putters) \subseteq Clients
  <2>1. takers \in Seq(Consumers) /\ putters \in Seq(Entries)
    BY DEF TypeOK, Entries
  <2>2. ToSet(takers) \subseteq Consumers /\ Owners(putters) \subseteq Producers
    BY <2>1, Members, OwnersAre
  <2> QED
    BY <2>2 DEF Clients
<1> DEFINE T == ToSet(takers)
           O == Owners(putters)
<1>5. T' = T /\ O' = O
  BY DEF T, O
<1>6. /\ \A d \in T : phase[d] \in {"taking", "leaving"}
      /\ \A d \in O : phase[d] \in {"putting", "leaving"}
      /\ \A d \in Clients : phase[d] \in {"taking", "putting"} => d \in T \cup O \cup closing
  BY <1>1 DEF WaitersArePending
<1>7. WaitersArePending'
  <2> HIDE DEF T, O
  <2>1. \A d \in T : phase'[d] \in {"taking", "leaving"}
    BY <1>2, <1>4, <1>6 DEF T
  <2>2. \A d \in O : phase'[d] \in {"putting", "leaving"}
    BY <1>2, <1>4, <1>6 DEF O
  <2>3. \A d \in Clients : phase'[d] \in {"taking", "putting"} => d \in T \cup O \cup closing'
    BY <1>2, <1>6
  <2>4. /\ \A d \in T' : phase'[d] \in {"taking", "leaving"}
        /\ \A d \in O' : phase'[d] \in {"putting", "leaving"}
        /\ \A d \in Clients : phase'[d] \in {"taking", "putting"} => d \in T' \cup O' \cup closing'
    BY <1>5, <2>1, <2>2, <2>3
  <2> QED
    BY <2>4 DEF WaitersArePending, T, O
<1> QED
  BY <1>2, <1>3, <1>7 DEF WaitersAreRight

(* Steps that touch neither the elements nor the offers. *)
LEMMA StillRight ==
    ASSUME Inv, TypeOK', WaitersAreRight', ClosesLater',
           UNCHANGED <<strategy, items, putters, out, offering, surplus, sent, accepted>>,
           \A p \in Producers : BystanderOf(p)
    PROVE  Inv' /\ Channel!Next
<1>1. /\ TypeOK /\ OnlyBackpressureWaits /\ ElementsAreOwn /\ FlowIsInjective
      /\ PuttersOffer /\ AcceptedStay /\ \A p \in Producers : OfferIsRight(p)
  BY DEF Inv
<1>2. Through' = Through /\ FlowIsInjective' /\ Channel!Pass(0)
  BY <1>1, Unmoved
<1>3. OnlyBackpressureWaits' /\ PuttersOffer' /\ AcceptedStay'
  BY <1>1, <1>2 DEF OnlyBackpressureWaits, PuttersOffer, AcceptedStay
<1>4. ElementsAreOwn'
  BY <1>1, <1>2 DEF ElementsAreOwn, OwnElements, Numbered, Elements
<1>5. ASSUME NEW p \in Producers
      PROVE  OfferIsRight(p)'
  <2>1. UNCHANGED <<strategy, offering[p], surplus[p]>> /\ OfferIsRight(p) /\ BystanderOf(p)
    BY <1>1
  <2>2. /\ \A e \in ToSet(offering[p]) : e \in Through' => e \in Through
        /\ \A e \in ToSet(offering[p]) : e \in accepted' => e \in accepted
        /\ ToSet(offering[p]) \cap Through \subseteq Through'
        /\ p \in Owners(putters)' => p \in Owners(putters)
    BY <1>2
  <2> QED
    BY <2>1, <2>2, Bystander
<1>6. Channel!Next
  BY <1>2, <1>3, ChannelSteps
<1> QED
  BY <1>2, <1>3, <1>4, <1>5, <1>6 DEF Inv

(* TakeNothing: a Deferred is made, and nothing else. *)
LEMMA TakeNothingRight ==
    ASSUME Inv, NEW c \in Consumers, TakeNothing(c)
    PROVE  Inv' /\ Channel!Next
<1>1. /\ phase[c] = "idle" /\ took[c] < MaxTakes /\ Goes(c, "polled")
      /\ took' = [took EXCEPT ![c] = @ + 1]
      /\ UNCHANGED <<strategy, items, takers, putters, out, shutdown, closing, interrupted,
                     offering, surplus, sent, accepted>>
  BY DEF TakeNothing, Begins, queueVars, shutdownVars
<1>2. TypeOK /\ WaitersAreRight /\ c \in Clients /\ ClosesLater /\ c \notin Producers
  BY ClientsAssumption DEF Inv, Clients
<1>3. /\ WaitersAreRight' /\ phase' \in [Clients -> Phases]
      /\ \A d \in Clients \ {c} : phase'[d] = phase[d]
  <2>1. c \notin ToSet(takers) /\ c \notin Owners(putters)
    BY <1>1, <1>2, IdleIsOutside DEF WaitersAreRight
  <2>2. "polled" \in Phases \ {"taking", "putting"}
    BY DEF Phases
  <2> QED
    BY <1>1, <1>2, <2>1, <2>2, GoesRight
<1>4. TypeOK'
  <2>1. took' \in [Consumers -> 0 .. MaxTakes]
    <3>1. took \in [Consumers -> 0 .. MaxTakes] /\ took[c] + 1 \in 0 .. MaxTakes
      BY <1>1, <1>2, BoundsAssumption DEF TypeOK
    <3> QED
      BY <1>1, <3>1
  <2> QED
    BY <1>1, <1>2, <1>3, <2>1 DEF TypeOK
<1>5. \A p \in Producers : BystanderOf(p)
  BY <1>2, <1>3 DEF BystanderOf, Clients
<1> QED
  BY <1>1, <1>2, <1>3, <1>4, <1>5, StillRight DEF ClosesLater

(* A client goes on, or out, and its Deferred was in neither queue. *)
LEMMA MovesRight ==
    ASSUME Inv, NEW c \in Clients, NEW s \in {"idle", "out"}, Goes(c, s),
           phase[c] \notin {"taking", "putting", "leaving"},
           c \in Consumers \/ s = "out",
           UNCHANGED <<strategy, queueVars, shutdownVars, interrupted, jobVars>>
    PROVE  Inv' /\ Channel!Next
<1>1. UNCHANGED <<strategy, items, takers, putters, out, shutdown, closing, interrupted,
                  offering, surplus, sent, took, accepted>>
  BY DEF queueVars, shutdownVars, jobVars
<1>2. TypeOK /\ WaitersAreRight /\ ClosesLater
  BY DEF Inv
<1>3. /\ WaitersAreRight' /\ phase' \in [Clients -> Phases] /\ phase'[c] = s
      /\ \A d \in Clients \ {c} : phase'[d] = phase[d]
  <2>1. c \notin ToSet(takers) /\ c \notin Owners(putters)
    BY <1>1, <1>2, IdleIsOutside DEF WaitersAreRight
  <2>2. s \in Phases \ {"taking", "putting"}
    BY DEF Phases
  <2> QED
    BY <1>1, <1>2, <2>1, <2>2, GoesRight
<1>4. TypeOK'
  BY <1>1, <1>2, <1>3 DEF TypeOK
<1>5. \A p \in Producers : BystanderOf(p)
  BY <1>3, ClientsAssumption DEF BystanderOf, Clients
<1> QED
  BY <1>1, <1>2, <1>3, <1>4, <1>5, StillRight DEF ClosesLater

(* TakeDone: take returns. *)
LEMMA TakeDoneRight ==
    ASSUME Inv, NEW c \in Consumers, TakeDone(c)
    PROVE  Inv' /\ Channel!Next
  BY MovesRight DEF TakeDone, Clients

(* Refused: the queue is shut down. *)
LEMMA RefusedRight ==
    ASSUME Inv, NEW c \in Clients, Refused(c)
    PROVE  Inv' /\ Channel!Next
  BY MovesRight DEF Refused

(* Interrupt: the client will fail at its next step. *)
LEMMA InterruptRight ==
    ASSUME Inv, NEW c \in Clients, Interrupt(c)
    PROVE  Inv' /\ Channel!Next
<1>1. /\ interrupted' = [interrupted EXCEPT ![c] = TRUE]
      /\ UNCHANGED <<strategy, items, takers, putters, out, shutdown, closing, phase,
                     offering, surplus, sent, took, accepted>>
  BY DEF Interrupt, queueVars, shutdownVars, jobVars
<1>2. TypeOK /\ WaitersAreRight /\ ClosesLater
  BY DEF Inv
<1>3. WaitersAreRight' /\ ClosesLater'
  BY <1>1, <1>2 DEF WaitersAreRight, NobodyWaitsInVain, WaitersArePending, ClosesLater
<1>4. TypeOK'
  BY <1>1, <1>2 DEF TypeOK
<1>5. \A p \in Producers : BystanderOf(p)
  BY <1>1 DEF BystanderOf
<1> QED
  BY <1>1, <1>3, <1>4, <1>5, StillRight

(* Shutdown: the takers are to be interrupted. *)
LEMMA ShutdownRight ==
    ASSUME Inv, Shutdown
    PROVE  Inv' /\ Channel!Next
<1>1. /\ shutdown = "open" /\ shutdown' = "takers" /\ closing' = ToSet(takers) /\ takers' = <<>>
      /\ UNCHANGED <<strategy, items, putters, out, interrupted, phase,
                     offering, surplus, sent, took, accepted>>
  BY DEF Shutdown, jobVars
<1>2. TypeOK /\ NobodyWaitsInVain /\ WaitersArePending /\ closing = {}
  BY <1>1 DEF Inv, WaitersAreRight, ClosesLater
<1>3. ToSet(takers) \subseteq Clients
  <2>1. takers \in Seq(Consumers)
    BY <1>2 DEF TypeOK
  <2> QED
    BY <2>1, Members DEF Clients
<1>4. TypeOK'
  BY <1>1, <1>2, <1>3 DEF TypeOK
<1>5. ToSet(takers') = {} /\ Owners(putters)' = Owners(putters)
  BY <1>1 DEF ToSet
<1>6. NobodyWaitsInVain'
  BY <1>1, <1>2 DEF NobodyWaitsInVain
<1>7. WaitersArePending'
  BY <1>1, <1>2, <1>5 DEF WaitersArePending
<1>8. ClosesLater' /\ \A p \in Producers : BystanderOf(p)
  BY <1>1 DEF BystanderOf, ClosesLater
<1> QED
  BY <1>1, <1>4, <1>6, <1>7, <1>8, StillRight DEF WaitersAreRight

(* Close: one Deferred is interrupted. *)
LEMMA CloseRight ==
    ASSUME Inv, NEW c \in Clients, Close(c)
    PROVE  Inv' /\ Channel!Next
<1>1. PICK s : s = IF phase[c] \in {"taking", "putting"} THEN "leaving" ELSE phase[c]
  OBVIOUS
<1>2. /\ c \in closing /\ closing' = closing \ {c} /\ Goes(c, s)
      /\ UNCHANGED <<strategy, items, takers, putters, out, shutdown, interrupted,
                     offering, surplus, sent, took, accepted>>
  BY <1>1 DEF Close, queueVars, jobVars
<1>3. TypeOK /\ NobodyWaitsInVain /\ WaitersArePending /\ ClosesLater
      /\ \A p \in Producers : phase[p] # "taking"
  BY DEF Inv, WaitersAreRight, OfferIsRight
<1>4. /\ phase' \in [Clients -> Phases] /\ phase'[c] = s
      /\ \A d \in Clients \ {c} : phase'[d] = phase[d]
      /\ phase[c] \in Phases
  <2>1. phase \in [Clients -> Phases]
    BY <1>3 DEF TypeOK
  <2>2. s \in Phases
    BY <1>1, <2>1 DEF Phases
  <2> QED
    BY <1>2, <2>1, <2>2 DEF Goes
<1>5. TypeOK'
  BY <1>2, <1>3, <1>4 DEF TypeOK
<1>6. NobodyWaitsInVain'
  BY <1>2, <1>3 DEF NobodyWaitsInVain
<1>7. WaitersArePending'
  <2>1. ToSet(takers)' = ToSet(takers) /\ Owners(putters)' = Owners(putters)
    BY <1>2
  <2>2. ToSet(takers) \subseteq Clients /\ Owners(putters) \subseteq Clients
    BY <1>3, Members, OwnersAre DEF TypeOK, Clients, Entries
  <2>3. \A d \in ToSet(takers) : phase'[d] \in {"taking", "leaving"}
    BY <1>1, <1>3, <1>4, <2>2 DEF WaitersArePending
  <2>4. \A d \in Owners(putters) : phase'[d] \in {"putting", "leaving"}
    BY <1>1, <1>3, <1>4, <2>2 DEF WaitersArePending
  <2>5. ASSUME NEW d \in Clients, phase'[d] \in {"taking", "putting"}
        PROVE  d \in ToSet(takers) \cup Owners(putters) \cup closing'
    <3>1. d # c
      BY <1>1, <1>4, <2>5
    <3>2. d \in ToSet(takers) \cup Owners(putters) \cup closing
      BY <1>3, <1>4, <2>5, <3>1 DEF WaitersArePending
    <3> QED
      BY <1>2, <3>1, <3>2
  <2> QED
    BY <2>1, <2>3, <2>4, <2>5 DEF WaitersArePending
<1>8. ClosesLater'
  BY <1>2, <1>3 DEF ClosesLater
<1>9. \A p \in Producers : BystanderOf(p)
  <2> SUFFICES ASSUME NEW p \in Producers
               PROVE  BystanderOf(p)
    OBVIOUS
  <2>1. p \in Clients /\ phase[p] # "taking"
    BY <1>3 DEF Clients
  <2> QED
    BY <1>1, <1>4, <2>1 DEF BystanderOf
<1> QED
  BY <1>2, <1>5, <1>6, <1>7, <1>8, <1>9, StillRight DEF WaitersAreRight

(* An offer returns, without or with its elements among those accepted. *)
LEMMA ReturnsRight ==
    ASSUME Inv, NEW p \in Producers, phase[p] \in {"surplus", "put"},
           Goes(p, "idle"), Over(p),
           accepted \subseteq accepted', accepted' \subseteq accepted \cup ToSet(offering[p]),
           phase[p] # "put" => accepted' = accepted,
           UNCHANGED <<strategy, items, takers, putters, out, shutdown, closing, interrupted,
                       sent, took>>
    PROVE  Inv' /\ Channel!Next
<1>1. /\ TypeOK /\ WaitersAreRight /\ OnlyBackpressureWaits /\ ElementsAreOwn /\ FlowIsInjective
      /\ PuttersOffer /\ AcceptedStay /\ ClosesLater /\ \A d \in Producers : OfferIsRight(d)
  BY DEF Inv
<1>2. /\ offering \in [Producers -> Seq(Elements)] /\ surplus \in [Producers -> Seq(Elements)]
      /\ accepted \subseteq Elements /\ p \in Clients
      /\ sent \in [Producers -> Nat]
  BY <1>1 DEF TypeOK, Clients
<1>3. /\ offering'[p] = <<>> /\ surplus'[p] = <<>>
      /\ offering' \in [Producers -> Seq(Elements)] /\ surplus' \in [Producers -> Seq(Elements)]
      /\ \A d \in Producers \ {p} : offering'[d] = offering[d] /\ surplus'[d] = surplus[d]
  BY <1>2 DEF Over, Handled
<1>4. p \notin ToSet(takers) /\ p \notin Owners(putters)
  BY <1>1, <1>2, IdleIsOutside DEF WaitersAreRight
<1>5. /\ WaitersAreRight' /\ phase' \in [Clients -> Phases] /\ phase'[p] = "idle"
      /\ \A d \in Clients \ {p} : phase'[d] = phase[d]
  <2>1. "idle" \in Phases \ {"taking", "putting"}
    BY DEF Phases
  <2> QED
    BY <1>1, <1>2, <1>4, <2>1, GoesRight
<1>6. /\ accepted \subseteq accepted' /\ accepted' \subseteq accepted \cup ToSet(offering[p])
      /\ phase[p] # "put" => accepted' = accepted
  OBVIOUS
<1>7. ToSet(offering[p]) \subseteq Elements
  BY <1>2, Members
<1>8. TypeOK'
  BY <1>1, <1>2, <1>3, <1>5, <1>6, <1>7 DEF TypeOK
<1>9. Through' = Through /\ FlowIsInjective' /\ Channel!Pass(0)
  BY <1>1, Unmoved
<1>10. ToSet(offering'[p]) = {}
  BY <1>3 DEF ToSet
<1>11. ElementsAreOwn'
  <2>1. \A e \in ToSet(offering[p]) : Numbered(e) /\ Numbered(e)'
    BY <1>1 DEF ElementsAreOwn, OwnElements, Numbered
  <2>2. \A e \in Through' \cup accepted' : e \in Through \cup accepted \/ Numbered(e)'
    BY <1>6, <1>9, <2>1
  <2>3. \A d \in Producers :
            ToSet(offering'[d]) \subseteq ToSet(offering[d]) \cup OwnElements(d)'
    BY <1>3, <1>10
  <2>4. sent' \in [Producers -> Nat] /\ \A d \in Producers : sent[d] <= sent'[d]
    BY <1>2
  <2> QED
    BY <1>1, <2>2, <2>3, <2>4, OwnKept
<1>12. PuttersOffer' /\ OnlyBackpressureWaits' /\ ClosesLater'
  <2>1. PuttersOffer'
    BY <1>1, <1>3, <1>4, PuttersOfferStill
  <2> QED
    BY <1>1, <2>1 DEF OnlyBackpressureWaits, ClosesLater
<1>13. AcceptedStay'
  <2>1. strategy # "sliding" /\ phase[p] = "put" => ToSet(offering[p]) \subseteq Through
    BY <1>1 DEF OfferIsRight, OfferStays
  <2> QED
    BY <1>1, <1>6, <1>9, <2>1 DEF AcceptedStay
<1>14. OfferIsRight(p)'
  BY <1>5 DEF OfferIsRight, SurplusIsNew, OfferIsOpen, OfferStays
<1>15. ASSUME NEW d \in Producers \ {p}
       PROVE  OfferIsRight(d)'
  <2>1. UNCHANGED <<strategy, offering[d], surplus[d]>> /\ d \in Clients \ {p}
    BY <1>3 DEF Clients
  <2>2. BystanderOf(d) /\ (d \in Owners(putters)' => d \in Owners(putters))
    BY <1>5, <2>1 DEF BystanderOf
  <2>3. \A e \in ToSet(offering[d]) : e \notin ToSet(offering[p])
    BY <1>1 DEF ElementsAreOwn, OwnElements
  <2>4. /\ \A e \in ToSet(offering[d]) : e \in accepted' => e \in accepted
        /\ \A e \in ToSet(offering[d]) : e \in Through' => e \in Through
        /\ ToSet(offering[d]) \cap Through \subseteq Through'
    BY <1>6, <1>9, <2>3
  <2> QED
    BY <1>1, <2>1, <2>2, <2>4, Bystander
<1>16. Channel!Next
  BY <1>6, <1>8, <1>9, <1>13, ChannelSteps
<1> QED
  BY <1>5, <1>8, <1>9, <1>11, <1>12, <1>13, <1>14, <1>15, <1>16 DEF Inv

(* Drop: offer returns false. *)
LEMMA DropRight ==
    ASSUME Inv, NEW p \in Producers, Drop(p)
    PROVE  Inv' /\ Channel!Next
<1>1. /\ phase[p] = "surplus" /\ Goes(p, "idle") /\ Over(p)
      /\ UNCHANGED <<strategy, items, takers, putters, out, shutdown, closing, interrupted,
                     sent, took, accepted>>
  BY DEF Drop, queueVars, shutdownVars
<1> QED
  BY <1>1, ReturnsRight

(* PutDone: offer returns true after its elements went through. *)
LEMMA PutDoneRight ==
    ASSUME Inv, NEW p \in Producers, PutDone(p)
    PROVE  Inv' /\ Channel!Next
  BY ReturnsRight DEF PutDone, Accepted, queueVars, shutdownVars

-----------------------------------------------------------------------------
(* Sliding.                                                                *)

(* The first elements of a joined sequence go: part of the first, or all.  *)
LEMMA WithoutOfJoined ==
    ASSUME NEW D, NEW s \in Seq(D), NEW t \in Seq(D), NEW n \in 0 .. Len(s)
    PROVE  Without(Cat(s, t), n) = Cat(Without(s, n), t)
<1> DEFINE f == First(s, n)
           w == Without(s, n)
           u == Cat(w, t)
<1>1. f \in Seq(D) /\ w \in Seq(D) /\ Len(f) = n /\ Cat(f, w) = s
  BY Halves DEF Cat
<1> HIDE DEF f, w
<1>2. u \in Seq(D) /\ Cat(s, t) = Cat(f, u) /\ Len(u) \in Nat
  <2>1. u \in Seq(D)
    BY <1>1, CatType
  <2>2. Cat(Cat(f, w), t) = Cat(f, u)
    BY <1>1, CatTwice
  <2> QED
    BY <1>1, <2>1, <2>2
<1> HIDE DEF u
<1>3. 0 \in 0 .. Len(u)
  BY <1>2
<1>4. Without(f \o u, Len(f) + 0) = Without(u, 0)
  BY <1>1, <1>2, <1>3, WithoutFirstPart
<1>5. Without(u, 0) = u
  BY <1>2, SubSeqFull DEF Without
<1>6. Len(f) + 0 = n
  BY <1>1
<1>7. Without(Cat(f, u), n) = u
  BY <1>4, <1>5, <1>6 DEF Cat
<1> QED
  BY <1>2, <1>7 DEF u, w

(* The elements of new are new; m of all are over, and leave w. *)
Comes(o, it, new) ==
    IsInjective(Cat(o, it)) /\ IsInjective(new) /\ ToSet(new) \cap ToSet(Cat(o, it)) = {}
Slides(it, new, m, w) ==
    m \in 0 .. Len(it) + Len(new) /\ w = Without(Cat(it, new), m)
Slid(it, w) == \E k \in 0 .. Len(it) : \E z \in Seq(Elements) : w = Cat(Without(it, k), z)

(* What is left of the buffer and the new elements after a slide. *)
LEMMA SlideIs ==
    ASSUME NEW o \in Seq(Elements), NEW it \in Seq(Elements), NEW new \in Seq(Elements),
           Comes(o, it, new), NEW m, NEW w, Slides(it, new, m, w)
    PROVE  /\ w \in Seq(Elements) /\ Len(w) = Len(it) + Len(new) - m
           /\ ToSet(w) \subseteq ToSet(it) \cup ToSet(new)
           /\ IsInjective(Cat(o, w)) /\ Slid(it, w)
<1> DEFINE all == Cat(it, new)
           f == First(all, m)
<1>1. all \in Seq(Elements) /\ Len(all) = Len(it) + Len(new) /\ ToSet(all) = ToSet(it) \cup ToSet(new)
  BY CatType, JoinedMembers
<1> HIDE DEF all
<1>2. m \in 0 .. Len(all) /\ m \in 0 .. Len(it) + Len(new)
  BY <1>1 DEF Slides
<1>3. /\ w \in Seq(Elements) /\ Len(w) = Len(all) - m /\ f \in Seq(Elements) /\ Cat(f, w) = all
      /\ ToSet(w) \subseteq ToSet(all)
  <2>1. w = Without(all, m)
    BY DEF all, Slides
  <2>2. /\ f \in Seq(Elements) /\ Without(all, m) \in Seq(Elements) /\ Len(Without(all, m)) = Len(all) - m
        /\ f \o Without(all, m) = all
    BY <1>1, <1>2, Halves
  <2>3. ToSet(w) \subseteq ToSet(all)
    BY <1>1, <1>2, <2>1, MembersOfHalves
  <2> QED
    BY <2>1, <2>2, <2>3 DEF Cat
<1> HIDE DEF f
<1>4. /\ IsInjective(o) /\ IsInjective(it) /\ ToSet(o) \cap ToSet(it) = {}
      /\ ToSet(Cat(o, it)) = ToSet(o) \cup ToSet(it)
  BY JoinedInjective, JoinedMembers DEF Comes
<1>5. IsInjective(all)
  BY <1>4, JoinedInjective DEF all, Comes
<1>6. IsInjective(w)
  BY <1>1, <1>3, <1>5, JoinedInjective
<1>7. IsInjective(Cat(o, w))
  <2>1. ToSet(o) \cap ToSet(w) = {}
    BY <1>1, <1>3, <1>4 DEF Comes
  <2> QED
    BY <1>3, <1>4, <1>6, <2>1, JoinedInjective
<1>8. \E k \in 0 .. Len(it) : \E z \in Seq(Elements) : w = Cat(Without(it, k), z)
  <2>1. CASE m \in 0 .. Len(it)
    <3>1. m \in 0 .. Len(it)
      BY <2>1
    <3>2. w = Cat(Without(it, m), new)
      BY <3>1, WithoutOfJoined DEF Slides
    <3> QED
      BY <3>1, <3>2
  <2>2. CASE m \notin 0 .. Len(it)
    <3> DEFINE l == Len(it)
    <3>1. l \in 0 .. Len(it)
      OBVIOUS
    <3>2. Without(it, l) \in Seq(Elements) /\ Len(Without(it, l)) = Len(it) - l
      BY <3>1, Halves
    <3>3. Without(it, l) = <<>>
      <4>1. Len(Without(it, l)) = 0
        BY <3>2
      <4> QED
        BY <3>2, <4>1, EmptySeq
    <3>4. w = Cat(Without(it, l), w)
      BY <1>3, <3>3, CatEmpty
    <3> QED
      BY <1>3, <3>1, <3>4
  <2> QED
    BY <2>1, <2>2
<1> QED
  BY <1>1, <1>2, <1>3, <1>7, <1>8 DEF Slid

(* The step of a sliding channel. *)
LEMMA SlidePasses ==
    ASSUME TypeOK, putters = <<>>, NEW x \in Seq(Elements), out' = out \o x,
           NEW k \in 0 .. Len(items), NEW z \in Seq(Elements),
           Flow' = Cat(out, Cat(Without(items, k), z)), FlowIsInjective'
    PROVE  \/ Channel!Pass(0)
           \/ \E l \in 1 .. Len(items \o Elems(putters)) : Channel!Pass(l)
<1> DEFINE buf == items \o Elems(putters)
           w == Without(items, k)
<1>1. items \in Seq(Elements) /\ out \in Seq(Elements)
  BY DEF TypeOK
<1>2. buf = items
  <2>1. putters \in Seq(Entries)
    BY DEF TypeOK, Entries
  <2>2. Elems(putters) = <<>>
    BY <2>1, ElemsParts
  <2> QED
    BY <1>1, <2>2, CatEmpty DEF Cat
<1>3. Flow' = out' \o buf'
  BY DEF Flow, FlowOf, Queues
<1> HIDE DEF buf
<1>4. w \in Seq(Elements) /\ SubSeq(buf, k + 1, Len(buf)) = w
  BY <1>1, <1>2, Halves DEF Without
<1> HIDE DEF w
<1>5. IsPrefix(out, out')
  BY <1>1, PrefixOfJoined DEF Cat
<1>6. IsPrefix(out \o SubSeq(buf, k + 1, Len(buf)), out' \o buf')
  <2>1. Cat(out, w) \in Seq(Elements)
    BY <1>1, <1>4, CatType
  <2>2. IsPrefix(Cat(out, w), Cat(Cat(out, w), z))
    BY <2>1, PrefixOfJoined
  <2>3. Cat(Cat(out, w), z) = Flow'
    BY <1>1, <1>4, CatTwice DEF w
  <2> QED
    BY <1>3, <1>4, <2>2, <2>3 DEF Cat
<1>7. IsInjective(out' \o buf')
  BY <1>3 DEF FlowIsInjective
<1>8. Channel!Pass(k)
  <2>1. Channel!IsPrefix(out, out')
    BY <1>5 DEF IsPrefix, Channel!IsPrefix
  <2>2. Channel!IsPrefix(out \o SubSeq(buf, k + 1, Len(buf)), out' \o buf')
    BY <1>6 DEF IsPrefix, Channel!IsPrefix
  <2>3. Channel!IsInjective(out' \o buf')
    BY <1>7 DEF IsInjective, Channel!IsInjective
  <2> QED
    BY <2>1, <2>2, <2>3 DEF Channel!Pass, buf
<1>9. k = 0 \/ k \in 1 .. Len(buf)
  BY <1>2
<1> QED
  BY <1>8, <1>9 DEF buf

(* Slide: the oldest elements disappear. *)
LEMMA SlideRight ==
    ASSUME Inv, NEW p \in Producers, Slide(p)
    PROVE  Inv' /\ Channel!Next
<1>1. PICK all : all = items \o surplus[p]
  OBVIOUS
<1>2. PICK places : places = IF items = <<>> THEN 1 ELSE Len(items)
  OBVIOUS
<1>3. PICK m, w : m = Len(all) - places /\ w = Without(all, Len(all) - places)
  OBVIOUS
<1>4. PICK q : q = [Queues EXCEPT !.items = w]
  OBVIOUS
<1>5. PICK r, s : r = CompleteTakers(q) /\ s = "idle"
  OBVIOUS
<1>6. /\ phase[p] = "surplus" /\ strategy = "sliding"
      /\ Loops(q, r, p, s)
      /\ Over(p)
      /\ accepted' = accepted \cup ToSet(offering[p])
      /\ UNCHANGED <<strategy, shutdown, closing, interrupted, sent, took>>
  BY <1>1, <1>2, <1>3, <1>4, <1>5 DEF Slide, shutdownVars, Accepted
<1>7. /\ TypeOK /\ NobodyWaitsInVain /\ WaitersArePending /\ OnlyBackpressureWaits
      /\ ElementsAreOwn /\ FlowIsInjective /\ PuttersOffer /\ AcceptedStay /\ ClosesLater
      /\ \A d \in Producers : OfferIsRight(d)
  BY DEF Inv, WaitersAreRight
<1>8. /\ offering \in [Producers -> Seq(Elements)] /\ surplus \in [Producers -> Seq(Elements)]
      /\ accepted \subseteq Elements /\ p \in Clients /\ phase \in [Clients -> Phases]
      /\ sent \in [Producers -> Nat] /\ \A d \in Producers : sent[d] <= MaxOffers[d]
      /\ took \in [Consumers -> 0 .. MaxTakes]
      /\ items \in Seq(Elements) /\ Len(items) \in Nat /\ Len(items) <= Capacity
      /\ out \in Seq(Elements) /\ takers \in Seq(Consumers) /\ putters \in Seq(Entries)
  BY <1>7 DEF TypeOK, Clients, Entries
<1>9. /\ offering'[p] = <<>> /\ surplus'[p] = <<>>
      /\ offering' \in [Producers -> Seq(Elements)] /\ surplus' \in [Producers -> Seq(Elements)]
      /\ \A d \in Producers \ {p} : offering'[d] = offering[d] /\ surplus'[d] = surplus[d]
  BY <1>6, <1>8 DEF Over, Handled
<1>10. PICK new \in Seq(Elements) : new = surplus[p]
  BY <1>8
<1>11. /\ new # <<>> /\ IsInjective(new) /\ ToSet(new) \subseteq ToSet(offering[p]) \ Through
  BY <1>6, <1>7, <1>10 DEF OfferIsRight, SurplusIsNew
<1>12. putters = <<>> /\ Elems(putters) = <<>>
  <2>1. putters = <<>>
    BY <1>6, <1>7 DEF OnlyBackpressureWaits
  <2> QED
    BY <1>8, <2>1, ElemsParts
<1>13. Flow = Cat(out, items)
  <2>1. Flow = Cat(out, Cat(items, Elems(putters)))
    BY <1>7, FlowIs DEF Cat
  <2> QED
    BY <1>8, <1>12, <2>1, CatEmpty
<1>14. all = Cat(items, new) /\ Len(all) = Len(items) + Len(new)
  BY <1>1, <1>8, <1>10, CatType DEF Cat
<1>15. m \in 0 .. Len(items) + Len(new) /\ places <= Capacity /\ places \in Nat
  <2>1. Len(new) \in Nat /\ Len(new) # 0
    BY <1>11, EmptySeq
  <2>2. places \in Nat /\ places <= Capacity /\ (places = 1 \/ places = Len(items))
    BY <1>2, <1>8, CapacityIs
  <2>3. m = Len(items) + Len(new) - places
    BY <1>3, <1>8, <1>14, <2>1, <2>2
  <2> QED
    BY <1>8, <2>1, <2>2, <2>3
<1>16. /\ w \in Seq(Elements) /\ Len(w) = Len(items) + Len(new) - m
       /\ ToSet(w) \subseteq ToSet(items) \cup ToSet(new)
       /\ IsInjective(Cat(out, w)) /\ Slid(items, w)
  <2>1. w = Without(Cat(items, new), m)
    BY <1>3, <1>14
  <2>2. IsInjective(Cat(out, items)) /\ ToSet(new) \cap ToSet(Cat(out, items)) = {}
    BY <1>7, <1>11, <1>13 DEF FlowIsInjective, Through
  <2>3. items \in Seq(Elements) /\ out \in Seq(Elements) /\ Comes(out, items, new)
    BY <1>8, <1>11, <2>2 DEF Comes
  <2>4. Slides(items, new, m, w)
    BY <1>15, <2>1 DEF Slides
  <2> QED
    BY <2>3, <2>4, SlideIs
<1>17. /\ q.items = w /\ q.takers = takers /\ q.putters = putters /\ q.out = out
  BY <1>4 DEF Queues
<1>18. QueuesOK(q) /\ Full(q)
  <2>1. Len(w) <= Capacity
    BY <1>3, <1>8, <1>14, <1>15, <1>16
  <2> QED
    BY <1>8, <1>12, <1>16, <1>17, <2>1 DEF QueuesOK, Full
<1>19. QueuesOK(r) /\ Passed(q, r) /\ Justified(r)
  BY <1>5, <1>18, TakersCompleted
<1>20. /\ items' = r.items /\ takers' = r.takers /\ putters' = r.putters /\ out' = r.out
       /\ Flow' = FlowOf(r)
  BY <1>6, <1>8, LoopsAre
<1>21. Flow' = Cat(out, w)
  <2>1. FlowOf(q) = Cat(out, Cat(w, <<>>))
    BY <1>12, <1>17 DEF FlowOf, Cat
  <2>2. Cat(w, <<>>) = w
    BY <1>16, CatEmpty
  <2> QED
    BY <1>19, <1>20, <2>1, <2>2 DEF Passed
<1>22. FlowIsInjective' /\ Through' \subseteq Through \cup ToSet(new)
  <2>1. ToSet(Cat(out, w)) = ToSet(out) \cup ToSet(w)
    BY <1>8, <1>16, JoinedMembers
  <2>2. ToSet(Cat(out, items)) = ToSet(out) \cup ToSet(items)
    BY <1>8, JoinedMembers
  <2>3. FlowIsInjective'
    BY <1>16, <1>21 DEF FlowIsInjective
  <2> QED
    BY <1>13, <1>16, <1>21, <2>1, <2>2, <2>3 DEF Through
<1>23. \/ Channel!Pass(0)
       \/ \E l \in 1 .. Len(items \o Elems(putters)) : Channel!Pass(l)
  <2>1. PICK k \in 0 .. Len(items), z \in Seq(Elements) : w = Cat(Without(items, k), z)
    BY <1>16 DEF Slid
  <2>2. PICK x \in Seq(Elements) : out' = out \o x
    BY <1>17, <1>19, <1>20 DEF Passed
  <2>3. Flow' = Cat(out, Cat(Without(items, k), z))
    BY <1>21, <2>1
  <2> QED
    BY <1>7, <1>12, <1>22, <2>2, <2>3, SlidePasses
<1>24. Enters(q, p, s)
  <2>1. p \notin ToSet(takers) /\ p \notin Owners(putters)
    BY <1>6, <1>7, <1>8, IdleIsOutside
  <2>2. s = "idle" /\ s \in Phases
    BY <1>5 DEF Phases
  <2> QED
    BY <1>8, <1>17, <2>1, <2>2 DEF Enters
<1>25. /\ WaitersAreRight'
       /\ phase' \in [Clients -> Phases] /\ phase'[p] = "idle"
       /\ \A d \in Producers \ {p} :
             BystanderOf(d) /\ (d \in Owners(putters)' => d \in Owners(putters))
  <2>1. ToSet(r.takers) \subseteq ToSet(q.takers) /\ ToSet(r.putters) \subseteq ToSet(q.putters)
    BY <1>19 DEF Passed
  <2>2. /\ WaitersAreRight'
        /\ phase' \in [Clients -> Phases]
        /\ \A d \in Producers \ {p} :
              BystanderOf(d) /\ (d \in Owners(putters)' => d \in Owners(putters))
        /\ phase'[p] = s \/ (s = "putting" /\ phase'[p] = "put")
                         \/ (s = "taking" /\ phase'[p] = "taken")
    BY <1>6, <1>7, <1>19, <1>24, <2>1, LoopsRight
  <2> QED
    BY <1>5, <2>2
<1>26. ToSet(offering[p]) \subseteq OwnElements(p) /\ ToSet(offering[p]) \subseteq Elements
  BY <1>7 DEF ElementsAreOwn, OwnElements
<1>27. TypeOK'
  <2>1. accepted' \subseteq Elements
    BY <1>6, <1>8, <1>26
  <2>2. /\ sent' \in [Producers -> Nat] /\ \A d \in Producers : sent'[d] <= MaxOffers[d]
        /\ took' \in [Consumers -> 0 .. MaxTakes]
    BY <1>6, <1>8
  <2> QED
    BY <1>6, <1>7, <1>9, <1>19, <1>20, <1>25, <2>1, <2>2, TypeAfter
<1>28. ToSet(offering'[p]) = {}
  BY <1>9 DEF ToSet
<1>29. ElementsAreOwn'
  <2>1. \A e \in ToSet(offering[p]) : Numbered(e)'
    BY <1>6, <1>26 DEF OwnElements, Numbered
  <2>2. \A e \in Through' \cup accepted' : e \in Through \cup accepted \/ Numbered(e)'
    BY <1>6, <1>11, <1>22, <2>1
  <2>3. \A d \in Producers :
            ToSet(offering'[d]) \subseteq ToSet(offering[d]) \cup OwnElements(d)'
    BY <1>9, <1>28
  <2>4. sent' \in [Producers -> Nat] /\ \A d \in Producers : sent[d] <= sent'[d]
    BY <1>6, <1>8
  <2> QED
    BY <1>7, <2>2, <2>3, <2>4, OwnKept
<1>30. putters' = <<>>
  <2>1. ToSet(putters) = {}
    BY <1>12 DEF ToSet
  <2>2. ToSet(putters') = {} /\ putters' \in Seq(Entries)
    BY <1>17, <1>19, <1>20, <2>1 DEF Passed, QueuesOK
  <2> QED
    BY <2>2, NoMembers
<1>31. PuttersOffer' /\ OnlyBackpressureWaits' /\ AcceptedStay' /\ ClosesLater'
  <2>1. ToSet(putters') = {}
    BY <1>30 DEF ToSet
  <2> QED
    BY <1>6, <1>7, <1>30, <2>1 DEF PuttersOffer, OnlyBackpressureWaits, AcceptedStay, ClosesLater
<1>32. OfferIsRight(p)'
  BY <1>25 DEF OfferIsRight, SurplusIsNew, OfferIsOpen, OfferStays
<1>33. ASSUME NEW d \in Producers \ {p}
       PROVE  OfferIsRight(d)'
  <2>1. UNCHANGED <<strategy, offering[d], surplus[d]>>
    BY <1>6, <1>9
  <2>2. \A e \in ToSet(offering[d]) : e \notin ToSet(offering[p])
    BY <1>7 DEF ElementsAreOwn, OwnElements
  <2>3. /\ \A e \in ToSet(offering[d]) : e \in accepted' => e \in accepted
        /\ \A e \in ToSet(offering[d]) : e \in Through' => e \in Through
    BY <1>6, <1>11, <1>22, <2>2
  <2> QED
    BY <1>6, <1>7, <1>25, <2>1, <2>3, Bystander
<1>34. Channel!Next
  <2>1. accepted \subseteq accepted' /\ strategy' = strategy
    BY <1>6
  <2> QED
    BY <1>6, <1>23, <1>27, <1>31, <2>1, ChannelSteps
<1> QED
  BY <1>22, <1>25, <1>27, <1>29, <1>31, <1>32, <1>33, <1>34 DEF Inv

-----------------------------------------------------------------------------
(* Entries leave putters.                                                  *)

(* The members of what unsafeRemove leaves. *)
LEMMA SiftedMembers ==
    ASSUME NEW D, NEW s \in Seq(D), NEW S, NEW r, Sifted(D, s, S, Len(s), r)
    PROVE  /\ r \in Seq(D) /\ ToSet(r) = ToSet(s) \ S /\ ToSet(r) \subseteq ToSet(s)
           /\ s = <<>> => r = <<>>
<1>1. r \in Seq(D)
  BY DEF Sifted
<1>2. ToSet(s) = {s[i] : i \in 1 .. Len(s)} /\ ToSet(r) = {r[i] : i \in 1 .. Len(r)}
  BY <1>1, Members
<1>3. ToSet(r) \subseteq ToSet(s) \ S
  <2>1. \A i \in 1 .. Len(r) : \E a \in 1 .. Len(s) : r[i] = s[a] /\ s[a] \notin S
    BY DEF Sifted
  <2> QED
    BY <1>2, <2>1
<1>4. ToSet(s) \ S \subseteq ToSet(r)
  BY <1>2 DEF Sifted
<1>5. s = <<>> => ToSet(s) = {}
  BY DEF ToSet
<1> QED
  BY <1>1, <1>3, <1>4, <1>5, NoMembers

(* t lost some of its elements and became u. *)
Thinned(t, u) ==
    /\ \A i \in 1 .. Len(u) : \E a \in 1 .. Len(t) : t[a] = u[i]
    /\ \A i, j \in 1 .. Len(u) :
          i < j => \E a, b \in 1 .. Len(t) : a < b /\ t[a] = u[i] /\ t[b] = u[j]

(* Losing elements introduces no repetition. *)
LEMMA ThinnedIsInjective ==
    ASSUME NEW t \in Seq(Elements), NEW u \in Seq(Elements), Thinned(t, u), IsInjective(t)
    PROVE  IsInjective(u)
<1>1. \A a, b \in 1 .. Len(t) : t[a] = t[b] => a = b
  BY DEF IsInjective
<1>2. ASSUME NEW i \in 1 .. Len(u), NEW j \in 1 .. Len(u), i < j
      PROVE  u[i] # u[j]
  <2>1. PICK a, b \in 1 .. Len(t) : a < b /\ t[a] = u[i] /\ t[b] = u[j]
    BY <1>2 DEF Thinned
  <2>2. a # b
    BY <2>1
  <2> QED
    BY <1>1, <2>1, <2>2
<1>3. \A i, j \in 1 .. Len(u) : i = j \/ i < j \/ j < i
  OBVIOUS
<1>4. \A i, j \in 1 .. Len(u) : u[i] = u[j] => i = j
  BY <1>2, <1>3
<1> QED
  BY <1>4 DEF IsInjective

(* Losing elements at the end keeps the order of all. *)
LEMMA ThinnedInOrder ==
    ASSUME NEW s \in Seq(Elements), NEW t \in Seq(Elements), NEW u \in Seq(Elements),
           Thinned(t, u)
    PROVE  Channel!InOrder(Cat(s, u), Cat(s, t))
<1> DEFINE su == Cat(s, u)
           st == Cat(s, t)
           l == Len(s)
           m == Len(t)
           n == Len(u)
<1>1. /\ su \in Seq(Elements) /\ Len(su) = l + n /\ st \in Seq(Elements) /\ Len(st) = l + m
      /\ l \in Nat /\ m \in Nat /\ n \in Nat
  <2>1. Cat(s, u) \in Seq(Elements) /\ Len(Cat(s, u)) = Len(s) + Len(u)
    BY CatType
  <2>2. Cat(s, t) \in Seq(Elements) /\ Len(Cat(s, t)) = Len(s) + Len(t)
    BY CatType
  <2>3. Len(s) \in Nat /\ Len(t) \in Nat /\ Len(u) \in Nat
    OBVIOUS
  <2> QED
    BY <2>1, <2>2, <2>3
<1>2. /\ \A i \in 1 .. l + n : su[i] = IF i <= l THEN s[i] ELSE u[i - l]
      /\ \A i \in 1 .. l + m : st[i] = IF i <= l THEN s[i] ELSE t[i - l]
  BY CatParts
<1>3. DOMAIN su = 1 .. l + n /\ DOMAIN st = 1 .. l + m
  BY <1>1
<1>4. /\ \A i \in 1 .. n : \E a \in 1 .. m : t[a] = u[i]
      /\ \A i, j \in 1 .. n :
            i < j => \E a, b \in 1 .. m : a < b /\ t[a] = u[i] /\ t[b] = u[j]
  BY DEF Thinned
<1> HIDE DEF su, st, l, m, n
<1>5. ASSUME NEW a \in 1 .. m
      PROVE  st[l + a] = t[a]
  <2>1. l + a \in 1 .. l + m /\ ~(l + a <= l)
    BY <1>1
  <2>2. st[l + a] = t[l + a - l]
    BY <1>1, <1>2, <2>1
  <2>3. l + a - l = a
    BY <1>1
  <2> QED
    BY <2>2, <2>3
<1>6. ASSUME NEW i \in 1 .. l + n, NEW j \in 1 .. l + n, i < j
      PROVE  \E a, b \in 1 .. l + m : a < b /\ st[a] = su[i] /\ st[b] = su[j]
  <2>1. CASE j <= l
    <3>1. i \in 1 .. l + m /\ j \in 1 .. l + m /\ i <= l
      BY <1>1, <1>6, <2>1
    <3>2. st[i] = su[i] /\ st[j] = su[j]
      BY <1>2, <2>1, <3>1
    <3> QED
      BY <1>6, <3>1, <3>2
  <2>2. CASE i <= l /\ ~(j <= l)
    <3>1. j - l \in 1 .. n
      BY <1>1, <1>6, <2>2
    <3>2. PICK b \in 1 .. m : t[b] = u[j - l]
      BY <1>4, <3>1
    <3>3. i \in 1 .. l + m /\ l + b \in 1 .. l + m /\ i < l + b /\ ~(l + b <= l) /\ l + b - l = b
      BY <1>1, <2>2, <3>2
    <3>4. st[i] = su[i]
      BY <1>2, <2>2, <3>3
    <3>5. st[l + b] = t[b]
      BY <1>5, <3>3
    <3>6. su[j] = u[j - l]
      BY <1>2, <2>2
    <3> QED
      BY <3>2, <3>3, <3>4, <3>5, <3>6
  <2>3. CASE ~(i <= l)
    <3>1. i - l \in 1 .. n /\ j - l \in 1 .. n /\ i - l < j - l /\ ~(j <= l)
      BY <1>1, <1>6, <2>3
    <3>2. PICK a, b \in 1 .. m : a < b /\ t[a] = u[i - l] /\ t[b] = u[j - l]
      BY <1>4, <3>1
    <3>3. /\ l + a \in 1 .. l + m /\ l + b \in 1 .. l + m /\ l + a < l + b
          /\ ~(l + a <= l) /\ ~(l + b <= l) /\ l + a - l = a /\ l + b - l = b
      BY <1>1, <3>2
    <3>4. st[l + a] = t[a] /\ st[l + b] = t[b]
      BY <1>5, <3>2, <3>3
    <3>5. su[i] = u[i - l] /\ su[j] = u[j - l]
      BY <1>2, <2>3, <3>1
    <3> QED
      BY <3>2, <3>3, <3>4, <3>5
  <2>4. j <= l \/ (i <= l /\ ~(j <= l)) \/ ~(i <= l)
    OBVIOUS
  <2> QED
    BY <2>1, <2>2, <2>3, <2>4
<1> QED
  BY <1>3, <1>6 DEF Channel!InOrder, su, st

(* The elements of the entries of ps in X. *)
ElemsIn(ps, X) == {x.elem : x \in ToSet(ps) \cap X}

(* Entries that go take their elements along. *)
LEMMA EntriesThinned ==
    ASSUME NEW ps \in Seq(Entries), NEW X, NEW rs, Sifted(Entries, ps, X, Len(ps), rs)
    PROVE  Thinned(Elems(ps), Elems(rs))
<1> DEFINE t == Elems(ps)
           u == Elems(rs)
<1>1. rs \in Seq(Entries)
  BY DEF Sifted
<1>2. /\ Len(t) = Len(ps) /\ \A i \in 1 .. Len(ps) : t[i] = ps[i].elem
      /\ Len(u) = Len(rs) /\ \A i \in 1 .. Len(rs) : u[i] = rs[i].elem
  BY <1>1, ElemsParts
<1> HIDE DEF t, u
<1>3. \A i \in 1 .. Len(rs) : \E a \in 1 .. Len(ps) : ps[a] = rs[i]
  BY DEF Sifted
<1>4. \A i, j \in 1 .. Len(rs) :
          i < j => \E a, b \in 1 .. Len(ps) : a < b /\ ps[a] = rs[i] /\ ps[b] = rs[j]
  BY DEF Sifted
<1>5. \A i \in 1 .. Len(u) : \E a \in 1 .. Len(t) : t[a] = u[i]
  <2> SUFFICES ASSUME NEW i \in 1 .. Len(u)
               PROVE  \E a \in 1 .. Len(t) : t[a] = u[i]
    OBVIOUS
  <2>1. PICK a \in 1 .. Len(ps) : ps[a] = rs[i]
    BY <1>2, <1>3
  <2> QED
    BY <1>2, <2>1
<1>6. \A i, j \in 1 .. Len(u) :
          i < j => \E a, b \in 1 .. Len(t) : a < b /\ t[a] = u[i] /\ t[b] = u[j]
  <2> SUFFICES ASSUME NEW i \in 1 .. Len(u), NEW j \in 1 .. Len(u), i < j
               PROVE  \E a, b \in 1 .. Len(t) : a < b /\ t[a] = u[i] /\ t[b] = u[j]
    OBVIOUS
  <2>1. PICK a, b \in 1 .. Len(ps) : a < b /\ ps[a] = rs[i] /\ ps[b] = rs[j]
    BY <1>2, <1>4
  <2> QED
    BY <1>2, <2>1
<1> QED
  BY <1>5, <1>6 DEF Thinned, t, u

(* The elements left are those of the entries left. *)
LEMMA EntriesGone ==
    ASSUME NEW ps \in Seq(Entries), NEW X, NEW rs, Sifted(Entries, ps, X, Len(ps), rs),
           IsInjective(Elems(ps))
    PROVE  ToSet(Elems(rs)) = ToSet(Elems(ps)) \ ElemsIn(ps, X)
<1> DEFINE t == Elems(ps)
<1>1. rs \in Seq(Entries) /\ ToSet(rs) = ToSet(ps) \ X
  BY SiftedMembers
<1>2. /\ ToSet(t) = {x.elem : x \in ToSet(ps)}
      /\ ToSet(Elems(rs)) = {x.elem : x \in ToSet(rs)}
      /\ ToSet(ps) = {ps[i] : i \in 1 .. Len(ps)}
  BY <1>1, OwnersAre, Members
<1>3. t \in Seq(Elements) /\ Len(t) = Len(ps) /\ \A i \in 1 .. Len(ps) : t[i] = ps[i].elem
  BY ElemsParts
<1>4. \A i, j \in 1 .. Len(ps) : t[i] = t[j] => i = j
  BY <1>3 DEF IsInjective
<1> HIDE DEF t
<1>5. ASSUME NEW x \in ToSet(ps), NEW y \in ToSet(ps), x.elem = y.elem
      PROVE  x = y
  <2>1. PICK i, j \in 1 .. Len(ps) : x = ps[i] /\ y = ps[j]
    BY <1>2
  <2>2. i = j
    BY <1>3, <1>4, <1>5, <2>1
  <2> QED
    BY <2>1, <2>2
<1>6. {x.elem : x \in ToSet(ps) \ X} = {x.elem : x \in ToSet(ps)} \ ElemsIn(ps, X)
  BY <1>5 DEF ElemsIn
<1> QED
  BY <1>1, <1>2, <1>6 DEF t

(* The entries in X leave putters, all those of an owner or none.          *)
LEMMA WithdrawnRight ==
    ASSUME Inv, TypeOK', WaitersAreRight', ClosesLater',
           UNCHANGED <<strategy, items, out, offering, surplus, sent, accepted>>,
           NEW X, Sifted(Entries, putters, X, Len(putters), putters'),
           \A x \in ToSet(putters) \cap X : x.who \notin Owners(putters)',
           \A p \in Producers : phase'[p] = phase[p] \/ phase'[p] = "out"
    PROVE  Inv' /\ Channel!Next
<1>1. /\ TypeOK /\ WaitersArePending /\ OnlyBackpressureWaits
      /\ ElementsAreOwn /\ FlowIsInjective /\ PuttersOffer /\ AcceptedStay
      /\ \A d \in Producers : OfferIsRight(d)
  BY DEF Inv, WaitersAreRight
<1>2. /\ putters \in Seq(Entries) /\ items \in Seq(Elements) /\ out \in Seq(Elements)
  BY <1>1 DEF TypeOK, Entries
<1>3. PICK ps : ps = putters'
  OBVIOUS
<1>4. /\ ps \in Seq(Entries) /\ ToSet(ps) = ToSet(putters) \ X /\ ToSet(ps) \subseteq ToSet(putters)
  BY <1>2, <1>3, SiftedMembers
<1> DEFINE e == Elems(putters)
           f == Elems(ps)
           S == ElemsIn(putters, X)
           b == Cat(items, e)
           d == Cat(items, f)
<1>5. e \in Seq(Elements) /\ f \in Seq(Elements)
  BY <1>2, <1>4, ElemsParts
<1>6. /\ b \in Seq(Elements) /\ ToSet(b) = ToSet(items) \cup ToSet(e)
      /\ d \in Seq(Elements) /\ ToSet(d) = ToSet(items) \cup ToSet(f)
  <2> HIDE DEF e, f
  <2>1. b \in Seq(Elements) /\ d \in Seq(Elements)
    BY <1>2, <1>5, CatType
  <2>2. ToSet(b) = ToSet(items) \cup ToSet(e)
    BY <1>2, <1>5, JoinedMembers
  <2>3. ToSet(d) = ToSet(items) \cup ToSet(f)
    BY <1>2, <1>5, JoinedMembers
  <2> QED
    BY <2>1, <2>2, <2>3
<1>7. /\ items \o Elems(putters) = b /\ (items \o Elems(putters))' = d
      /\ Flow = Cat(out, b) /\ Flow' = Cat(out, d)
  BY <1>3 DEF Flow, FlowOf, Queues, Cat
<1>8. S = {x.elem : x \in ToSet(putters) \cap X} /\ ToSet(e) = {x.elem : x \in ToSet(putters)}
  BY <1>2, OwnersAre DEF ElemsIn
<1> HIDE DEF S
<1>9. /\ IsInjective(out) /\ IsInjective(b) /\ ToSet(out) \cap ToSet(b) = {}
  <2> HIDE DEF b
  <2> QED
    BY <1>1, <1>2, <1>6, <1>7, JoinedInjective DEF FlowIsInjective
<1>10. IsInjective(items) /\ IsInjective(e) /\ ToSet(items) \cap ToSet(e) = {}
  <2> HIDE DEF e
  <2> QED
    BY <1>2, <1>5, <1>9, JoinedInjective
<1>11. Thinned(e, f) /\ ToSet(f) = ToSet(e) \ S
  <2>1. Sifted(Entries, putters, X, Len(putters), ps)
    BY <1>3
  <2> QED
    BY <1>2, <1>10, <2>1, EntriesThinned, EntriesGone DEF S
<1> HIDE DEF e, f
<1>12. IsInjective(f) /\ Channel!InOrder(d, b)
  BY <1>2, <1>5, <1>10, <1>11, ThinnedIsInjective, ThinnedInOrder
<1>13. IsInjective(d)
  <2>1. ToSet(items) \cap ToSet(f) = {}
    BY <1>10, <1>11
  <2> QED
    BY <1>2, <1>5, <1>10, <1>12, <2>1, JoinedInjective
<1>14. ToSet(d) = ToSet(b) \ S /\ S \subseteq ToSet(b)
  <2>1. S \subseteq ToSet(e)
    BY <1>8
  <2> QED
    BY <1>6, <1>10, <1>11, <2>1
<1> HIDE DEF b, d
<1>15. FlowIsInjective'
  <2>1. IsInjective(Cat(out, d))
    BY <1>2, <1>6, <1>9, <1>13, <1>14, JoinedInjective
  <2> QED
    BY <1>7, <2>1 DEF FlowIsInjective
<1>16. Through' = Through \ S
  <2>1. ToSet(Cat(out, d)) = ToSet(out) \cup ToSet(d) /\ ToSet(Cat(out, b)) = ToSet(out) \cup ToSet(b)
    BY <1>2, <1>6, JoinedMembers
  <2>2. ToSet(Cat(out, d)) = ToSet(Cat(out, b)) \ S
    BY <1>9, <1>14, <2>1
  <2> QED
    BY <1>7, <2>2 DEF Through
<1>17. \A y \in S : \E x \in ToSet(putters) \cap X :
          /\ y = x.elem /\ y \in ToSet(offering[x.who]) /\ x.who \in Producers
          /\ x.who \in Owners(putters) /\ x.who \notin Owners(putters)'
  <2>1. \A x \in ToSet(putters) : x.who \in Producers /\ x.who \in Owners(putters)
    BY <1>2, OwnersAre
  <2> QED
    BY <1>1, <1>8, <2>1 DEF PuttersOffer
<1>18. PuttersOffer' /\ OnlyBackpressureWaits'
  <2>1. PuttersOffer'
    BY <1>1, <1>3, <1>4 DEF PuttersOffer
  <2> QED
    BY <1>1, <1>3, <1>4, <2>1, StillNoPutters
<1>19. AcceptedStay'
  <2>1. \A y \in S : y \notin accepted
    <3> SUFFICES ASSUME NEW y \in S
                 PROVE  y \notin accepted
      OBVIOUS
    <3>1. PICK p \in Producers : p \in Owners(putters) /\ y \in ToSet(offering[p])
      BY <1>17
    <3>2. phase[p] \in {"putting", "leaving"} /\ OfferIsRight(p)
      BY <1>1, <3>1 DEF WaitersArePending
    <3>3. ToSet(offering[p]) \cap accepted = {}
      BY <3>2 DEF OfferIsRight, OfferIsOpen
    <3> QED
      BY <3>1, <3>3
  <2> QED
    BY <1>1, <1>16, <2>1 DEF AcceptedStay
<1>20. ElementsAreOwn'
  <2>1. Through' \subseteq Through
    BY <1>16
  <2> QED
    BY <1>1, <2>1 DEF ElementsAreOwn, OwnElements, Numbered, Elements
<1>21. ASSUME NEW p \in Producers
       PROVE  OfferIsRight(p)'
  <2>1. UNCHANGED <<strategy, offering[p], surplus[p]>> /\ OfferIsRight(p) /\ BystanderOf(p)
    BY <1>1 DEF BystanderOf
  <2>2. p \in Owners(putters)' => p \in Owners(putters)
    <3>1. Owners(ps) = {x.who : x \in ToSet(ps)} /\ Owners(putters) = {x.who : x \in ToSet(putters)}
      BY <1>2, <1>4, OwnersAre
    <3>2. p \in Owners(ps) => p \in Owners(putters)
      BY <1>4, <3>1
    <3> QED
      BY <1>3, <3>2
  <2>3. /\ \A y \in ToSet(offering[p]) : y \in Through' => y \in Through
        /\ \A y \in ToSet(offering[p]) : y \in accepted' => y \in accepted
    BY <1>16
  <2>4. \/ ToSet(offering[p]) \cap Through \subseteq Through'
        \/ phase'[p] \notin {"surplus", "put"} /\ p \notin Owners(putters)'
    <3>1. CASE ToSet(offering[p]) \cap S = {}
      BY <1>16, <3>1
    <3>2. CASE ToSet(offering[p]) \cap S # {}
      <4>1. PICK y \in S : y \in ToSet(offering[p])
        BY <3>2
      <4>2. PICK x \in ToSet(putters) \cap X :
               /\ y \in ToSet(offering[x.who]) /\ x.who \in Producers
               /\ x.who \in Owners(putters) /\ x.who \notin Owners(putters)'
        BY <1>17
      <4>3. y[1] = x.who /\ y[1] = p
        BY <1>1, <4>1, <4>2 DEF ElementsAreOwn, OwnElements
      <4>4. phase[p] \in {"putting", "leaving"}
        BY <1>1, <4>2, <4>3 DEF WaitersArePending
      <4>5. phase'[p] = phase[p] \/ phase'[p] = "out"
        OBVIOUS
      <4> QED
        BY <4>2, <4>3, <4>4, <4>5
    <3> QED
      BY <3>1, <3>2
  <2> QED
    BY <2>1, <2>2, <2>3, <2>4, Bystander
<1>22. Channel!Next
  <2>1. Channel!Withdraw(S)
    <3>1. ToSet(d) = ToSet(b) \ S /\ Channel!InOrder(d, b) /\ out' = out
      BY <1>12, <1>14
    <3>2. \A s : Channel!ToSet(s) = ToSet(s)
      BY DEF Channel!ToSet, ToSet
    <3> QED
      BY <1>7, <3>1, <3>2 DEF Channel!Withdraw
  <2>2. S \in SUBSET ToSet(items \o Elems(putters))
    BY <1>7, <1>14
  <2> QED
    BY <1>19, <2>1, <2>2, ChannelSteps
<1> QED
  BY <1>15, <1>18, <1>19, <1>20, <1>21, <1>22 DEF Inv

(* ShutdownPutters: all putters withdraw. *)
LEMMA ShutdownPuttersRight ==
    ASSUME Inv, ShutdownPutters
    PROVE  Inv' /\ Channel!Next
<1>1. /\ shutdown = "takers" /\ closing = {} /\ shutdown' = "putters"
      /\ closing' = Owners(putters) /\ putters' = <<>>
      /\ UNCHANGED <<strategy, items, takers, out, phase, interrupted,
                     offering, surplus, sent, took, accepted>>
  BY DEF ShutdownPutters, jobVars
<1>2. TypeOK /\ NobodyWaitsInVain /\ WaitersArePending
  BY DEF Inv, WaitersAreRight
<1>3. putters \in Seq(Entries) /\ Owners(putters) \subseteq Clients
  <2>1. putters \in Seq(Entries)
    BY <1>2 DEF TypeOK, Entries
  <2> QED
    BY <2>1, OwnersAre DEF Clients
<1>4. Owners(<<>>) = {} /\ Owners(putters)' = {}
  <2>1. Owners(<<>>) = {}
    BY DEF Owners
  <2> QED
    BY <1>1, <2>1
<1>5. TypeOK'
  BY <1>1, <1>2, <1>3 DEF TypeOK
<1>6. WaitersAreRight' /\ ClosesLater'
  <2>1. NobodyWaitsInVain'
    BY <1>1, <1>2 DEF NobodyWaitsInVain
  <2>2. WaitersArePending'
    BY <1>1, <1>2, <1>4 DEF WaitersArePending
  <2> QED
    BY <1>1, <2>1, <2>2 DEF WaitersAreRight, ClosesLater
<1>7. PICK X : X = ToSet(putters)
  OBVIOUS
<1>8. Sifted(Entries, putters, X, Len(putters), putters')
  <2>1. ToSet(putters) = {putters[i] : i \in 1 .. Len(putters)}
    BY <1>3, Members
  <2>2. <<>> \in Seq(Entries) /\ 1 .. Len(<<>>) = {}
    OBVIOUS
  <2> QED
    BY <1>1, <1>7, <2>1, <2>2 DEF Sifted
<1>9. /\ \A x \in ToSet(putters) \cap X : x.who \notin Owners(putters)'
      /\ \A p \in Producers : phase'[p] = phase[p] \/ phase'[p] = "out"
  BY <1>1, <1>4
<1> QED
  BY <1>1, <1>5, <1>6, <1>8, <1>9, WithdrawnRight

(* End: a client that fails takes its Deferred, and its elements, back. *)
LEMMA EndRight ==
    ASSUME Inv, NEW c \in Clients, End(c)
    PROVE  Inv' /\ Channel!Next
<1>1. PICK X, T : X = {x \in ToSet(putters) : x.who = c} /\ T = {c}
  OBVIOUS
<1>2. /\ Goes(c, "out") /\ takers' = Removed(takers, T) /\ putters' = Removed(putters, X)
      /\ UNCHANGED <<strategy, items, out, shutdown, closing, interrupted,
                     offering, surplus, sent, took, accepted>>
  BY <1>1 DEF End, Forget, shutdownVars, jobVars
<1>3. TypeOK /\ NobodyWaitsInVain /\ WaitersArePending /\ ClosesLater
  BY DEF Inv, WaitersAreRight
<1>4. /\ putters \in Seq(Entries) /\ takers \in Seq(Consumers)
      /\ phase \in [Clients -> Phases]
  BY <1>3 DEF TypeOK, Entries
<1>5. PICK ps, ts : ps = putters' /\ ts = takers'
  OBVIOUS
<1>6. Sifted(Entries, putters, X, Len(putters), ps) /\ Sifted(Consumers, takers, T, Len(takers), ts)
  BY <1>2, <1>4, <1>5, RemovedIsSifted
<1>7. /\ ps \in Seq(Entries) /\ ToSet(ps) = ToSet(putters) \ X /\ (putters = <<>> => ps = <<>>)
      /\ ts \in Seq(Consumers) /\ ToSet(ts) = ToSet(takers) \ T /\ (takers = <<>> => ts = <<>>)
  BY <1>4, <1>6, SiftedMembers
<1>8. Owners(ps) = Owners(putters) \ {c} /\ ToSet(ts) = ToSet(takers) \ {c}
  <2>1. Owners(ps) = {x.who : x \in ToSet(ps)} /\ Owners(putters) = {x.who : x \in ToSet(putters)}
    BY <1>4, <1>7, OwnersAre
  <2> QED
    BY <1>1, <1>7, <2>1
<1>9. /\ phase' \in [Clients -> Phases] /\ phase'[c] = "out"
      /\ \A d \in Clients \ {c} : phase'[d] = phase[d]
  <2>1. "out" \in Phases
    BY DEF Phases
  <2> QED
    BY <1>2, <1>4, <2>1 DEF Goes
<1>10. TypeOK'
  BY <1>2, <1>3, <1>5, <1>7, <1>9 DEF TypeOK, Entries
<1>11. NobodyWaitsInVain'
  BY <1>2, <1>3, <1>5, <1>7 DEF NobodyWaitsInVain
<1>12. WaitersArePending'
  <2>1. ToSet(takers) \subseteq Clients /\ Owners(putters) \subseteq Clients
    BY <1>4, Members, OwnersAre DEF Clients
  <2>2. \A d \in ToSet(ts) : phase'[d] \in {"taking", "leaving"}
    BY <1>3, <1>8, <1>9, <2>1 DEF WaitersArePending
  <2>3. \A d \in Owners(ps) : phase'[d] \in {"putting", "leaving"}
    BY <1>3, <1>8, <1>9, <2>1 DEF WaitersArePending
  <2>4. ASSUME NEW d \in Clients, phase'[d] \in {"taking", "putting"}
        PROVE  d \in ToSet(ts) \cup Owners(ps) \cup closing
    <3>1. d # c /\ phase'[d] = phase[d]
      BY <1>9, <2>4
    <3>2. d \in ToSet(takers) \cup Owners(putters) \cup closing
      BY <1>3, <2>4, <3>1 DEF WaitersArePending
    <3> QED
      BY <1>8, <3>1, <3>2
  <2>5. ToSet(takers)' = ToSet(ts) /\ Owners(putters)' = Owners(ps) /\ closing' = closing
    BY <1>2, <1>5
  <2> QED
    BY <2>2, <2>3, <2>4, <2>5 DEF WaitersArePending
<1>13. ClosesLater' /\ WaitersAreRight'
  BY <1>2, <1>3, <1>11, <1>12 DEF ClosesLater, WaitersAreRight
<1>14. \A x \in ToSet(putters) \cap X : x.who \notin Owners(putters)'
  BY <1>1, <1>5, <1>8
<1>15. \A p \in Producers : phase'[p] = phase[p] \/ phase'[p] = "out"
  BY <1>9 DEF Clients
<1> QED
  BY <1>2, <1>5, <1>6, <1>10, <1>13, <1>14, <1>15, WithdrawnRight

-----------------------------------------------------------------------------
(* The theorems.                                                           *)

(* The initial states. *)
LEMMA InitRight ==
    ASSUME Init
    PROVE  Inv /\ Channel!Init
<1>1. /\ strategy \in Strategies /\ items = <<>> /\ takers = <<>> /\ putters = <<>> /\ out = <<>>
      /\ shutdown = "open" /\ closing = {} /\ accepted = {}
      /\ phase = [c \in Clients |-> "idle"] /\ interrupted = [c \in Clients |-> FALSE]
      /\ offering = [p \in Producers |-> <<>>] /\ surplus = [p \in Producers |-> <<>>]
      /\ sent = [p \in Producers |-> 0] /\ took = [c \in Consumers |-> 0]
  BY DEF Init
<1>2. TypeOK
  <2>1. MaxOffers \in [Producers -> Nat] /\ MaxTakes \in Nat /\ Capacity \in Nat
    BY BoundsAssumption, CapacityIs
  <2>2. /\ items \in Seq(Elements) /\ Len(items) <= Capacity /\ takers \in Seq(Consumers)
        /\ putters \in Seq([elem : Elements, who : Producers]) /\ out \in Seq(Elements)
    BY <1>1, <2>1
  <2>3. /\ phase \in [Clients -> Phases] /\ interrupted \in [Clients -> BOOLEAN]
    BY <1>1 DEF Phases
  <2>4. /\ offering \in [Producers -> Seq(Elements)] /\ surplus \in [Producers -> Seq(Elements)]
    BY <1>1
  <2>5. /\ sent \in [Producers -> Nat] /\ \A p \in Producers : sent[p] <= MaxOffers[p]
        /\ took \in [Consumers -> 0 .. MaxTakes]
    BY <1>1, <2>1
  <2> QED
    BY <1>1, <2>2, <2>3, <2>4, <2>5 DEF TypeOK
<1>3. Elems(putters) = <<>> /\ items \o Elems(putters) = <<>> /\ Flow = <<>>
  <2>1. putters \in Seq(Entries)
    BY <1>2 DEF TypeOK, Entries
  <2>2. Elems(putters) = <<>>
    BY <1>1, <2>1, ElemsParts
  <2>3. <<>> \o <<>> = <<>>
    OBVIOUS
  <2>4. items \o Elems(putters) = <<>>
    BY <1>1, <2>2, <2>3
  <2> QED
    BY <1>1, <2>2, <2>3, <2>4 DEF Flow, FlowOf, Queues
<1>4. ToSet(<<>>) = {} /\ IsInjective(<<>>)
  BY DEF ToSet, IsInjective
<1>5. Through = {} /\ FlowIsInjective
  BY <1>3, <1>4 DEF Through, FlowIsInjective
<1>6. ToSet(takers) = {} /\ Owners(putters) = {} /\ ToSet(putters) = {}
  BY <1>1, <1>4 DEF Owners
<1>7. WaitersAreRight
  <2>1. \A c \in Clients : phase[c] = "idle"
    BY <1>1
  <2>2. NobodyWaitsInVain
    BY <1>1 DEF NobodyWaitsInVain
  <2>3. WaitersArePending
    BY <1>6, <2>1 DEF WaitersArePending
  <2> QED
    BY <2>2, <2>3 DEF WaitersAreRight
<1>8. OnlyBackpressureWaits /\ PuttersOffer /\ AcceptedStay /\ ClosesLater
  BY <1>1, <1>6 DEF OnlyBackpressureWaits, PuttersOffer, AcceptedStay, ClosesLater
<1>9. ElementsAreOwn
  <2>1. \A p \in Producers : ToSet(offering[p]) = {}
    BY <1>1, <1>4
  <2> QED
    BY <1>1, <1>5, <2>1 DEF ElementsAreOwn
<1>10. \A p \in Producers : OfferIsRight(p)
  <2>1. \A p \in Producers : phase[p] = "idle"
    BY <1>1 DEF Clients
  <2> QED
    BY <2>1 DEF OfferIsRight, SurplusIsNew, OfferIsOpen, OfferStays
<1>11. Channel!Init
  BY <1>1, <1>3 DEF Channel!Init
<1> QED
  BY <1>2, <1>5, <1>7, <1>8, <1>9, <1>10, <1>11 DEF Inv

(* Every step keeps the invariant and is one of the channel, or a stutter. *)
LEMMA NextRight ==
    ASSUME Inv, [Next]_vars
    PROVE  Inv' /\ [Channel!Next]_Channel!vars
<1>1. ASSUME NEW p \in Producers, Produce(p)
      PROVE  Inv' /\ Channel!Next
  BY <1>1, OfferRight, DropRight, SlideRight, PutRight, PutDoneRight DEF Produce
<1>2. ASSUME NEW c \in Consumers, Consume(c)
      PROVE  Inv' /\ Channel!Next
  BY <1>2, TakeItemsRight, TakeNothingRight, WaitRight, TakeDoneRight DEF Consume
<1>3. ASSUME NEW c \in Clients, Interrupt(c) \/ End(c) \/ Refused(c)
      PROVE  Inv' /\ Channel!Next
  BY <1>3, InterruptRight, EndRight, RefusedRight
<1>4. ASSUME Shutdown \/ ShutdownStep
      PROVE  Inv' /\ Channel!Next
  BY <1>4, ShutdownRight, ShutdownPuttersRight, CloseRight DEF ShutdownStep
<1>5. CASE UNCHANGED vars
  <2>1. UNCHANGED <<strategy, items, takers, putters, out, shutdown, closing, phase, interrupted,
                    offering, surplus, sent, took, accepted>>
    BY <1>5 DEF vars, queueVars, shutdownVars, jobVars
  <2>2. TypeOK /\ WaitersAreRight /\ ClosesLater
    BY DEF Inv
  <2>3. TypeOK' /\ ClosesLater' /\ \A p \in Producers : BystanderOf(p)
    BY <2>1, <2>2 DEF TypeOK, ClosesLater, BystanderOf
  <2>4. WaitersAreRight'
    BY <2>1, <2>2 DEF WaitersAreRight, NobodyWaitsInVain, WaitersArePending
  <2> QED
    BY <2>1, <2>3, <2>4, StillRight
<1>6. CASE Next
  BY <1>1, <1>2, <1>3, <1>4, <1>6 DEF Next
<1> QED
  BY <1>5, <1>6

(* The inductive invariant: see README. *)
LEMMA QueueInvariant == Spec => []Inv
<1>1. Init => Inv
  BY InitRight
<1>2. Inv /\ [Next]_vars => Inv'
  BY NextRight
<1> QED
  BY <1>1, <1>2, PTL DEF Spec

(* Every variable of the queue keeps its type, and the buffer its bound    *)
(* (queue.ts: the strategies' handleSurplus, unsafeOfferAll).              *)
THEOREM QueueTypes == Spec => []TypeOK
<1>1. Inv => TypeOK
  BY DEF Inv
<1> QED
  BY <1>1, QueueInvariant, PTL

(* Nobody waits for what is there, what waits is of clients in the         *)
(* operation, and whoever is suspended in take or offer can be found by    *)
(* the other side or by shutdown (queue.ts: unsafeCompleteTakers,          *)
(* unsafeOnQueueEmptySpace, unsafeRemove, shutdown).                       *)
THEOREM QueueWaitersAreRight == Spec => []WaitersAreRight
<1>1. Inv => WaitersAreRight
  BY DEF Inv
<1> QED
  BY <1>1, QueueInvariant, PTL

(* The queue implements the channel, whatever the strategy: elements are   *)
(* handed over in the order of their offers, each once, unless those who   *)
(* offered them withdraw them (an interrupt, a shutdown); one whose offer  *)
(* returned true is not lost unless it slid out (queue.ts: unsafeOffer,    *)
(* handleSurplus, take, unsafeCompleteTakers, shutdown).                   *)
THEOREM QueueIsAChannel == Spec => RefinesChannel
<1>1. Init => Channel!Init
  BY InitRight
<1>2. Inv /\ [Next]_vars => [Channel!Next]_Channel!vars
  BY NextRight
<1>3. Channel!Init /\ [][Channel!Next]_Channel!vars => Channel!Spec
  BY DEF Channel!Spec
<1> QED
  BY <1>1, <1>2, <1>3, QueueInvariant, PTL DEF Spec, RefinesChannel
===============================================================================
