---------------------------- MODULE SemaphoreProofs ----------------------------
(***************************************************************************)
(* The semaphore is right for any clients, permits and wishes: permits are *)
(* never overcommitted, they are lost to interrupted clients only, the     *)
(* observers in the array are those of the waiting clients, and none of    *)
(* them is forgotten.                                                      *)
(*                                                                         *)
(* The permits inside are a sum over a set of clients, a fold; what a fold *)
(* computes is derived here from the fact that a set of subsets of a       *)
(* finite set has a minimal member, which replaces induction.              *)
(***************************************************************************)
EXTENDS Semaphore, FiniteSetTheorems, SequenceTheorems, TLAPS

-----------------------------------------------------------------------------
(* Sums over finite sets.                                                  *)

(* A set of subsets of a finite set has a minimal member. *)
LEMMA MinimalSubset ==
    ASSUME NEW S, IsFiniteSet(S), NEW T, T \subseteq SUBSET S, T # {}
    PROVE  \E x \in T : \A y \in T : y \subseteq x => y = x
<1>1. IsWellFoundedOn(StrictSubsetOrdering(S), SUBSET S)
  BY FS_StrictSubsetOrderingWellFounded, FS_FiniteSubsetsOfFinite
<1>2. \E x \in T : \A y \in T : ~ (<<y, x>> \in StrictSubsetOrdering(S))
  BY <1>1, WFMin
<1> QED
  BY <1>2 DEF StrictSubsetOrdering

Some(s) == CHOOSE x \in s : TRUE

(* The equation of the recursive function in MapThenFoldSet. *)
Folded(w, s, it) == IF s = {} THEN 0 ELSE w[Some(s)] + it[s \ {Some(s)}]
Folding(w, S, it) == it = [s \in SUBSET S |-> Folded(w, s, it)]
Fold(w, S) == CHOOSE it : Folding(w, S, it)

Total(w, S) == MapThenSumSet(LAMBDA c : w[c], S)

(* A sum is the value of the recursive function of its set. *)
LEMMA TotalIsFold == ASSUME NEW w, NEW S PROVE Total(w, S) = Fold(w, S)[S]
  BY DEF Total, MapThenSumSet, MapThenFoldSet, Fold, Folding, Folded, Some

(* Two solutions of the equation agree where both are defined. *)
LEMMA FoldingUnique ==
    ASSUME NEW w, NEW S, IsFiniteSet(S), NEW R \in SUBSET S,
           Folding(w, S, Fold(w, S)), Folding(w, R, Fold(w, R))
    PROVE  Fold(w, S)[R] = Fold(w, R)[R]
<1> DEFINE f == Fold(w, S)
           g == Fold(w, R)
           Bad == {s \in SUBSET R : f[s] # g[s]}
<1> SUFFICES ASSUME Bad # {}
             PROVE  FALSE
  OBVIOUS
<1>1. PICK b \in Bad : \A y \in Bad : y \subseteq b => y = b
  <2>1. IsFiniteSet(R) /\ Bad \subseteq SUBSET R
    BY FS_Subset
  <2> HIDE DEF Bad
  <2> QED
    BY <2>1, MinimalSubset
<1>2. b # {}
  BY DEF Folding, Folded
<1>3. f[b \ {Some(b)}] = g[b \ {Some(b)}]
  BY <1>1, <1>2 DEF Some
<1>4. f[b] = w[Some(b)] + f[b \ {Some(b)}] /\ g[b] = w[Some(b)] + g[b \ {Some(b)}]
  BY <1>2 DEF Folding, Folded
<1> QED
  BY <1>3, <1>4

(* The equation has a solution. *)
LEMMA FoldingExists ==
    ASSUME NEW w, NEW S, IsFiniteSet(S)
    PROVE  Folding(w, S, Fold(w, S))
<1> DEFINE Bad == {R \in SUBSET S : ~ \E it : Folding(w, R, it)}
<1> SUFFICES ASSUME Bad # {}
             PROVE  FALSE
  BY DEF Fold
<1>1. PICK b \in Bad : \A y \in Bad : y \subseteq b => y = b
  <2>1. Bad \subseteq SUBSET S
    OBVIOUS
  <2> HIDE DEF Bad
  <2> QED
    BY <2>1, MinimalSubset
<1> DEFINE Rest(s) == s \ {Some(s)}
           g == [s \in SUBSET b |->
                    IF s = {} THEN 0 ELSE w[Some(s)] + Fold(w, Rest(s))[Rest(s)]]
<1>2. \A s \in SUBSET b : s # b => Folding(w, s, Fold(w, s))
  BY <1>1 DEF Fold
<1>3. \A s \in SUBSET b : s # {} => Some(s) \in s
  BY DEF Some
<1>4. ASSUME NEW s \in SUBSET b, s # b
      PROVE  g[s] = Fold(w, s)[s]
  <2>1. Folding(w, s, Fold(w, s)) /\ IsFiniteSet(s)
    BY <1>2, <1>4, FS_Subset
  <2>2. CASE s = {}
    BY <2>1, <2>2 DEF Folding, Folded
  <2>3. CASE s # {}
    <3>1. Rest(s) \in SUBSET s /\ Rest(s) # b
      BY <1>3, <2>3
    <3>2. Folding(w, Rest(s), Fold(w, Rest(s)))
      BY <1>2, <3>1
    <3>3. Fold(w, s)[Rest(s)] = Fold(w, Rest(s))[Rest(s)]
      BY <2>1, <3>1, <3>2, FoldingUnique
    <3>4. Fold(w, s)[s] = w[Some(s)] + Fold(w, s)[Rest(s)]
      BY <2>1, <2>3 DEF Folding, Folded
    <3> QED
      BY <2>3, <3>3, <3>4
  <2> QED
    BY <2>2, <2>3
<1>5. \A s \in SUBSET b : g[s] = Folded(w, s, g)
  <2> SUFFICES ASSUME NEW s \in SUBSET b
               PROVE  g[s] = Folded(w, s, g)
    OBVIOUS
  <2>1. CASE s = {}
    BY <2>1 DEF Folded
  <2>2. CASE s # {}
    <3>1. g[Rest(s)] = Fold(w, Rest(s))[Rest(s)]
      BY <1>3, <1>4, <2>2
    <3>2. g[s] = w[Some(s)] + Fold(w, Rest(s))[Rest(s)]
      BY <2>2
    <3>3. Folded(w, s, g) = w[Some(s)] + g[Rest(s)]
      BY <2>2 DEF Folded
    <3> QED
      BY <3>1, <3>2, <3>3
  <2> QED
    BY <2>1, <2>2
<1>6. g = [s \in SUBSET b |-> g[s]]
  OBVIOUS
<1>7. Folding(w, b, g)
  <2> HIDE DEF g
  <2> QED
    BY <1>5, <1>6 DEF Folding
<1> QED
  BY <1>7

(* What a sum is: 0, or an element and the sum of the others. *)
LEMMA TotalEquation ==
    ASSUME NEW w, NEW S, IsFiniteSet(S)
    PROVE  Total(w, S) = IF S = {} THEN 0 ELSE w[Some(S)] + Total(w, S \ {Some(S)})
<1> DEFINE R == S \ {Some(S)}
<1>1. Folding(w, S, Fold(w, S)) /\ Folding(w, R, Fold(w, R)) /\ IsFiniteSet(R)
  BY FoldingExists, FS_Subset
<1>2. Fold(w, S)[R] = Fold(w, R)[R]
  BY <1>1, FoldingUnique
<1>3. Fold(w, S)[S] = IF S = {} THEN 0 ELSE w[Some(S)] + Fold(w, S)[R]
  BY <1>1 DEF Folding, Folded
<1> QED
  BY <1>2, <1>3, TotalIsFold

(* A sum of natural numbers is a natural number. *)
LEMMA TotalType ==
    ASSUME NEW D, NEW w \in [D -> Nat], NEW S \in SUBSET D, IsFiniteSet(S)
    PROVE  Total(w, S) \in Nat
<1> DEFINE Bad == {R \in SUBSET S : Total(w, R) \notin Nat}
<1> SUFFICES ASSUME Bad # {}
             PROVE  FALSE
  OBVIOUS
<1>1. PICK b \in Bad : \A y \in Bad : y \subseteq b => y = b
  <2>1. Bad \subseteq SUBSET S
    OBVIOUS
  <2> HIDE DEF Bad
  <2> QED
    BY <2>1, MinimalSubset
<1>2. Total(w, b) = IF b = {} THEN 0 ELSE w[Some(b)] + Total(w, b \ {Some(b)})
  BY TotalEquation, FS_Subset
<1>3. b # {} => Some(b) \in b
  BY DEF Some
<1>4. b # {} => Total(w, b \ {Some(b)}) \in Nat
  BY <1>1, <1>3
<1> QED
  BY <1>2, <1>3, <1>4

(* A sum does not depend on the order in which the fold chooses. *)
LEMMA TotalRemove ==
    ASSUME NEW D, NEW w \in [D -> Nat], NEW S \in SUBSET D, IsFiniteSet(S), NEW c \in S
    PROVE  Total(w, S) = w[c] + Total(w, S \ {c})
<1> DEFINE Bad == {R \in SUBSET S : \E d \in R : Total(w, R) # w[d] + Total(w, R \ {d})}
<1> SUFFICES ASSUME Bad # {}
             PROVE  FALSE
  OBVIOUS
<1>1. PICK b \in Bad : \A y \in Bad : y \subseteq b => y = b
  <2>1. Bad \subseteq SUBSET S
    OBVIOUS
  <2> HIDE DEF Bad
  <2> QED
    BY <2>1, MinimalSubset
<1>2. PICK d \in b : Total(w, b) # w[d] + Total(w, b \ {d})
  OBVIOUS
<1> DEFINE x == Some(b)
           R == b \ {d, x}
<1>3. x \in b
  BY DEF Some
<1>4. \A T \in SUBSET S : IsFiniteSet(T) /\ Total(w, T) \in Nat
  BY FS_Subset, TotalType
<1>5. Total(w, b) = w[x] + Total(w, b \ {x})
  BY <1>4, TotalEquation
<1>6. x # d
  BY <1>2, <1>5
<1>a. \A T \in SUBSET b : T # b => \A e \in T : Total(w, T) = w[e] + Total(w, T \ {e})
  BY <1>1
<1>7. Total(w, b \ {x}) = w[d] + Total(w, (b \ {x}) \ {d})
  <2>1. b \ {x} \in SUBSET b /\ b \ {x} # b /\ d \in b \ {x}
    BY <1>3, <1>6
  <2> QED
    BY <1>a, <2>1
<1>8. Total(w, b \ {d}) = w[x] + Total(w, (b \ {d}) \ {x})
  <2>1. b \ {d} \in SUBSET b /\ b \ {d} # b /\ x \in b \ {d}
    BY <1>3, <1>6
  <2> QED
    BY <1>a, <2>1
<1>9. (b \ {x}) \ {d} = R /\ (b \ {d}) \ {x} = R
  OBVIOUS
<1>10. w[x] \in Nat /\ w[d] \in Nat /\ Total(w, R) \in Nat
  BY <1>3, <1>4
<1> HIDE DEF x, R
<1>11. Total(w, b) = w[x] + (w[d] + Total(w, R)) /\ Total(w, b \ {d}) = w[x] + Total(w, R)
  BY <1>5, <1>7, <1>8, <1>9
<1> QED
  BY <1>2, <1>10, <1>11

(* The permits some clients ask for, with one client more or less. *)
LEMMA DemandOfClients ==
    /\ Demand({}) = 0
    /\ \A S \in SUBSET Clients : Demand(S) \in Nat
    /\ \A S \in SUBSET Clients : \A c \in S : Demand(S) = Want[c] + Demand(S \ {c})
    /\ \A S \in SUBSET Clients : \A c \in Clients \ S : Demand(S \cup {c}) = Want[c] + Demand(S)
<1>1. \A S : Demand(S) = Total(Want, S)
  BY DEF Demand, Total
<1>2. Want \in [Clients -> Nat] /\ \A S \in SUBSET Clients : IsFiniteSet(S)
  BY ClientsAssumption, WantAssumption, FS_Subset
<1>3. Demand({}) = 0
  BY <1>1, TotalEquation, FS_EmptySet
<1>4. \A S \in SUBSET Clients : Demand(S) \in Nat
  BY <1>1, <1>2, TotalType
<1>5. \A S \in SUBSET Clients : \A c \in S : Demand(S) = Want[c] + Demand(S \ {c})
  <2> SUFFICES ASSUME NEW S \in SUBSET Clients, NEW c \in S
               PROVE  Total(Want, S) = Want[c] + Total(Want, S \ {c})
    BY <1>1
  <2> QED
    BY <1>2, TotalRemove
<1>6. ASSUME NEW S \in SUBSET Clients, NEW c \in Clients \ S
      PROVE  Demand(S \cup {c}) = Want[c] + Demand(S)
  <2>1. S \cup {c} \in SUBSET Clients /\ (S \cup {c}) \ {c} = S
    OBVIOUS
  <2> QED
    BY <1>5, <2>1
<1> QED
  BY <1>3, <1>4, <1>5, <1>6

-----------------------------------------------------------------------------
(* The array of observers.                                                 *)

Distinct(s) == \A i, j \in 1 .. Len(s) : s[i] = s[j] => i = j

(* findIndex and splice, on an array whose elements differ. *)
LEMMA RemovedOnce ==
    ASSUME NEW S, NEW s \in Seq(S), Distinct(s), NEW i \in 1 .. Len(s)
    PROVE  /\ RemoveFirst(s, s[i]) \in Seq(S)
           /\ Len(RemoveFirst(s, s[i])) = Len(s) - 1
           /\ \A j \in 1 .. Len(s) - 1 :
                 RemoveFirst(s, s[i])[j] = IF j < i THEN s[j] ELSE s[j + 1]
<1>1. {j \in 1 .. Len(s) : s[j] = s[i]} = {i}
  BY DEF Distinct
<1>2. SelectInSeq(s, LAMBDA v : v = s[i]) = Min({i})
  BY <1>1 DEF SelectInSeq
<1>3. Min({i}) = i
  BY DEF Min
<1>4. RemoveFirst(s, s[i]) = RemoveAt(s, i)
  BY <1>2, <1>3 DEF RemoveFirst
<1> DEFINE before == SubSeq(s, 1, i - 1)
           after == SubSeq(s, i + 1, Len(s))
<1>5. RemoveAt(s, i) = before \o after
  BY DEF RemoveAt
<1>6. Len(s) \in Nat /\ i \in Nat /\ i >= 1 /\ i <= Len(s)
  OBVIOUS
<1>7. before \in Seq(S) /\ Len(before) = i - 1 /\ \A j \in 1 .. i - 1 : before[j] = s[j]
  OBVIOUS
<1>8. /\ after \in Seq(S) /\ Len(after) = Len(s) - i
      /\ \A j \in 1 .. Len(s) - i : after[j] = s[i + j]
  OBVIOUS
<1> HIDE DEF before, after
<1>9. /\ before \o after \in Seq(S) /\ Len(before \o after) = Len(before) + Len(after)
      /\ \A j \in 1 .. Len(before) + Len(after) : (before \o after)[j] =
            IF j <= Len(before) THEN before[j] ELSE after[j - Len(before)]
  BY <1>7, <1>8, ConcatProperties
<1> DEFINE both == before \o after
<1> HIDE DEF both
<1>10. both \in Seq(S) /\ Len(both) = Len(s) - 1
  BY <1>6, <1>7, <1>8, <1>9 DEF both
<1>11. ASSUME NEW j \in 1 .. Len(s) - 1
       PROVE  both[j] = IF j < i THEN s[j] ELSE s[j + 1]
  <2>1. both[j] = IF j <= i - 1 THEN before[j] ELSE after[j - (i - 1)]
    BY <1>6, <1>7, <1>8, <1>9 DEF both
  <2>2. CASE j < i
    BY <1>6, <1>7, <2>1, <2>2
  <2>3. CASE ~ (j < i)
    <3>1. j - (i - 1) \in 1 .. Len(s) - i /\ i + (j - (i - 1)) = j + 1 /\ ~ (j <= i - 1)
      BY <1>6, <2>3
    <3> QED
      BY <1>8, <2>1, <2>3, <3>1
  <2> QED
    BY <2>2, <2>3
<1> QED
  BY <1>4, <1>5, <1>10, <1>11 DEF both

(* An observer that removes itself leaves the others, in their order. *)
LEMMA ObserverLeaves ==
    ASSUME NEW S, NEW s \in Seq(S), Distinct(s), NEW c, Contains(s, c)
    PROVE  /\ RemoveFirst(s, c) \in Seq(S)
           /\ Distinct(RemoveFirst(s, c))
           /\ ~Contains(RemoveFirst(s, c), c)
           /\ \A d : d # c => (Contains(RemoveFirst(s, c), d) <=> Contains(s, d))
<1>1. PICK i \in 1 .. Len(s) : s[i] = c
  BY DEF Contains
<1> DEFINE t == RemoveFirst(s, c)
<1>2. /\ t \in Seq(S) /\ Len(t) = Len(s) - 1
      /\ \A j \in 1 .. Len(s) - 1 : t[j] = IF j < i THEN s[j] ELSE s[j + 1]
  BY <1>1, RemovedOnce
<1> HIDE DEF t
<1>3. Len(s) \in Nat
  OBVIOUS
<1>4. Distinct(t)
  BY <1>2, <1>3 DEF Distinct
<1>5. ~Contains(t, c)
  BY <1>1, <1>2, <1>3 DEF Contains, Distinct
<1>6. ASSUME NEW d, d # c
      PROVE  Contains(t, d) <=> Contains(s, d)
  <2>1. ASSUME NEW j \in 1 .. Len(t), t[j] = d
        PROVE  Contains(s, d)
    <3>1. CASE j < i
      <4>1. j \in 1 .. Len(s) /\ s[j] = d
        BY <1>2, <1>3, <2>1, <3>1
      <4> QED
        BY <4>1 DEF Contains
    <3>2. CASE ~(j < i)
      <4>1. j + 1 \in 1 .. Len(s) /\ s[j + 1] = d
        BY <1>2, <1>3, <2>1, <3>2
      <4> QED
        BY <4>1 DEF Contains
    <3> QED
      BY <3>1, <3>2
  <2>2. ASSUME NEW j \in 1 .. Len(s), s[j] = d
        PROVE  Contains(t, d)
    <3>1. CASE j < i
      BY <1>2, <1>3, <2>2, <3>1 DEF Contains
    <3>2. CASE j > i
      <4>1. j - 1 \in 1 .. Len(t) /\ t[j - 1] = d
        BY <1>2, <1>3, <2>2, <3>2
      <4> QED
        BY <4>1 DEF Contains
    <3> QED
      BY <1>1, <1>6, <2>2, <3>1, <3>2
  <2> QED
    BY <2>1, <2>2 DEF Contains
<1> QED
  BY <1>2, <1>4, <1>5, <1>6 DEF t

(* An observer that is appended comes last. *)
LEMMA ObserverComes ==
    ASSUME NEW S, NEW s \in Seq(S), NEW c \in S
    PROVE  /\ Append(s, c) \in Seq(S)
           /\ \A d : Contains(Append(s, c), d) <=> (d = c \/ Contains(s, d))
           /\ Distinct(s) /\ ~Contains(s, c) => Distinct(Append(s, c))
<1>1. /\ Append(s, c) \in Seq(S) /\ Len(Append(s, c)) = Len(s) + 1 /\ Len(s) \in Nat
      /\ \A j \in 1 .. Len(s) : Append(s, c)[j] = s[j]
      /\ Append(s, c)[Len(s) + 1] = c
  OBVIOUS
<1>2. \A j \in 1 .. Len(s) + 1 : j \in 1 .. Len(s) \/ j = Len(s) + 1
  BY <1>1
<1> DEFINE t == Append(s, c)
<1>3. ASSUME NEW d
      PROVE  Contains(t, d) <=> (d = c \/ Contains(s, d))
  BY <1>1, <1>2 DEF Contains
<1>4. ASSUME Distinct(s), ~Contains(s, c)
      PROVE  Distinct(t)
  BY <1>1, <1>2, <1>4 DEF Distinct, Contains
<1> QED
  BY <1>1, <1>3, <1>4

-----------------------------------------------------------------------------
(* The invariant.                                                          *)

Lasting == {c \in Clients : phase[c] = "out" /\ interrupted[c]}

(* While nobody is inside, nothing was lost and no task is on its way, the *)
(* observers that were called ask for more than all the permits.           *)
OnlyUnfitWait ==
    Owners = {} /\ Lost = 0 /\ wakes = 0 =>
        \A i \in 1 .. Len(waiters) : Idle \/ i < waking => Want[waiters[i]] > Permits

PhasesOK ==
    /\ waiters \in Seq(Clients)
    /\ wakes \in Nat
    /\ waking \in Nat
    /\ phase \in [Clients -> Phases]
    /\ interrupted \in [Clients -> BOOLEAN]
    /\ calls \in [Clients -> Nat]

Bounded == \A c \in Clients : calls[c] <= Rounds[c]

PermitsOK == taken \in Nat /\ WithinPermits /\ LostToInterrupts

SemaphoreInv == PhasesOK /\ Bounded /\ PermitsOK /\ ObserversWait /\ OnlyUnfitWait

(* The types of the array and of the clients. *)
LEMMA PhasesStep == PhasesOK /\ ObserversWait /\ Bounded /\ [Next]_vars => PhasesOK' /\ ObserversWait' /\ Bounded'
<1> SUFFICES ASSUME PhasesOK, ObserversWait, Bounded, [Next]_vars
             PROVE  PhasesOK' /\ ObserversWait' /\ Bounded'
  OBVIOUS
<1> USE RoundsAssumption DEF PhasesOK, Phases, Bounded, Idle
<1>0. Distinct(waiters) /\ \A c \in Clients : phase[c] = "waiting" <=> Contains(waiters, c)
  BY DEF ObserversWait, Distinct
<1>1. ASSUME NEW c \in Clients, Take(c)
      PROVE  PhasesOK' /\ ObserversWait' /\ Bounded'
  <2>1. CASE Free < Want[c] /\ waiters' = Append(waiters, c)
             /\ phase' = [phase EXCEPT ![c] = "waiting"]
    <3>1. /\ waiters' \in Seq(Clients) /\ Distinct(waiters')
          /\ \A d : Contains(waiters', d) <=> (d = c \/ Contains(waiters, d))
      BY <1>0, <1>1, <2>1, ObserverComes DEF Take
    <3>2. PhasesOK' /\ Bounded'
      BY <1>1, <2>1, <3>1 DEF Take
    <3>3. \A d \in Clients : phase'[d] = "waiting" <=> Contains(waiters', d)
      BY <1>0, <2>1, <3>1
    <3> QED
      BY <3>1, <3>2, <3>3 DEF ObserversWait, Distinct
  <2>2. CASE waiters' = waiters /\ phase' = [phase EXCEPT ![c] =
                          IF c \in Roots /\ calls[c] = 0 THEN "granted" ELSE "holding"]
    <3>1. PhasesOK' /\ Bounded'
      BY <1>1, <2>2 DEF Take
    <3>2. \A d \in Clients : phase'[d] = "waiting" <=> phase[d] = "waiting"
      BY <1>1, <2>2 DEF Take
    <3> QED
      BY <2>2, <3>1, <3>2 DEF ObserversWait
  <2> QED
    BY <1>1, <2>1, <2>2 DEF Take
<1>2. ASSUME NEW c \in Clients, Interrupt(c)
      PROVE  PhasesOK' /\ ObserversWait' /\ Bounded'
  BY <1>2 DEF Interrupt, ObserversWait
<1>3. ASSUME NEW c \in Clients, Cancel(c)
      PROVE  PhasesOK' /\ ObserversWait' /\ Bounded'
  <2>1. /\ waiters' \in Seq(Clients) /\ Distinct(waiters') /\ ~Contains(waiters', c)
        /\ \A d : d # c => (Contains(waiters', d) <=> Contains(waiters, d))
    BY <1>0, <1>3, ObserverLeaves DEF Cancel
  <2>2. PhasesOK' /\ Bounded'
    BY <1>3, <2>1 DEF Cancel
  <2>3. \A d \in Clients : phase'[d] = "waiting" <=> Contains(waiters', d)
    BY <1>0, <1>3, <2>1 DEF Cancel
  <2> QED
    BY <2>1, <2>2, <2>3 DEF ObserversWait, Distinct
<1>4. ASSUME NEW c \in Clients, Enter(c) \/ Release(c)
      PROVE  PhasesOK' /\ ObserversWait' /\ Bounded'
  <2>1. PhasesOK' /\ Bounded'
    <3>1. CASE Enter(c)
      BY <3>1 DEF Enter
    <3>2. CASE Release(c)
      BY <3>2 DEF Release
    <3> QED
      BY <1>4, <3>1, <3>2
  <2>2. waiters' = waiters /\ \A d \in Clients : phase'[d] = "waiting" <=> phase[d] = "waiting"
    BY <1>4 DEF Enter, Release
  <2> QED
    BY <2>1, <2>2 DEF ObserversWait
<1>5. CASE WakeStart \/ WakeEnd
  BY <1>5 DEF WakeStart, WakeEnd, ObserversWait
<1>6. ASSUME NEW c \in Clients, WakeNext(c)
      PROVE  PhasesOK' /\ ObserversWait' /\ Bounded'
  <2>1. CASE UNCHANGED <<waiters, taken, phase>>
    BY <1>6, <2>1 DEF WakeNext, ObserversWait
  <2>2. CASE waiters' = RemoveFirst(waiters, c) /\ Resume(c)
    <3>1. Contains(waiters, c)
      BY <1>6 DEF WakeNext, Contains
    <3>2. /\ waiters' \in Seq(Clients) /\ Distinct(waiters') /\ ~Contains(waiters', c)
          /\ \A d : d # c => (Contains(waiters', d) <=> Contains(waiters, d))
      BY <1>0, <2>2, <3>1, ObserverLeaves
    <3>3. phase' = [phase EXCEPT ![c] = "granted"]
      BY <1>0, <2>2, <3>1 DEF Resume
    <3>4. PhasesOK' /\ Bounded'
      BY <1>6, <3>2, <3>3 DEF WakeNext
    <3>5. \A d \in Clients : phase'[d] = "waiting" <=> Contains(waiters', d)
      BY <1>0, <3>2, <3>3
    <3> QED
      BY <3>2, <3>4, <3>5 DEF ObserversWait, Distinct
  <2> QED
    BY <1>6, <2>1, <2>2 DEF WakeNext
<1>7. CASE UNCHANGED vars
  BY <1>7 DEF vars, ObserversWait
<1> QED
  BY <1>1, <1>2, <1>3, <1>4, <1>5, <1>6, <1>7 DEF Next, Proceed, Wake

(* What the steps do to the permits that are taken and to those inside. *)
LEMMA PermitsStep ==
    ASSUME PhasesOK, ObserversWait, PermitsOK, [Next]_vars
    PROVE  PermitsOK' /\ Lost' >= Lost
<1> DEFINE Fine == PermitsOK' /\ Lost' >= Lost
<1> USE PermitsAssumption, WantAssumption DEF PhasesOK, Phases, PermitsOK, WithinPermits, Owned, Free
<1>0. /\ LostToInterrupts <=> Lost <= Demand(Lasting)
      /\ LostToInterrupts' <=> Lost' <= Demand(Lasting')
  BY DEF LostToInterrupts, Lasting
<1>1. /\ Owners \in SUBSET Clients /\ Lasting \in SUBSET Clients
      /\ Demand(Owners) \in Nat /\ Demand(Lasting) \in Nat
  BY DemandOfClients DEF Owners, Lasting
<1>2. ASSUME UNCHANGED <<taken>>, Owners' = Owners, Lasting' = Lasting
      PROVE  Fine
  BY <1>0, <1>1, <1>2 DEF Lost
<1>3. ASSUME NEW c \in Clients \ Owners, Free >= Want[c], taken' = taken + Want[c],
             Owners' = Owners \cup {c}, Lasting' = Lasting
      PROVE  Fine
  <2>1. Demand(Owners') = Want[c] + Demand(Owners)
    BY <1>1, <1>3, DemandOfClients
  <2> QED
    BY <1>0, <1>1, <1>3, <2>1 DEF Lost
<1>4. ASSUME NEW c \in Owners, taken' = taken - Want[c], Owners' = Owners \ {c}, Lasting' = Lasting
      PROVE  Fine
  <2>1. Demand(Owners) = Want[c] + Demand(Owners')
    BY <1>1, <1>4, DemandOfClients
  <2>2. Demand(Owners') \in Nat /\ Want[c] \in Nat
    BY <1>1, <1>4, DemandOfClients
  <2> QED
    BY <1>0, <1>1, <1>4, <2>1, <2>2 DEF Lost
<1>5. ASSUME NEW c \in Owners, c \notin Lasting, taken' = taken,
             Owners' = Owners \ {c}, Lasting' = Lasting \cup {c}
      PROVE  Fine
  <2>1. Demand(Owners) = Want[c] + Demand(Owners') /\ Demand(Lasting') = Want[c] + Demand(Lasting)
    BY <1>1, <1>5, DemandOfClients
  <2>2. Demand(Owners') \in Nat /\ Want[c] \in Nat
    BY <1>1, <1>5, DemandOfClients
  <2> QED
    BY <1>0, <1>1, <1>5, <2>1, <2>2 DEF Lost
<1>6. ASSUME NEW c \in Clients \ Lasting, taken' = taken,
             Owners' = Owners, Lasting' = Lasting \cup {c}
      PROVE  Fine
  <2>1. Demand(Lasting') = Want[c] + Demand(Lasting)
    BY <1>1, <1>6, DemandOfClients
  <2> QED
    BY <1>0, <1>1, <1>6, <2>1 DEF Lost
<1> HIDE DEF PermitsOK, WithinPermits, Owned, Fine
<1>7. ASSUME NEW c \in Clients, Take(c)
      PROVE  Fine
  <2>1. Lasting' = Lasting
    BY <1>7 DEF Take, Lasting
  <2>2. CASE Free < Want[c] /\ UNCHANGED taken /\ phase' = [phase EXCEPT ![c] = "waiting"]
    BY <1>2, <1>7, <2>1, <2>2 DEF Take, Owners
  <2>3. CASE Free >= Want[c] /\ taken' = taken + Want[c] /\ phase' = [phase EXCEPT ![c] =
                          IF c \in Roots /\ calls[c] = 0 THEN "granted" ELSE "holding"]
    <3>1. c \notin Owners /\ Owners' = Owners \cup {c}
      BY <1>7, <2>3 DEF Take, Owners
    <3> QED
      BY <1>3, <2>1, <2>3, <3>1
  <2> QED
    BY <1>7, <2>2, <2>3 DEF Take
<1>8. ASSUME NEW c \in Clients, Interrupt(c)
      PROVE  Fine
  <2>1. taken' = taken /\ Owners' = Owners /\ c \notin Lasting
    BY <1>8 DEF Interrupt, Owners, Lasting
  <2>2. Lasting' = Lasting \/ Lasting' = Lasting \cup {c}
    BY <1>8 DEF Interrupt, Lasting
  <2> QED
    BY <1>2, <1>6, <2>1, <2>2
<1>9. ASSUME NEW c \in Clients, Cancel(c)
      PROVE  Fine
  <2>1. taken' = taken /\ Owners' = Owners /\ c \notin Lasting /\ Lasting' = Lasting \cup {c}
    BY <1>9 DEF Cancel, Interrupting, Owners, Lasting
  <2> QED
    BY <1>6, <2>1
<1>10. ASSUME NEW c \in Clients, Enter(c)
       PROVE  Fine
  <2>1. taken' = taken /\ c \in Owners /\ c \notin Lasting
    BY <1>10 DEF Enter, Owners, Lasting
  <2>2. CASE Interrupting(c)
    <3>1. Owners' = Owners \ {c} /\ Lasting' = Lasting \cup {c}
      BY <1>10, <2>2 DEF Enter, Interrupting, Owners, Lasting
    <3> QED
      BY <1>5, <2>1, <3>1
  <2>3. CASE ~Interrupting(c)
    <3>1. Owners' = Owners /\ Lasting' = Lasting
      BY <1>10, <2>3 DEF Enter, Owners, Lasting
    <3> QED
      BY <1>2, <2>1, <3>1
  <2> QED
    BY <2>2, <2>3
<1>11. ASSUME NEW c \in Clients, Release(c)
       PROVE  Fine
  <2>1. /\ taken' = taken - Want[c] /\ c \in Owners
        /\ Owners' = Owners \ {c} /\ Lasting' = Lasting
    BY <1>11 DEF Release, Owners, Lasting
  <2> QED
    BY <1>4, <2>1
<1>12. ASSUME NEW c \in Clients, WakeNext(c)
       PROVE  Fine
  <2>1. CASE UNCHANGED <<waiters, taken, phase>>
    BY <1>2, <1>12, <2>1 DEF WakeNext, Owners, Lasting
  <2>2. CASE Free >= Want[c] /\ taken' = taken + Want[c] /\ Resume(c)
    <3>1. phase[c] = "waiting"
      BY <1>12 DEF WakeNext, ObserversWait, Contains
    <3>2. c \notin Owners /\ Owners' = Owners \cup {c} /\ Lasting' = Lasting
      BY <1>12, <2>2, <3>1 DEF WakeNext, Resume, Owners, Lasting
    <3> QED
      BY <1>3, <2>2, <3>2
  <2> QED
    BY <1>12, <2>1, <2>2 DEF WakeNext
<1>13. ASSUME WakeStart \/ WakeEnd \/ UNCHANGED vars
       PROVE  Fine
  <2>1. UNCHANGED <<taken, phase, interrupted>>
    BY <1>13 DEF WakeStart, WakeEnd, vars
  <2> QED
    BY <1>2, <2>1 DEF Owners, Lasting
<1> HIDE DEF PhasesOK, Phases, Free
<1>14. Fine
  BY <1>7, <1>8, <1>9, <1>10, <1>11, <1>12, <1>13 DEF Next, Proceed, Wake
<1> QED
  BY <1>14 DEF Fine

(* No waiter that could be served is overlooked. *)
LEMMA UnfitStep ==
    ASSUME PhasesOK, ObserversWait, PermitsOK, OnlyUnfitWait, PhasesOK', PermitsOK', Lost' >= Lost,
           [Next]_vars
    PROVE  OnlyUnfitWait'
<1> SUFFICES ASSUME Owners' = {}, Lost' = 0, wakes' = 0,
                    NEW i \in 1 .. Len(waiters'), Idle' \/ i < waking'
             PROVE  Want[waiters'[i]] > Permits
  BY DEF OnlyUnfitWait
<1> USE PermitsAssumption, WantAssumption
<1>0. Lost \in Nat /\ Lost = 0
  <2>1. taken \in Nat /\ Owned \in Nat /\ taken >= Owned
    BY DemandOfClients DEF PermitsOK, WithinPermits, Owned, Owners
  <2> QED
    BY <2>1 DEF Lost
<1>1. waiters \in Seq(Clients) /\ wakes \in Nat /\ waking \in Nat /\ phase \in [Clients -> Phases]
  BY DEF PhasesOK
<1>2. Distinct(waiters)
  BY DEF ObserversWait, Distinct
<1>3. taken' = 0
  <2>1. Owned' = 0
    BY DemandOfClients DEF Owned
  <2> QED
    BY <2>1 DEF Lost, PermitsOK
<1>4. ASSUME NEW c \in Clients, Take(c)
      PROVE  Want[waiters'[i]] > Permits
  <2>1. CASE Free < Want[c] /\ waiters' = Append(waiters, c) /\ UNCHANGED taken
             /\ phase' = [phase EXCEPT ![c] = "waiting"]
    <3>1. Owners = {} /\ wakes = 0 /\ Idle
      BY <1>1, <1>4, <2>1 DEF Take, Owners, Phases
    <3>2. Want[c] > Permits
      BY <1>3, <2>1 DEF Free
    <3>3. CASE i <= Len(waiters)
      BY <1>0, <1>1, <2>1, <3>1, <3>3 DEF OnlyUnfitWait
    <3>4. CASE i = Len(waiters) + 1
      BY <1>1, <2>1, <3>2, <3>4
    <3> QED
      BY <1>1, <2>1, <3>3, <3>4
  <2>2. CASE phase' = [phase EXCEPT ![c] =
                          IF c \in Roots /\ calls[c] = 0 THEN "granted" ELSE "holding"]
    BY <1>1, <2>2 DEF Owners
  <2> QED
    BY <1>4, <2>1, <2>2 DEF Take
<1>5. ASSUME NEW c \in Clients, Cancel(c)
      PROVE  Want[waiters'[i]] > Permits
  <2>1. Owners = {} /\ wakes = 0 /\ Idle
    BY <1>1, <1>5 DEF Cancel, Owners, Phases
  <2>2. PICK k \in 1 .. Len(waiters) : waiters[k] = c
    BY <1>5 DEF Cancel, ObserversWait, Contains
  <2>3. \E j \in 1 .. Len(waiters) : waiters'[i] = waiters[j]
    <3>1. /\ Len(waiters') = Len(waiters) - 1
          /\ \A j \in 1 .. Len(waiters) - 1 :
                waiters'[j] = IF j < k THEN waiters[j] ELSE waiters[j + 1]
      BY <1>1, <1>2, <1>5, <2>2, RemovedOnce DEF Cancel
    <3>2. Len(waiters) \in Nat /\ i \in 1 .. Len(waiters) - 1
      BY <1>1, <3>1
    <3>3. i \in 1 .. Len(waiters) /\ i + 1 \in 1 .. Len(waiters)
      BY <3>2
    <3>4. waiters'[i] = waiters[i] \/ waiters'[i] = waiters[i + 1]
      BY <3>1, <3>2
    <3> QED
      BY <3>3, <3>4
  <2> QED
    BY <1>0, <2>1, <2>3 DEF OnlyUnfitWait
<1>6. ASSUME NEW c \in Clients, Interrupt(c)
      PROVE  Want[waiters'[i]] > Permits
  BY <1>0, <1>6 DEF Interrupt, Owners, OnlyUnfitWait, Idle
<1>7. ASSUME NEW c \in Clients, Enter(c)
      PROVE  Want[waiters'[i]] > Permits
  <2>1. CASE Interrupting(c)
    <3>1. Lost' = Lost + Want[c]
      <4>1. taken' = taken /\ c \in Owners /\ Owners' = Owners \ {c}
        BY <1>1, <1>7, <2>1 DEF Enter, Owners, Phases
      <4>2. Owned = Want[c] + Owned' /\ Owned' \in Nat
        BY <4>1, DemandOfClients DEF Owned, Owners
      <4> QED
        BY <4>1, <4>2 DEF Lost, PermitsOK
    <3> QED
      BY <1>0, <3>1
  <2>2. CASE ~Interrupting(c)
    BY <1>1, <1>7, <2>2 DEF Enter, Owners
  <2> QED
    BY <2>1, <2>2
<1>8. ASSUME NEW c \in Clients, Release(c)
      PROVE  FALSE
  BY <1>1, <1>8 DEF Release
<1>9. CASE WakeStart
  BY <1>1, <1>9 DEF WakeStart, Idle
<1>10. ASSUME NEW c \in Clients, WakeNext(c)
       PROVE  Want[waiters'[i]] > Permits
  <2>1. CASE Resume(c) /\ waiters' = RemoveFirst(waiters, c)
    <3>1. phase[c] = "waiting"
      BY <1>10 DEF WakeNext, ObserversWait, Contains
    <3> QED
      BY <1>1, <2>1, <3>1 DEF Resume, Owners
  <2>2. CASE Free < Want[c] /\ UNCHANGED <<waiters, taken, phase>>
    <3>1. Owners = {} /\ wakes = 0 /\ waking' = waking + 1 /\ waiters[waking] = c
      BY <1>10, <2>2 DEF WakeNext, Owners
    <3>2. CASE i < waking
      BY <1>0, <2>2, <3>1, <3>2 DEF OnlyUnfitWait
    <3>3. CASE i = waking
      BY <1>3, <2>2, <3>1, <3>3 DEF Free
    <3> QED
      BY <1>1, <3>1, <3>2, <3>3 DEF Idle
  <2> QED
    BY <1>10, <2>1, <2>2 DEF WakeNext
<1>11. CASE WakeEnd
  <2>1. Owners = {} /\ wakes = 0 /\ waiters' = waiters /\ i < waking
    BY <1>1, <1>11 DEF WakeEnd, Owners
  <2> QED
    BY <1>0, <2>1 DEF OnlyUnfitWait
<1>12. CASE UNCHANGED vars
  BY <1>0, <1>12 DEF vars, Owners, OnlyUnfitWait, Idle
<1> QED
  BY <1>4, <1>5, <1>6, <1>7, <1>8, <1>9, <1>10, <1>11, <1>12 DEF Next, Proceed, Wake

-----------------------------------------------------------------------------
(* The invariant holds in every state. *)
LEMMA SemaphoreInvariant == Spec => []SemaphoreInv
<1>1. Init => SemaphoreInv
  <2> SUFFICES ASSUME Init
               PROVE  SemaphoreInv
    OBVIOUS
  <2>1. PhasesOK /\ Bounded
    BY RoundsAssumption DEF Init, PhasesOK, Phases, Bounded
  <2>2. Owners = {} /\ Lasting = {}
    BY DEF Init, Owners, Lasting
  <2>3. PermitsOK
    BY <2>2, DemandOfClients, PermitsAssumption
       DEF Init, PermitsOK, WithinPermits, LostToInterrupts, Lasting, Lost, Owned
  <2>4. ObserversWait /\ OnlyUnfitWait
    BY DEF Init, ObserversWait, OnlyUnfitWait, Contains
  <2> QED
    BY <2>1, <2>3, <2>4 DEF SemaphoreInv
<1>2. SemaphoreInv /\ [Next]_vars => SemaphoreInv'
  BY PhasesStep, PermitsStep, UnfitStep DEF SemaphoreInv
<1> QED
  BY <1>1, <1>2, PTL DEF Spec

(* The clients inside never hold more permits than there are, however      *)
(* observers, direct takes, interrupts and releases interleave.            *)
THEOREM NeverOvercommitted == Spec => []WithinPermits
<1>1. SemaphoreInv => WithinPermits
  BY DEF SemaphoreInv, PermitsOK
<1> QED
  BY <1>1, SemaphoreInvariant, PTL

(* Permits get lost with clients only that were interrupted between the    *)
(* moment their permits were taken and their resumption.                   *)
THEOREM LossesAreInterrupts == Spec => []LostToInterrupts
<1>1. SemaphoreInv => LostToInterrupts
  BY DEF SemaphoreInv, PermitsOK
<1> QED
  BY <1>1, SemaphoreInvariant, PTL

(* The array holds the observers of the clients that wait, each once, and  *)
(* none of them is forgotten.                                              *)
THEOREM NobodyForgotten == Spec => []WaitersAreRight
<1>1. SemaphoreInv => WaiterHasWaker
  <2> SUFFICES ASSUME SemaphoreInv, wakes = 0, Idle, Lost = 0, Owners = {},
                      NEW c \in Clients, phase[c] = "waiting", Free >= Want[c]
               PROVE  FALSE
    BY DEF WaiterHasWaker
  <2>1. taken = 0
    BY DemandOfClients DEF Lost, Owned, SemaphoreInv, PermitsOK
  <2>2. PICK i \in 1 .. Len(waiters) : waiters[i] = c
    BY DEF SemaphoreInv, ObserversWait, Contains
  <2>3. Want[c] > Permits
    BY <2>2 DEF SemaphoreInv, OnlyUnfitWait
  <2> QED
    BY <2>1, <2>3, PermitsAssumption, WantAssumption DEF Free
<1>2. SemaphoreInv => WaitersAreRight
  BY <1>1 DEF SemaphoreInv, WaitersAreRight
<1> QED
  BY <1>2, SemaphoreInvariant, PTL

(* A client that left take without its permits was interrupted, and could  *)
(* be.                                                                     *)
OutIsInterrupted == \A c \in Clients : phase[c] = "out" => Interrupting(c)

LEMMA OutStep == PhasesOK /\ OutIsInterrupted /\ [Next]_vars => OutIsInterrupted'
<1> SUFFICES ASSUME PhasesOK, OutIsInterrupted, [Next]_vars
             PROVE  OutIsInterrupted'
  OBVIOUS
<1> USE DEF PhasesOK, Phases, OutIsInterrupted, Interrupting
<1>1. ASSUME NEW c \in Clients, Take(c) \/ Interrupt(c)
      PROVE  OutIsInterrupted'
  BY <1>1 DEF Take, Interrupt
<1>2. ASSUME NEW c \in Clients, Proceed(c)
      PROVE  OutIsInterrupted'
  BY <1>2 DEF Proceed, Cancel, Enter, Release
<1>3. CASE Wake
  BY <1>3 DEF Wake, WakeStart, WakeNext, WakeEnd, Resume
<1>4. CASE UNCHANGED vars
  BY <1>4 DEF vars
<1> QED
  BY <1>1, <1>2, <1>3, <1>4 DEF Next

(* Clients that cannot be interrupted give all their permits back: the     *)
(* test that uses one semaphore twice is right about them.                 *)
THEOREM MaskedPermitsReturn ==
    ASSUME Clients \subseteq Masked
    PROVE  Spec => []PermitsReturn
<1>1. Init => OutIsInterrupted
  BY DEF Init, OutIsInterrupted
<1>2. SemaphoreInv /\ OutIsInterrupted => PermitsReturn
  <2> SUFFICES ASSUME SemaphoreInv, OutIsInterrupted,
                      \A c \in Clients : phase[c] \in {"idle", "out"}
               PROVE  taken = 0
    BY DEF PermitsReturn
  <2>1. Owners = {} /\ Lasting = {}
    BY DEF Owners, Lasting, OutIsInterrupted, Interrupting
  <2> QED
    BY <2>1, DemandOfClients
       DEF SemaphoreInv, PermitsOK, WithinPermits, LostToInterrupts, Lasting, Lost, Owned
<1>3. SemaphoreInv => PhasesOK
  BY DEF SemaphoreInv
<1> QED
  BY <1>1, <1>2, <1>3, OutStep, SemaphoreInvariant, PTL DEF Spec
===============================================================================
