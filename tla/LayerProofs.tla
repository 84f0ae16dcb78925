------------------------------ MODULE LayerProofs ------------------------------
(***************************************************************************)
(* Theorems about Layer, for any tree of layers, any ways to compose them  *)
(* and any scopes made parallel.                                           *)
(*                                                                         *)
(* The inductive invariant Fit has a conjunct for each thing that has to   *)
(* fit: entries of the memo map and the calls that build them, calls and   *)
(* the scopes they build for, release maps and the count of observers,     *)
(* closed scopes and who runs their finalizers.  Every step of Next is one *)
(* of Moves, which says what becomes of the variables (NextIs); a lemma    *)
(* per conjunct shows that Moves keeps it.  The properties follow from Fit *)
(* in single states: each is violated for some layer only if it is for one *)
(* of those this layer is part of, and trees of layers are finite.         *)
(***************************************************************************)
EXTENDS Layer, SequenceTheorems, FiniteSetTheorems, TLAPS

(* The scope of a layer or of the application was made. *)
Begun(s) == state[s] # "none"

(* The call that builds in the scope of a layer, once it has begun. *)
BuilderOf(l) == IF l = Top THEN Main ELSE builder[l]
Building(l) == Begun(l) /\ pc[BuilderOf(l)] = "building"

Under == Layers \ {Top}
Wrong == {"failed", "interrupted"}

(* An open call has begun and has not ended. *)
Open(k) == pc[k] # "idle" /\ pc[k] \notin Ends

(* The layer is built, but for its release. *)
Finished(l) == memo[l] = "ok" \/ (memo[l] = "pending" /\ pc[builder[l]] = "adding")

Runs == [fin : {Free(r) : r \in Resources} \cup {Close(s) : s \in Scopes},
         by : Scopes \cup Builds \cup {Other}]

(* Types. *)
TypesFit ==
    /\ state \in [Scopes -> {"none", "Running", "Exited"}]
    /\ finalizers \in [Scopes -> Seq(Finalizers \cup {Release(l) : l \in Layers})]
    /\ running \in SUBSET Runs
    /\ acquired \in [Resources -> Nat] /\ released \in [Resources -> Nat]
    /\ kind \in Kinds
    /\ memo \in [Layers -> {"absent", "pending"} \cup Ends]
    /\ observers \in [Layers -> Nat]
    /\ builder \in [Layers -> Builds]
    /\ pc \in [Builds -> Steps]
    /\ fiber \in [Builds -> Builds]
    /\ interrupted \in SUBSET Builds
    /\ miscounted \in SUBSET Layers

(* Scopes that were not made are empty, only closed ones run finalizers,   *)
(* and layers are built in scopes that are open.                           *)
ScopesFit ==
    /\ Begun(Shared)
    /\ Begun(Top) <=> pc[Main] # "idle"
    /\ \A s \in Scopes : ~Begun(s) => finalizers[s] = <<>>
    /\ \A r \in running : r.by \in Scopes => state[r.by] = "Exited"
    /\ \A l \in Under :
          /\ Begun(l) => memo[l] # "absent" /\ pc[builder[l]] # "resource"
          /\ memo[l] # "absent" /\ pc[builder[l]] \in {"building", "acquired"} =>
                state[l] = "Running"

MainFits == pc[Main] \in {"idle", "building", "closing", "left"} \cup Ends

(* The entry of a layer and the call that runs its resource. *)
EntryFits(l) ==
    /\ memo[l] # "absent" =>
          /\ builder[l] \in Calls /\ LayerOf(builder[l]) = l
          /\ pc[builder[l]] \in
                {"resource", "building", "acquired", "adding", "closing"} \cup Ends
    /\ memo[l] = "pending" =>
          pc[builder[l]] \in {"resource", "building", "acquired", "adding", "interrupted"}
    /\ memo[l] = "pending" /\ pc[builder[l]] = "interrupted" => ~Begun(l)
    /\ memo[l] # "absent" /\ pc[builder[l]] \in {"resource", "building", "acquired"} =>
          memo[l] = "pending"
    /\ ~Finished(l) => observers[l] = 0
    /\ memo[l] \in Wrong => state[l] = "Exited"
    /\ l \in miscounted =>
          memo[l] = "ok" /\ \E k \in Calls : LayerOf(k) = l /\ pc[k] = "interrupted"

(* A call and the entry it has made or found. *)
CallFits(k) ==
    LET l == LayerOf(k) IN
    /\ pc[k] # "left"
    /\ pc[k] \in {"resource", "building", "acquired", "closing"} =>
          memo[l] # "absent" /\ builder[l] = k
    /\ pc[k] = "closing" => memo[l] \in Wrong
    /\ pc[k] = "awaiting" => memo[l] # "absent"
    /\ pc[k] \in {"observed", "ok"} => memo[l] = "ok"
    /\ pc[k] = "adding" => memo[l] = "ok" \/ (memo[l] = "pending" /\ builder[l] = k)

EntriesFit ==
    MainFits /\ (\A l \in Layers : EntryFits(l)) /\ \A k \in Calls : CallFits(k)

(* Calls are under way only in a scope whose layer is being built; the     *)
(* second part of a layer is called after the first.                       *)
CallsFit ==
    /\ \A k \in Calls :
          /\ pc[k] # "idle" => Begun(ScopeOf(k))
          /\ Open(k) => Building(ScopeOf(k))
    /\ \A c \in Composed :
        kind[c] # "zipWithPar" /\ pc[Call(c, 2)] # "idle" =>
            pc[Call(c, 1)] = (IF kind[c] = "provideTo" THEN "ok" ELSE "failed")

(* A resource was released, or its scope has the finalizer. *)
LeavesFit ==
    \A l \in Leaves :
        /\ acquired[l] = released[l] + Len(finalizers[l]) /\ acquired[l] <= 1
        /\ ToSet(finalizers[l]) \subseteq {Free(l)}
        /\ acquired[l] > 0 => Begun(l) /\ pc[builder[l]] \notin {"resource", "building"}
        /\ released[l] > 0 => state[l] = "Exited"
        /\ \A r \in running : r.fin = Free(l) => r.by = l

(* What may be in the shared scope. *)
SharedFits ==
    /\ acquired[Extra] = 1
    /\ state[Shared] = "Running" =>
          /\ finalizers[Shared] \in {<<Free(Extra)>>, <<Free(Extra), Close(Top)>>}
          /\ released[Extra] = 0
    /\ state[Shared] = "Exited" =>
          \/ finalizers[Shared] \in {<<Free(Extra)>>, <<Close(Top), Free(Extra)>>}
             /\ released[Extra] = 0
          \/ finalizers[Shared] \in {<<>>, <<Close(Top)>>} /\ released[Extra] = 1

(* Observers are counted: those that have their release in a scope and     *)
(* those that are about to add it.                                         *)
CountsFit ==
    \A l \in Layers :
        LET n == Cardinality(Releases(l)) + Cardinality(Observing(l)) IN
        /\ l \notin miscounted => observers[l] = n
        /\ l \in miscounted => observers[l] > n

(* Releases are in the scopes of the layers that use them; who succeeded   *)
(* has put one there.                                                      *)
HoldersFit ==
    /\ \A k \in Calls : pc[k] = "adding" => state[ScopeOf(k)] = "Exited"
    /\ \A c \in Composed : \A x \in ToSet(finalizers[c]) :
          \/ \E l \in PartsOf(c) : x = Release(l)
          \/ c = Top /\ x = Detach(Top, Shared)
    /\ \A k \in Calls :
          pc[k] = "ok" /\ state[ScopeOf(k)] = "Running" =>
              Release(LayerOf(k)) \in ToSet(finalizers[ScopeOf(k)])

(* A layer is closed since it went wrong, or since a scope that used it is *)
(* closed; one that is there is counted.                                   *)
ExitsFit ==
    \A l \in Under :
        /\ state[l] = "Exited" =>
              \/ memo[l] \in Wrong
              \/ \E k \in Calls : LayerOf(k) = l /\ state[ScopeOf(k)] = "Exited"
        /\ Finished(l) /\ state[l] = "Running" => observers[l] > 0
        /\ Finished(l) => Begun(l)

Succeeded(c) == IF c = Top THEN pc[Main] = "ok" ELSE Finished(c)

(* A layer without a second way succeeds when both its parts did. *)
SuccessesFit ==
    \A k \in Calls :
        kind[ScopeOf(k)] # "orElse" /\ Succeeded(ScopeOf(k)) => pc[k] = "ok"

(* Somebody runs the finalizers of a closed scope until there is none. *)
ClosersFit ==
    /\ \A s \in Scopes :
          state[s] = "Exited" /\ ~Closed(s) => \E r \in running : r.fin = Close(s)
    /\ \A r \in running : \A s \in Scopes : r.fin = Close(s) => state[s] = "Exited"
    /\ \A r \in running : \A l \in Under :
          r.fin = Close(l) =>
              \E k \in Calls :
                  /\ LayerOf(k) = l
                  /\ r.by = ScopeOf(k) \/ (r.by = k /\ pc[k] \in {"closing", "adding"})

DetachesOnce ==
    /\ \A i, j \in DOMAIN finalizers[Top] :
          finalizers[Top][i] = Detach(Top, Shared) /\ finalizers[Top][j] = Detach(Top, Shared) =>
              i = j

ForksFit == DetachesOnce /\ ForksDetach

(* As long as the application does not close its scope itself, the shared  *)
(* scope has to close it before it releases its resource.                  *)
ExtraIsLast ==
    Shared \notin Parallel =>
    LET using == pc[Main] \notin {"idle", "closing", "left"} IN
    /\ state[Shared] = "Running" /\ using =>
          state[Top] = "Running" /\ finalizers[Shared] = <<Free(Extra), Close(Top)>>
    /\ state[Shared] = "Exited" /\ using =>
          \/ Closed(Top)
          \/ finalizers[Shared] = <<Close(Top), Free(Extra)>> /\ state[Top] = "Running"
          \/ finalizers[Shared] = <<Free(Extra)>>
             /\ \E r \in running : r.fin = Close(Top) /\ r.by = Shared

(* Unless a layer went wrong: there is a set of layers with all those that *)
(* hold, in their scopes, a layer that was closed before they got it.      *)
LateFit ==
    \/ \E l \in Under : memo[l] \in Wrong
    \/ \E L \in SUBSET (Composed \ {Top}) :
          /\ L # {} => state[Top] = "Exited"
          /\ \A p \in Composed : \A l \in PartsOf(p) :
                /\ state[l] = "Exited" \/ l \in L
                /\ \/ Release(l) \in ToSet(finalizers[p])
                   \/ l \in L /\ \E r \in running : r.fin = Close(l) /\ r.by = p
                => p \in L

(* In a sequential scope, what a layer was provided with is released after *)
(* it.                                                                     *)
OrderFits ==
    \A c \in Composed : kind[c] = "provideTo" =>
        LET d == Parts[c][1]
            l == Parts[c][2]
        IN
        SoleUse(l, c) /\ c \notin Parallel =>
            /\ \A i \in DOMAIN finalizers[c] : finalizers[c][i] = Release(l) =>
                  \E j \in DOMAIN finalizers[c] :
                      /\ finalizers[c][j] = Release(d)
                      /\ IF state[c] = "Exited" THEN i < j ELSE j < i
            /\ \A r \in running : r.by = c /\ r.fin = Close(l) =>
                  Release(d) \in ToSet(finalizers[c])

-----------------------------------------------------------------------------
(* Names.                                                                  *)

(* Calls, the layers they build and the scopes they build for. *)
LEMMA CallsAre ==
    /\ \A k \in Calls :
          /\ ScopeOf(k) \in Composed /\ LayerOf(k) \in Under /\ LayerOf(k) \in PartsOf(ScopeOf(k))
          /\ k # Main /\ k \notin Scopes /\ k \in Builds
          /\ k = Call(ScopeOf(k), 1) \/ k = Call(ScopeOf(k), 2)
    /\ \A c \in Composed : \A i \in {1, 2} :
          /\ Call(c, i) \in Calls /\ ScopeOf(Call(c, i)) = c
          /\ LayerOf(Call(c, i)) = Parts[c][i]
    /\ \A c \in Composed : Call(c, 1) # Call(c, 2)
    /\ \A c \in Composed : \A l \in PartsOf(c) :
          /\ l \in Under
          /\ \E k \in Calls : ScopeOf(k) = c /\ LayerOf(k) = l
    /\ Main \in Builds /\ Main \notin Scopes /\ Other \notin Scopes
    /\ Builds = Calls \cup {Main}
<1>1. ASSUME NEW c \in Composed, NEW i \in {1, 2}
      PROVE  /\ Call(c, i) \in Calls /\ ScopeOf(Call(c, i)) = c
             /\ Call(c, i) # Main /\ LayerOf(Call(c, i)) = Parts[c][i]
             /\ Parts[c][i] \in Under /\ Parts[c][i] \in PartsOf(c)
  <2>1. Call(c, i) \in Calls
    BY DEF Calls
  <2>2. ScopeOf(Call(c, i)) = c /\ Call(c, i)[2] = i /\ Call(c, i) # Main
    BY DEF ScopeOf, Call, Main
  <2>3. LayerOf(Call(c, i)) = Parts[c][i]
    BY <2>2 DEF LayerOf, Call
  <2>4. Parts[c][i] \in Layers
    BY PartsAssumption
  <2>5. Parts[c][i] \in PartsOf(c)
    BY DEF PartsOf
  <2>6. Parts[c][i] # Top
    BY <2>5, OrderAssumption
  <2> QED
    BY <2>1, <2>2, <2>3, <2>4, <2>5, <2>6 DEF Under
<1>2. \A k \in Calls : \E c \in Composed : \E i \in {1, 2} : k = Call(c, i)
  BY DEF Calls
<1>3. \A k \in Calls : k \in Builds /\ k \notin Scopes
  BY FibersAssumption DEF Builds
<1>4. \A c \in Composed : Call(c, 1) # Call(c, 2)
  BY DEF Call
<1>5. ASSUME NEW c \in Composed, NEW l \in PartsOf(c)
      PROVE  \E i \in {1, 2} : l = Parts[c][i]
  BY DEF PartsOf
<1>6. /\ Main \in Builds /\ Main \notin Scopes /\ Other \notin Scopes
      /\ Builds = Calls \cup {Main}
  BY FibersAssumption DEF Builds
<1>7. ASSUME NEW k \in Calls
      PROVE  /\ ScopeOf(k) \in Composed /\ LayerOf(k) \in Under /\ LayerOf(k) \in PartsOf(ScopeOf(k))
             /\ k # Main
             /\ k = Call(ScopeOf(k), 1) \/ k = Call(ScopeOf(k), 2)
  <2>1. PICK c \in Composed, i \in {1, 2} : k = Call(c, i)
    BY <1>2
  <2> QED
    BY <1>1, <2>1
<1>8. ASSUME NEW c \in Composed, NEW l \in PartsOf(c)
      PROVE  l \in Under /\ \E k \in Calls : ScopeOf(k) = c /\ LayerOf(k) = l
  <2>1. PICK i \in {1, 2} : l = Parts[c][i]
    BY <1>5
  <2> QED
    BY <1>1, <2>1
<1> QED
  BY <1>1, <1>3, <1>4, <1>6, <1>7, <1>8

(* Layers, scopes and resources. *)
LEMMA NamesAre ==
    /\ Layers \subseteq Scopes /\ Shared \in Scopes /\ Shared \notin Layers
    /\ Under \subseteq Layers /\ Top \in Layers /\ Top \in Composed /\ Top \notin Under
    /\ Leaves \subseteq Under /\ Composed \subseteq Layers
    /\ \A l \in Leaves : l \notin Composed
    /\ Layers = Leaves \cup Composed /\ Scopes = Layers \cup {Shared}
    /\ Leaves \subseteq Resources /\ Extra \in Resources /\ Extra \notin Leaves
    /\ Resources = Leaves \cup {Extra}
  BY NamesAssumption, TopAssumption, LeavesAssumption DEF Layers, Under

(* Finalizers differ. *)
LEMMA FinalizersDiffer ==
    /\ \A r, s, p, c : /\ Free(r) # Close(s) /\ Free(r) # Release(s) /\ Free(r) # Detach(c, p)
                       /\ Close(r) # Release(s) /\ Close(r) # Detach(c, p)
                       /\ Release(r) # Detach(c, p)
    /\ \A r, s : /\ Free(r) = Free(s) => r = s
                 /\ Close(r) = Close(s) => r = s
                 /\ Release(r) = Release(s) => r = s
<1>1. \A r, s, p, c : /\ Free(r)[1] = "free" /\ Close(s)[1] = "close"
                      /\ Release(r)[1] = "release" /\ Detach(c, p)[1] = "detach"
  BY DEF Free, Close, Release, Detach
<1>2. \A r, s : /\ Free(r) = Free(s) => r = s
                /\ Close(r) = Close(s) => r = s
                /\ Release(r) = Release(s) => r = s
  BY DEF Free, Close, Release
<1>3. "free" # "close" /\ "free" # "release" /\ "free" # "detach"
      /\ "close" # "release" /\ "close" # "detach" /\ "release" # "detach"
  OBVIOUS
<1>4. ASSUME NEW r, NEW s, NEW p, NEW c
      PROVE  /\ Free(r) # Close(s) /\ Free(r) # Release(s) /\ Free(r) # Detach(c, p)
             /\ Close(r) # Release(s) /\ Close(r) # Detach(c, p)
             /\ Release(r) # Detach(c, p)
  <2>1. /\ Free(r)[1] = "free" /\ Close(s)[1] = "close" /\ Close(r)[1] = "close"
        /\ Release(r)[1] = "release" /\ Release(s)[1] = "release" /\ Detach(c, p)[1] = "detach"
    BY <1>1
  <2> QED
    BY <1>3, <2>1
<1> QED
  BY <1>2, <1>4

(* An entry of a release map. *)
Entries == Finalizers \cup {Release(l) : l \in Layers}

(* What may be in a release map. *)
LEMMA EntriesAre ==
    /\ \A r \in Resources : Free(r) \in Entries
    /\ \A s \in Scopes : Close(s) \in Entries
    /\ \A c, p \in Scopes : Detach(c, p) \in Entries
    /\ \A l \in Layers : Release(l) \in Entries
  BY DEF Entries, Finalizers

-----------------------------------------------------------------------------
(* Sequences.                                                              *)

(* The members of a sequence, and its positions. *)
LEMMA Members ==
    ASSUME NEW S, NEW s \in Seq(S)
    PROVE  /\ DOMAIN s = 1 .. Len(s) /\ Len(s) \in Nat
           /\ \A x : x \in ToSet(s) <=> \E i \in 1 .. Len(s) : s[i] = x
           /\ ToSet(s) \subseteq S
           /\ s = <<>> <=> Len(s) = 0
           /\ s = <<>> <=> ToSet(s) = {}
<1>1. DOMAIN s = 1 .. Len(s) /\ Len(s) \in Nat /\ \A i \in 1 .. Len(s) : s[i] \in S
  BY LenProperties
<1>2. \A x : x \in ToSet(s) <=> \E i \in 1 .. Len(s) : s[i] = x
  BY <1>1 DEF ToSet
<1>3. s = <<>> <=> Len(s) = 0
  BY EmptySeq
<1>4. Len(s) # 0 => 1 \in 1 .. Len(s) /\ s[1] \in ToSet(s)
  BY <1>1, <1>2
<1>5. Len(s) = 0 => 1 .. Len(s) = {}
  BY <1>1
<1> QED
  BY <1>1, <1>2, <1>3, <1>4, <1>5

(* A sequence that is reversed. *)
LEMMA Reversed ==
    ASSUME NEW S, NEW s \in Seq(S)
    PROVE  /\ Reverse(s) \in Seq(S) /\ Len(Reverse(s)) = Len(s)
           /\ \A i \in 1 .. Len(s) : Reverse(s)[i] = s[Len(s) - i + 1]
           /\ ToSet(Reverse(s)) = ToSet(s)
<1> DEFINE t == Reverse(s)
<1>1. t \in Seq(S) /\ Len(t) = Len(s)
  BY DEF Reverse
<1>2. \A i \in 1 .. Len(s) : t[i] = s[Len(s) - i + 1]
  BY DEF Reverse
<1> HIDE DEF t
<1>3. ASSUME NEW x
      PROVE  x \in ToSet(t) <=> x \in ToSet(s)
  <2>1. Len(s) \in Nat /\ \A i \in 1 .. Len(s) : Len(s) - i + 1 \in 1 .. Len(s)
    BY LenProperties
  <2>2. ASSUME NEW i \in 1 .. Len(s), s[i] = x
        PROVE  t[Len(s) - i + 1] = x
    <3> DEFINE j == Len(s) - i + 1
    <3>1. j \in 1 .. Len(s) /\ Len(s) - j + 1 = i
      BY <2>1
    <3> HIDE DEF j
    <3>2. t[j] = x
      BY <1>2, <2>2, <3>1
    <3> QED
      BY <3>2 DEF j
  <2>3. /\ x \in ToSet(s) <=> \E i \in 1 .. Len(s) : s[i] = x
        /\ x \in ToSet(t) <=> \E i \in 1 .. Len(s) : t[i] = x
    BY <1>1, Members
  <2>4. \A i \in 1 .. Len(s) : s[i] = x => t[Len(s) - i + 1] = x
    BY <2>2
  <2> QED
    BY <1>2, <2>1, <2>3, <2>4
<1>4. ToSet(t) = ToSet(s)
  BY <1>3
<1> QED
  BY <1>1, <1>2, <1>4 DEF t

(* A sequence without one of its elements. *)
LEMMA RemovedAt ==
    ASSUME NEW S, NEW s \in Seq(S), NEW i \in 1 .. Len(s)
    PROVE  /\ RemoveAt(s, i) \in Seq(S) /\ Len(RemoveAt(s, i)) = Len(s) - 1
           /\ \A j \in 1 .. Len(s) - 1 :
                 RemoveAt(s, i)[j] = IF j < i THEN s[j] ELSE s[j + 1]
           /\ ToSet(RemoveAt(s, i)) \subseteq ToSet(s)
           /\ \A x \in ToSet(s) : x # s[i] => x \in ToSet(RemoveAt(s, i))
<1> DEFINE a == SubSeq(s, 1, i - 1)
           b == SubSeq(s, i + 1, Len(s))
           t == RemoveAt(s, i)
<1>1. a \in Seq(S) /\ Len(a) = i - 1 /\ \A j \in 1 .. i - 1 : a[j] = s[j]
  <2>1. /\ i - 1 \in Int /\ 1 <= i - 1 + 1 /\ \A j \in 1 .. i - 1 : s[j] \in S
    BY ElementOfSeq
  <2> QED
    BY <2>1, SubSeqProperties
<1>2. b \in Seq(S) /\ Len(b) = Len(s) - i /\ \A j \in 1 .. Len(s) - i : b[j] = s[i + j]
  <2>1. /\ i + 1 \in Int /\ Len(s) \in Int /\ \A j \in i + 1 .. Len(s) : s[j] \in S
    BY ElementOfSeq, LenProperties
  <2>2. /\ b \in Seq(S) /\ Len(b) = IF i + 1 <= Len(s) THEN Len(s) - (i + 1) + 1 ELSE 0
        /\ \A j \in 1 .. Len(s) - (i + 1) + 1 : b[j] = s[i + 1 + j - 1]
    BY <2>1, SubSeqProperties
  <2> HIDE DEF b
  <2> QED
    BY <2>1, <2>2
<1>3. t = a \o b
  BY DEF RemoveAt
<1> HIDE DEF a, b, t
<1>4. /\ t \in Seq(S) /\ Len(t) = Len(s) - 1
      /\ \A j \in 1 .. Len(s) - 1 : t[j] = IF j < i THEN s[j] ELSE s[j + 1]
  <2>1. /\ t \in Seq(S) /\ Len(t) = Len(a) + Len(b)
        /\ \A j \in 1 .. Len(a) + Len(b) : t[j] = IF j <= Len(a) THEN a[j] ELSE b[j - Len(a)]
    BY <1>1, <1>2, <1>3, ConcatProperties
  <2>2. Len(s) \in Nat
    BY LenProperties
  <2>3. Len(t) = Len(s) - 1 /\ Len(a) + Len(b) = Len(s) - 1
    BY <1>1, <1>2, <2>1, <2>2
  <2>4. ASSUME NEW j \in 1 .. Len(s) - 1
        PROVE  t[j] = IF j < i THEN s[j] ELSE s[j + 1]
    <3>1. t[j] = IF j <= Len(a) THEN a[j] ELSE b[j - Len(a)]
      BY <2>1, <2>3
    <3>2. CASE j < i
      BY <1>1, <3>1, <3>2
    <3>3. CASE ~(j < i)
      <4>1. j - Len(a) = j - i + 1 /\ ~(j <= Len(a)) /\ j - i + 1 \in 1 .. Len(s) - i
        BY <1>1, <2>2, <3>3
      <4>2. t[j] = b[j - i + 1] /\ i + (j - i + 1) = j + 1
        BY <3>1, <4>1
      <4> QED
        BY <1>2, <3>3, <4>1, <4>2
    <3> QED
      BY <3>2, <3>3
  <2> QED
    BY <2>1, <2>3, <2>4
<1>5. ToSet(t) \subseteq ToSet(s)
  <2> SUFFICES ASSUME NEW x \in ToSet(t)
               PROVE  x \in ToSet(s)
    OBVIOUS
  <2>1. PICK j \in 1 .. Len(s) - 1 : t[j] = x
    BY <1>4, Members
  <2>2. s[IF j < i THEN j ELSE j + 1] = x /\ (IF j < i THEN j ELSE j + 1) \in 1 .. Len(s)
    BY <1>4, <2>1
  <2> QED
    BY <2>2, Members
<1>6. ASSUME NEW x \in ToSet(s), x # s[i]
      PROVE  x \in ToSet(t)
  <2>1. PICK j \in 1 .. Len(s) : s[j] = x
    BY Members
  <2> DEFINE m == IF j < i THEN j ELSE j - 1
  <2>2. m \in 1 .. Len(s) - 1 /\ (m < i <=> j < i) /\ j # i /\ (j > i => m + 1 = j)
    BY <1>6, <2>1
  <2>3. t[m] = x
    BY <1>4, <2>1, <2>2
  <2> HIDE DEF m
  <2> QED
    BY <1>4, <2>2, <2>3, Members
<1> QED
  BY <1>4, <1>5, <1>6 DEF t

(* A sequence with one more element. *)
LEMMA Appended ==
    ASSUME NEW S, NEW s \in Seq(S), NEW x \in S
    PROVE  /\ Append(s, x) \in Seq(S) /\ Len(Append(s, x)) = Len(s) + 1
           /\ \A i \in 1 .. Len(s) : Append(s, x)[i] = s[i]
           /\ Append(s, x)[Len(s) + 1] = x
           /\ ToSet(Append(s, x)) = ToSet(s) \cup {x}
<1> DEFINE t == Append(s, x)
<1>1. /\ t \in Seq(S) /\ Len(t) = Len(s) + 1
      /\ \A i \in 1 .. Len(s) : t[i] = s[i]
      /\ t[Len(s) + 1] = x
  OBVIOUS
<1> HIDE DEF t
<1>2. Len(s) \in Nat
  BY LenProperties
<1>3. ASSUME NEW y
      PROVE  y \in ToSet(t) <=> y \in ToSet(s) \/ y = x
  <2>1. \A i \in 1 .. Len(s) + 1 : i = Len(s) + 1 \/ i \in 1 .. Len(s)
    BY <1>2
  <2>2. Len(s) + 1 \in 1 .. Len(s) + 1 /\ \A i \in 1 .. Len(s) : i \in 1 .. Len(s) + 1
    BY <1>2
  <2> QED
    BY <1>1, <2>1, <2>2, Members
<1> QED
  BY <1>1, <1>3 DEF t

(* Of the two entries of the shared scope, the second is removed. *)
LEMMA LastRemoved ==
    ASSUME NEW x, NEW y, x # y
    PROVE  RemoveFirst(<<x, y>>, y) = <<x>> /\ RemoveFirst(<<x>>, y) = <<x>>
<1> DEFINE s == <<x, y>>
<1>1. Len(s) = 2 /\ s[1] = x /\ s[2] = y /\ s \in Seq({x, y})
  OBVIOUS
<1>2. {i \in 1 .. Len(s) : s[i] = y} = {2}
  BY <1>1
<1>3. SelectInSeq(s, LAMBDA v : v = y) = 2
  BY <1>2 DEF SelectInSeq, Min
<1>4. \E i \in 1 .. Len(s) : s[i] = y
  BY <1>1
<1>5. RemoveFirst(s, y) = RemoveAt(s, 2)
  BY <1>3, <1>4 DEF RemoveFirst
<1> HIDE DEF s
<1>6. /\ RemoveAt(s, 2) \in Seq({x, y}) /\ Len(RemoveAt(s, 2)) = 1 /\ RemoveAt(s, 2)[1] = x
  <2>1. 2 \in 1 .. Len(s) /\ 1 \in 1 .. Len(s) - 1 /\ Len(s) - 1 = 1 /\ 1 < 2
    BY <1>1
  <2> QED
    BY <1>1, <2>1, RemovedAt
<1> DEFINE t == RemoveAt(s, 2)
<1>7. t = <<x>>
  <2>1. t \in Seq({x, y}) /\ Len(t) = 1 /\ t[1] = x
    BY <1>6
  <2> HIDE DEF t
  <2>2. <<x>> \in Seq({x, y}) /\ Len(<<x>>) = 1 /\ <<x>>[1] = x
    OBVIOUS
  <2> QED
    BY <2>1, <2>2, SeqEqual
<1>8. RemoveFirst(<<x>>, y) = <<x>>
  <2>1. Len(<<x>>) = 1 /\ <<x>>[1] = x
    OBVIOUS
  <2>2. ~ \E i \in 1 .. Len(<<x>>) : <<x>>[i] = y
    BY <2>1
  <2> QED
    BY <2>2 DEF RemoveFirst
<1> QED
  BY <1>5, <1>7, <1>8 DEF s

-----------------------------------------------------------------------------
(* Counting releases.                                                      *)

AreMaps(f) == f \in [Scopes -> Seq(Entries)]

(* The places of releases of l in the finalizers f, and their number.      *)
Places(f, l) ==
    UNION {{<<s, i>> : i \in {j \in DOMAIN f[s] : f[s][j] = Release(l)}} : s \in Scopes}
Number(f, l) == Cardinality(Places(f, l))

(* The releases of a layer are places of the present maps. *)
LEMMA ReleasesArePlaces == \A l : Releases(l) = Places(finalizers, l)
  BY DEF Releases, Places

PlacesFit(f, l) ==
    /\ \A s \in Scopes : \A i \in 1 .. Len(f[s]) :
          <<s, i>> \in Places(f, l) <=> f[s][i] = Release(l)
    /\ \A x \in Places(f, l) : \E s \in Scopes, i \in Nat :
          x = <<s, i>> /\ i \in 1 .. Len(f[s]) /\ f[s][i] = Release(l)

(* Which places there are. *)
LEMMA PlacesAre ==
    ASSUME NEW f, AreMaps(f), NEW l
    PROVE  PlacesFit(f, l)
<1>1. \A s \in Scopes : DOMAIN f[s] = 1 .. Len(f[s])
  BY LenProperties DEF AreMaps
<1>2. ASSUME NEW x
      PROVE  x \in Places(f, l) <=>
                \E s \in Scopes : \E i \in DOMAIN f[s] : x = <<s, i>> /\ f[s][i] = Release(l)
  BY DEF Places
<1>3. ASSUME NEW s \in Scopes, NEW i \in 1 .. Len(f[s])
      PROVE  <<s, i>> \in Places(f, l) <=> f[s][i] = Release(l)
  <2>1. \A t, j : <<t, j>> = <<s, i>> => t = s /\ j = i
    OBVIOUS
  <2> QED
    BY <1>1, <1>2, <2>1
<1>4. ASSUME NEW x \in Places(f, l)
      PROVE  \E s \in Scopes, i \in Nat :
                 x = <<s, i>> /\ i \in 1 .. Len(f[s]) /\ f[s][i] = Release(l)
  <2>1. PICK s \in Scopes : \E i \in DOMAIN f[s] : x = <<s, i>> /\ f[s][i] = Release(l)
    BY <1>2
  <2>2. PICK i \in 1 .. Len(f[s]) : x = <<s, i>> /\ f[s][i] = Release(l)
    BY <1>1, <2>1
  <2>3. i \in Nat
    OBVIOUS
  <2> QED
    BY <2>2, <2>3
<1> QED
  BY <1>3, <1>4 DEF PlacesFit

(* They are finitely many. *)
LEMMA PlacesFinite ==
    ASSUME NEW f, AreMaps(f), NEW l
    PROVE  IsFiniteSet(Places(f, l)) /\ Number(f, l) \in Nat
<1> DEFINE In(s) == {<<s, i>> : i \in {j \in DOMAIN f[s] : f[s][j] = Release(l)}}
           g == [s \in Scopes |-> In(s)]
           All == {In(s) : s \in Scopes}
<1>1. ASSUME NEW s \in Scopes
      PROVE  IsFiniteSet(In(s))
  <2> DEFINE D == {j \in DOMAIN f[s] : f[s][j] = Release(l)}
             h == [j \in D |-> <<s, j>>]
  <2>1. DOMAIN f[s] = 1 .. Len(f[s]) /\ Len(f[s]) \in Nat
    BY LenProperties DEF AreMaps
  <2>2. IsFiniteSet(1 .. Len(f[s]))
    BY <2>1, FS_Interval
  <2>3. D \in SUBSET (1 .. Len(f[s]))
    BY <2>1
  <2>4. IsFiniteSet(D)
    BY <2>2, <2>3, FS_Subset
  <2>5. h \in Surjection(D, In(s))
    BY DEF Surjection
  <2> HIDE DEF D, h
  <2> QED
    BY <2>4, <2>5, FS_Surjection
<1>2. IsFiniteSet(Scopes)
  BY NamesAssumption
<1>3. g \in Surjection(Scopes, All)
  BY DEF Surjection
<1>4. \A T \in All : IsFiniteSet(T)
  BY <1>1
<1>5. Places(f, l) = UNION All
  BY DEF Places
<1> HIDE DEF In, g, All
<1>6. IsFiniteSet(All)
  BY <1>2, <1>3, FS_Surjection
<1>7. IsFiniteSet(UNION All)
  BY <1>4, <1>6, FS_UNION
<1>8. IsFiniteSet(Places(f, l))
  BY <1>5, <1>7
<1> QED
  BY <1>8, FS_CardinalityType DEF Number

(* There is none when no scope has the release. *)
LEMMA NumberZero ==
    ASSUME NEW f, AreMaps(f), NEW l
    PROVE  Number(f, l) = 0 <=> \A s \in Scopes : Release(l) \notin ToSet(f[s])
<1>1. Number(f, l) = 0 <=> Places(f, l) = {}
  BY PlacesFinite, FS_EmptySet DEF Number
<1>2. ASSUME NEW s \in Scopes
      PROVE  \A x : x \in ToSet(f[s]) <=> \E i \in 1 .. Len(f[s]) : f[s][i] = x
  <2>1. f[s] \in Seq(Entries)
    BY DEF AreMaps
  <2> QED
    BY <2>1, Members
<1>3. /\ \A s \in Scopes : \A i \in 1 .. Len(f[s]) :
            <<s, i>> \in Places(f, l) <=> f[s][i] = Release(l)
      /\ \A x \in Places(f, l) : \E s \in Scopes, i \in Nat :
            x = <<s, i>> /\ i \in 1 .. Len(f[s]) /\ f[s][i] = Release(l)
  BY PlacesAre DEF PlacesFit
<1> QED
  BY <1>1, <1>2, <1>3

(* The entry x came to release maps f, or went.                            *)
OneMore(f, g, x, l) ==
    AreMaps(g) /\ Number(g, l) = IF x = Release(l) THEN Number(f, l) + 1 ELSE Number(f, l)
OneLess(f, g, x, l) ==
    AreMaps(g) /\ Number(g, l) = IF x = Release(l) THEN Number(f, l) - 1 ELSE Number(f, l)

(* Appending an entry makes one more, if it is a release of the layer. *)
LEMMA NumberAppended ==
    ASSUME NEW f, AreMaps(f), NEW s \in Scopes, NEW x \in Entries, NEW l, NEW g,
           g = [f EXCEPT ![s] = Append(f[s], x)]
    PROVE  OneMore(f, g, x, l)
<1> SUFFICES AreMaps(g) /\ Number(g, l) = IF x = Release(l) THEN Number(f, l) + 1 ELSE Number(f, l)
  BY DEF OneMore
<1> DEFINE n == Len(f[s])
<1>1. f[s] \in Seq(Entries) /\ n \in Nat
  BY LenProperties DEF AreMaps
<1>2. /\ g[s] \in Seq(Entries) /\ Len(g[s]) = n + 1 /\ g[s][n + 1] = x
      /\ \A i \in 1 .. n : g[s][i] = f[s][i]
  <2>1. g[s] = Append(f[s], x)
    BY DEF AreMaps
  <2> QED
    BY <1>1, <2>1, Appended
<1>3. AreMaps(g) /\ \A t \in Scopes \ {s} : g[t] = f[t]
  BY <1>2 DEF AreMaps
<1> HIDE DEF n
<1>4. \A i \in 1 .. n + 1 : i \in 1 .. n \/ i = n + 1
  BY <1>1
<1>5. n + 1 \in 1 .. n + 1 /\ \A i \in 1 .. n : i \in 1 .. n + 1 /\ i # n + 1
  BY <1>1
<1>6. /\ \A t \in Scopes : \A i \in 1 .. Len(f[t]) :
            <<t, i>> \in Places(f, l) <=> f[t][i] = Release(l)
      /\ \A y \in Places(f, l) : \E t \in Scopes, i \in Nat :
            y = <<t, i>> /\ i \in 1 .. Len(f[t]) /\ f[t][i] = Release(l)
  BY PlacesAre DEF PlacesFit
<1>7. /\ \A t \in Scopes : \A i \in 1 .. Len(g[t]) :
            <<t, i>> \in Places(g, l) <=> g[t][i] = Release(l)
      /\ \A y \in Places(g, l) : \E t \in Scopes, i \in Nat :
            y = <<t, i>> /\ i \in 1 .. Len(g[t]) /\ g[t][i] = Release(l)
  <2>1. AreMaps(g)
    BY <1>3
  <2>2. PlacesFit(g, l)
    BY <2>1, PlacesAre
  <2> QED
    BY <2>2 DEF PlacesFit
<1>8. <<s, n + 1>> \notin Places(f, l)
  BY <1>1, <1>6 DEF n
<1>9. IsFiniteSet(Places(f, l))
  BY PlacesFinite
<1>10. CASE x = Release(l)
  <2>1. ASSUME NEW y
        PROVE  y \in Places(g, l) <=> y \in Places(f, l) \cup {<<s, n + 1>>}
    <3>1. ASSUME y \in Places(g, l)
          PROVE  y \in Places(f, l) \cup {<<s, n + 1>>}
      <4>1. PICK t \in Scopes, i \in Nat : i \in 1 .. Len(g[t]) /\ y = <<t, i>> /\ g[t][i] = Release(l)
        BY <1>7, <3>1
      <4>2. CASE t # s
        BY <1>3, <1>6, <4>1, <4>2
      <4>3. CASE t = s
        BY <1>2, <1>4, <1>6, <4>1, <4>3 DEF n
      <4> QED
        BY <4>2, <4>3
    <3>2. ASSUME y \in Places(f, l)
          PROVE  y \in Places(g, l)
      <4>1. PICK t \in Scopes, i \in Nat : i \in 1 .. Len(f[t]) /\ y = <<t, i>> /\ f[t][i] = Release(l)
        BY <1>6, <3>2
      <4>2. CASE t # s
        BY <1>3, <1>7, <4>1, <4>2
      <4>3. CASE t = s
        BY <1>2, <1>5, <1>7, <4>1, <4>3 DEF n
      <4> QED
        BY <4>2, <4>3
    <3>3. <<s, n + 1>> \in Places(g, l)
      BY <1>2, <1>5, <1>7, <1>10
    <3> QED
      BY <3>1, <3>2, <3>3
  <2>2. Places(g, l) = Places(f, l) \cup {<<s, n + 1>>}
    BY <2>1
  <2> QED
    BY <1>3, <1>8, <1>9, <1>10, <2>2, FS_AddElement DEF Number
<1>11. CASE x # Release(l)
  <2>1. ASSUME NEW y
        PROVE  y \in Places(g, l) <=> y \in Places(f, l)
    <3>1. ASSUME y \in Places(g, l)
          PROVE  y \in Places(f, l)
      <4>1. PICK t \in Scopes, i \in Nat : i \in 1 .. Len(g[t]) /\ y = <<t, i>> /\ g[t][i] = Release(l)
        BY <1>7, <3>1
      <4>2. CASE t # s
        BY <1>3, <1>6, <4>1, <4>2
      <4>3. CASE t = s
        BY <1>2, <1>4, <1>6, <1>11, <4>1, <4>3 DEF n
      <4> QED
        BY <4>2, <4>3
    <3>2. ASSUME y \in Places(f, l)
          PROVE  y \in Places(g, l)
      <4>1. PICK t \in Scopes, i \in Nat : i \in 1 .. Len(f[t]) /\ y = <<t, i>> /\ f[t][i] = Release(l)
        BY <1>6, <3>2
      <4>2. CASE t # s
        BY <1>3, <1>7, <4>1, <4>2
      <4>3. CASE t = s
        BY <1>2, <1>5, <1>7, <4>1, <4>3 DEF n
      <4> QED
        BY <4>2, <4>3
    <3> QED
      BY <3>1, <3>2
  <2>2. Places(g, l) = Places(f, l)
    BY <2>1
  <2> QED
    BY <1>3, <1>11, <2>2 DEF Number
<1> QED
  BY <1>10, <1>11

(* Reversing a map makes no difference. *)
LEMMA NumberReversed ==
    ASSUME NEW f, AreMaps(f), NEW s \in Scopes, NEW l, NEW g,
           g = [f EXCEPT ![s] = Reverse(f[s])]
    PROVE  AreMaps(g) /\ Number(g, l) = Number(f, l)
<1> DEFINE n == Len(f[s])
           turn == [x \in Places(f, l) |-> IF x[1] = s THEN <<s, n - x[2] + 1>> ELSE x]
<1>1. f[s] \in Seq(Entries) /\ n \in Nat
  BY LenProperties DEF AreMaps
<1>2. /\ g[s] \in Seq(Entries) /\ Len(g[s]) = n
      /\ \A i \in 1 .. n : g[s][i] = f[s][n - i + 1]
  <2>1. g[s] = Reverse(f[s])
    BY DEF AreMaps
  <2> QED
    BY <1>1, <2>1, Reversed
<1>3. AreMaps(g) /\ \A t \in Scopes \ {s} : g[t] = f[t]
  BY <1>2 DEF AreMaps
<1>4. \A i \in 1 .. n : n - i + 1 \in 1 .. n /\ n - (n - i + 1) + 1 = i
  BY <1>1
<1>5. /\ \A t \in Scopes : \A i \in 1 .. Len(f[t]) :
            <<t, i>> \in Places(f, l) <=> f[t][i] = Release(l)
      /\ \A y \in Places(f, l) : \E t \in Scopes, i \in Nat :
            y = <<t, i>> /\ i \in 1 .. Len(f[t]) /\ f[t][i] = Release(l)
  BY PlacesAre DEF PlacesFit
<1>6. /\ \A t \in Scopes : \A i \in 1 .. Len(g[t]) :
            <<t, i>> \in Places(g, l) <=> g[t][i] = Release(l)
      /\ \A y \in Places(g, l) : \E t \in Scopes, i \in Nat :
            y = <<t, i>> /\ i \in 1 .. Len(g[t]) /\ g[t][i] = Release(l)
  <2>1. AreMaps(g)
    BY <1>3
  <2>2. PlacesFit(g, l)
    BY <2>1, PlacesAre
  <2> QED
    BY <2>2 DEF PlacesFit
<1>7. \A y \in Places(f, l) : y[1] # s => turn[y] = y /\ y \in Places(g, l)
  <2> SUFFICES ASSUME NEW y \in Places(f, l), y[1] # s
               PROVE  turn[y] = y /\ y \in Places(g, l)
    OBVIOUS
  <2>1. PICK t \in Scopes, i \in Nat :
           y = <<t, i>> /\ i \in 1 .. Len(f[t]) /\ f[t][i] = Release(l)
    BY <1>5
  <2>2. t # s /\ g[t] = f[t]
    BY <1>3, <2>1
  <2> QED
    BY <1>6, <2>1, <2>2
<1>8. \A y \in Places(f, l) : y[1] = s =>
         y[2] \in 1 .. n /\ y = <<s, y[2]>> /\ turn[y] = <<s, n - y[2] + 1>> /\ f[s][y[2]] = Release(l)
  BY <1>5
<1>9. \A y \in Places(f, l) : y[1] = s => <<s, n - y[2] + 1>> \in Places(g, l)
  <2> SUFFICES ASSUME NEW y \in Places(f, l), y[1] = s
               PROVE  <<s, n - y[2] + 1>> \in Places(g, l)
    OBVIOUS
  <2> DEFINE j == n - y[2] + 1
  <2>1. j \in 1 .. n /\ n - j + 1 = y[2] /\ f[s][y[2]] = Release(l)
    BY <1>4, <1>8
  <2> HIDE DEF j
  <2>2. g[s][j] = Release(l)
    BY <1>2, <2>1
  <2>3. <<s, j>> \in Places(g, l)
    BY <1>2, <1>6, <2>1, <2>2
  <2> QED
    BY <2>3 DEF j
<1>10. \A y \in Places(g, l) : \E z \in Places(f, l) : turn[z] = y
  <2> SUFFICES ASSUME NEW y \in Places(g, l)
               PROVE  \E z \in Places(f, l) : turn[z] = y
    OBVIOUS
  <2>1. PICK t \in Scopes, i \in Nat : i \in 1 .. Len(g[t]) /\ y = <<t, i>> /\ g[t][i] = Release(l)
    BY <1>6
  <2>2. CASE t # s
    <3>1. y \in Places(f, l) /\ y[1] # s
      BY <1>3, <1>5, <2>1, <2>2
    <3> QED
      BY <1>7, <3>1
  <2>3. CASE t = s
    <3> DEFINE j == n - i + 1
               z == <<s, j>>
    <3>1. i \in 1 .. n /\ j \in 1 .. n /\ n - j + 1 = i /\ f[s][j] = Release(l)
      BY <1>2, <1>4, <2>1, <2>3
    <3> HIDE DEF j
    <3>2. z \in Places(f, l) /\ z[1] = s /\ z[2] = j
      BY <1>5, <3>1
    <3> HIDE DEF z
    <3>3. turn[z] = <<s, n - j + 1>>
      BY <1>8, <3>2
    <3> QED
      BY <2>1, <2>3, <3>1, <3>2, <3>3
  <2> QED
    BY <2>2, <2>3
<1>11. ASSUME NEW y \in Places(f, l), NEW z \in Places(f, l), turn[y] = turn[z]
       PROVE  y = z
  <2>1. CASE y[1] # s /\ z[1] # s
    BY <1>7, <1>11, <2>1
  <2>2. CASE y[1] = s /\ z[1] # s
    <3>1. turn[y][1] = s /\ turn[z][1] # s
      BY <1>7, <1>8, <2>2
    <3> QED
      BY <1>11, <3>1
  <2>3. CASE y[1] # s /\ z[1] = s
    <3>1. turn[y][1] # s /\ turn[z][1] = s
      BY <1>7, <1>8, <2>3
    <3> QED
      BY <1>11, <3>1
  <2>4. CASE y[1] = s /\ z[1] = s
    <3>1. turn[y][2] = n - y[2] + 1 /\ turn[z][2] = n - z[2] + 1
      BY <1>8, <2>4
    <3>2. y[2] \in 1 .. n /\ z[2] \in 1 .. n /\ y = <<s, y[2]>> /\ z = <<s, z[2]>>
      BY <1>8, <2>4
    <3>3. y[2] = z[2]
      BY <1>1, <1>11, <3>1, <3>2
    <3> QED
      BY <3>2, <3>3
  <2> QED
    BY <2>1, <2>2, <2>3, <2>4
<1>12. turn \in [Places(f, l) -> Places(g, l)]
  <2>1. \A y \in Places(f, l) : turn[y] \in Places(g, l)
    BY <1>7, <1>8, <1>9
  <2>2. turn = [y \in Places(f, l) |-> turn[y]]
    OBVIOUS
  <2> HIDE DEF turn
  <2> QED
    BY <2>1, <2>2
<1> HIDE DEF turn
<1>13. turn \in Bijection(Places(f, l), Places(g, l))
  <2>1. DOMAIN turn = Places(f, l) /\ IsInjective(turn)
    BY <1>11, <1>12 DEF IsInjective
  <2> QED
    BY <1>10, <1>12, <2>1 DEF Bijection, Injection, Surjection
<1>14. ExistsBijection(Places(f, l), Places(g, l))
  BY <1>13 DEF ExistsBijection
<1>15. IsFiniteSet(Places(f, l))
  BY PlacesFinite
<1>16. Cardinality(Places(g, l)) = Cardinality(Places(f, l))
  BY <1>14, <1>15, FS_Bijection
<1> QED
  BY <1>3, <1>16 DEF Number

(* Removing an entry makes one less, if it is a release of the layer. *)
LEMMA NumberRemoved ==
    ASSUME NEW f, AreMaps(f), NEW s \in Scopes, NEW i \in 1 .. Len(f[s]), NEW l, NEW g,
           g = [f EXCEPT ![s] = RemoveAt(f[s], i)]
    PROVE  OneLess(f, g, f[s][i], l)
<1> SUFFICES AreMaps(g) /\ Number(g, l) = IF f[s][i] = Release(l) THEN Number(f, l) - 1 ELSE Number(f, l)
  BY DEF OneLess
<1> DEFINE n == Len(f[s])
           P == Places(f, l) \ {<<s, i>>}
           move == [x \in P |-> IF x[1] = s /\ i < x[2] THEN <<s, x[2] - 1>> ELSE x]
<1>1. f[s] \in Seq(Entries) /\ n \in Nat /\ i \in Int
  BY LenProperties DEF AreMaps
<1>2. /\ g[s] \in Seq(Entries) /\ Len(g[s]) = n - 1
      /\ \A j \in 1 .. n - 1 : g[s][j] = IF j < i THEN f[s][j] ELSE f[s][j + 1]
  <2>1. g[s] = RemoveAt(f[s], i)
    BY DEF AreMaps
  <2> QED
    BY <1>1, <2>1, RemovedAt
<1>3. AreMaps(g) /\ \A t \in Scopes \ {s} : g[t] = f[t]
  BY <1>2 DEF AreMaps
<1>4. /\ \A t \in Scopes : \A j \in 1 .. Len(f[t]) :
            <<t, j>> \in Places(f, l) <=> f[t][j] = Release(l)
      /\ \A y \in Places(f, l) : \E t \in Scopes, j \in Nat :
            y = <<t, j>> /\ j \in 1 .. Len(f[t]) /\ f[t][j] = Release(l)
  BY PlacesAre DEF PlacesFit
<1>5. /\ \A t \in Scopes : \A j \in 1 .. Len(g[t]) :
            <<t, j>> \in Places(g, l) <=> g[t][j] = Release(l)
      /\ \A y \in Places(g, l) : \E t \in Scopes, j \in Nat :
            y = <<t, j>> /\ j \in 1 .. Len(g[t]) /\ g[t][j] = Release(l)
  <2>1. AreMaps(g)
    BY <1>3
  <2>2. PlacesFit(g, l)
    BY <2>1, PlacesAre
  <2> QED
    BY <2>2 DEF PlacesFit
<1>6. \A y \in P : y[1] # s => move[y] = y /\ y \in Places(g, l)
  <2> SUFFICES ASSUME NEW y \in P, y[1] # s
               PROVE  move[y] = y /\ y \in Places(g, l)
    OBVIOUS
  <2>1. PICK t \in Scopes, j \in Nat :
           y = <<t, j>> /\ j \in 1 .. Len(f[t]) /\ f[t][j] = Release(l)
    BY <1>4
  <2>2. t # s /\ g[t] = f[t]
    BY <1>3, <2>1
  <2> QED
    BY <1>5, <2>1, <2>2
<1>7. \A y \in P : y[1] = s =>
         y[2] \in 1 .. n /\ y = <<s, y[2]>> /\ y[2] # i /\ f[s][y[2]] = Release(l)
  BY <1>4
<1>8. ASSUME NEW y \in P, y[1] = s
      PROVE  /\ y[2] < i => move[y] = y
             /\ i < y[2] => move[y] = <<s, y[2] - 1>>
             /\ move[y] \in Places(g, l)
  <2>1. y[2] \in 1 .. n /\ y[2] # i /\ f[s][y[2]] = Release(l) /\ y = <<s, y[2]>>
    BY <1>7, <1>8
  <2>2. CASE y[2] < i
    <3>1. move[y] = y
      BY <2>1, <2>2
    <3>2. y[2] \in 1 .. n - 1 /\ g[s][y[2]] = Release(l)
      BY <1>1, <1>2, <2>1, <2>2
    <3>3. y \in Places(g, l)
      <4>1. y[2] \in 1 .. Len(g[s])
        BY <1>2, <3>2
      <4>2. <<s, y[2]>> \in Places(g, l)
        BY <1>5, <3>2, <4>1
      <4> QED
        BY <2>1, <4>2
    <3> QED
      BY <1>1, <2>1, <2>2, <3>1, <3>3
  <2>3. CASE i < y[2]
    <3> DEFINE j == y[2] - 1
    <3>1. move[y] = <<s, j>>
      BY <1>8, <2>3
    <3>2. j \in 1 .. n - 1 /\ ~(j < i) /\ j + 1 = y[2]
      BY <1>1, <2>1, <2>3
    <3> HIDE DEF j
    <3>3. g[s][j] = Release(l)
      BY <1>2, <2>1, <3>2
    <3>4. <<s, j>> \in Places(g, l)
      BY <1>2, <1>5, <3>2, <3>3
    <3> QED
      BY <1>1, <2>1, <2>3, <3>1, <3>4 DEF j
  <2> QED
    BY <1>1, <2>1, <2>2, <2>3
<1>9. \A y \in Places(g, l) : \E z \in P : move[z] = y
  <2> SUFFICES ASSUME NEW y \in Places(g, l)
               PROVE  \E z \in P : move[z] = y
    OBVIOUS
  <2>1. PICK t \in Scopes, j \in Nat : j \in 1 .. Len(g[t]) /\ y = <<t, j>> /\ g[t][j] = Release(l)
    BY <1>5
  <2>2. CASE t # s
    <3>1. y \in P /\ y[1] # s
      BY <1>3, <1>4, <2>1, <2>2
    <3> QED
      BY <1>6, <3>1
  <2>3. CASE t = s
    <3>1. j \in 1 .. n - 1 /\ g[s][j] = Release(l) /\ y = <<s, j>>
      BY <1>2, <2>1, <2>3
    <3>2. CASE j < i
      <4>1. f[s][j] = Release(l) /\ j \in 1 .. n /\ j # i
        BY <1>1, <1>2, <3>1, <3>2
      <4>2. <<s, j>> \in P /\ <<s, j>>[1] = s /\ <<s, j>>[2] = j
        BY <1>4, <4>1
      <4>3. move[<<s, j>>] = <<s, j>>
        BY <1>8, <3>2, <4>2
      <4> QED
        BY <3>1, <4>2, <4>3
    <3>3. CASE ~(j < i)
      <4> DEFINE m == j + 1
      <4>1. f[s][m] = Release(l) /\ m \in 1 .. n /\ m # i /\ i < m /\ m - 1 = j
        BY <1>1, <1>2, <3>1, <3>3
      <4> HIDE DEF m
      <4>2. <<s, m>> \in P /\ <<s, m>>[1] = s /\ <<s, m>>[2] = m
        BY <1>4, <4>1
      <4>3. move[<<s, m>>] = <<s, m - 1>>
        BY <1>8, <4>1, <4>2
      <4> QED
        BY <3>1, <4>1, <4>2, <4>3
    <3> QED
      BY <3>2, <3>3
  <2> QED
    BY <2>2, <2>3
<1>10. ASSUME NEW y \in P, NEW z \in P, move[y] = move[z]
       PROVE  y = z
  <2>1. CASE y[1] # s /\ z[1] # s
    BY <1>6, <1>10, <2>1
  <2>2. ASSUME NEW x \in P, x[1] = s
        PROVE  /\ move[x][1] = s /\ x[2] \in 1 .. n /\ x = <<s, x[2]>>
               /\ (x[2] < i /\ move[x][2] = x[2]) \/ (i < x[2] /\ move[x][2] = x[2] - 1)
    <3>1. x[2] \in 1 .. n /\ x = <<s, x[2]>> /\ x[2] # i
      BY <1>7, <2>2
    <3>2. x[2] < i \/ i < x[2]
      BY <1>1, <3>1
    <3>3. /\ x[2] < i => move[x] = x
          /\ i < x[2] => move[x] = <<s, x[2] - 1>>
      BY <1>8, <2>2
    <3>4. CASE x[2] < i
      <4>1. move[x] = x /\ x[1] = s
        BY <2>2, <3>3, <3>4
      <4>2. move[x][1] = s /\ move[x][2] = x[2]
        BY <4>1
      <4> QED
        BY <3>1, <3>4, <4>2
    <3>5. CASE i < x[2]
      <4>1. move[x][1] = s /\ move[x][2] = x[2] - 1
        BY <3>3, <3>5
      <4> QED
        BY <3>1, <3>5, <4>1
    <3> QED
      BY <3>2, <3>4, <3>5
  <2>3. CASE y[1] = s /\ z[1] # s
    <3>1. move[y][1] = s /\ move[z][1] # s
      BY <1>6, <2>2, <2>3
    <3> QED
      BY <1>10, <3>1
  <2>4. CASE y[1] # s /\ z[1] = s
    <3>1. move[y][1] # s /\ move[z][1] = s
      BY <1>6, <2>2, <2>4
    <3> QED
      BY <1>10, <3>1
  <2>5. CASE y[1] = s /\ z[1] = s
    <3>1. /\ y[2] \in 1 .. n /\ y = <<s, y[2]>>
          /\ (y[2] < i /\ move[y][2] = y[2]) \/ (i < y[2] /\ move[y][2] = y[2] - 1)
      BY <2>2, <2>5
    <3>2. /\ z[2] \in 1 .. n /\ z = <<s, z[2]>>
          /\ (z[2] < i /\ move[z][2] = z[2]) \/ (i < z[2] /\ move[z][2] = z[2] - 1)
      BY <2>2, <2>5
    <3>3. move[y][2] = move[z][2]
      BY <1>10
    <3>4. y[2] = z[2]
      BY <1>1, <3>1, <3>2, <3>3
    <3> QED
      BY <3>1, <3>2, <3>4
  <2> QED
    BY <2>1, <2>3, <2>4, <2>5
<1>11. move \in [P -> Places(g, l)]
  <2>1. \A y \in P : move[y] \in Places(g, l)
    BY <1>6, <1>8
  <2>2. move = [y \in P |-> move[y]]
    OBVIOUS
  <2> HIDE DEF move
  <2> QED
    BY <2>1, <2>2
<1>12. IsFiniteSet(Places(f, l))
  BY PlacesFinite
<1>13. <<s, i>> \in Places(f, l) <=> f[s][i] = Release(l)
  BY <1>4
<1>14. /\ IsFiniteSet(P)
       /\ Cardinality(P) = IF f[s][i] = Release(l) THEN Number(f, l) - 1 ELSE Number(f, l)
  BY <1>12, <1>13, FS_RemoveElement DEF Number
<1> HIDE DEF move, P
<1>15. move \in Bijection(P, Places(g, l))
  <2>1. DOMAIN move = P /\ IsInjective(move)
    BY <1>10, <1>11 DEF IsInjective
  <2> QED
    BY <1>9, <1>11, <2>1 DEF Bijection, Injection, Surjection
<1>16. ExistsBijection(P, Places(g, l))
  BY <1>15 DEF ExistsBijection
<1>17. Cardinality(Places(g, l)) = Cardinality(P)
  BY <1>14, <1>16, FS_Bijection
<1> QED
  BY <1>3, <1>14, <1>17 DEF Number

(* The calls that observe a layer are finitely many.                       *)
Watching(p, l) == {k \in Calls : LayerOf(k) = l /\ p[k] = "observed"}

(* The calls that are counted and have not added a release yet. *)
LEMMA ObservingIsWatching == \A l : Observing(l) = Watching(pc, l)
  BY DEF Observing, Watching

(* There are finitely many calls. *)
LEMMA CallsFinite == IsFiniteSet(Calls)
<1> DEFINE g == [x \in Composed \X {1, 2} |-> Call(x[1], x[2])]
<1>1. IsFiniteSet(Composed)
  BY NamesAre, NamesAssumption, FS_Subset
<1>2. IsFiniteSet({1, 2})
  <2>1. IsFiniteSet({1}) /\ {1} \cup {2} = {1, 2}
    BY FS_Singleton
  <2> QED
    BY <2>1, FS_AddElement
<1>3. IsFiniteSet(Composed \X {1, 2})
  BY <1>1, <1>2, FS_Product
<1>4. g \in Surjection(Composed \X {1, 2}, Calls)
  <2>1. \A c \in Composed : \A i \in {1, 2} : g[<<c, i>>] = Call(c, i) /\ Call(c, i) \in Calls
    BY CallsAre
  <2>2. \A x \in Composed \X {1, 2} : g[x] \in Calls
    <3>1. \A x \in Composed \X {1, 2} :
             x[1] \in Composed /\ x[2] \in {1, 2} /\ g[x] = Call(x[1], x[2])
      OBVIOUS
    <3> HIDE DEF g
    <3> QED
      BY <3>1, CallsAre
  <2>3. \A y \in Calls : \E c \in Composed : \E i \in {1, 2} : y = Call(c, i)
    BY DEF Calls
  <2>4. g = [x \in Composed \X {1, 2} |-> g[x]]
    OBVIOUS
  <2> HIDE DEF g
  <2>5. g \in [Composed \X {1, 2} -> Calls]
    BY <2>2, <2>4
  <2>6. \A y \in Calls : \E x \in Composed \X {1, 2} : g[x] = y
    <3> SUFFICES ASSUME NEW y \in Calls
                 PROVE  \E x \in Composed \X {1, 2} : g[x] = y
      OBVIOUS
    <3>1. PICK c \in Composed, i \in {1, 2} : y = Call(c, i)
      BY <2>3
    <3>2. <<c, i>> \in Composed \X {1, 2} /\ g[<<c, i>>] = y
      BY <2>1, <3>1
    <3> QED
      BY <3>2
  <2> QED
    BY <2>5, <2>6 DEF Surjection
<1> HIDE DEF g
<1> QED
  BY <1>3, <1>4, FS_Surjection

(* A call k goes on: who observes.                                         *)
WatchesMove(p, q, k, l) ==
    /\ Cardinality(Watching(p, l)) \in Nat
    /\ LayerOf(k) # l \/ (q[k] = "observed" <=> p[k] = "observed") =>
          Watching(q, l) = Watching(p, l)
    /\ LayerOf(k) = l /\ q[k] = "observed" /\ p[k] # "observed" =>
          Cardinality(Watching(q, l)) = Cardinality(Watching(p, l)) + 1
    /\ LayerOf(k) = l /\ q[k] # "observed" /\ p[k] = "observed" =>
          Cardinality(Watching(q, l)) = Cardinality(Watching(p, l)) - 1

(* Their number, when a single call moves. *)
LEMMA WatchingMoved ==
    ASSUME NEW p, NEW q, NEW k \in Calls, NEW l,
           \A j \in Calls \ {k} : q[j] = "observed" <=> p[j] = "observed"
    PROVE  WatchesMove(p, q, k, l)
<1> SUFFICES /\ Cardinality(Watching(p, l)) \in Nat
             /\ LayerOf(k) # l \/ (q[k] = "observed" <=> p[k] = "observed") =>
                 Watching(q, l) = Watching(p, l)
             /\ LayerOf(k) = l /\ q[k] = "observed" /\ p[k] # "observed" =>
                 Cardinality(Watching(q, l)) = Cardinality(Watching(p, l)) + 1
             /\ LayerOf(k) = l /\ q[k] # "observed" /\ p[k] = "observed" =>
                 Cardinality(Watching(q, l)) = Cardinality(Watching(p, l)) - 1
  BY DEF WatchesMove
<1>1. IsFiniteSet(Watching(p, l)) /\ Cardinality(Watching(p, l)) \in Nat
  <2>1. Watching(p, l) \in SUBSET Calls
    BY DEF Watching
  <2>2. IsFiniteSet(Watching(p, l))
    BY <2>1, CallsFinite, FS_Subset
  <2> QED
    BY <2>2, FS_CardinalityType
<1>2. LayerOf(k) # l \/ (q[k] = "observed" <=> p[k] = "observed") => Watching(q, l) = Watching(p, l)
  BY DEF Watching
<1>3. ASSUME LayerOf(k) = l, q[k] = "observed", p[k] # "observed"
      PROVE  Cardinality(Watching(q, l)) = Cardinality(Watching(p, l)) + 1
  <2>1. Watching(q, l) = Watching(p, l) \cup {k} /\ k \notin Watching(p, l)
    BY <1>3 DEF Watching
  <2> QED
    BY <1>1, <2>1, FS_AddElement
<1>4. ASSUME LayerOf(k) = l, q[k] # "observed", p[k] = "observed"
      PROVE  Cardinality(Watching(q, l)) = Cardinality(Watching(p, l)) - 1
  <2>1. Watching(q, l) = Watching(p, l) \ {k} /\ k \in Watching(p, l)
    BY <1>4 DEF Watching
  <2> QED
    BY <1>1, <2>1, FS_RemoveElement
<1> QED
  BY <1>1, <1>2, <1>3, <1>4

-----------------------------------------------------------------------------
(* What the steps are.                                                     *)

(* What becomes of the release maps: nothing; a running scope gets an      *)
(* entry, or begins to close.                                              *)
Stays == UNCHANGED <<state, finalizers, running, released>>
Gets(s, x) ==
    /\ state[s] = "Running"
    /\ finalizers' = [finalizers EXCEPT ![s] = Append(finalizers[s], x)]
    /\ UNCHANGED <<state, running, released>>
Closes(s, by) ==
    /\ state[s] = "Running"
    /\ state' = [state EXCEPT ![s] = "Exited"]
    /\ finalizers' = [finalizers EXCEPT ![s] = Reverse(finalizers[s])]
    /\ running' = running \cup {[fin |-> Close(s), by |-> by]}
    /\ released' = released
NoScope == Stays /\ acquired' = acquired
NoEntry == UNCHANGED <<memo, observers, builder, miscounted>>

CallsParts(k, l, is) ==
    pc' = [j \in Builds |->
        IF j = k THEN "building" ELSE IF j \in {Call(l, i) : i \in is} THEN "called" ELSE pc[j]]

(* The parts of a layer have ended; they have succeeded. *)
PartsEnded(l) == \A k \in Calls : ScopeOf(k) = l => ~Open(k)
PartsOk(l) == \A k \in Calls : ScopeOf(k) = l /\ kind[ScopeOf(k)] # "orElse" => pc[k] = "ok"

(* The steps of a call that change no scope. *)
Begins(k) ==
    /\ pc[k] = "called" /\ memo[LayerOf(k)] = "absent"
    /\ Goes(k, "resource")
    /\ memo' = [memo EXCEPT ![LayerOf(k)] = "pending"]
    /\ builder' = [builder EXCEPT ![LayerOf(k)] = k]
    /\ NoScope /\ UNCHANGED <<observers, miscounted>>
Finds(k) ==
    /\ pc[k] = "called" /\ memo[LayerOf(k)] # "absent"
    /\ Goes(k, "awaiting") /\ NoScope /\ NoEntry
Abandons(k) ==
    /\ pc[k] \in {"called", "resource", "awaiting"}
    /\ Goes(k, "interrupted") /\ NoScope /\ NoEntry
LeavesUncounted(k) ==
    /\ pc[k] = "observed"
    /\ Goes(k, "interrupted") /\ NoScope
    /\ miscounted' = miscounted \cup {LayerOf(k)}
    /\ UNCHANGED <<memo, observers, builder>>
Returns(k, a) ==
    /\ pc[k] \in {"adding", "closing"} /\ ~Busy(k)
    /\ memo' = [memo EXCEPT ![LayerOf(k)] = IF pc[k] = "adding" THEN "ok" ELSE memo[LayerOf(k)]]
    /\ Goes(k, a) /\ (a = "ok" => memo'[LayerOf(k)] = "ok")
    /\ NoScope /\ UNCHANGED <<observers, builder, miscounted>>
Counts(k) ==
    /\ pc[k] = "awaiting" /\ memo[LayerOf(k)] = "ok"
    /\ observers' = [observers EXCEPT ![LayerOf(k)] = observers[LayerOf(k)] + 1]
    /\ Goes(k, "observed") /\ NoScope /\ UNCHANGED <<memo, builder, miscounted>>
FindsWrong(k) ==
    /\ pc[k] = "awaiting" /\ memo[LayerOf(k)] \in Wrong
    /\ Goes(k, memo[LayerOf(k)]) /\ NoScope /\ NoEntry

(* Those that do. *)
Makes(k) ==
    /\ pc[k] = "resource"
    /\ state' = [state EXCEPT ![LayerOf(k)] = "Running"]
    /\ UNCHANGED <<finalizers, running, released, acquired>> /\ NoEntry
MakesLeaf(k) == LayerOf(k) \in Leaves /\ Makes(k) /\ Goes(k, "building")
MakesParts(k) ==
    /\ LayerOf(k) \in Composed /\ Makes(k)
    /\ \E is \in {{1}, {1, 2}} :
          CallsParts(k, LayerOf(k), is) /\ (kind[LayerOf(k)] # "zipWithPar" => is = {1})
Comes(k, n) ==
    \/ pc[k] = "observed" /\ n = observers[LayerOf(k)]
    \/ /\ pc[k] \in {"building", "acquired"} /\ n = observers[LayerOf(k)] + 1
       /\ PartsEnded(LayerOf(k)) /\ PartsOk(LayerOf(k))
Adds(k, n, a) ==
    /\ Comes(k, n) /\ Gets(ScopeOf(k), Release(LayerOf(k)))
    /\ observers' = [observers EXCEPT ![LayerOf(k)] = n]
    /\ memo' = [memo EXCEPT ![LayerOf(k)] = "ok"]
    /\ Goes(k, a)
    /\ UNCHANGED <<acquired, builder, miscounted>>
AddsLate(k, n) ==
    /\ Comes(k, n) /\ state[ScopeOf(k)] # "Running"
    /\ observers' = [observers EXCEPT ![LayerOf(k)] = n - 1]
    /\ IF n = 1 /\ state[LayerOf(k)] = "Running" THEN Closes(LayerOf(k), k) ELSE Stays
    /\ Goes(k, "adding")
    /\ UNCHANGED <<acquired, memo, builder, miscounted>>
Fails(k, end) ==
    /\ pc[k] \in {"building", "acquired"} /\ PartsEnded(LayerOf(k))
    /\ memo' = [memo EXCEPT ![LayerOf(k)] = end]
    /\ Closes(LayerOf(k), k)
    /\ Goes(k, "closing")
    /\ UNCHANGED <<acquired, observers, builder, miscounted>>
Acquires(k) ==
    /\ pc[k] = "building" /\ LayerOf(k) \in Leaves
    /\ acquired' = [acquired EXCEPT ![LayerOf(k)] = acquired[LayerOf(k)] + 1]
    /\ Gets(LayerOf(k), Free(LayerOf(k)))
    /\ Goes(k, "acquired") /\ NoEntry

(* The steps of the application and of the other fiber. *)
CallsNext(k) ==
    LET c == LayerOf(k) IN
    /\ pc[k] = "building" /\ c \in Composed
    /\ pc[Call(c, 2)] = "idle" /\ pc[Call(c, 1)] = (IF kind[c] = "provideTo" THEN "ok" ELSE "failed")
    /\ CallsParts(k, c, {2})
    /\ NoScope /\ NoEntry
Interrupts == pc' = pc /\ NoScope /\ NoEntry
Starts ==
    /\ pc[Main] = "idle"
    /\ \E is \in {{1}, {1, 2}} : CallsParts(Main, Top, is) /\ (kind[Top] # "zipWithPar" => is = {1})
    /\ UNCHANGED <<released, acquired>> /\ NoEntry
StartsOpen ==
    /\ Starts /\ state[Shared] = "Running"
    /\ state' = [state EXCEPT ![Top] = "Running"]
    /\ finalizers' = [finalizers EXCEPT ![Shared] = Append(finalizers[Shared], Close(Top)),
                                        ![Top] = <<Detach(Top, Shared)>>]
    /\ running' = running
StartsClosed ==
    /\ Starts /\ state[Shared] # "Running"
    /\ state' = [state EXCEPT ![Top] = "Exited"]
    /\ finalizers' = finalizers
    /\ running' = running \cup {[fin |-> Close(Top), by |-> Main]}
MainEnds(a) ==
    /\ pc[Main] = "building" /\ PartsEnded(Top)
    /\ Goes(Main, a) /\ (a = "ok" => PartsOk(Top))
    /\ NoScope /\ NoEntry
MainLeaves ==
    /\ pc[Main] \in Ends /\ Goes(Main, "closing")
    /\ IF state[Top] = "Running" THEN Closes(Top, Main) ELSE Stays
    /\ acquired' = acquired /\ NoEntry
MainLeft ==
    /\ pc[Main] = "closing" /\ Goes(Main, "left") /\ NoScope /\ NoEntry
SharedCloses ==
    /\ Closes(Shared, Other) /\ pc' = pc /\ acquired' = acquired /\ NoEntry

(* The steps of releaseAll: the entry at i of s is taken. *)
Rest(s, i) == [finalizers EXCEPT ![s] = RemoveAt(finalizers[s], i)]
Takes(s, i) ==
    /\ state[s] = "Exited" /\ i \in 1 .. Len(finalizers[s])
    /\ s \notin Parallel => i = 1 /\ ~Busy(s)
    /\ pc' = pc /\ UNCHANGED <<acquired, memo, builder, miscounted>>
Drops(s, i) ==
    /\ finalizers' = Rest(s, i)
    /\ UNCHANGED <<state, running, released>>
TakesClosing(s, i, l) ==
    /\ state[l] = "Running" /\ l # s
    /\ state' = [state EXCEPT ![l] = "Exited"]
    /\ finalizers' = [Rest(s, i) EXCEPT ![l] = Reverse(finalizers[l])]
    /\ running' = running \cup {[fin |-> Close(l), by |-> s]}
    /\ released' = released
Releasing(s, i, l) ==
    /\ Takes(s, i) /\ l \in PartsOf(s) /\ finalizers[s][i] = Release(l)
    /\ observers' = [observers EXCEPT ![l] = observers[l] - 1]
    /\ IF observers[l] = 1 /\ state[l] = "Running" THEN TakesClosing(s, i, l) ELSE Drops(s, i)
ClosingTop(i) ==
    /\ Takes(Shared, i) /\ finalizers[Shared][i] = Close(Top) /\ observers' = observers
    /\ IF state[Top] = "Running" THEN TakesClosing(Shared, i, Top) ELSE Drops(Shared, i)
Detaching(i) ==
    /\ Takes(Top, i) /\ finalizers[Top][i] = Detach(Top, Shared) /\ observers' = observers
    /\ finalizers' = IF state[Shared] = "Running"
                     THEN [Rest(Top, i) EXCEPT ![Shared] = RemoveFirst(finalizers[Shared], Close(Top))]
                     ELSE Rest(Top, i)
    /\ UNCHANGED <<state, running, released>>
Freeing(s, i, r) ==
    /\ Takes(s, i) /\ finalizers[s][i] = Free(r) /\ observers' = observers
    /\ finalizers' = Rest(s, i)
    /\ released' = [released EXCEPT ![r] = released[r] + 1]
    /\ running' = running \cup {[fin |-> Free(r), by |-> s]}
    /\ state' = state
Finishes(r) ==
    /\ \A s \in Scopes : r.fin = Close(s) => Closed(s)
    /\ running' = running \ {r}
    /\ UNCHANGED <<state, finalizers, released, acquired, pc>> /\ NoEntry

CallMoves(k) ==
    \/ Begins(k) \/ Finds(k) \/ Abandons(k) \/ LeavesUncounted(k)
    \/ (\E a \in Ends : Returns(k, a)) \/ Counts(k) \/ FindsWrong(k)
BuildMoves(k) ==
    \/ MakesLeaf(k) \/ MakesParts(k)
    \/ \E n \in {observers[LayerOf(k)], observers[LayerOf(k)] + 1} :
          (\E a \in {"ok", "interrupted"} : Adds(k, n, a)) \/ AddsLate(k, n)
    \/ (\E end \in Wrong : Fails(k, end))
    \/ Acquires(k)
MainMoves ==
    \/ Interrupts \/ StartsOpen \/ StartsClosed \/ (\E a \in Ends : MainEnds(a))
    \/ MainLeaves \/ MainLeft \/ SharedCloses
    \/ \E k \in Builds : CallsNext(k)
FinalizerMoves ==
    \/ \E s \in Composed : \E l \in Under : \E i \in DOMAIN finalizers[s] : Releasing(s, i, l)
    \/ \E i \in DOMAIN finalizers[Shared] : ClosingTop(i)
    \/ \E i \in DOMAIN finalizers[Top] : Detaching(i)
    \/ \E s \in Leaves : \E i \in DOMAIN finalizers[s] : Freeing(s, i, s)
    \/ \E i \in DOMAIN finalizers[Shared] : Freeing(Shared, i, Extra)
    \/ \E r \in running : Finishes(r)
Moves ==
    /\ kind' = kind /\ fiber' \in [Builds -> Builds] /\ interrupted' \in SUBSET Builds
    /\ \/ \E k \in Calls : CallMoves(k) \/ BuildMoves(k)
       \/ FinalizerMoves
       \/ MainMoves
MovesOnly == [][Moves]_vars

(* What the conjuncts say of the functions, for the provers. *)
LEMMA TypesAre ==
    ASSUME TypesFit
    PROVE  /\ AreMaps(finalizers)
           /\ \A s \in Scopes : finalizers[s] \in Seq(Entries)
           /\ \A c \in Composed : kind[c] \in {"zipWithPar", "provideTo", "orElse"}
           /\ \A k \in Builds : pc[k] \in Steps
           /\ \A s \in Scopes : state[s] \in {"none", "Running", "Exited"}
           /\ \A r \in running : r.fin \in Entries
<1>1. AreMaps(finalizers) /\ \A s \in Scopes : finalizers[s] \in Seq(Entries)
  BY DEF TypesFit, AreMaps, Entries
<1>2. \A c \in Composed : kind[c] \in {"zipWithPar", "provideTo", "orElse"}
  BY KindsAssumption DEF TypesFit
<1>3. \A r \in running : r.fin \in Entries
  <2>1. \A r \in running :
           r.fin \in {Free(x) : x \in Resources} \cup {Close(s) : s \in Scopes}
    BY DEF TypesFit, Runs
  <2>2. {Free(x) : x \in Resources} \cup {Close(s) : s \in Scopes} \subseteq Entries
    BY DEF Entries, Finalizers
  <2> QED
    BY <2>1, <2>2
<1> QED
  BY <1>1, <1>2, <1>3 DEF TypesFit

(* BeginClose closes a running scope. *)
LEMMA BeginCloseIs ==
    ASSUME NEW s, NEW by, Become(BeginClose(Maps, s, by))
    PROVE  IF state[s] = "Running" THEN Closes(s, by) ELSE Stays
  BY DEF Become, BeginClose, Maps, Closes, Stays

(* A call adds its release. *)
LEMMA AddedIs ==
    ASSUME TypesFit, NEW k \in Calls, NEW n \in Nat, Comes(k, n), Added(k, n),
           UNCHANGED <<acquired, builder, miscounted>>
    PROVE  (\E a \in {"ok", "interrupted"} : Adds(k, n, a)) \/ AddsLate(k, n)
<1> DEFINE l == LayerOf(k)
           c == ScopeOf(k)
<1>1. CASE state[c] = "Running"
  <2>1. Become(Add(Maps, c, Release(l), k)) /\ observers' = [observers EXCEPT ![l] = n]
        /\ memo' = [memo EXCEPT ![l] = "ok"] /\ Goes(k, Reverted(k, "ok"))
    BY <1>1 DEF Added, AddRelease
  <2>2. Gets(c, Release(l))
    BY <1>1, <2>1 DEF Become, Add, Maps, Gets
  <2>3. Reverted(k, "ok") \in {"ok", "interrupted"}
    BY DEF Reverted
  <2> QED
    BY <2>1, <2>2, <2>3 DEF Adds
<1>2. CASE state[c] # "Running"
  <2>1. Become(BeginRelease(Maps, l, n, k)) /\ observers' = [observers EXCEPT ![l] = n - 1]
        /\ Goes(k, "adding") /\ UNCHANGED memo
    BY <1>2 DEF Added, AddRelease
  <2>2. IF n = 1 /\ state[l] = "Running" THEN Closes(l, k) ELSE Stays
    <3>1. CASE n = 1
      <4>1. Become(BeginClose(Maps, l, k))
        BY <2>1, <3>1 DEF BeginRelease
      <4> QED
        BY <3>1, <4>1, BeginCloseIs
    <3>2. CASE n # 1
      BY <2>1, <3>2 DEF BeginRelease, Become, Maps, Stays
    <3> QED
      BY <3>1, <3>2
  <2> QED
    BY <1>2, <2>1, <2>2 DEF AddsLate
<1> QED
  BY <1>1, <1>2

(* A layer that has been built, or not. *)
LEMMA BuiltIs ==
    ASSUME TypesFit, ScopesFit, EntriesFit, NEW k \in Builds, NEW end \in Ends,
           pc[k] \in {"building", "acquired"}, k = Main => pc[k] = "building",
           PartsEnded(LayerOf(k)), end = "ok" => PartsOk(LayerOf(k)),
           Built(k, end)
    PROVE  \/ k \in Calls /\ BuildMoves(k)
           \/ MainEnds(end)
<1> DEFINE l == LayerOf(k)
<1>1. CASE k = Main
  <2>1. Goes(Main, end) /\ UNCHANGED <<scopeVars, memo, observers, builder, miscounted>>
    BY <1>1 DEF Built
  <2>2. l = Top
    BY <1>1 DEF LayerOf
  <2> QED
    BY <1>1, <2>1, <2>2 DEF MainEnds, NoScope, Stays, NoEntry, scopeVars
<1>2. CASE k \in Calls /\ end = "ok"
  <2> DEFINE n == observers[l] + 1
  <2>1. Added(k, n) /\ UNCHANGED <<acquired, builder, miscounted>>
    BY <1>2, CallsAre DEF Built
  <2>2. l \in Layers /\ observers[l] \in Nat /\ n \in Nat
    BY <1>2, CallsAre, NamesAre DEF TypesFit
  <2>3. Comes(k, n)
    BY <1>2 DEF Comes
  <2> HIDE DEF n
  <2>4. (\E a \in {"ok", "interrupted"} : Adds(k, n, a)) \/ AddsLate(k, n)
    BY <1>2, <2>1, <2>2, <2>3, AddedIs
  <2> QED
    BY <1>2, <2>4 DEF BuildMoves, n
<1>3. CASE k \in Calls /\ end # "ok"
  <2>1. /\ memo' = [memo EXCEPT ![l] = end] /\ Become(BeginClose(Maps, l, k))
        /\ Goes(k, "closing") /\ UNCHANGED <<acquired, observers, builder, miscounted>>
    BY <1>3, CallsAre DEF Built
  <2>2. l \in Under /\ memo[l] # "absent" /\ builder[l] = k
    BY <1>3, CallsAre DEF EntriesFit, MainFits, EntryFits, CallFits
  <2>3. state[l] = "Running"
    BY <2>2 DEF ScopesFit
  <2>4. Closes(l, k)
    BY <2>1, <2>3, BeginCloseIs
  <2>5. end \in Wrong
    BY <1>3 DEF Ends, Wrong
  <2>6. Fails(k, end)
    BY <2>1, <2>4 DEF Fails
  <2> QED
    BY <1>3, <2>5, <2>6 DEF BuildMoves
<1> QED
  BY <1>1, <1>2, <1>3, CallsAre

(* The steps of a call. *)
LEMMA CallStepIs ==
    ASSUME TypesFit, EntriesFit, NEW k \in Calls, CallStep(k)
    PROVE  CallMoves(k) \/ BuildMoves(k)
<1> DEFINE l == LayerOf(k)
<1>1. l \in Under /\ l \in Layers
  BY CallsAre, NamesAre
<1>2. CASE Lookup(k)
  BY <1>2 DEF Lookup, CallMoves, Begins, Finds, NoScope, Stays, NoEntry, scopeVars
<1>3. CASE StartResource(k)
  <2>1. Makes(k)
    BY <1>3 DEF StartResource, Makes, Become, Make, Maps, NoEntry
  <2>2. CASE l \in Leaves
    <3>1. Goes(k, "building")
      BY <1>3, <2>2, NamesAre DEF StartResource
    <3> QED
      BY <2>1, <2>2, <3>1 DEF MakesLeaf, BuildMoves
  <2>3. CASE l \in Composed
    <3>1. Calling(k, "building", l, FirstParts(l))
      BY <1>3, <2>3 DEF StartResource
    <3>2. CallsParts(k, l, FirstParts(l))
      BY <3>1 DEF Calling, CallsParts
    <3>3. FirstParts(l) \in {{1}, {1, 2}} /\ (kind[l] # "zipWithPar" => FirstParts(l) = {1})
      BY DEF FirstParts
    <3> QED
      BY <2>1, <2>3, <3>2, <3>3 DEF MakesParts, BuildMoves
  <2> QED
    BY <1>1, <2>2, <2>3, NamesAre
<1>4. CASE Abandon(k)
  BY <1>4 DEF Abandon, CallMoves, Abandons, LeavesUncounted, NoScope, Stays, NoEntry, scopeVars
<1>5. CASE Return(k)
  <2>1. /\ pc[k] \in {"adding", "closing"} /\ ~Busy(k)
        /\ memo' = [memo EXCEPT ![l] = IF pc[k] = "adding" THEN "ok" ELSE memo[l]]
        /\ Goes(k, Reverted(k, memo'[l]))
        /\ NoScope /\ UNCHANGED <<observers, builder, miscounted>>
    BY <1>5 DEF Return, NoScope, Stays, scopeVars
  <2>2. memo'[l] \in Ends
    <3>1. pc[k] = "closing" => memo[l] \in Wrong
      BY DEF EntriesFit, MainFits, EntryFits, CallFits
    <3>2. memo'[l] = IF pc[k] = "adding" THEN "ok" ELSE memo[l]
      BY <1>1, <2>1 DEF TypesFit
    <3> QED
      BY <2>1, <3>1, <3>2 DEF Ends, Wrong
  <2> DEFINE a == Reverted(k, memo'[l])
  <2>3. a \in Ends /\ (a = "ok" => memo'[l] = "ok")
    BY <2>2 DEF Reverted, Ends
  <2> HIDE DEF a
  <2>4. Returns(k, a)
    BY <2>1, <2>3 DEF Returns, a
  <2> QED
    BY <2>3, <2>4 DEF CallMoves
<1>6. CASE Awaited(k)
  BY <1>6 DEF Awaited, CallMoves, Counts, FindsWrong, NoScope, Stays, NoEntry, scopeVars, Ends, Wrong
<1>7. CASE Observed(k)
  <2>1. pc[k] = "observed" /\ Added(k, observers[l]) /\ UNCHANGED <<acquired, builder, miscounted>>
    BY <1>7 DEF Observed
  <2> DEFINE n == observers[l]
  <2>2. n \in Nat /\ Comes(k, n)
    BY <1>1, <2>1 DEF TypesFit, Comes
  <2> HIDE DEF n
  <2>3. (\E a \in {"ok", "interrupted"} : Adds(k, n, a)) \/ AddsLate(k, n)
    BY <2>1, <2>2, AddedIs DEF n
  <2> QED
    BY <2>3 DEF BuildMoves, n
<1> QED
  BY <1>2, <1>3, <1>4, <1>5, <1>6, <1>7 DEF CallStep

(* The outcome of a composed layer. *)
LEMMA OutcomeIs ==
    ASSUME TypesFit, CallsFit, NEW c \in Composed, NEW end \in Outcome(c)
    PROVE  end \in Ends /\ PartsEnded(c) /\ (end = "ok" => PartsOk(c))
<1> DEFINE one == pc[Call(c, 1)]
           two == pc[Call(c, 2)]
<1>1. kind[c] \in {"zipWithPar", "provideTo", "orElse"}
  BY TypesAre
<1>2. \A k \in Calls : ScopeOf(k) = c => k = Call(c, 1) \/ k = Call(c, 2)
  BY CallsAre
<1>3. kind[c] # "zipWithPar" /\ two # "idle" => one = (IF kind[c] = "provideTo" THEN "ok" ELSE "failed")
  BY DEF CallsFit
<1>4. CASE kind[c] = "zipWithPar"
  <2>1. end \in IF ~({one, two} \subseteq Ends) THEN {}
               ELSE IF "failed" \in {one, two} THEN {"failed"}
               ELSE IF "interrupted" \in {one, two} THEN {"interrupted"} ELSE {"ok"}
    BY <1>4 DEF Outcome
  <2>2. one \in Ends /\ two \in Ends /\ end \in Ends /\ (end = "ok" => one = "ok" /\ two = "ok")
    BY <2>1 DEF Ends
  <2> QED
    BY <1>2, <2>2 DEF PartsEnded, PartsOk, Open
<1>5. CASE kind[c] = "provideTo"
  <2>1. end \in IF one \in Ends \ {"ok"} THEN {one} ELSE {two} \cap Ends
    BY <1>5 DEF Outcome
  <2>2. end \in Ends /\ (end = "ok" => one = "ok" /\ two = "ok")
    BY <1>3, <1>5, <2>1 DEF Ends
  <2>3. (one \in Ends \/ one = "idle") /\ (two \in Ends \/ two = "idle")
    BY <1>3, <1>5, <2>1 DEF Ends
  <2> QED
    BY <1>2, <2>2, <2>3 DEF PartsEnded, PartsOk, Open
<1>6. CASE kind[c] = "orElse"
  <2>1. end \in IF one \in Ends \ {"failed"} THEN {one} ELSE {two} \cap Ends
    BY <1>6 DEF Outcome
  <2>2. end \in Ends /\ (one \in Ends \/ one = "idle") /\ (two \in Ends \/ two = "idle")
    BY <1>3, <1>6, <2>1 DEF Ends
  <2> QED
    BY <1>2, <1>6, <2>2 DEF PartsEnded, PartsOk, Open
<1> QED
  BY <1>1, <1>4, <1>5, <1>6

(* The steps of a call that builds. *)
LEMMA BuildStepIs ==
    ASSUME TypesFit, ScopesFit, EntriesFit, CallsFit, NEW k \in Builds, BuildStep(k)
    PROVE  (k \in Calls /\ BuildMoves(k)) \/ MainMoves
<1> DEFINE l == LayerOf(k)
<1>0. (k = Main => l = Top) /\ l \in Layers
  BY CallsAre, NamesAre DEF LayerOf
<1>1. l \in Leaves => k \in Calls /\ l \notin Composed /\ PartsEnded(l) /\ PartsOk(l)
  <2>1. l \in Leaves => k \in Calls
    BY <1>0, CallsAre, NamesAre
  <2>2. l \in Leaves => \A j \in Calls : ScopeOf(j) # l
    BY CallsAre, NamesAre
  <2> QED
    BY <2>1, <2>2, NamesAre DEF PartsEnded, PartsOk
<1>m. k = Main => pc[k] \in {"idle", "building", "closing", "left"} \cup Ends
  BY DEF EntriesFit, MainFits, EntryFits, CallFits
<1>2. ASSUME NEW end \in Ends, pc[k] \in {"building", "acquired"},
             PartsEnded(l), end = "ok" => PartsOk(l), Built(k, end)
      PROVE  (k \in Calls /\ BuildMoves(k)) \/ MainMoves
  <2>1. k = Main => pc[k] = "building"
    BY <1>2, <1>m DEF Ends
  <2>2. (k \in Calls /\ BuildMoves(k)) \/ MainEnds(end)
    BY <1>2, <2>1, BuiltIs
  <2> QED
    BY <2>2 DEF MainMoves
<1>3. CASE Acquire(k)
  <2>1. /\ pc[k] = "building" /\ l \in Leaves
        /\ acquired' = [acquired EXCEPT ![l] = acquired[l] + 1]
        /\ Become(Add(Maps, l, Free(l), k)) /\ Goes(k, "acquired") /\ NoEntry
    BY <1>3 DEF Acquire, NoEntry
  <2>2. k \in Calls
    BY <1>1, <2>1
  <2>3. memo[l] # "absent" /\ builder[l] = k /\ l \in Under
    BY <2>1, <2>2, CallsAre DEF EntriesFit, MainFits, EntryFits, CallFits
  <2>4. state[l] = "Running"
    BY <2>1, <2>3 DEF ScopesFit
  <2>5. Gets(l, Free(l))
    BY <2>1, <2>4 DEF Become, Add, Maps, Gets
  <2> QED
    BY <2>1, <2>2, <2>5 DEF Acquires, BuildMoves
<1>4. CASE EndLeaf(k)
  <2>1. l \in Leaves /\ k \in Calls
    BY <1>1, <1>4 DEF EndLeaf
  <2>2. Reverted(k, "ok") \in Ends /\ Reverted(k, "failed") \in Ends /\ "interrupted" \in Ends
    BY DEF Reverted, Ends
  <2>3. \E end \in Ends : pc[k] \in {"building", "acquired"} /\ Built(k, end)
    BY <1>4, <2>2 DEF EndLeaf
  <2> QED
    BY <1>1, <1>2, <2>1, <2>3
<1>5. CASE EndComposed(k)
  <2>1. pc[k] = "building" /\ l \in Composed
    BY <1>5 DEF EndComposed
  <2>2. PICK end \in Outcome(l) : Built(k, Reverted(k, end))
    BY <1>5 DEF EndComposed
  <2>3. end \in Ends /\ PartsEnded(l) /\ (end = "ok" => PartsOk(l))
    BY <2>1, OutcomeIs
  <2>4. Reverted(k, end) \in Ends /\ (Reverted(k, end) = "ok" => end = "ok")
    BY <2>3 DEF Reverted, Ends
  <2> QED
    BY <1>2, <2>1, <2>2, <2>3, <2>4
<1>6. CASE CallSecond(k)
  <2>1. /\ pc[k] = "building" /\ l \in Composed /\ pc[Call(l, 2)] = "idle"
        /\ pc[Call(l, 1)] = (IF kind[l] = "provideTo" THEN "ok" ELSE "failed")
    BY <1>6 DEF CallSecond
  <2>2. CASE Interrupted(k)
    <3>1. Built(k, "interrupted")
      BY <1>6, <2>2 DEF CallSecond
    <3>2. PartsEnded(l)
      BY <2>1, CallsAre DEF PartsEnded, Open, Ends
    <3> QED
      BY <1>2, <2>1, <3>1, <3>2 DEF Ends
  <2>3. CASE ~Interrupted(k)
    <3>1. /\ Calling(k, "building", l, {2})
          /\ UNCHANGED <<kind, scopeVars, memo, observers, builder, interrupted, miscounted>>
      BY <1>6, <2>3 DEF CallSecond
    <3>2. CallsParts(k, l, {2})
      BY <3>1 DEF Calling, CallsParts
    <3>3. CallsNext(k)
      BY <2>1, <3>1, <3>2 DEF CallsNext, NoScope, Stays, NoEntry, scopeVars
    <3> QED
      BY <3>3 DEF MainMoves
  <2> QED
    BY <2>2, <2>3
<1>7. CASE \E i \in {1, 2} : InterruptPart(k, i)
  BY <1>7 DEF InterruptPart, MainMoves, Interrupts, NoScope, Stays, NoEntry, scopeVars
<1> QED
  BY <1>3, <1>4, <1>5, <1>6, <1>7 DEF BuildStep

(* The entries of a release map, by whose it is. *)
LEMMA EntriesOf ==
    ASSUME TypesFit, HoldersFit, LeavesFit, SharedFits, NEW s \in Scopes, state[s] = "Exited",
           NEW i \in DOMAIN finalizers[s]
    PROVE  \/ s \in Composed /\ \E l \in PartsOf(s) : finalizers[s][i] = Release(l)
           \/ s = Top /\ finalizers[s][i] = Detach(Top, Shared)
           \/ s \in Leaves /\ finalizers[s][i] = Free(s)
           \/ s = Shared /\ finalizers[s][i] \in {Free(Extra), Close(Top)}
<1>1. finalizers[s] \in Seq(Entries)
  BY TypesAre
<1>2. finalizers[s][i] \in ToSet(finalizers[s])
  BY <1>1, Members
<1>3. CASE s \in Composed
  BY <1>2, <1>3 DEF HoldersFit
<1>4. CASE s \in Leaves
  BY <1>2, <1>4 DEF LeavesFit
<1>5. CASE s = Shared
  <2>1. finalizers[s] \in {<<Free(Extra)>>, <<Close(Top), Free(Extra)>>, <<>>, <<Close(Top)>>}
    BY <1>5 DEF SharedFits
  <2> QED
    BY <1>5, <2>1
<1> QED
  BY <1>3, <1>4, <1>5, NamesAre

(* A finalizer starts. *)
LEMMA RunFinalizerIs ==
    ASSUME TypesFit, HoldersFit, LeavesFit, SharedFits, NEW s \in Scopes, RunFinalizer(s)
    PROVE  FinalizerMoves
<1>1. PICK i \in Ready(s) :
        LET fin == finalizers[s][i]
            l == fin[2]
        IN
        /\ IF fin = Release(l)
           THEN /\ Become(BeginRelease(Taken(s, i), l, observers[l], s))
                /\ observers' = [observers EXCEPT ![l] = observers[l] - 1]
           ELSE Become(Begin(Taken(s, i), fin, s)) /\ UNCHANGED observers
        /\ UNCHANGED <<kind, acquired, memo, builder, pc, fiber, interrupted, miscounted>>
  BY DEF RunFinalizer
<1> DEFINE fin == finalizers[s][i]
           m == Taken(s, i)
<1>2. state[s] = "Exited" /\ i \in DOMAIN finalizers[s] /\ (s \notin Parallel => i = 1 /\ ~Busy(s))
  BY DEF Ready, Busy
<1>3. finalizers[s] \in Seq(Entries) /\ DOMAIN finalizers[s] = 1 .. Len(finalizers[s])
  BY TypesAre, LenProperties
<1>4. Takes(s, i)
  BY <1>1, <1>2, <1>3 DEF Takes
<1>5. m = [state |-> state, finalizers |-> Rest(s, i), running |-> running, released |-> released]
  BY DEF Taken, Maps, Rest
<1> HIDE DEF m
<1>6. ASSUME NEW l \in PartsOf(s), s \in Composed, fin = Release(l)
      PROVE  Releasing(s, i, l)
  <2>1. fin[2] = l
    BY <1>6 DEF Release
  <2>2. /\ Become(BeginRelease(m, l, observers[l], s))
        /\ observers' = [observers EXCEPT ![l] = observers[l] - 1]
    BY <1>1, <1>6, <2>1 DEF m
  <2>3. l # s
    <3>1. {s} \in SUBSET Layers /\ {s} # {} /\ s \in {s} \cap Composed
      BY <1>6, NamesAre
    <3>2. PICK x \in {s} : \A c \in {s} \cap Composed : x \notin PartsOf(c)
      BY <3>1, OrderAssumption
    <3> QED
      BY <3>1, <3>2
  <2>4. CASE observers[l] = 1 /\ state[l] = "Running"
    <3>1. Become(BeginClose(m, l, s))
      BY <2>2, <2>4 DEF BeginRelease
    <3>2. Rest(s, i)[l] = finalizers[l]
      BY <2>3 DEF Rest, TypesFit
    <3>3. TakesClosing(s, i, l)
      BY <1>5, <2>3, <2>4, <3>1, <3>2 DEF Become, BeginClose, TakesClosing
    <3> QED
      BY <1>4, <1>6, <2>2, <2>4, <3>3 DEF Releasing
  <2>5. CASE ~(observers[l] = 1 /\ state[l] = "Running")
    <3>1. Become(m)
      BY <1>5, <2>2, <2>5 DEF BeginRelease, BeginClose
    <3>2. Drops(s, i)
      BY <1>5, <3>1 DEF Become, Drops
    <3> QED
      BY <1>4, <1>6, <2>2, <2>5, <3>2 DEF Releasing
  <2> QED
    BY <2>4, <2>5
<1>7. ASSUME fin # Release(fin[2])
      PROVE  Become(Begin(m, fin, s)) /\ observers' = observers
  BY <1>1, <1>7 DEF m
<1>8. CASE s = Top /\ fin = Detach(Top, Shared)
  <2>1. fin[1] = "detach" /\ fin[2] = Top /\ fin[3] = Shared
    BY <1>8 DEF Detach
  <2>2. Become(Begin(m, fin, s)) /\ observers' = observers
    BY <1>7, <1>8, FinalizersDiffer
  <2>3. Become(Unregister(m, Shared, Close(Top)))
    BY <2>1, <2>2 DEF Begin
  <2>4. Top # Shared /\ Rest(s, i)[Shared] = finalizers[Shared]
    BY <1>8, NamesAre DEF Rest, TypesFit
  <2>5. /\ finalizers' = IF state[Shared] = "Running"
              THEN [Rest(Top, i) EXCEPT ![Shared] = RemoveFirst(finalizers[Shared], Close(Top))]
              ELSE Rest(Top, i)
        /\ UNCHANGED <<state, running, released>>
    BY <1>5, <1>8, <2>3, <2>4 DEF Become, Unregister
  <2>6. Detaching(i)
    BY <1>4, <1>8, <2>2, <2>5 DEF Detaching
  <2> QED
    BY <1>2, <1>8, <2>6 DEF FinalizerMoves
<1>9. ASSUME NEW r, fin = Free(r)
      PROVE  Freeing(s, i, r)
  <2>1. fin[1] = "free" /\ fin[2] = r
    BY <1>9 DEF Free
  <2>2. Become(Begin(m, fin, s)) /\ observers' = observers
    BY <1>7, <1>9, FinalizersDiffer
  <2>3. /\ finalizers' = Rest(s, i) /\ state' = state
        /\ released' = [released EXCEPT ![r] = released[r] + 1]
        /\ running' = running \cup {[fin |-> Free(r), by |-> s]}
    BY <1>5, <1>9, <2>1, <2>2 DEF Become, Begin
  <2> QED
    BY <1>4, <1>9, <2>2, <2>3 DEF Freeing
<1>10. CASE s = Shared /\ fin = Close(Top)
  <2>1. fin[1] = "close" /\ fin[2] = Top
    BY <1>10 DEF Close
  <2>2. Become(Begin(m, fin, s)) /\ observers' = observers
    BY <1>7, <1>10, FinalizersDiffer
  <2>3. Become(BeginClose(m, Top, s))
    BY <2>1, <2>2 DEF Begin
  <2>4. Top # Shared /\ Rest(s, i)[Top] = finalizers[Top]
    BY <1>10, NamesAre DEF Rest, TypesFit
  <2>5. IF state[Top] = "Running" THEN TakesClosing(Shared, i, Top) ELSE Drops(Shared, i)
    BY <1>5, <1>10, <2>3, <2>4 DEF Become, BeginClose, TakesClosing, Drops
  <2>6. ClosingTop(i)
    BY <1>4, <1>10, <2>2, <2>5 DEF ClosingTop
  <2> QED
    BY <1>2, <1>10, <2>6 DEF FinalizerMoves
<1>11. CASE s \in Composed /\ \E l \in PartsOf(s) : fin = Release(l)
  BY <1>2, <1>6, <1>11, CallsAre DEF FinalizerMoves
<1>12. CASE s \in Leaves /\ fin = Free(s)
  BY <1>2, <1>9, <1>12 DEF FinalizerMoves
<1>13. CASE s = Shared /\ fin = Free(Extra)
  BY <1>2, <1>9, <1>13 DEF FinalizerMoves
<1> QED
  BY <1>2, <1>8, <1>10, <1>11, <1>12, <1>13, EntriesOf

(* Every step is one of Moves. *)
LEMMA NextIs ==
    ASSUME TypesFit, ScopesFit, EntriesFit, CallsFit, HoldersFit, LeavesFit, SharedFits,
           [Next]_vars
    PROVE  Moves
<1>1. kind' = kind
  BY DEF Next, Running, CallStep, BuildStep, Lookup, StartResource, Abandon, Return, Awaited,
         Observed, Acquire, EndLeaf, EndComposed, CallSecond, InterruptPart, Built, Left,
         RunFinalizer, EndFinalizer, Start, Interrupt, Leave, CloseShared, layerVars, vars
<1>2. fiber' \in [Builds -> Builds]
  <2>1. ASSUME NEW k \in Builds, NEW l, NEW step, NEW is, Calling(k, step, l, is)
        PROVE  fiber' \in [Builds -> Builds]
    BY <2>1 DEF Calling, TypesFit
  <2>2. ASSUME fiber' = fiber
        PROVE  fiber' \in [Builds -> Builds]
    BY <2>2 DEF TypesFit
  <2>3. Main \in Builds /\ Calls \subseteq Builds
    BY CallsAre
  <2>4. ASSUME NEW k \in Calls, StartResource(k)
        PROVE  fiber' \in [Builds -> Builds]
    BY <2>1, <2>2, <2>3, <2>4 DEF StartResource
  <2>5. ASSUME NEW k \in Builds, CallSecond(k)
        PROVE  fiber' \in [Builds -> Builds]
    BY <2>1, <2>2, <2>5 DEF CallSecond, Built
  <2>6. ASSUME Start
        PROVE  fiber' \in [Builds -> Builds]
    BY <2>1, <2>3, <2>6 DEF Start
  <2>7. ASSUME NEW k \in Calls, CallStep(k)
        PROVE  fiber' \in [Builds -> Builds]
    BY <2>2, <2>4, <2>7 DEF CallStep, Lookup, Abandon, Return, Awaited, Observed
  <2>8. ASSUME NEW k \in Builds, BuildStep(k)
        PROVE  fiber' \in [Builds -> Builds]
    BY <2>2, <2>5, <2>8 DEF BuildStep, Acquire, EndLeaf, EndComposed, InterruptPart, Built
  <2> QED
    BY <2>2, <2>3, <2>6, <2>7, <2>8
       DEF Next, Running, Left, RunFinalizer, EndFinalizer, Interrupt, Leave, CloseShared,
           layerVars, vars
<1>3. interrupted' \in SUBSET Builds
  <2>1. interrupted \in SUBSET Builds /\ Main \in Builds
    BY CallsAre DEF TypesFit
  <2>2. ASSUME NEW k \in Builds, NEW i \in {1, 2}, InterruptPart(k, i)
        PROVE  interrupted' \in SUBSET Builds
    <3>1. interrupted' = interrupted \cup {Call(LayerOf(k), i)} /\ LayerOf(k) \in Composed
      BY <2>2 DEF InterruptPart
    <3>2. Call(LayerOf(k), i) \in Builds
      BY <3>1, CallsAre
    <3> QED
      BY <2>1, <3>1, <3>2
  <2>3. ASSUME Interrupt
        PROVE  interrupted' \in SUBSET Builds
    BY <2>1, <2>3 DEF Interrupt
  <2>4. ASSUME interrupted' = interrupted
        PROVE  interrupted' \in SUBSET Builds
    BY <2>1, <2>4
  <2>5. ASSUME NEW k \in Builds, BuildStep(k)
        PROVE  interrupted' \in SUBSET Builds
    BY <2>2, <2>4, <2>5 DEF BuildStep, Acquire, EndLeaf, EndComposed, CallSecond, Built
  <2> QED
    BY <2>3, <2>4, <2>5, CallsAre
       DEF Next, Running, CallStep, Lookup, StartResource, Abandon, Return, Awaited, Observed,
           Left, RunFinalizer, EndFinalizer, Start, Leave, CloseShared, layerVars, vars
<1>4. (\E k \in Calls : CallMoves(k) \/ BuildMoves(k)) \/ FinalizerMoves \/ MainMoves
  <2>1. ASSUME NEW k \in Calls, CallStep(k)
        PROVE  \E j \in Calls : CallMoves(j) \/ BuildMoves(j)
    BY <2>1, CallStepIs
  <2>2. ASSUME NEW k \in Builds, BuildStep(k)
        PROVE  (\E j \in Calls : CallMoves(j) \/ BuildMoves(j)) \/ MainMoves
    BY <2>2, BuildStepIs
  <2>3. CASE Left
    BY <2>3 DEF Left, MainLeft, MainMoves, NoScope, Stays, NoEntry, scopeVars
  <2>4. CASE \E s \in Scopes : RunFinalizer(s)
    BY <2>4, RunFinalizerIs
  <2>5. CASE EndFinalizer
    <3>1. PICK r \in running :
            /\ r.fin[1] = "close" => Closed(r.fin[2])
            /\ running' = running \ {r}
            /\ UNCHANGED <<state, finalizers, acquired, released>>
      BY <2>5 DEF EndFinalizer, Finish
    <3>2. \A s \in Scopes : r.fin = Close(s) => Closed(s)
      BY <3>1 DEF Close
    <3>3. Finishes(r)
      BY <2>5, <3>1, <3>2 DEF EndFinalizer, Finishes, NoEntry, layerVars
    <3> QED
      BY <3>3 DEF FinalizerMoves
  <2>6. CASE Start
    <3>1. pc[Main] = "idle" /\ Become(Fork(Maps, Shared, Top, Main))
          /\ Calling(Main, "building", Top, FirstParts(Top)) /\ acquired' = acquired /\ NoEntry
      BY <2>6 DEF Start, NoEntry
    <3>2. CallsParts(Main, Top, FirstParts(Top))
      BY <3>1 DEF Calling, CallsParts
    <3>3. FirstParts(Top) \in {{1}, {1, 2}} /\ (kind[Top] # "zipWithPar" => FirstParts(Top) = {1})
      BY DEF FirstParts
    <3>4. Shared # Top /\ Shared \in Scopes /\ Top \in Scopes
      BY NamesAre
    <3>5. ~Begun(Top) /\ finalizers[Top] = <<>>
      BY <3>1, <3>4 DEF ScopesFit
    <3> DEFINE made == Make(Maps, Top)
               st == [state EXCEPT ![Top] = "Running"]
    <3>6. /\ made.state = st /\ made.finalizers = finalizers
          /\ made.running = running /\ made.released = released
      BY DEF Make, Maps
    <3>7. st[Shared] = state[Shared] /\ st[Top] = "Running"
      BY <3>4 DEF TypesFit
    <3> DEFINE two == Add(made, Shared, Close(Top), Main)
    <3>8. CASE state[Shared] = "Running"
      <4>1. /\ two.state = st
            /\ two.finalizers = [finalizers EXCEPT ![Shared] = Append(finalizers[Shared], Close(Top))]
            /\ two.running = running /\ two.released = released
        BY <3>6, <3>7, <3>8 DEF Add, Make, Maps
      <4>2. Become(Add(two, Top, Detach(Top, Shared), Main))
        BY <3>1, <3>8 DEF Fork, Maps
      <4>3. two.state[Top] = "Running" /\ two.finalizers[Top] = <<>>
        BY <3>4, <3>5, <3>7, <4>1 DEF TypesFit
      <4> HIDE DEF two, made
      <4>4. /\ state' = two.state /\ running' = two.running /\ released' = two.released
            /\ finalizers' = [two.finalizers EXCEPT ![Top] =
                                Append(two.finalizers[Top], Detach(Top, Shared))]
        BY <4>2, <4>3 DEF Become, Add
      <4>5. Append(<<>>, Detach(Top, Shared)) = <<Detach(Top, Shared)>>
        OBVIOUS
      <4>6. finalizers' = [finalizers EXCEPT ![Shared] = Append(finalizers[Shared], Close(Top)),
                                             ![Top] = <<Detach(Top, Shared)>>]
        BY <4>1, <4>3, <4>4, <4>5
      <4>7. Starts
        BY <3>1, <3>2, <3>3, <4>1, <4>4 DEF Starts
      <4>8. StartsOpen
        BY <3>8, <4>1, <4>4, <4>6, <4>7 DEF StartsOpen
      <4> QED
        BY <4>8 DEF MainMoves
    <3>9. CASE state[Shared] # "Running"
      <4>1. Become(two)
        BY <3>1, <3>9 DEF Fork, Maps
      <4>2. two = Begin(made, Close(Top), Main)
        BY <3>6, <3>7, <3>9 DEF Add
      <4>3. Close(Top)[1] = "close" /\ Close(Top)[2] = Top
        BY DEF Close
      <4>4. two = BeginClose(made, Top, Main)
        BY <4>2, <4>3 DEF Begin
      <4> HIDE DEF two
      <4>5. /\ two.state = [st EXCEPT ![Top] = "Exited"]
            /\ two.finalizers = [finalizers EXCEPT ![Top] = Reverse(finalizers[Top])]
            /\ two.running = running \cup {[fin |-> Close(Top), by |-> Main]}
            /\ two.released = released
        BY <3>6, <3>7, <4>4 DEF BeginClose, Make, Maps
      <4>6. Reverse(finalizers[Top]) = finalizers[Top]
        <5>1. finalizers[Top] \in Seq(Entries)
          BY <3>4, TypesAre
        <5>2. Reverse(finalizers[Top]) \in Seq(Entries) /\ Len(Reverse(finalizers[Top])) = 0
          BY <3>5, <5>1, Reversed
        <5>3. Reverse(finalizers[Top]) = <<>>
          BY <5>2, Members
        <5> QED
          BY <3>5, <5>3
      <4>7. finalizers' = finalizers
        BY <3>4, <4>1, <4>5, <4>6 DEF Become, TypesFit
      <4>8. state' = [state EXCEPT ![Top] = "Exited"]
        BY <3>4, <4>1, <4>5 DEF Become, TypesFit
      <4>9. running' = running \cup {[fin |-> Close(Top), by |-> Main]} /\ released' = released
        BY <4>1, <4>5 DEF Become
      <4>10. Starts
        BY <3>1, <3>2, <3>3, <4>9 DEF Starts
      <4>11. StartsClosed
        BY <3>9, <4>7, <4>8, <4>9, <4>10 DEF StartsClosed
      <4> QED
        BY <4>11 DEF MainMoves
    <3> QED
      BY <3>8, <3>9
  <2>7. CASE Interrupt
    BY <2>7 DEF Interrupt, Interrupts, MainMoves, NoScope, Stays, NoEntry, scopeVars
  <2>8. CASE Leave
    <3>1. IF state[Top] = "Running" THEN Closes(Top, Main) ELSE Stays
      BY <2>8, BeginCloseIs DEF Leave
    <3> QED
      BY <2>8, <3>1 DEF Leave, MainLeaves, MainMoves, NoEntry
  <2>9. CASE CloseShared
    <3>1. Closes(Shared, Other)
      BY <2>9, BeginCloseIs DEF CloseShared
    <3> QED
      BY <2>9, <3>1 DEF CloseShared, SharedCloses, MainMoves, NoEntry, layerVars
  <2>10. CASE UNCHANGED vars
    BY <2>10 DEF Interrupts, MainMoves, NoScope, Stays, NoEntry, vars, scopeVars, layerVars
  <2> QED
    BY <2>1, <2>2, <2>3, <2>4, <2>5, <2>6, <2>7, <2>8, <2>9, <2>10, CallsAre DEF Next, Running
<1> QED
  BY <1>1, <1>2, <1>3, <1>4 DEF Moves

-----------------------------------------------------------------------------
(* The inductive invariant.                                                *)

Fit ==
    /\ TypesFit /\ ScopesFit /\ EntriesFit /\ CallsFit /\ LeavesFit /\ SharedFits
    /\ CountsFit /\ HoldersFit /\ ExitsFit /\ SuccessesFit /\ ClosersFit /\ ForksFit
    /\ ExtraIsLast /\ LateFit /\ OrderFits

(* The types. *)
LEMMA MapsKeepTypes ==
    ASSUME TypesFit
    PROVE  /\ \A s \in Scopes : \A x \in Entries : Gets(s, x) => finalizers' \in [Scopes -> Seq(Entries)]
           /\ \A s \in Scopes : [finalizers EXCEPT ![s] = Reverse(finalizers[s])] \in [Scopes -> Seq(Entries)]
           /\ \A s \in Scopes : \A i \in 1 .. Len(finalizers[s]) : Rest(s, i) \in [Scopes -> Seq(Entries)]
<1>1. finalizers \in [Scopes -> Seq(Entries)]
  BY TypesAre DEF AreMaps
<1>2. ASSUME NEW s \in Scopes, NEW x \in Entries, Gets(s, x)
      PROVE  finalizers' \in [Scopes -> Seq(Entries)]
  <2>1. finalizers[s] \in Seq(Entries)
    BY <1>1
  <2>2. Append(finalizers[s], x) \in Seq(Entries)
    BY <2>1, Appended
  <2> QED
    BY <1>1, <1>2, <2>2 DEF Gets
<1>3. ASSUME NEW s \in Scopes
      PROVE  [finalizers EXCEPT ![s] = Reverse(finalizers[s])] \in [Scopes -> Seq(Entries)]
  <2>1. finalizers[s] \in Seq(Entries)
    BY <1>1
  <2>2. Reverse(finalizers[s]) \in Seq(Entries)
    BY <2>1, Reversed
  <2> QED
    BY <1>1, <2>2
<1>4. ASSUME NEW s \in Scopes, NEW i \in 1 .. Len(finalizers[s])
      PROVE  Rest(s, i) \in [Scopes -> Seq(Entries)]
  <2>1. finalizers[s] \in Seq(Entries)
    BY <1>1
  <2>2. RemoveAt(finalizers[s], i) \in Seq(Entries)
    BY <2>1, RemovedAt
  <2> QED
    BY <1>1, <2>2 DEF Rest
<1> QED
  BY <1>2, <1>3, <1>4

(* Finalizers that run. *)
LEMMA RunsAre ==
    /\ \A s \in Scopes : \A x \in Scopes \cup Builds \cup {Other} :
          [fin |-> Close(s), by |-> x] \in Runs
    /\ \A r \in Resources : \A x \in Scopes \cup Builds \cup {Other} :
          [fin |-> Free(r), by |-> x] \in Runs
  BY DEF Runs

(* What the release maps may become. *)
MapsTyped ==
    /\ state' \in [Scopes -> {"none", "Running", "Exited"}]
    /\ finalizers' \in [Scopes -> Seq(Entries)]
    /\ running' \in SUBSET Runs
    /\ released' \in [Resources -> Nat]

(* The types, when the release maps stay. *)
LEMMA MapsStay == ASSUME TypesFit, Stays PROVE MapsTyped
  BY DEF MapsTyped, TypesFit, Stays, Entries

(* When an entry is added. *)
LEMMA MapsGet == ASSUME TypesFit, NEW s \in Scopes, NEW x \in Entries, Gets(s, x) PROVE MapsTyped
  BY MapsKeepTypes DEF MapsTyped, TypesFit, Gets

(* When a scope begins to close. *)
LEMMA MapsClose ==
    ASSUME TypesFit, NEW s \in Scopes, NEW x \in Scopes \cup Builds \cup {Other}, Closes(s, x)
    PROVE  MapsTyped
  BY MapsKeepTypes, RunsAre DEF MapsTyped, TypesFit, Closes

(* When an entry is taken. *)
LEMMA MapsDrop ==
    ASSUME TypesFit, NEW s \in Scopes, NEW i \in 1 .. Len(finalizers[s]), Drops(s, i)
    PROVE  MapsTyped
  BY MapsKeepTypes DEF MapsTyped, TypesFit, Drops

(* When an entry is taken that begins to close another scope. *)
LEMMA MapsTakeClosing ==
    ASSUME TypesFit, NEW s \in Scopes, NEW i \in 1 .. Len(finalizers[s]), NEW l \in Scopes,
           TakesClosing(s, i, l)
    PROVE  MapsTyped
<1>1. Rest(s, i) \in [Scopes -> Seq(Entries)]
  BY MapsKeepTypes
<1>2. Reverse(finalizers[l]) \in Seq(Entries)
  <2>1. finalizers[l] \in Seq(Entries)
    BY TypesAre
  <2> QED
    BY <2>1, Reversed
<1> QED
  BY <1>1, <1>2, RunsAre DEF MapsTyped, TypesFit, TakesClosing

(* What happens to the maps in a step of Moves, at most. *)
LEMMA MapsMove ==
    ASSUME TypesFit, LeavesFit, SharedFits, ScopesFit, Moves
    PROVE  MapsTyped
<1>1. /\ Calls \subseteq Builds /\ Main \in Builds
      /\ \A k \in Calls : ScopeOf(k) \in Scopes /\ LayerOf(k) \in Scopes /\ LayerOf(k) \in Layers
      /\ Top \in Scopes /\ Shared \in Scopes /\ Layers \subseteq Scopes /\ Under \subseteq Scopes
      /\ Composed \subseteq Scopes /\ Leaves \subseteq Scopes /\ Leaves \subseteq Resources
      /\ Extra \in Resources
  BY CallsAre, NamesAre
<1>2. ASSUME NEW k \in Calls, CallMoves(k)
      PROVE  MapsTyped
  <2>1. Stays
    BY <1>2 DEF CallMoves, Begins, Finds, Abandons, LeavesUncounted, Returns, Counts, FindsWrong, NoScope
  <2> QED
    BY <2>1, MapsStay
<1>3. ASSUME NEW k \in Calls, BuildMoves(k)
      PROVE  MapsTyped
  <2>0. LayerOf(k) \in Scopes /\ ScopeOf(k) \in Scopes /\ LayerOf(k) \in Layers /\ k \in Builds
    BY <1>1
  <2>1. CASE MakesLeaf(k) \/ MakesParts(k)
    <3>1. Makes(k)
      BY <2>1 DEF MakesLeaf, MakesParts
    <3> QED
      BY <2>0, <3>1 DEF Makes, MapsTyped, TypesFit, Entries
  <2>2. ASSUME NEW n, NEW a, Adds(k, n, a)
        PROVE  MapsTyped
    <3>1. Gets(ScopeOf(k), Release(LayerOf(k))) /\ Release(LayerOf(k)) \in Entries
      BY <2>0, <2>2, EntriesAre DEF Adds
    <3> QED
      BY <2>0, <3>1, MapsGet
  <2>3. ASSUME NEW n, AddsLate(k, n)
        PROVE  MapsTyped
    <3>1. Stays \/ Closes(LayerOf(k), k)
      BY <2>3 DEF AddsLate
    <3> QED
      BY <2>0, <3>1, MapsStay, MapsClose
  <2>4. ASSUME NEW end, Fails(k, end)
        PROVE  MapsTyped
    BY <2>0, <2>4, MapsClose DEF Fails
  <2>5. CASE Acquires(k)
    <3>1. Gets(LayerOf(k), Free(LayerOf(k))) /\ Free(LayerOf(k)) \in Entries
      BY <1>1, <2>5, EntriesAre DEF Acquires
    <3> QED
      BY <2>0, <3>1, MapsGet
  <2> QED
    BY <1>3, <2>1, <2>2, <2>3, <2>4, <2>5 DEF BuildMoves
<1>4. CASE MainMoves
  <2>1. CASE StartsOpen
    <3>1. Append(finalizers[Shared], Close(Top)) \in Seq(Entries)
      <4>1. finalizers[Shared] \in Seq(Entries) /\ Close(Top) \in Entries
        BY <1>1, TypesAre, EntriesAre
      <4> QED
        BY <4>1, Appended
    <3>2. <<Detach(Top, Shared)>> \in Seq(Entries)
      <4>1. Detach(Top, Shared) \in Entries
        BY <1>1, EntriesAre
      <4> QED
        BY <4>1
    <3> QED
      BY <1>1, <2>1, <3>1, <3>2 DEF StartsOpen, Starts, MapsTyped, TypesFit, Entries
  <2>2. CASE StartsClosed
    BY <1>1, <2>2, RunsAre DEF StartsClosed, Starts, MapsTyped, TypesFit, Entries
  <2>3. CASE MainLeaves
    <3>1. Stays \/ Closes(Top, Main)
      BY <2>3 DEF MainLeaves
    <3> QED
      BY <1>1, <3>1, MapsStay, MapsClose
  <2>4. CASE SharedCloses
    BY <1>1, <2>4, MapsClose DEF SharedCloses
  <2>5. CASE Interrupts \/ (\E a \in Ends : MainEnds(a)) \/ MainLeft \/ (\E k \in Builds : CallsNext(k))
    <3>1. Stays
      BY <2>5 DEF Interrupts, MainEnds, MainLeft, CallsNext, NoScope
    <3> QED
      BY <3>1, MapsStay
  <2> QED
    BY <1>4, <2>1, <2>2, <2>3, <2>4, <2>5 DEF MainMoves
<1>5. CASE FinalizerMoves
  <2>1. ASSUME NEW s \in Composed, NEW l \in Under, NEW i, Releasing(s, i, l)
        PROVE  MapsTyped
    <3>1. i \in 1 .. Len(finalizers[s]) /\ s \in Scopes /\ l \in Scopes
          /\ (TakesClosing(s, i, l) \/ Drops(s, i))
      BY <1>1, <2>1 DEF Releasing, Takes
    <3> QED
      BY <3>1, MapsTakeClosing, MapsDrop
  <2>2. ASSUME NEW i, ClosingTop(i)
        PROVE  MapsTyped
    <3>1. i \in 1 .. Len(finalizers[Shared])
          /\ (TakesClosing(Shared, i, Top) \/ Drops(Shared, i))
      BY <1>1, <2>2 DEF ClosingTop, Takes
    <3> QED
      BY <1>1, <3>1, MapsTakeClosing, MapsDrop
  <2>3. ASSUME NEW i, Detaching(i)
        PROVE  MapsTyped
    <3>1. i \in 1 .. Len(finalizers[Top]) /\ Rest(Top, i) \in [Scopes -> Seq(Entries)]
      BY <1>1, <2>3, MapsKeepTypes DEF Detaching, Takes
    <3>2. state[Shared] = "Running" => RemoveFirst(finalizers[Shared], Close(Top)) \in Seq(Entries)
      <4> SUFFICES ASSUME state[Shared] = "Running"
                   PROVE  RemoveFirst(finalizers[Shared], Close(Top)) \in Seq(Entries)
        OBVIOUS
      <4>1. finalizers[Shared] \in {<<Free(Extra)>>, <<Free(Extra), Close(Top)>>}
        BY DEF SharedFits
      <4>2. RemoveFirst(finalizers[Shared], Close(Top)) = <<Free(Extra)>>
        <5>1. Free(Extra) # Close(Top)
          BY FinalizersDiffer
        <5> QED
          BY <4>1, <5>1, LastRemoved
      <4>3. Free(Extra) \in Entries
        BY <1>1, EntriesAre
      <4> QED
        BY <4>2, <4>3
    <3> QED
      BY <1>1, <2>3, <3>1, <3>2 DEF Detaching, MapsTyped, TypesFit
  <2>4. ASSUME NEW s \in Scopes, NEW i, NEW r \in Resources, Freeing(s, i, r)
        PROVE  MapsTyped
    <3>1. i \in 1 .. Len(finalizers[s]) /\ Rest(s, i) \in [Scopes -> Seq(Entries)]
      BY <1>1, <2>4, MapsKeepTypes DEF Freeing, Takes
    <3> QED
      BY <2>4, <3>1, RunsAre DEF Freeing, MapsTyped, TypesFit
  <2>5. ASSUME NEW r, Finishes(r)
        PROVE  MapsTyped
    BY <2>5 DEF Finishes, MapsTyped, TypesFit, Entries
  <2> QED
    BY <1>1, <1>5, <2>1, <2>2, <2>3, <2>4, <2>5 DEF FinalizerMoves
<1> QED
  BY <1>2, <1>3, <1>4, <1>5 DEF Moves

(* Where a step takes a call. *)
LEMMA GoesIs ==
    ASSUME TypesFit, NEW k \in Builds, NEW step, Goes(k, step)
    PROVE  pc'[k] = step /\ \A j \in Builds : j # k => pc'[j] = pc[j]
  BY DEF Goes, TypesFit

(* The observers of a layer, counted. *)
LEMMA CountsAre ==
    ASSUME TypesFit, CountsFit
    PROVE  /\ \A l \in Layers :
                 /\ Number(finalizers, l) \in Nat /\ Cardinality(Watching(pc, l)) \in Nat
                 /\ l \notin miscounted =>
                       observers[l] = Number(finalizers, l) + Cardinality(Watching(pc, l))
                 /\ l \in miscounted =>
                       observers[l] > Number(finalizers, l) + Cardinality(Watching(pc, l))
           /\ \A k \in Calls : pc[k] = "observed" => Cardinality(Watching(pc, LayerOf(k))) >= 1
           /\ \A l \in Layers : \A s \in Scopes :
                 Release(l) \in ToSet(finalizers[s]) => Number(finalizers, l) >= 1
<1>1. ASSUME NEW l \in Layers
      PROVE  /\ Number(finalizers, l) \in Nat /\ Cardinality(Watching(pc, l)) \in Nat
             /\ IsFiniteSet(Watching(pc, l))
  <2>1. Number(finalizers, l) \in Nat
    BY TypesAre, PlacesFinite
  <2>2. Watching(pc, l) \in SUBSET Calls
    BY DEF Watching
  <2>3. IsFiniteSet(Watching(pc, l))
    BY <2>2, CallsFinite, FS_Subset
  <2> QED
    BY <2>1, <2>3, FS_CardinalityType
<1>2. ASSUME NEW l \in Layers
      PROVE  /\ l \notin miscounted =>
                    observers[l] = Number(finalizers, l) + Cardinality(Watching(pc, l))
             /\ l \in miscounted =>
                    observers[l] > Number(finalizers, l) + Cardinality(Watching(pc, l))
  <2>1. Releases(l) = Places(finalizers, l) /\ Observing(l) = Watching(pc, l)
    BY ReleasesArePlaces, ObservingIsWatching
  <2> QED
    BY <2>1 DEF CountsFit, Number
<1>3. ASSUME NEW k \in Calls, pc[k] = "observed"
      PROVE  Cardinality(Watching(pc, LayerOf(k))) >= 1
  <2>1. k \in Watching(pc, LayerOf(k)) /\ LayerOf(k) \in Layers
    BY <1>3, CallsAre, NamesAre DEF Watching
  <2>2. Cardinality(Watching(pc, LayerOf(k))) # 0
    BY <1>1, <2>1, FS_EmptySet
  <2> QED
    BY <1>1, <2>1, <2>2
<1>4. ASSUME NEW l \in Layers, NEW s \in Scopes, Release(l) \in ToSet(finalizers[s])
      PROVE  Number(finalizers, l) >= 1
  <2>1. Number(finalizers, l) # 0
    BY <1>4, TypesAre, NumberZero
  <2> QED
    BY <1>1, <2>1
<1> QED
  BY <1>1, <1>2, <1>3, <1>4

(* An entry that is taken, or was counted, has an observer. *)
LEMMA ObserversAre ==
    ASSUME TypesFit, CountsFit
    PROVE  /\ \A k \in Calls : pc[k] = "observed" => observers[LayerOf(k)] >= 1
           /\ \A l \in Layers : \A s \in Scopes : \A i \in 1 .. Len(finalizers[s]) :
                 finalizers[s][i] = Release(l) => observers[l] >= 1
<1>1. ASSUME NEW k \in Calls, pc[k] = "observed"
      PROVE  observers[LayerOf(k)] >= 1
  <2> DEFINE l == LayerOf(k)
  <2>1. /\ l \in Layers
        /\ Number(finalizers, l) \in Nat /\ Cardinality(Watching(pc, l)) \in Nat
        /\ Cardinality(Watching(pc, l)) >= 1
        /\ l \notin miscounted => observers[l] = Number(finalizers, l) + Cardinality(Watching(pc, l))
        /\ l \in miscounted => observers[l] > Number(finalizers, l) + Cardinality(Watching(pc, l))
        /\ observers[l] \in Nat
    BY <1>1, CountsAre, CallsAre, NamesAre DEF TypesFit
  <2> HIDE DEF l
  <2>2. observers[l] >= 1
    BY <2>1
  <2> QED
    BY <2>2 DEF l
<1>2. ASSUME NEW l \in Layers, NEW s \in Scopes, NEW i \in 1 .. Len(finalizers[s]),
             finalizers[s][i] = Release(l)
      PROVE  observers[l] >= 1
  <2>1. finalizers[s] \in Seq(Entries)
    BY TypesAre
  <2>2. Release(l) \in ToSet(finalizers[s])
    BY <1>2, <2>1, Members
  <2>3. /\ Number(finalizers, l) \in Nat /\ Cardinality(Watching(pc, l)) \in Nat
        /\ Number(finalizers, l) >= 1
        /\ l \notin miscounted => observers[l] = Number(finalizers, l) + Cardinality(Watching(pc, l))
        /\ l \in miscounted => observers[l] > Number(finalizers, l) + Cardinality(Watching(pc, l))
        /\ observers[l] \in Nat
    BY <2>2, CountsAre DEF TypesFit
  <2> QED
    BY <2>3
<1> QED
  BY <1>1, <1>2

(* The types of the entries and the calls. *)
EntriesTyped ==
    /\ acquired' \in [Resources -> Nat]
    /\ memo' \in [Layers -> {"absent", "pending"} \cup Ends]
    /\ observers' \in [Layers -> Nat]
    /\ builder' \in [Layers -> Builds]
    /\ pc' \in [Builds -> Steps]
    /\ miscounted' \in SUBSET Layers

(* Every step keeps the types. *)
LEMMA TypesStep ==
    ASSUME Fit, Moves
    PROVE  TypesFit'
<1> USE DEF Fit
<1>1. MapsTyped
  BY MapsMove
<1>2. /\ Calls \subseteq Builds /\ Main \in Builds
      /\ \A k \in Calls : LayerOf(k) \in Layers
      /\ Top \in Scopes /\ Shared \in Scopes /\ Composed \subseteq Scopes /\ Under \subseteq Layers
      /\ Leaves \subseteq Resources
  BY CallsAre, NamesAre
<1>3. /\ acquired \in [Resources -> Nat]
      /\ memo \in [Layers -> {"absent", "pending"} \cup Ends]
      /\ observers \in [Layers -> Nat]
      /\ builder \in [Layers -> Builds]
      /\ pc \in [Builds -> Steps]
      /\ miscounted \in SUBSET Layers
  BY DEF TypesFit
<1>4. ASSUME NEW k \in Builds, NEW l, NEW is, CallsParts(k, l, is)
      PROVE  pc' \in [Builds -> Steps]
  BY <1>3, <1>4 DEF CallsParts, Steps
<1>5. ASSUME NEW k \in Builds, NEW step \in Steps, Goes(k, step)
      PROVE  pc' \in [Builds -> Steps]
  BY <1>3, <1>5 DEF Goes
<1>6. ASSUME NEW k \in Calls, CallMoves(k)
      PROVE  EntriesTyped
  <2>1. LayerOf(k) \in Layers /\ k \in Builds
    BY <1>2
  <2>2. \E step \in Steps : Goes(k, step)
    BY <1>6 DEF CallMoves, Begins, Finds, Abandons, LeavesUncounted, Returns, Counts, FindsWrong,
                Steps, Ends, Wrong
  <2>3. pc' \in [Builds -> Steps]
    BY <1>5, <2>1, <2>2
  <2>4. acquired' = acquired
    BY <1>6 DEF CallMoves, Begins, Finds, Abandons, LeavesUncounted, Returns, Counts, FindsWrong,
                NoScope
  <2>5. memo' \in [Layers -> {"absent", "pending"} \cup Ends] /\ builder' \in [Layers -> Builds]
    BY <1>3, <1>6, <2>1
       DEF CallMoves, Begins, Finds, Abandons, LeavesUncounted, Returns, Counts, FindsWrong,
           NoEntry, Ends
  <2>6. observers' \in [Layers -> Nat] /\ miscounted' \in SUBSET Layers
    BY <1>3, <1>6, <2>1
       DEF CallMoves, Begins, Finds, Abandons, LeavesUncounted, Returns, Counts, FindsWrong, NoEntry
  <2> QED
    BY <1>3, <2>3, <2>4, <2>5, <2>6 DEF EntriesTyped
<1>7. ASSUME NEW k \in Calls, BuildMoves(k)
      PROVE  EntriesTyped
  <2>1. LayerOf(k) \in Layers /\ k \in Builds
    BY <1>2
  <2>2. CASE MakesParts(k)
    BY <1>3, <1>4, <2>1, <2>2 DEF MakesParts, Makes, NoEntry, EntriesTyped
  <2>3. CASE MakesLeaf(k) \/ Acquires(k)
    <3>1. \E step \in Steps : Goes(k, step)
      BY <2>3 DEF MakesLeaf, Acquires, Steps
    <3>2. pc' \in [Builds -> Steps]
      BY <1>5, <2>1, <3>1
    <3>3. acquired' \in [Resources -> Nat] /\ NoEntry
      BY <1>2, <1>3, <2>3 DEF MakesLeaf, Makes, Acquires
    <3> QED
      BY <1>3, <3>2, <3>3 DEF NoEntry, EntriesTyped
  <2>4. ASSUME NEW end \in Wrong, Fails(k, end)
        PROVE  EntriesTyped
    <3>1. pc' \in [Builds -> Steps]
      BY <1>5, <2>1, <2>4 DEF Fails, Steps
    <3> QED
      BY <1>3, <2>1, <2>4, <3>1 DEF Fails, Wrong, Ends, EntriesTyped
  <2>5. ASSUME NEW n, Comes(k, n)
        PROVE  n \in Nat /\ n - 1 \in Nat
    <3>1. observers[LayerOf(k)] \in Nat
      BY <1>3, <2>1
    <3>2. pc[k] = "observed" => observers[LayerOf(k)] >= 1
      BY ObserversAre
    <3> QED
      BY <2>5, <3>1, <3>2 DEF Comes
  <2>6. ASSUME NEW n, NEW a \in {"ok", "interrupted"}, Adds(k, n, a)
        PROVE  EntriesTyped
    <3>1. pc' \in [Builds -> Steps]
      <4>1. Goes(k, a) /\ a \in Steps
        BY <2>6 DEF Adds, Steps, Ends
      <4> QED
        BY <1>5, <2>1, <4>1
    <3>2. n \in Nat
      BY <2>5, <2>6 DEF Adds
    <3> QED
      BY <1>3, <2>1, <2>6, <3>1, <3>2 DEF Adds, Ends, EntriesTyped
  <2>7. ASSUME NEW n, AddsLate(k, n)
        PROVE  EntriesTyped
    <3>1. pc' \in [Builds -> Steps]
      BY <1>5, <2>1, <2>7 DEF AddsLate, Steps
    <3>2. n - 1 \in Nat
      BY <2>5, <2>7 DEF AddsLate
    <3> QED
      BY <1>3, <2>1, <2>7, <3>1, <3>2 DEF AddsLate, EntriesTyped
  <2> QED
    BY <1>7, <2>2, <2>3, <2>4, <2>6, <2>7 DEF BuildMoves
<1>8. ASSUME MainMoves
      PROVE  EntriesTyped
  <2>1. pc' \in [Builds -> Steps]
    <3>1. CASE StartsOpen \/ StartsClosed \/ \E k \in Builds : CallsNext(k)
      BY <1>2, <1>4, <3>1 DEF StartsOpen, StartsClosed, Starts, CallsNext
    <3>2. CASE (\E a \in Ends : MainEnds(a)) \/ MainLeaves \/ MainLeft
      <4>1. \E step \in Steps : Goes(Main, step)
        BY <3>2 DEF MainEnds, MainLeaves, MainLeft, Steps
      <4> QED
        BY <1>2, <1>5, <4>1
    <3>3. CASE Interrupts \/ SharedCloses
      BY <1>3, <3>3 DEF Interrupts, SharedCloses
    <3> QED
      BY <1>8, <3>1, <3>2, <3>3 DEF MainMoves
  <2>2. NoEntry /\ acquired' = acquired
    BY <1>8 DEF MainMoves, StartsOpen, StartsClosed, Starts, CallsNext, MainEnds, MainLeaves,
                MainLeft, Interrupts, SharedCloses, NoScope
  <2> QED
    BY <1>3, <2>1, <2>2 DEF NoEntry, EntriesTyped
<1>9. ASSUME FinalizerMoves
      PROVE  EntriesTyped
  <2>1. acquired' = acquired /\ UNCHANGED <<memo, builder, pc, miscounted>>
    BY <1>9 DEF FinalizerMoves, Releasing, ClosingTop, Detaching, Freeing, Finishes, Takes, NoEntry
  <2>2. observers' \in [Layers -> Nat]
    <3>1. ASSUME NEW s \in Composed, NEW l \in Under, NEW i, Releasing(s, i, l)
          PROVE  observers' \in [Layers -> Nat]
      <4>1. s \in Scopes /\ l \in Layers /\ i \in 1 .. Len(finalizers[s])
            /\ finalizers[s][i] = Release(l)
        BY <1>2, <3>1 DEF Releasing, Takes
      <4>2. observers[l] >= 1 /\ observers[l] \in Nat
        BY <1>3, <4>1, ObserversAre
      <4> QED
        BY <1>3, <3>1, <4>1, <4>2 DEF Releasing
    <3>2. CASE observers' = observers
      BY <1>3, <3>2
    <3> QED
      BY <1>9, <3>1, <3>2 DEF FinalizerMoves, ClosingTop, Detaching, Freeing, Finishes, NoEntry
  <2> QED
    BY <1>3, <2>1, <2>2 DEF EntriesTyped
<1>10. EntriesTyped
  BY <1>6, <1>7, <1>8, <1>9 DEF Moves
<1>11. kind' \in Kinds /\ fiber' \in [Builds -> Builds] /\ interrupted' \in SUBSET Builds
  BY DEF Moves, TypesFit
<1> QED
  BY <1>1, <1>10, <1>11 DEF MapsTyped, EntriesTyped, TypesFit, Entries

-----------------------------------------------------------------------------
(* Entries and calls.                                                      *)

(* The resource of a call makes a scope that is not there. *)
LEMMA ResourcesAreNew ==
    ASSUME ScopesFit, EntriesFit, NEW k \in Calls, pc[k] = "resource"
    PROVE  ~Begun(LayerOf(k)) /\ memo[LayerOf(k)] = "pending" /\ builder[LayerOf(k)] = k
<1>1. LayerOf(k) \in Under /\ LayerOf(k) \in Layers
  BY CallsAre, NamesAre
<1>2. memo[LayerOf(k)] # "absent" /\ builder[LayerOf(k)] = k
  BY DEF EntriesFit, CallFits
<1> QED
  BY <1>1, <1>2 DEF EntriesFit, EntryFits, ScopesFit

(* What may become of the state of a scope. *)
LEMMA StatesMove ==
    ASSUME TypesFit, ScopesFit, EntriesFit, Moves, NEW s \in Scopes
    PROVE  /\ state[s] = "Exited" => state'[s] = "Exited"
           /\ state[s] = "Running" => state'[s] \in {"Running", "Exited"}
           /\ state[s] = "none" /\ state'[s] # "none" =>
                 \/ s = Top /\ (StartsOpen \/ StartsClosed)
                 \/ state'[s] = "Running" /\ \E k \in Calls : LayerOf(k) = s /\ (MakesLeaf(k) \/ MakesParts(k))
           /\ state[s] = "Running" /\ state'[s] = "Exited" /\ s \in Under =>
                 \/ \E k \in Calls : LayerOf(k) = s /\ \E end \in Wrong : Fails(k, end)
                 \/ \E k \in Calls : LayerOf(k) = s /\ AddsLate(k, 1)
                 \/ \E c \in Composed : \E i \in DOMAIN finalizers[c] :
                       Releasing(c, i, s) /\ observers[s] = 1
<1> DEFINE Good ==
           /\ state[s] = "Exited" => state'[s] = "Exited"
           /\ state[s] = "Running" => state'[s] \in {"Running", "Exited"}
           /\ state[s] = "none" /\ state'[s] # "none" =>
                 \/ s = Top /\ (StartsOpen \/ StartsClosed)
                 \/ state'[s] = "Running" /\ \E k \in Calls : LayerOf(k) = s /\ (MakesLeaf(k) \/ MakesParts(k))
           /\ state[s] = "Running" /\ state'[s] = "Exited" /\ s \in Under =>
                 \/ \E k \in Calls : LayerOf(k) = s /\ \E end \in Wrong : Fails(k, end)
                 \/ \E k \in Calls : LayerOf(k) = s /\ AddsLate(k, 1)
                 \/ \E c \in Composed : \E i \in DOMAIN finalizers[c] :
                       Releasing(c, i, s) /\ observers[s] = 1
<1>0. /\ state \in [Scopes -> {"none", "Running", "Exited"}]
      /\ \A k \in Calls : LayerOf(k) \in Under /\ LayerOf(k) \in Scopes
      /\ Top \in Scopes /\ Shared \in Scopes /\ Shared # Top
      /\ Top \notin Under /\ Shared \notin Under /\ Under \subseteq Scopes
  BY CallsAre, NamesAre DEF TypesFit
<1>1. ASSUME state' = state
      PROVE  Good
  BY <1>0, <1>1
<1>2. ASSUME NEW l, NEW by, Closes(l, by)
      PROVE  state[l] = "Running" /\ state' = [state EXCEPT ![l] = "Exited"]
  BY <1>2 DEF Closes
<1>3. ASSUME NEW l \in Scopes, state[l] = "Running", state' = [state EXCEPT ![l] = "Exited"],
             l = s /\ s \in Under =>
                 \/ \E k \in Calls : LayerOf(k) = s /\ \E end \in Wrong : Fails(k, end)
                 \/ \E k \in Calls : LayerOf(k) = s /\ AddsLate(k, 1)
                 \/ \E c \in Composed : \E i \in DOMAIN finalizers[c] :
                       Releasing(c, i, s) /\ observers[s] = 1
      PROVE  Good
  BY <1>0, <1>3
<1>4. ASSUME NEW k \in Calls, CallMoves(k)
      PROVE  Good
  <2>1. state' = state
    BY <1>4 DEF CallMoves, Begins, Finds, Abandons, LeavesUncounted, Returns, Counts, FindsWrong,
                NoScope, Stays
  <2> QED
    BY <1>1, <2>1
<1>5. ASSUME NEW k \in Calls, BuildMoves(k)
      PROVE  Good
  <2>0. LayerOf(k) \in Scopes
    BY <1>0
  <2>1. CASE MakesLeaf(k) \/ MakesParts(k)
    <3>0. Makes(k)
      BY <2>1 DEF MakesLeaf, MakesParts
    <3>1. state[LayerOf(k)] = "none"
      BY <3>0, ResourcesAreNew DEF Makes, Begun
    <3>2. state' = [state EXCEPT ![LayerOf(k)] = "Running"]
      BY <3>0 DEF Makes
    <3> QED
      BY <1>0, <2>0, <2>1, <3>1, <3>2
  <2>2. ASSUME NEW n, NEW a, Adds(k, n, a)
        PROVE  Good
    BY <1>1, <2>2 DEF Adds, Gets
  <2>3. ASSUME NEW n, AddsLate(k, n)
        PROVE  Good
    <3>1. (n = 1 /\ Closes(LayerOf(k), k)) \/ state' = state
      BY <2>3 DEF AddsLate, Stays
    <3>2. n = 1 => AddsLate(k, 1)
      BY <2>3
    <3> QED
      BY <1>1, <1>2, <1>3, <2>0, <3>1, <3>2
  <2>4. ASSUME NEW end \in Wrong, Fails(k, end)
        PROVE  Good
    <3>1. Closes(LayerOf(k), k)
      BY <2>4 DEF Fails
    <3> QED
      BY <1>2, <1>3, <2>0, <2>4, <3>1
  <2>5. CASE Acquires(k)
    BY <1>1, <2>5 DEF Acquires, Gets
  <2> QED
    BY <1>5, <2>1, <2>2, <2>3, <2>4, <2>5 DEF BuildMoves
<1>6. ASSUME MainMoves
      PROVE  Good
  <2>1. CASE StartsOpen \/ StartsClosed
    <3>1. state[Top] = "none"
      <4>1. pc[Main] = "idle"
        BY <2>1 DEF StartsOpen, StartsClosed, Starts
      <4> QED
        BY <4>1 DEF ScopesFit, Begun
    <3>2. state' = [state EXCEPT ![Top] = "Running"] \/ state' = [state EXCEPT ![Top] = "Exited"]
      BY <2>1 DEF StartsOpen, StartsClosed
    <3> QED
      BY <1>0, <2>1, <3>1, <3>2
  <2>2. CASE MainLeaves
    <3>1. Closes(Top, Main) \/ state' = state
      BY <2>2 DEF MainLeaves, Stays
    <3> QED
      BY <1>0, <1>1, <1>2, <1>3, <3>1
  <2>3. CASE SharedCloses
    <3>1. Closes(Shared, Other)
      BY <2>3 DEF SharedCloses
    <3> QED
      BY <1>0, <1>2, <1>3, <3>1
  <2>4. CASE Interrupts \/ (\E a \in Ends : MainEnds(a)) \/ MainLeft \/ (\E k \in Builds : CallsNext(k))
    <3>1. state' = state
      BY <2>4 DEF Interrupts, MainEnds, MainLeft, CallsNext, NoScope, Stays
    <3> QED
      BY <1>1, <3>1
  <2> QED
    BY <1>6, <2>1, <2>2, <2>3, <2>4 DEF MainMoves
<1>7. ASSUME FinalizerMoves
      PROVE  Good
  <2>1. ASSUME NEW c \in Composed, NEW l \in Under, NEW i \in DOMAIN finalizers[c], Releasing(c, i, l)
        PROVE  Good
    <3>1. CASE observers[l] = 1 /\ state[l] = "Running"
      <4>1. state[l] = "Running" /\ state' = [state EXCEPT ![l] = "Exited"]
        BY <2>1, <3>1 DEF Releasing, TakesClosing
      <4> QED
        BY <1>0, <1>3, <2>1, <3>1, <4>1
    <3>2. CASE ~(observers[l] = 1 /\ state[l] = "Running")
      <4>1. state' = state
        BY <2>1, <3>2 DEF Releasing, Drops
      <4> QED
        BY <1>1, <4>1
    <3> QED
      BY <3>1, <3>2
  <2>2. ASSUME NEW i, ClosingTop(i)
        PROVE  Good
    <3>1. state' = state \/ (state[Top] = "Running" /\ state' = [state EXCEPT ![Top] = "Exited"])
      BY <2>2 DEF ClosingTop, TakesClosing, Drops
    <3> QED
      BY <1>0, <1>1, <1>3, <3>1
  <2>3. ASSUME NEW i, NEW c, NEW r, Detaching(i) \/ Freeing(c, i, r) \/ Finishes(r)
        PROVE  Good
    <3>1. state' = state
      BY <2>3 DEF Detaching, Freeing, Finishes
    <3> QED
      BY <1>1, <3>1
  <2> QED
    BY <1>7, <2>1, <2>2, <2>3 DEF FinalizerMoves
<1>8. Good
  BY <1>4, <1>5, <1>6, <1>7 DEF Moves
<1> QED
  BY <1>8

(* Entries and calls that a step leaves alone. *)
LEMMA EntryKept ==
    ASSUME TypesFit, ScopesFit, EntriesFit, Moves, NEW l \in Layers,
           memo'[l] = memo[l], observers'[l] = observers[l], builder'[l] = builder[l],
           l \in miscounted' => l \in miscounted,
           memo[l] # "absent" => pc'[builder[l]] = pc[builder[l]],
           \A k \in Calls : LayerOf(k) = l /\ pc[k] = "interrupted" => pc'[k] = "interrupted"
    PROVE  EntryFits(l)'
<1>1. l \in Scopes
  BY NamesAre
<1>4. memo[l] = "pending" /\ pc[builder[l]] = "interrupted" => state'[l] = state[l]
  <2> SUFFICES ASSUME memo[l] = "pending", pc[builder[l]] = "interrupted"
               PROVE  state'[l] = state[l]
    OBVIOUS
  <2>1. state[l] = "none" /\ builder[l] \in Calls /\ LayerOf(builder[l]) = l
    BY DEF EntriesFit, EntryFits, Begun
  <2>2. l # Top
    BY <2>1, CallsAre, NamesAre
  <2>3. \A k \in Calls : LayerOf(k) = l => ~MakesLeaf(k) /\ ~MakesParts(k)
    BY ResourcesAreNew DEF MakesLeaf, MakesParts, Makes
  <2> QED
    BY <1>1, <2>1, <2>2, <2>3, StatesMove
<1>2. state[l] = "Exited" => state'[l] = "Exited"
  BY <1>1, StatesMove
<1>3. EntryFits(l)
  BY DEF EntriesFit
<1> QED
  BY <1>2, <1>3, <1>4 DEF EntryFits, Finished, Begun

(* A call that does not move, as long as its layer keeps its entry. *)
LEMMA CallKept ==
    ASSUME TypesFit, EntriesFit, NEW k \in Calls, pc'[k] = pc[k],
           LET l == LayerOf(k) IN
           /\ memo[l] # "absent" => memo'[l] # "absent" /\ builder'[l] = builder[l]
           /\ memo[l] \in Ends => memo'[l] = memo[l]
           /\ builder[l] = k => memo'[l] = memo[l]
    PROVE  CallFits(k)'
<1>1. CallFits(k)
  BY DEF EntriesFit
<1> QED
  BY <1>1 DEF CallFits, Ends, Wrong

(* A call moves, and may call others: the entries of other layers, and the *)
(* calls that do not move.                                                 *)
CallGoes(k) ==
    /\ k \in Calls /\ pc[k] # "interrupted"
    /\ \A j \in Builds : j # k =>
          pc'[j] = pc[j] \/ (j \in Calls /\ pc[j] = "idle" /\ pc'[j] = "called")
    /\ \A l \in Layers : l # LayerOf(k) =>
          /\ memo'[l] = memo[l] /\ observers'[l] = observers[l] /\ builder'[l] = builder[l]
          /\ l \in miscounted' => l \in miscounted

(* A call moves: the other entries and calls stay as they should be. *)
LEMMA OthersKept ==
    ASSUME TypesFit, ScopesFit, EntriesFit, Moves, NEW k, CallGoes(k),
           LET l == LayerOf(k) IN
           /\ memo[l] # "absent" => memo'[l] # "absent" /\ builder'[l] = builder[l]
           /\ memo[l] \in Ends => memo'[l] = memo[l]
           /\ memo[l] # "absent" /\ builder[l] # k => memo'[l] = memo[l]
    PROVE  /\ \A l \in Layers : l # LayerOf(k) => EntryFits(l)'
           /\ \A j \in Calls : j # k => CallFits(j)'
           /\ MainFits'
<1>1. ASSUME NEW l \in Layers, l # LayerOf(k)
      PROVE  EntryFits(l)'
  <2>1. /\ memo'[l] = memo[l] /\ observers'[l] = observers[l] /\ builder'[l] = builder[l]
        /\ l \in miscounted' => l \in miscounted
    BY <1>1 DEF CallGoes
  <2>2. memo[l] # "absent" => pc'[builder[l]] = pc[builder[l]]
    <3> SUFFICES ASSUME memo[l] # "absent"
                 PROVE  pc'[builder[l]] = pc[builder[l]]
      OBVIOUS
    <3>1. builder[l] \in Calls /\ LayerOf(builder[l]) = l /\ pc[builder[l]] # "idle"
      BY DEF EntriesFit, EntryFits, Ends
    <3> QED
      BY <1>1, <3>1, CallsAre DEF CallGoes
  <2>3. \A j \in Calls : LayerOf(j) = l /\ pc[j] = "interrupted" => pc'[j] = "interrupted"
    BY <1>1, CallsAre DEF CallGoes
  <2> QED
    BY <2>1, <2>2, <2>3, EntryKept
<1>2. ASSUME NEW j \in Calls, j # k
      PROVE  CallFits(j)'
  <2>1. CASE pc'[j] = pc[j]
    <3> DEFINE l == LayerOf(j)
    <3>1. l \in Layers
      BY CallsAre, NamesAre
    <3>2. CASE l # LayerOf(k)
      BY <2>1, <3>1, <3>2, CallKept DEF CallGoes
    <3>3. CASE l = LayerOf(k)
      <4>1. CallFits(j)
        BY DEF EntriesFit
      <4>2. /\ memo[l] # "absent" => memo'[l] # "absent" /\ builder'[l] = builder[l]
            /\ memo[l] \in Ends => memo'[l] = memo[l]
            /\ memo[l] # "absent" /\ builder[l] = j => memo'[l] = memo[l]
        BY <1>2, <3>3
      <4> HIDE DEF l
      <4> QED
        BY <2>1, <4>1, <4>2 DEF CallFits, Ends, Wrong, l
    <3> QED
      BY <3>2, <3>3
  <2>2. CASE pc'[j] = "called"
    BY <2>2 DEF CallFits
  <2> QED
    BY <1>2, <2>1, <2>2, CallsAre DEF CallGoes
<1>3. MainFits'
  <2>1. MainFits /\ Main # k
    BY CallsAre DEF CallGoes, EntriesFit
  <2>2. pc'[Main] = pc[Main]
    BY <2>1, CallsAre DEF CallGoes
  <2> QED
    BY <2>1, <2>2 DEF MainFits
<1> QED
  BY <1>1, <1>2, <1>3


(* The calls of the parts of a layer that calls them were idle. *)
LEMMA PartsCalled ==
    ASSUME TypesFit, ScopesFit, EntriesFit, CallsFit, NEW k \in Builds, NEW l, NEW is,
           \/ MakesParts(k) /\ k \in Calls /\ l = LayerOf(k) /\ is \in {{1}, {1, 2}}
           \/ Starts /\ k = Main /\ l = Top /\ is \in {{1}, {1, 2}}
           \/ CallsNext(k) /\ l = LayerOf(k) /\ is = {2},
           CallsParts(k, l, is)
    PROVE  /\ l \in Composed /\ pc'[k] = "building"
           /\ \A j \in Builds : j # k =>
                 pc'[j] = pc[j] \/ (j \in Calls /\ ScopeOf(j) = l /\ pc[j] = "idle" /\ pc'[j] = "called")
<1>1. l \in Composed
  BY NamesAre DEF MakesParts, CallsNext
<1>2. \A i \in is : i \in {1, 2} /\ Call(l, i) \in Calls /\ ScopeOf(Call(l, i)) = l
  BY <1>1, CallsAre
<1>3. \A i \in is : pc[Call(l, i)] = "idle"
  <2>1. CASE MakesParts(k) /\ k \in Calls /\ l = LayerOf(k)
    <3>1. pc[k] = "resource"
      BY <2>1 DEF MakesParts, Makes
    <3>2. ~Begun(l)
      BY <2>1, <3>1, ResourcesAreNew
    <3> QED
      BY <1>2, <3>2 DEF CallsFit
  <2>2. CASE Starts /\ l = Top
    <3>1. ~Begun(Top)
      BY <2>2 DEF Starts, ScopesFit
    <3> QED
      BY <1>2, <2>2, <3>1 DEF CallsFit
  <2>3. CASE CallsNext(k) /\ l = LayerOf(k) /\ is = {2}
    BY <2>3 DEF CallsNext
  <2> QED
    BY <2>1, <2>2, <2>3
<1>4. pc'[k] = "building"
  BY DEF CallsParts
<1>5. ASSUME NEW j \in Builds, j # k
      PROVE  pc'[j] = pc[j] \/ (j \in Calls /\ ScopeOf(j) = l /\ pc[j] = "idle" /\ pc'[j] = "called")
  <2>1. CASE j \in {Call(l, i) : i \in is}
    <3>1. j \in Calls /\ ScopeOf(j) = l /\ pc[j] = "idle"
      BY <1>2, <1>3, <2>1
    <3>2. pc'[j] = "called"
      BY <1>5, <2>1 DEF CallsParts
    <3> QED
      BY <3>1, <3>2
  <2>2. CASE j \notin {Call(l, i) : i \in is}
    BY <1>5, <2>2 DEF CallsParts
  <2> QED
    BY <2>1, <2>2
<1> QED
  BY <1>1, <1>4, <1>5

(* The entry of the layer of a call that moves, and the call. *)
LEMMA CallEntryStep ==
    ASSUME Fit, Moves, NEW k \in Calls, CallMoves(k)
    PROVE  EntriesFit'
<1> USE DEF Fit
<1> DEFINE l == LayerOf(k)
<1>1. l \in Layers /\ l \in Under /\ l \in Scopes /\ k \in Builds
  BY CallsAre, NamesAre
<1>2. EntryFits(l) /\ CallFits(k)
  BY <1>1 DEF EntriesFit
<1>3. TypesFit
  OBVIOUS
<1>4. \E step : Goes(k, step)
  BY DEF CallMoves, Begins, Finds, Abandons, LeavesUncounted, Returns, Counts, FindsWrong
<1>5. \A j \in Builds : j # k => pc'[j] = pc[j]
  BY <1>1, <1>4, GoesIs
<1>6. pc[k] # "interrupted"
  BY DEF CallMoves, Begins, Finds, Abandons, LeavesUncounted, Returns, Counts, FindsWrong
<1>7. \A x \in Layers : x # l =>
          /\ memo'[x] = memo[x] /\ observers'[x] = observers[x] /\ builder'[x] = builder[x]
          /\ x \in miscounted' => x \in miscounted
  <2>1. \/ memo' = memo
        \/ memo' = [memo EXCEPT ![l] = "pending"]
        \/ memo' = [memo EXCEPT ![l] = IF pc[k] = "adding" THEN "ok" ELSE memo[l]]
    BY DEF CallMoves, Begins, Finds, Abandons, LeavesUncounted, Returns, Counts, FindsWrong, NoEntry
  <2>2. observers' = observers \/ observers' = [observers EXCEPT ![l] = observers[l] + 1]
    BY DEF CallMoves, Begins, Finds, Abandons, LeavesUncounted, Returns, Counts, FindsWrong, NoEntry
  <2>3. builder' = builder \/ builder' = [builder EXCEPT ![l] = k]
    BY DEF CallMoves, Begins, Finds, Abandons, LeavesUncounted, Returns, Counts, FindsWrong, NoEntry
  <2>4. miscounted' = miscounted \/ miscounted' = miscounted \cup {l}
    BY DEF CallMoves, Begins, Finds, Abandons, LeavesUncounted, Returns, Counts, FindsWrong, NoEntry
  <2> QED
    BY <2>1, <2>2, <2>3, <2>4 DEF TypesFit
<1>8. CallGoes(k)
  BY <1>5, <1>6, <1>7 DEF CallGoes
<1>9. memo[l] \in {"absent", "pending"} \cup Ends
  BY <1>1 DEF TypesFit
<1>10. state' = state
  BY DEF CallMoves, Begins, Finds, Abandons, LeavesUncounted, Returns, Counts, FindsWrong, NoScope, Stays
<1>11. ASSUME EntryFits(l)', CallFits(k)',
              /\ memo[l] # "absent" => memo'[l] # "absent" /\ builder'[l] = builder[l]
              /\ memo[l] \in Ends => memo'[l] = memo[l]
              /\ memo[l] # "absent" /\ builder[l] # k => memo'[l] = memo[l]
       PROVE  EntriesFit'
  <2>1. /\ \A x \in Layers : x # l => EntryFits(x)'
        /\ \A j \in Calls : j # k => CallFits(j)'
        /\ MainFits'
    BY <1>8, <1>11, OthersKept
  <2>2. \A x \in Layers : EntryFits(x)'
    BY <1>11, <2>1
  <2>3. \A j \in Calls : CallFits(j)'
    BY <1>11, <2>1
  <2> QED
    BY <2>1, <2>2, <2>3 DEF EntriesFit
<1>12. /\ builder[l] = k \/ pc'[builder[l]] = pc[builder[l]] \/ memo[l] = "absent"
       /\ k # Main
  BY <1>2, <1>5, CallsAre DEF EntryFits
<1>13. CASE Begins(k)
  <2>1. /\ pc'[k] = "resource" /\ memo'[l] = "pending" /\ builder'[l] = k
        /\ observers'[l] = observers[l] /\ miscounted' = miscounted /\ memo[l] = "absent"
    BY <1>1, <1>13, GoesIs DEF Begins, TypesFit
  <2>2. EntryFits(l)'
    BY <1>1, <1>2, <2>1 DEF EntryFits, Finished, Begun, Ends, Wrong
  <2>3. CallFits(k)'
    BY <1>1, <2>1 DEF CallFits
  <2> QED
    BY <1>11, <2>1, <2>2, <2>3 DEF Ends
<1>14. CASE Finds(k)
  <2>1. /\ pc'[k] = "awaiting" /\ memo' = memo /\ builder' = builder /\ pc[k] = "called"
        /\ observers' = observers /\ miscounted' = miscounted /\ memo[l] # "absent"
    BY <1>1, <1>14, GoesIs DEF Finds, NoEntry
  <2>2. EntryFits(l)'
    <3>1. pc'[builder[l]] = pc[builder[l]]
      BY <1>2, <1>12, <2>1 DEF EntryFits, Ends
    <3>2. \A j \in Calls : pc[j] = "interrupted" => pc'[j] = "interrupted"
      BY <1>5, <1>6, CallsAre
    <3> QED
      BY <1>1, <1>2, <1>10, <2>1, <3>1, <3>2 DEF EntryFits, Finished, Begun
  <2>3. CallFits(k)'
    BY <1>1, <2>1 DEF CallFits
  <2> QED
    BY <1>11, <2>1, <2>2, <2>3
<1>15. CASE Abandons(k)
  <2>1. /\ pc'[k] = "interrupted" /\ memo' = memo /\ builder' = builder
        /\ pc[k] \in {"called", "resource", "awaiting"}
        /\ observers' = observers /\ miscounted' = miscounted
    BY <1>1, <1>15, GoesIs DEF Abandons, NoEntry
  <2>2. EntryFits(l)'
    <3>2. \A j \in Calls : pc[j] = "interrupted" => pc'[j] = "interrupted"
      BY <1>5, <1>6, CallsAre
    <3>3. CASE pc[k] = "resource"
      <4>1. ~Begun(l) /\ memo[l] = "pending" /\ builder[l] = k
        BY <3>3, ResourcesAreNew
      <4> QED
        BY <1>1, <1>2, <1>10, <2>1, <3>2, <3>3, <4>1 DEF EntryFits, Finished, Begun, Ends, Wrong
    <3>4. CASE pc[k] # "resource"
      <4>1. memo[l] # "absent" => pc'[builder[l]] = pc[builder[l]]
        BY <1>2, <1>12, <2>1, <3>4 DEF EntryFits, Ends
      <4> QED
        BY <1>1, <1>2, <1>10, <2>1, <3>2, <4>1 DEF EntryFits, Finished, Begun
    <3> QED
      BY <3>3, <3>4
  <2>3. CallFits(k)'
    BY <1>1, <2>1 DEF CallFits
  <2> QED
    BY <1>11, <2>1, <2>2, <2>3
<1>16. CASE LeavesUncounted(k)
  <2>1. /\ pc'[k] = "interrupted" /\ memo' = memo /\ builder' = builder /\ pc[k] = "observed"
        /\ observers' = observers /\ memo[l] = "ok"
    BY <1>1, <1>2, <1>16, GoesIs DEF LeavesUncounted, CallFits
  <2>2. EntryFits(l)'
    <3>1. pc'[builder[l]] = pc[builder[l]]
      BY <1>2, <1>12, <2>1 DEF EntryFits, Ends
    <3> QED
      BY <1>1, <1>2, <1>10, <2>1, <3>1 DEF EntryFits, Finished, Begun
  <2>3. CallFits(k)'
    BY <1>1, <2>1 DEF CallFits
  <2> QED
    BY <1>11, <2>1, <2>2, <2>3
<1>17. ASSUME NEW a \in Ends, Returns(k, a)
       PROVE  EntriesFit'
  <2>1. /\ pc'[k] = a /\ memo'[l] = (IF pc[k] = "adding" THEN "ok" ELSE memo[l])
        /\ builder' = builder /\ pc[k] \in {"adding", "closing"}
        /\ observers' = observers /\ miscounted' = miscounted
        /\ a = "ok" => memo'[l] = "ok"
    BY <1>1, <1>17, GoesIs DEF Returns, TypesFit
  <2>2. EntryFits(l)'
    <3>2. \A j \in Calls : pc[j] = "interrupted" => pc'[j] = "interrupted"
      BY <1>5, <1>6, CallsAre
    <3>3. CASE builder[l] = k
      BY <1>1, <1>2, <1>10, <1>17, <2>1, <3>2, <3>3
         DEF EntryFits, CallFits, Finished, Begun, Ends, Wrong
    <3>4. CASE builder[l] # k
      <4>1. memo'[l] = memo[l] /\ memo[l] \in Ends
        BY <1>2, <2>1, <3>4 DEF CallFits, Ends, Wrong
      <4>2. pc'[builder[l]] = pc[builder[l]]
        BY <1>12, <3>4, <4>1 DEF Ends
      <4> QED
        BY <1>1, <1>2, <1>10, <2>1, <3>2, <4>1, <4>2 DEF EntryFits, Finished, Begun
    <3> QED
      BY <3>3, <3>4
  <2>3. CallFits(k)'
    BY <1>1, <1>17, <2>1 DEF CallFits, Ends
  <2>4. /\ memo[l] # "absent" => memo'[l] # "absent" /\ builder'[l] = builder[l]
        /\ memo[l] \in Ends => memo'[l] = memo[l]
        /\ memo[l] # "absent" /\ builder[l] # k => memo'[l] = memo[l]
    BY <1>2, <2>1 DEF CallFits, Ends, Wrong
  <2> QED
    BY <1>11, <2>2, <2>3, <2>4
<1>18. CASE Counts(k)
  <2>1. /\ pc'[k] = "observed" /\ memo' = memo /\ builder' = builder /\ pc[k] = "awaiting"
        /\ miscounted' = miscounted /\ memo[l] = "ok"
    BY <1>1, <1>18, GoesIs DEF Counts
  <2>2. EntryFits(l)'
    <3>1. pc'[builder[l]] = pc[builder[l]]
      BY <1>2, <1>12, <2>1 DEF EntryFits, Ends
    <3>2. \A j \in Calls : pc[j] = "interrupted" => pc'[j] = "interrupted"
      BY <1>5, <1>6, CallsAre
    <3> QED
      BY <1>1, <1>2, <1>10, <2>1, <3>1, <3>2 DEF EntryFits, Finished, Begun
  <2>3. CallFits(k)'
    BY <1>1, <2>1 DEF CallFits
  <2> QED
    BY <1>11, <2>1, <2>2, <2>3
<1>19. CASE FindsWrong(k)
  <2>1. /\ pc'[k] = memo[l] /\ memo' = memo /\ builder' = builder /\ pc[k] = "awaiting"
        /\ observers' = observers /\ miscounted' = miscounted /\ memo[l] \in Wrong
    BY <1>1, <1>19, GoesIs DEF FindsWrong, NoEntry
  <2>2. EntryFits(l)'
    <3>1. pc'[builder[l]] = pc[builder[l]]
      BY <1>2, <1>12, <2>1 DEF EntryFits, Ends, Wrong
    <3>2. \A j \in Calls : pc[j] = "interrupted" => pc'[j] = "interrupted"
      BY <1>5, <1>6, CallsAre
    <3> QED
      BY <1>1, <1>2, <1>10, <2>1, <3>1, <3>2 DEF EntryFits, Finished, Begun
  <2>3. CallFits(k)'
    BY <1>1, <2>1 DEF CallFits, Wrong
  <2> QED
    BY <1>11, <2>1, <2>2, <2>3
<1> QED
  BY <1>13, <1>14, <1>15, <1>16, <1>17, <1>18, <1>19 DEF CallMoves

(* A step of a call that changes scopes keeps entries and calls in order. *)
LEMMA BuildEntryStep ==
    ASSUME Fit, Moves, NEW k \in Calls, BuildMoves(k)
    PROVE  EntriesFit'
<1> USE DEF Fit
<1> DEFINE l == LayerOf(k)
<1>1. l \in Layers /\ l \in Under /\ l \in Scopes /\ k \in Builds /\ k # Main
  BY CallsAre, NamesAre
<1>2. EntryFits(l) /\ CallFits(k)
  BY <1>1 DEF EntriesFit
<1>3. pc[k] \in {"resource", "building", "acquired", "observed"}
  BY DEF BuildMoves, MakesLeaf, MakesParts, Makes, Adds, AddsLate, Comes, Fails, Acquires
<1>4. memo[l] # "absent" /\ (builder[l] = k \/ pc[k] = "observed")
  BY <1>2, <1>3 DEF CallFits
<1>5. state[l] = "Exited" => state'[l] = "Exited"
  BY <1>1, StatesMove
<1>6. ASSUME \A j \in Builds : j # k =>
                pc'[j] = pc[j] \/ (j \in Calls /\ pc[j] = "idle" /\ pc'[j] = "called"),
             \A x \in Layers : x # l => memo'[x] = memo[x] /\ observers'[x] = observers[x],
             builder' = builder, miscounted' = miscounted,
             EntryFits(l)', CallFits(k)',
             /\ memo[l] # "absent" => memo'[l] # "absent"
             /\ memo[l] \in Ends => memo'[l] = memo[l]
             /\ memo[l] # "absent" /\ builder[l] # k => memo'[l] = memo[l]
      PROVE  EntriesFit'
  <2>1. CallGoes(k)
    BY <1>3, <1>6 DEF CallGoes
  <2>2. /\ \A x \in Layers : x # l => EntryFits(x)'
        /\ \A j \in Calls : j # k => CallFits(j)'
        /\ MainFits'
    BY <1>6, <2>1, OthersKept
  <2>3. \A x \in Layers : EntryFits(x)'
    BY <1>6, <2>2
  <2>4. \A j \in Calls : CallFits(j)'
    BY <1>6, <2>2
  <2> QED
    BY <2>2, <2>3, <2>4 DEF EntriesFit
<1>7. ASSUME \A j \in Builds : j # k =>
                pc'[j] = pc[j] \/ (j \in Calls /\ pc[j] = "idle" /\ pc'[j] = "called")
      PROVE  /\ builder[l] # k => pc'[builder[l]] = pc[builder[l]]
             /\ \A j \in Calls : pc[j] = "interrupted" => pc'[j] = "interrupted"
  <2>1. builder[l] \in Calls /\ pc[builder[l]] # "idle"
    BY <1>2, <1>4 DEF EntryFits, Ends
  <2> QED
    BY <1>3, <1>7, <2>1, CallsAre
<1>8. ASSUME NEW step, Goes(k, step)
      PROVE  /\ \A j \in Builds : j # k =>
                   pc'[j] = pc[j] \/ (j \in Calls /\ pc[j] = "idle" /\ pc'[j] = "called")
             /\ pc'[k] = step
  BY <1>1, <1>8, GoesIs
<1>9. CASE MakesLeaf(k) \/ MakesParts(k)
  <2>1. /\ state'[l] = "Running" /\ pc[k] = "resource" /\ NoEntry
    BY <1>1, <1>9 DEF MakesLeaf, MakesParts, Makes, TypesFit
  <2>2. /\ \A j \in Builds : j # k =>
              pc'[j] = pc[j] \/ (j \in Calls /\ pc[j] = "idle" /\ pc'[j] = "called")
        /\ pc'[k] = "building"
    <3>1. CASE MakesLeaf(k)
      BY <1>8, <3>1 DEF MakesLeaf
    <3>2. CASE MakesParts(k)
      <4>1. PICK is \in {{1}, {1, 2}} : CallsParts(k, l, is)
        BY <3>2 DEF MakesParts
      <4> QED
        BY <1>1, <3>2, <4>1, PartsCalled
    <3> QED
      BY <1>9, <3>1, <3>2
  <2>3. memo[l] = "pending" /\ builder[l] = k
    BY <2>1, ResourcesAreNew
  <2>4. EntryFits(l)'
    BY <1>1, <1>2, <1>7, <2>1, <2>2, <2>3 DEF NoEntry, EntryFits, Finished, Begun, Wrong, Ends
  <2>5. CallFits(k)'
    BY <1>1, <2>1, <2>2, <2>3 DEF NoEntry, CallFits
  <2> QED
    BY <1>6, <2>1, <2>2, <2>4, <2>5 DEF NoEntry
<1>10. ASSUME NEW n, NEW a \in {"ok", "interrupted"}, Adds(k, n, a)
       PROVE  EntriesFit'
  <2>1. /\ memo'[l] = "ok" /\ builder' = builder /\ miscounted' = miscounted
        /\ state' = state /\ pc[k] \in {"building", "acquired", "observed"}
        /\ \A x \in Layers : x # l => memo'[x] = memo[x] /\ observers'[x] = observers[x]
        /\ Goes(k, a)
    BY <1>1, <1>10 DEF Adds, Gets, Comes, TypesFit
  <2>2. /\ \A j \in Builds : j # k =>
              pc'[j] = pc[j] \/ (j \in Calls /\ pc[j] = "idle" /\ pc'[j] = "called")
        /\ pc'[k] = a
    BY <1>8, <2>1
  <2>3. EntryFits(l)'
    <3>1. CASE builder[l] = k
      BY <1>1, <1>2, <1>7, <1>10, <2>1, <2>2, <3>1 DEF EntryFits, CallFits, Finished, Begun, Wrong, Ends
    <3>2. CASE builder[l] # k
      BY <1>1, <1>2, <1>4, <1>7, <1>10, <2>1, <2>2, <3>2
         DEF EntryFits, CallFits, Finished, Begun, Wrong, Ends
    <3> QED
      BY <3>1, <3>2
  <2>4. CallFits(k)'
    BY <1>1, <1>10, <2>1, <2>2 DEF CallFits
  <2>5. /\ memo[l] \in Ends => memo'[l] = memo[l]
        /\ memo[l] # "absent" /\ builder[l] # k => memo'[l] = memo[l]
    BY <1>2, <1>4, <2>1 DEF CallFits, EntryFits, Ends
  <2> QED
    BY <1>6, <2>1, <2>2, <2>3, <2>4, <2>5
<1>11. ASSUME NEW n, AddsLate(k, n)
       PROVE  EntriesFit'
  <2>1. /\ memo' = memo /\ builder' = builder /\ miscounted' = miscounted
        /\ pc[k] \in {"building", "acquired", "observed"}
        /\ \A x \in Layers : x # l => observers'[x] = observers[x]
        /\ Goes(k, "adding")
    BY <1>1, <1>11 DEF AddsLate, Comes, TypesFit
  <2>2. /\ \A j \in Builds : j # k =>
              pc'[j] = pc[j] \/ (j \in Calls /\ pc[j] = "idle" /\ pc'[j] = "called")
        /\ pc'[k] = "adding"
    BY <1>8, <2>1
  <2>3. EntryFits(l)'
    <3>1. CASE builder[l] = k
      BY <1>1, <1>2, <1>5, <1>7, <2>1, <2>2, <3>1
         DEF EntryFits, CallFits, Finished, Begun, Wrong, Ends
    <3>2. CASE builder[l] # k
      BY <1>1, <1>2, <1>4, <1>5, <1>7, <2>1, <2>2, <3>2
         DEF EntryFits, CallFits, Finished, Begun, Wrong, Ends
    <3> QED
      BY <3>1, <3>2
  <2>4. CallFits(k)'
    BY <1>1, <1>2, <1>4, <2>1, <2>2 DEF CallFits, EntryFits
  <2> QED
    BY <1>6, <2>1, <2>2, <2>3, <2>4
<1>12. ASSUME NEW end \in Wrong, Fails(k, end)
       PROVE  EntriesFit'
  <2>1. /\ memo'[l] = end /\ builder' = builder /\ miscounted' = miscounted
        /\ pc[k] \in {"building", "acquired"} /\ state'[l] = "Exited" /\ observers' = observers
        /\ \A x \in Layers : x # l => memo'[x] = memo[x]
        /\ Goes(k, "closing")
    BY <1>1, <1>12 DEF Fails, Closes, TypesFit
  <2>2. /\ \A j \in Builds : j # k =>
              pc'[j] = pc[j] \/ (j \in Calls /\ pc[j] = "idle" /\ pc'[j] = "called")
        /\ pc'[k] = "closing"
    BY <1>8, <2>1
  <2>3. builder[l] = k /\ memo[l] = "pending" /\ l \notin miscounted /\ observers[l] = 0
    BY <1>2, <1>4, <2>1 DEF EntryFits, Finished
  <2>4. EntryFits(l)'
    BY <1>1, <1>2, <1>12, <2>1, <2>2, <2>3 DEF EntryFits, Finished, Begun, Wrong, Ends
  <2>5. CallFits(k)'
    BY <1>1, <1>12, <2>1, <2>2, <2>3 DEF CallFits, Wrong
  <2>6. memo'[l] # "absent" /\ memo[l] \notin Ends
    BY <1>12, <2>1, <2>3 DEF Wrong, Ends
  <2> QED
    BY <1>6, <2>1, <2>2, <2>3, <2>4, <2>5, <2>6
<1>13. CASE Acquires(k)
  <2>1. NoEntry /\ pc[k] = "building" /\ state' = state /\ Goes(k, "acquired")
    BY <1>13 DEF Acquires, Gets
  <2>2. /\ \A j \in Builds : j # k =>
              pc'[j] = pc[j] \/ (j \in Calls /\ pc[j] = "idle" /\ pc'[j] = "called")
        /\ pc'[k] = "acquired"
    BY <1>8, <2>1
  <2>3. builder[l] = k
    BY <1>4, <2>1
  <2>4. EntryFits(l)'
    BY <1>1, <1>2, <1>7, <2>1, <2>2, <2>3 DEF NoEntry, EntryFits, Finished, Begun, Wrong, Ends
  <2>5. CallFits(k)'
    BY <1>1, <1>4, <2>1, <2>2, <2>3 DEF NoEntry, CallFits
  <2> QED
    BY <1>6, <2>1, <2>2, <2>4, <2>5 DEF NoEntry
<1> QED
  BY <1>9, <1>10, <1>11, <1>12, <1>13 DEF BuildMoves

(* Steps in which no call moves, though some may be called. *)
LEMMA QuietEntryStep ==
    ASSUME Fit, Moves,
           \A j \in Calls : pc'[j] = pc[j] \/ (pc[j] = "idle" /\ pc'[j] = "called"),
           UNCHANGED <<memo, builder, miscounted>>, MainFits',
           \A l \in Layers : Finished(l) \/ observers'[l] = observers[l]
    PROVE  EntriesFit'
<1> USE DEF Fit
<1>1. ASSUME NEW l \in Layers
      PROVE  EntryFits(l)'
  <2>1. memo[l] # "absent" => builder[l] \in Calls /\ pc'[builder[l]] = pc[builder[l]]
    BY DEF EntriesFit, EntryFits, Ends
  <2>2. \A k \in Calls : LayerOf(k) = l /\ pc[k] = "interrupted" => pc'[k] = "interrupted"
    OBVIOUS
  <2>3. CASE observers'[l] = observers[l]
    BY <2>1, <2>2, <2>3, EntryKept
  <2>4. CASE Finished(l)
    <3>1. EntryFits(l)
      BY DEF EntriesFit
    <3>2. state[l] = "Exited" => state'[l] = "Exited"
      BY NamesAre, StatesMove
    <3>3. Finished(l)'
      BY <2>1, <2>4 DEF Finished
    <3> QED
      BY <2>1, <2>2, <2>4, <3>1, <3>2, <3>3 DEF EntryFits, Finished
  <2> QED
    BY <2>3, <2>4
<1>2. ASSUME NEW k \in Calls
      PROVE  CallFits(k)'
  <2>1. CallFits(k)
    BY DEF EntriesFit
  <2> QED
    BY <2>1 DEF CallFits
<1> QED
  BY <1>1, <1>2 DEF EntriesFit

(* Every step keeps entries and calls in order. *)
LEMMA EntriesStep ==
    ASSUME Fit, Moves
    PROVE  EntriesFit'
<1> USE DEF Fit
<1>1. MainFits /\ Main \in Builds
  BY CallsAre DEF EntriesFit
<1>2. ASSUME MainMoves
      PROVE  EntriesFit'
  <2>1. NoEntry
    BY <1>2 DEF MainMoves, StartsOpen, StartsClosed, Starts, CallsNext, MainEnds, MainLeaves,
                MainLeft, Interrupts, SharedCloses
  <2>2. ASSUME NEW step, Goes(Main, step), step \in {"closing", "left"} \cup Ends
        PROVE  EntriesFit'
    <3>1. pc'[Main] = step /\ \A j \in Calls : pc'[j] = pc[j]
      BY <1>1, <2>2, GoesIs, CallsAre
    <3>2. MainFits'
      BY <2>2, <3>1 DEF MainFits
    <3> QED
      BY <2>1, <3>1, <3>2, QuietEntryStep DEF NoEntry
  <2>3. CASE (\E a \in Ends : MainEnds(a)) \/ MainLeaves \/ MainLeft
    BY <2>2, <2>3 DEF MainEnds, MainLeaves, MainLeft
  <2>4. CASE Interrupts \/ SharedCloses
    <3>1. pc' = pc /\ MainFits'
      BY <1>1, <2>4 DEF Interrupts, SharedCloses, MainFits
    <3> QED
      BY <2>1, <3>1, QuietEntryStep DEF NoEntry
  <2>5. CASE StartsOpen \/ StartsClosed
    <3>1. PICK is \in {{1}, {1, 2}} : CallsParts(Main, Top, is)
      BY <2>5 DEF StartsOpen, StartsClosed, Starts
    <3>2. Starts
      BY <2>5 DEF StartsOpen, StartsClosed
    <3>3. /\ pc'[Main] = "building"
          /\ \A j \in Builds : j # Main =>
                pc'[j] = pc[j] \/ (j \in Calls /\ ScopeOf(j) = Top /\ pc[j] = "idle" /\ pc'[j] = "called")
      BY <1>1, <3>1, <3>2, PartsCalled
    <3>4. MainFits' /\ \A j \in Calls : pc'[j] = pc[j] \/ (pc[j] = "idle" /\ pc'[j] = "called")
      BY <3>3, CallsAre DEF MainFits
    <3> QED
      BY <2>1, <3>4, QuietEntryStep DEF NoEntry
  <2>6. ASSUME NEW k \in Builds, CallsNext(k)
        PROVE  EntriesFit'
    <3>1. CallsParts(k, LayerOf(k), {2}) /\ pc[k] = "building"
      BY <2>6 DEF CallsNext
    <3>2. /\ pc'[k] = "building"
          /\ \A j \in Builds : j # k =>
                pc'[j] = pc[j] \/ (j \in Calls /\ pc[j] = "idle" /\ pc'[j] = "called")
      BY <2>6, <3>1, PartsCalled
    <3>3. MainFits' /\ \A j \in Calls : pc'[j] = pc[j] \/ (pc[j] = "idle" /\ pc'[j] = "called")
      BY <1>1, <3>1, <3>2, CallsAre DEF MainFits
    <3> QED
      BY <2>1, <3>3, QuietEntryStep DEF NoEntry
  <2> QED
    BY <1>2, <2>3, <2>4, <2>5, <2>6 DEF MainMoves
<1>3. ASSUME FinalizerMoves
      PROVE  EntriesFit'
  <2>1. UNCHANGED <<memo, builder, pc, miscounted>>
    BY <1>3 DEF FinalizerMoves, Releasing, ClosingTop, Detaching, Freeing, Finishes, Takes, NoEntry
  <2>2. MainFits'
    BY <1>1, <2>1 DEF MainFits
  <2>3. ASSUME NEW x \in Layers
        PROVE  Finished(x) \/ observers'[x] = observers[x]
    <3>1. ASSUME NEW s \in Composed, NEW l \in Under, NEW i, Releasing(s, i, l)
          PROVE  Finished(x) \/ observers'[x] = observers[x]
      <4>1. s \in Scopes /\ l \in Layers /\ i \in 1 .. Len(finalizers[s])
            /\ finalizers[s][i] = Release(l)
        BY <3>1, NamesAre DEF Releasing, Takes
      <4>2. observers[l] >= 1
        BY <4>1, ObserversAre
      <4>3. Finished(l)
        BY <4>1, <4>2 DEF EntriesFit, EntryFits
      <4>4. observers' = [observers EXCEPT ![l] = observers[l] - 1]
        BY <3>1 DEF Releasing
      <4> QED
        BY <4>1, <4>3, <4>4 DEF TypesFit
    <3>2. CASE observers' = observers
      BY <3>2
    <3> QED
      BY <1>3, <3>1, <3>2 DEF FinalizerMoves, ClosingTop, Detaching, Freeing, Finishes, NoEntry
  <2> QED
    BY <2>1, <2>2, <2>3, QuietEntryStep
<1> QED
  BY <1>2, <1>3, CallEntryStep, BuildEntryStep DEF Moves

-----------------------------------------------------------------------------
(* Release maps.                                                           *)

(* What may become of the entries of a scope. *)
IsGiven(s, x) ==
    \/ \E k \in Calls : ScopeOf(k) = s /\ x = Release(LayerOf(k)) /\ \E n, a : Adds(k, n, a)
    \/ \E k \in Calls : LayerOf(k) = s /\ s \in Leaves /\ x = Free(s) /\ Acquires(k)
    \/ s = Shared /\ x = Close(Top) /\ StartsOpen
IsTaken(s, i) ==
    \/ \E l \in Under : s \in Composed /\ Releasing(s, i, l)
    \/ s = Shared /\ (ClosingTop(i) \/ Freeing(Shared, i, Extra))
    \/ s = Top /\ Detaching(i)
    \/ s \in Leaves /\ Freeing(s, i, s)

EntriesStay(s) == finalizers'[s] = finalizers[s] /\ (state'[s] = state[s] \/ state[s] = "none")
EntriesGrow(s) ==
    /\ state[s] = "Running" /\ state'[s] = "Running"
    /\ \E x \in Entries : finalizers'[s] = Append(finalizers[s], x) /\ IsGiven(s, x)
EntriesTurn(s) ==
    /\ state[s] = "Running" /\ state'[s] = "Exited"
    /\ finalizers'[s] = Reverse(finalizers[s])
    /\ \E x : [fin |-> Close(s), by |-> x] \in running'
EntriesShrink(s) ==
    /\ state[s] = "Exited" /\ state'[s] = "Exited"
    /\ \E i \in 1 .. Len(finalizers[s]) :
          finalizers'[s] = RemoveAt(finalizers[s], i) /\ IsTaken(s, i)
EntriesStart(s) == s = Top /\ StartsOpen /\ finalizers'[s] = <<Detach(Top, Shared)>>
EntriesLose(s) ==
    /\ s = Shared /\ state[s] = "Running" /\ state'[s] = "Running"
    /\ finalizers'[s] = RemoveFirst(finalizers[s], Close(Top))
    /\ \E i \in 1 .. Len(finalizers[Top]) : Detaching(i)
EntriesMove(s) ==
    \/ EntriesStay(s) \/ EntriesGrow(s) \/ EntriesTurn(s) \/ EntriesShrink(s)
    \/ EntriesStart(s) \/ EntriesLose(s)

(* What becomes of the map of one scope, when the release maps stay. *)
LEMMA StaysMove == ASSUME Stays, NEW s PROVE EntriesMove(s)
  BY DEF Stays, EntriesMove, EntriesStay

(* When a scope gets an entry. *)
LEMMA GetsMove ==
    ASSUME TypesFit, NEW c \in Scopes, NEW x \in Entries, Gets(c, x), IsGiven(c, x), NEW s \in Scopes
    PROVE  EntriesMove(s)
  BY DEF TypesFit, Gets, EntriesMove, EntriesStay, EntriesGrow

(* When a scope begins to close. *)
LEMMA ClosesMove ==
    ASSUME TypesFit, NEW c \in Scopes, NEW by, Closes(c, by), NEW s \in Scopes
    PROVE  EntriesMove(s)
<1>1. CASE s = c
  BY <1>1 DEF TypesFit, Closes, EntriesMove, EntriesTurn
<1>2. CASE s # c
  BY <1>2 DEF TypesFit, Closes, EntriesMove, EntriesStay
<1> QED
  BY <1>1, <1>2

(* When an entry is taken. *)
LEMMA DropsMove ==
    ASSUME TypesFit, NEW c \in Scopes, NEW i \in 1 .. Len(finalizers[c]), state[c] = "Exited",
           Drops(c, i), IsTaken(c, i), NEW s \in Scopes
    PROVE  EntriesMove(s)
<1>1. CASE s = c
  BY <1>1 DEF TypesFit, Drops, Rest, EntriesMove, EntriesShrink
<1>2. CASE s # c
  BY <1>2 DEF TypesFit, Drops, Rest, EntriesMove, EntriesStay
<1> QED
  BY <1>1, <1>2

(* When an entry is taken that begins to close another scope. *)
LEMMA TakesClosingMove ==
    ASSUME TypesFit, NEW c \in Scopes, NEW i \in 1 .. Len(finalizers[c]), state[c] = "Exited",
           NEW l \in Scopes, TakesClosing(c, i, l), IsTaken(c, i), NEW s \in Scopes
    PROVE  EntriesMove(s)
<1>1. CASE s = c
  BY <1>1 DEF TypesFit, TakesClosing, Rest, EntriesMove, EntriesShrink
<1>2. CASE s = l
  BY <1>2 DEF TypesFit, TakesClosing, Rest, EntriesMove, EntriesTurn
<1>3. CASE s # c /\ s # l
  BY <1>3 DEF TypesFit, TakesClosing, Rest, EntriesMove, EntriesStay
<1> QED
  BY <1>1, <1>2, <1>3

(* What a step makes of the map of a scope. *)
LEMMA FinalizersMove ==
    ASSUME TypesFit, ScopesFit, EntriesFit, Moves, NEW s \in Scopes
    PROVE  EntriesMove(s)
<1>1. /\ Calls \subseteq Builds /\ Main \in Builds
      /\ \A k \in Calls : ScopeOf(k) \in Scopes /\ LayerOf(k) \in Scopes /\ LayerOf(k) \in Layers
      /\ Top \in Scopes /\ Shared \in Scopes /\ Shared # Top /\ Under \subseteq Scopes
      /\ Composed \subseteq Scopes /\ Leaves \subseteq Scopes /\ Leaves \subseteq Resources
      /\ Extra \in Resources
  BY CallsAre, NamesAre
<1>2. ASSUME NEW k \in Calls, CallMoves(k)
      PROVE  EntriesMove(s)
  <2>1. Stays
    BY <1>2 DEF CallMoves, Begins, Finds, Abandons, LeavesUncounted, Returns, Counts, FindsWrong, NoScope
  <2> QED
    BY <2>1, StaysMove
<1>3. ASSUME NEW k \in Calls, BuildMoves(k)
      PROVE  EntriesMove(s)
  <2>0. LayerOf(k) \in Scopes /\ ScopeOf(k) \in Scopes /\ LayerOf(k) \in Layers /\ k \in Builds
    BY <1>1
  <2>1. CASE MakesLeaf(k) \/ MakesParts(k)
    <3>1. Makes(k)
      BY <2>1 DEF MakesLeaf, MakesParts
    <3>2. state[LayerOf(k)] = "none"
      BY <3>1, ResourcesAreNew DEF Makes, Begun
    <3> QED
      BY <2>0, <3>1, <3>2 DEF Makes, TypesFit, EntriesMove, EntriesStay
  <2>2. ASSUME NEW n, NEW a, Adds(k, n, a)
        PROVE  EntriesMove(s)
    <3>1. Gets(ScopeOf(k), Release(LayerOf(k))) /\ Release(LayerOf(k)) \in Entries
      BY <2>0, <2>2, EntriesAre DEF Adds
    <3>2. IsGiven(ScopeOf(k), Release(LayerOf(k)))
      BY <2>2 DEF IsGiven
    <3> QED
      BY <2>0, <3>1, <3>2, GetsMove
  <2>3. ASSUME NEW n, AddsLate(k, n)
        PROVE  EntriesMove(s)
    <3>1. Stays \/ Closes(LayerOf(k), k)
      BY <2>3 DEF AddsLate
    <3> QED
      BY <2>0, <3>1, StaysMove, ClosesMove
  <2>4. ASSUME NEW end, Fails(k, end)
        PROVE  EntriesMove(s)
    BY <2>0, <2>4, ClosesMove DEF Fails
  <2>5. CASE Acquires(k)
    <3>1. Gets(LayerOf(k), Free(LayerOf(k))) /\ Free(LayerOf(k)) \in Entries
      BY <1>1, <2>5, EntriesAre DEF Acquires
    <3>2. IsGiven(LayerOf(k), Free(LayerOf(k)))
      BY <2>5 DEF IsGiven, Acquires
    <3> QED
      BY <2>0, <3>1, <3>2, GetsMove
  <2> QED
    BY <1>3, <2>1, <2>2, <2>3, <2>4, <2>5 DEF BuildMoves
<1>4. ASSUME MainMoves
      PROVE  EntriesMove(s)
  <2>0. pc[Main] = "idle" => state[Top] = "none"
    BY DEF ScopesFit, Begun
  <2>1. CASE StartsOpen
    <3>1. state[Top] = "none" /\ state[Shared] = "Running"
      BY <2>0, <2>1 DEF StartsOpen, Starts
    <3>2. CASE s = Top
      BY <1>1, <2>1, <3>2 DEF StartsOpen, TypesFit, EntriesMove, EntriesStart
    <3>3. CASE s = Shared
      <4>1. IsGiven(Shared, Close(Top)) /\ Close(Top) \in Entries
        BY <1>1, <2>1, EntriesAre DEF IsGiven
      <4>2. finalizers'[Shared] = Append(finalizers[Shared], Close(Top)) /\ state'[Shared] = "Running"
        BY <1>1, <2>1, <3>1 DEF StartsOpen, TypesFit
      <4> QED
        BY <3>1, <3>3, <4>1, <4>2 DEF EntriesMove, EntriesGrow
    <3>4. CASE s # Top /\ s # Shared
      BY <1>1, <2>1, <3>4 DEF StartsOpen, TypesFit, EntriesMove, EntriesStay
    <3> QED
      BY <3>2, <3>3, <3>4
  <2>2. CASE StartsClosed
    <3>1. state[Top] = "none"
      BY <2>0, <2>2 DEF StartsClosed, Starts
    <3> QED
      BY <1>1, <2>2, <3>1 DEF StartsClosed, TypesFit, EntriesMove, EntriesStay
  <2>3. CASE MainLeaves
    <3>1. Stays \/ Closes(Top, Main)
      BY <2>3 DEF MainLeaves
    <3> QED
      BY <1>1, <3>1, StaysMove, ClosesMove
  <2>4. CASE SharedCloses
    BY <1>1, <2>4, ClosesMove DEF SharedCloses
  <2>5. CASE Interrupts \/ (\E a \in Ends : MainEnds(a)) \/ MainLeft \/ (\E k \in Builds : CallsNext(k))
    <3>1. Stays
      BY <2>5 DEF Interrupts, MainEnds, MainLeft, CallsNext, NoScope
    <3> QED
      BY <3>1, StaysMove
  <2> QED
    BY <1>4, <2>1, <2>2, <2>3, <2>4, <2>5 DEF MainMoves
<1>5. ASSUME FinalizerMoves
      PROVE  EntriesMove(s)
  <2>1. ASSUME NEW c \in Composed, NEW l \in Under, NEW i, Releasing(c, i, l)
        PROVE  EntriesMove(s)
    <3>1. i \in 1 .. Len(finalizers[c]) /\ c \in Scopes /\ l \in Scopes /\ state[c] = "Exited"
          /\ (TakesClosing(c, i, l) \/ Drops(c, i))
      BY <1>1, <2>1 DEF Releasing, Takes
    <3>2. IsTaken(c, i)
      BY <2>1 DEF IsTaken
    <3> QED
      BY <3>1, <3>2, TakesClosingMove, DropsMove
  <2>2. ASSUME NEW i, ClosingTop(i)
        PROVE  EntriesMove(s)
    <3>1. i \in 1 .. Len(finalizers[Shared]) /\ state[Shared] = "Exited"
          /\ (TakesClosing(Shared, i, Top) \/ Drops(Shared, i))
      BY <1>1, <2>2 DEF ClosingTop, Takes
    <3>2. IsTaken(Shared, i)
      BY <2>2 DEF IsTaken
    <3> QED
      BY <1>1, <3>1, <3>2, TakesClosingMove, DropsMove
  <2>3. ASSUME NEW i, Detaching(i)
        PROVE  EntriesMove(s)
    <3>1. i \in 1 .. Len(finalizers[Top]) /\ state[Top] = "Exited" /\ state' = state
      BY <1>1, <2>3 DEF Detaching, Takes
    <3>2. CASE s = Top
      <4>1. finalizers'[Top] = RemoveAt(finalizers[Top], i)
        BY <1>1, <2>3 DEF Detaching, Rest, TypesFit
      <4> QED
        BY <2>3, <3>1, <3>2, <4>1 DEF EntriesMove, EntriesShrink, IsTaken
    <3>3. CASE s = Shared /\ state[Shared] = "Running"
      <4>1. finalizers'[Shared] = RemoveFirst(finalizers[Shared], Close(Top))
        BY <1>1, <2>3, <3>3 DEF Detaching, Rest, TypesFit
      <4> QED
        BY <2>3, <3>1, <3>3, <4>1 DEF EntriesMove, EntriesLose
    <3>4. CASE s # Top /\ ~(s = Shared /\ state[Shared] = "Running")
      <4>1. finalizers'[s] = finalizers[s]
        BY <1>1, <2>3, <3>4 DEF Detaching, Rest, TypesFit
      <4> QED
        BY <3>1, <4>1 DEF EntriesMove, EntriesStay
    <3> QED
      BY <3>2, <3>3, <3>4
  <2>4. ASSUME NEW c \in Scopes, NEW i, NEW r, Freeing(c, i, r), IsTaken(c, i)
        PROVE  EntriesMove(s)
    <3>1. i \in 1 .. Len(finalizers[c]) /\ state[c] = "Exited" /\ state' = state
          /\ finalizers' = Rest(c, i)
      BY <2>4 DEF Freeing, Takes
    <3>2. CASE s = c
      BY <2>4, <3>1, <3>2 DEF TypesFit, Rest, EntriesMove, EntriesShrink
    <3>3. CASE s # c
      BY <3>1, <3>3 DEF TypesFit, Rest, EntriesMove, EntriesStay
    <3> QED
      BY <3>2, <3>3
  <2>5. ASSUME NEW r, Finishes(r)
        PROVE  EntriesMove(s)
    BY <2>5 DEF Finishes, EntriesMove, EntriesStay
  <2>6. ASSUME NEW c \in Leaves, NEW i, Freeing(c, i, c)
        PROVE  IsTaken(c, i)
    BY <2>6 DEF IsTaken
  <2>7. ASSUME NEW i, Freeing(Shared, i, Extra)
        PROVE  IsTaken(Shared, i)
    BY <2>7 DEF IsTaken
  <2> QED
    BY <1>1, <1>5, <2>1, <2>2, <2>3, <2>4, <2>5, <2>6, <2>7 DEF FinalizerMoves
<1> QED
  BY <1>2, <1>3, <1>4, <1>5 DEF Moves

(* What may become of the finalizers under way. *)
LEMMA RunningMove ==
    ASSUME TypesFit, ScopesFit, Moves, NEW r \in running', r \notin running
    PROVE  \/ \E s \in Scopes : \E k \in Calls :
                 r = [fin |-> Close(s), by |-> k] /\ LayerOf(k) = s /\ Closes(s, k)
                 /\ ((\E end \in Wrong : Fails(k, end)) \/ AddsLate(k, 1))
           \/ r = [fin |-> Close(Top), by |-> Main] /\ (StartsClosed \/ (MainLeaves /\ Closes(Top, Main)))
           \/ r = [fin |-> Close(Shared), by |-> Other] /\ Closes(Shared, Other)
           \/ \E c \in Composed, l \in Under : \E i \in 1 .. Len(finalizers[c]) :
                 r = [fin |-> Close(l), by |-> c] /\ Releasing(c, i, l) /\ TakesClosing(c, i, l)
           \/ \E i \in 1 .. Len(finalizers[Shared]) :
                 r = [fin |-> Close(Top), by |-> Shared] /\ ClosingTop(i) /\ TakesClosing(Shared, i, Top)
           \/ \E s \in Leaves : \E i \in 1 .. Len(finalizers[s]) :
                 r = [fin |-> Free(s), by |-> s] /\ Freeing(s, i, s)
           \/ \E i \in 1 .. Len(finalizers[Shared]) :
                 r = [fin |-> Free(Extra), by |-> Shared] /\ Freeing(Shared, i, Extra)
<1>1. ASSUME NEW k \in Calls, CallMoves(k)
      PROVE  FALSE
  BY <1>1 DEF CallMoves, Begins, Finds, Abandons, LeavesUncounted, Returns, Counts, FindsWrong,
              NoScope, Stays
<1>2. ASSUME NEW k \in Calls, BuildMoves(k)
      PROVE  \E s \in Scopes :
                 r = [fin |-> Close(s), by |-> k] /\ LayerOf(k) = s /\ Closes(s, k)
                 /\ ((\E end \in Wrong : Fails(k, end)) \/ AddsLate(k, 1))
  <2>1. LayerOf(k) \in Scopes
    BY CallsAre, NamesAre
  <2>2. ASSUME NEW n, AddsLate(k, n)
        PROVE  Closes(LayerOf(k), k) /\ AddsLate(k, 1)
    BY <2>2 DEF AddsLate, Stays
  <2>3. Closes(LayerOf(k), k) /\ ((\E end \in Wrong : Fails(k, end)) \/ AddsLate(k, 1))
    BY <1>2, <2>2 DEF BuildMoves, MakesLeaf, MakesParts, Makes, Adds, Gets, Fails, Acquires
  <2>4. r = [fin |-> Close(LayerOf(k)), by |-> k]
    BY <2>3 DEF Closes
  <2> QED
    BY <2>1, <2>3, <2>4
<1>3. ASSUME MainMoves
      PROVE  \/ r = [fin |-> Close(Top), by |-> Main] /\ (StartsClosed \/ (MainLeaves /\ Closes(Top, Main)))
             \/ r = [fin |-> Close(Shared), by |-> Other] /\ Closes(Shared, Other)
  <2>1. CASE MainLeaves
    BY <2>1 DEF MainLeaves, Closes, Stays
  <2>2. CASE SharedCloses
    BY <2>2 DEF SharedCloses, Closes
  <2>3. CASE StartsClosed
    BY <2>3 DEF StartsClosed
  <2>4. CASE StartsOpen \/ Interrupts \/ (\E a \in Ends : MainEnds(a)) \/ MainLeft \/ (\E k \in Builds : CallsNext(k))
    BY <2>4 DEF StartsOpen, Interrupts, MainEnds, MainLeft, CallsNext, NoScope, Stays
  <2> QED
    BY <1>3, <2>1, <2>2, <2>3, <2>4 DEF MainMoves
<1>4. ASSUME FinalizerMoves
      PROVE  \/ \E c \in Composed, l \in Under : \E i \in 1 .. Len(finalizers[c]) :
                   r = [fin |-> Close(l), by |-> c] /\ Releasing(c, i, l) /\ TakesClosing(c, i, l)
             \/ \E i \in 1 .. Len(finalizers[Shared]) :
                   r = [fin |-> Close(Top), by |-> Shared] /\ ClosingTop(i) /\ TakesClosing(Shared, i, Top)
             \/ \E s \in Leaves : \E i \in 1 .. Len(finalizers[s]) :
                   r = [fin |-> Free(s), by |-> s] /\ Freeing(s, i, s)
             \/ \E i \in 1 .. Len(finalizers[Shared]) :
                   r = [fin |-> Free(Extra), by |-> Shared] /\ Freeing(Shared, i, Extra)
  <2>1. ASSUME NEW c \in Composed, NEW l \in Under, NEW i, Releasing(c, i, l)
        PROVE  r = [fin |-> Close(l), by |-> c] /\ TakesClosing(c, i, l) /\ i \in 1 .. Len(finalizers[c])
    BY <2>1 DEF Releasing, Takes, Drops, TakesClosing
  <2>2. ASSUME NEW i, ClosingTop(i)
        PROVE  r = [fin |-> Close(Top), by |-> Shared] /\ TakesClosing(Shared, i, Top)
               /\ i \in 1 .. Len(finalizers[Shared])
    BY <2>2 DEF ClosingTop, Takes, Drops, TakesClosing
  <2>3. ASSUME NEW s, NEW i, NEW x, Freeing(s, i, x)
        PROVE  r = [fin |-> Free(x), by |-> s] /\ i \in 1 .. Len(finalizers[s])
    BY <2>3 DEF Freeing, Takes
  <2>4. ASSUME NEW i, NEW x, Detaching(i) \/ Finishes(x)
        PROVE  FALSE
    BY <2>4 DEF Detaching, Finishes
  <2> QED
    BY <1>4, <2>1, <2>2, <2>3, <2>4 DEF FinalizerMoves
<1> QED
  BY <1>1, <1>2, <1>3, <1>4 DEF Moves

-----------------------------------------------------------------------------
(* Scopes and calls.                                                       *)

(* What a step makes of the application. *)
LEMMA MainMove ==
    ASSUME TypesFit, EntriesFit, ScopesFit, CallsFit, Moves
    PROVE  /\ pc'[Main] = pc[Main] \/ pc'[Main] # "idle"
           /\ pc[Main] = "idle" /\ pc'[Main] # "idle" => StartsOpen \/ StartsClosed
           /\ StartsOpen \/ StartsClosed => pc'[Main] = "building"
           /\ pc[Main] = "building" /\ pc'[Main] # "building" => PartsEnded(Top)
<1>0. Main \in Builds /\ (\A k \in Calls : k # Main) /\ LayerOf(Main) = Top
  BY CallsAre DEF LayerOf
<1> DEFINE Good ==
           /\ pc'[Main] = pc[Main] \/ pc'[Main] # "idle"
           /\ pc[Main] = "idle" /\ pc'[Main] # "idle" => StartsOpen \/ StartsClosed
           /\ pc[Main] = "building" /\ pc'[Main] # "building" => PartsEnded(Top)
<1>1. ASSUME pc'[Main] = pc[Main]
      PROVE  Good
  BY <1>1
<1>2. ASSUME NEW k \in Calls, NEW step, Goes(k, step)
      PROVE  Good
  <2>1. k \in Builds /\ k # Main
    BY CallsAre
  <2> QED
    BY <1>0, <1>1, <1>2, <2>1, GoesIs
<1>3. ASSUME NEW k \in Calls, CallMoves(k)
      PROVE  Good
  <2>1. \E step : Goes(k, step)
    BY <1>3 DEF CallMoves, Begins, Finds, Abandons, LeavesUncounted, Returns, Counts, FindsWrong
  <2> QED
    BY <1>2, <2>1
<1>4. ASSUME NEW k \in Calls, BuildMoves(k)
      PROVE  Good
  <2>1. CASE MakesParts(k)
    <3>1. PICK is \in {{1}, {1, 2}} : CallsParts(k, LayerOf(k), is)
      BY <2>1 DEF MakesParts
    <3>2. pc'[Main] = pc[Main]
      BY <1>0, <2>1, <3>1, PartsCalled, CallsAre
    <3> QED
      BY <1>1, <3>2
  <2>2. CASE ~MakesParts(k)
    <3>1. \E step : Goes(k, step)
      BY <1>4, <2>2 DEF BuildMoves, MakesLeaf, Adds, AddsLate, Fails, Acquires
    <3> QED
      BY <1>2, <3>1
  <2> QED
    BY <2>1, <2>2
<1>5. ASSUME MainMoves
      PROVE  Good
  <2>1. CASE StartsOpen \/ StartsClosed
    <3>1. PICK is \in {{1}, {1, 2}} : CallsParts(Main, Top, is)
      BY <2>1 DEF StartsOpen, StartsClosed, Starts
    <3>2. pc'[Main] = "building" /\ pc[Main] = "idle"
      BY <1>0, <2>1, <3>1 DEF CallsParts, StartsOpen, StartsClosed, Starts
    <3> QED
      BY <2>1, <3>2
  <2>2. ASSUME NEW a \in Ends, MainEnds(a)
        PROVE  Good
    <3>1. pc'[Main] = a /\ pc[Main] = "building" /\ PartsEnded(Top)
      BY <1>0, <2>2, GoesIs DEF MainEnds
    <3> QED
      BY <2>2, <3>1 DEF Ends
  <2>3. CASE MainLeaves \/ MainLeft
    <3>1. pc'[Main] \in {"closing", "left"} /\ pc[Main] \in {"closing"} \cup Ends
      BY <1>0, <2>3, GoesIs DEF MainLeaves, MainLeft
    <3> QED
      BY <3>1 DEF Ends
  <2>4. CASE Interrupts \/ SharedCloses
    BY <1>1, <2>4 DEF Interrupts, SharedCloses
  <2>5. ASSUME NEW k \in Builds, CallsNext(k)
        PROVE  Good
    <3>1. CallsParts(k, LayerOf(k), {2}) /\ pc[k] = "building"
      BY <2>5 DEF CallsNext
    <3>2. pc'[Main] = pc[Main]
      BY <1>0, <2>5, <3>1, PartsCalled, CallsAre
    <3> QED
      BY <1>1, <3>2
  <2> QED
    BY <1>5, <2>1, <2>2, <2>3, <2>4, <2>5 DEF MainMoves
<1>6. ASSUME FinalizerMoves
      PROVE  Good
  <2>1. pc' = pc
    BY <1>6 DEF FinalizerMoves, Releasing, ClosingTop, Detaching, Freeing, Finishes, Takes
  <2> QED
    BY <1>1, <2>1
<1>7. Good
  BY <1>3, <1>4, <1>5, <1>6 DEF Moves
<1>8. StartsOpen \/ StartsClosed => pc'[Main] = "building"
  <2> SUFFICES ASSUME StartsOpen \/ StartsClosed
               PROVE  pc'[Main] = "building"
    OBVIOUS
  <2>1. PICK is \in {{1}, {1, 2}} : CallsParts(Main, Top, is)
    BY DEF StartsOpen, StartsClosed, Starts
  <2> QED
    BY <1>0, <2>1 DEF CallsParts
<1> QED
  BY <1>7, <1>8

(* A part is called, by the call that builds its layer. *)
Called(j) ==
    /\ pc[j] = "idle" /\ pc'[j] = "called"
    /\ \E k \in Builds :
          /\ LayerOf(k) = ScopeOf(j) /\ pc'[k] = "building"
          /\ \/ k \in Calls /\ MakesParts(k)
             \/ k = Main /\ (StartsOpen \/ StartsClosed)
             \/ CallsNext(k)
          /\ j = Call(ScopeOf(j), 2) /\ kind[ScopeOf(j)] # "zipWithPar" => CallsNext(k)

(* What a step makes of a call. *)
LEMMA CallsMove ==
    ASSUME TypesFit, EntriesFit, ScopesFit, CallsFit, Moves, NEW j \in Calls
    PROVE  pc'[j] = pc[j] \/ Called(j) \/ CallMoves(j) \/ BuildMoves(j)
<1>0. Main \in Builds /\ j \in Builds /\ (\A k \in Calls : k # Main /\ k \in Builds) /\ LayerOf(Main) = Top
  BY CallsAre DEF LayerOf
<1>1. ASSUME NEW k \in Builds, NEW l, NEW is,
             \/ MakesParts(k) /\ k \in Calls /\ l = LayerOf(k) /\ is \in {{1}, {1, 2}}
             \/ Starts /\ k = Main /\ l = Top /\ is \in {{1}, {1, 2}}
             \/ CallsNext(k) /\ l = LayerOf(k) /\ is = {2},
             CallsParts(k, l, is), j # k, pc'[j] # pc[j]
      PROVE  /\ pc[j] = "idle" /\ pc'[j] = "called" /\ ScopeOf(j) = l /\ pc'[k] = "building"
             /\ j = Call(l, 2) /\ is = {1} => FALSE
  <2>1. /\ pc[j] = "idle" /\ pc'[j] = "called" /\ ScopeOf(j) = l /\ pc'[k] = "building"
        /\ l \in Composed
    BY <1>0, <1>1, PartsCalled
  <2>2. j = Call(l, 2) /\ is = {1} => pc'[j] = pc[j]
    <3>1. Call(l, 1) # Call(l, 2)
      BY <2>1, CallsAre
    <3> QED
      BY <1>0, <1>1, <3>1 DEF CallsParts
  <2> QED
    BY <1>1, <2>1, <2>2
<1>2. ASSUME NEW k \in Calls, NEW step, Goes(k, step), k # j
      PROVE  pc'[j] = pc[j]
  BY <1>0, <1>2, GoesIs
<1>3. ASSUME NEW k \in Calls, CallMoves(k)
      PROVE  pc'[j] = pc[j] \/ CallMoves(j)
  <2>1. \E step : Goes(k, step)
    BY <1>3 DEF CallMoves, Begins, Finds, Abandons, LeavesUncounted, Returns, Counts, FindsWrong
  <2> QED
    BY <1>2, <1>3, <2>1
<1>4. ASSUME NEW k \in Calls, BuildMoves(k)
      PROVE  pc'[j] = pc[j] \/ Called(j) \/ BuildMoves(j)
  <2>1. CASE MakesParts(k) /\ k # j /\ pc'[j] # pc[j]
    <3>1. PICK is \in {{1}, {1, 2}} :
             CallsParts(k, LayerOf(k), is) /\ (kind[LayerOf(k)] # "zipWithPar" => is = {1})
      BY <2>1 DEF MakesParts
    <3>2. /\ pc[j] = "idle" /\ pc'[j] = "called" /\ ScopeOf(j) = LayerOf(k) /\ pc'[k] = "building"
          /\ j = Call(LayerOf(k), 2) /\ is = {1} => FALSE
      BY <1>0, <1>1, <2>1, <3>1
    <3>3. Called(j)
      BY <1>0, <2>1, <3>1, <3>2 DEF Called
    <3> QED
      BY <3>3
  <2>2. CASE ~MakesParts(k)
    <3>1. \E step : Goes(k, step)
      BY <1>4, <2>2 DEF BuildMoves, MakesLeaf, Adds, AddsLate, Fails, Acquires
    <3> QED
      BY <1>2, <1>4, <3>1
  <2> QED
    BY <1>4, <2>1, <2>2
<1>5. ASSUME MainMoves
      PROVE  pc'[j] = pc[j] \/ Called(j)
  <2>1. CASE (StartsOpen \/ StartsClosed) /\ pc'[j] # pc[j]
    <3>1. Starts
      BY <2>1 DEF StartsOpen, StartsClosed
    <3>2. PICK is \in {{1}, {1, 2}} :
             CallsParts(Main, Top, is) /\ (kind[Top] # "zipWithPar" => is = {1})
      BY <3>1 DEF Starts
    <3>3. /\ pc[j] = "idle" /\ pc'[j] = "called" /\ ScopeOf(j) = Top /\ pc'[Main] = "building"
          /\ j = Call(Top, 2) /\ is = {1} => FALSE
      BY <1>0, <1>1, <2>1, <3>1, <3>2
    <3>4. Called(j)
      BY <1>0, <2>1, <3>2, <3>3 DEF Called
    <3> QED
      BY <3>4
  <2>2. ASSUME NEW step, Goes(Main, step)
        PROVE  pc'[j] = pc[j]
    BY <1>0, <2>2, GoesIs
  <2>3. CASE (\E a \in Ends : MainEnds(a)) \/ MainLeaves \/ MainLeft
    BY <2>2, <2>3 DEF MainEnds, MainLeaves, MainLeft
  <2>4. CASE Interrupts \/ SharedCloses
    BY <2>4 DEF Interrupts, SharedCloses
  <2>5. ASSUME NEW k \in Builds, CallsNext(k), pc'[j] # pc[j]
        PROVE  Called(j)
    <3>1. CallsParts(k, LayerOf(k), {2}) /\ pc[k] = "building"
      BY <2>5 DEF CallsNext
    <3>2. k # j
      BY <2>5, <3>1 DEF CallsParts
    <3>3. pc[j] = "idle" /\ pc'[j] = "called" /\ ScopeOf(j) = LayerOf(k) /\ pc'[k] = "building"
      BY <1>1, <2>5, <3>1, <3>2
    <3> QED
      BY <2>5, <3>3 DEF Called
  <2> QED
    BY <1>5, <2>1, <2>3, <2>4, <2>5 DEF MainMoves
<1>6. ASSUME FinalizerMoves
      PROVE  pc'[j] = pc[j]
  BY <1>6 DEF FinalizerMoves, Releasing, ClosingTop, Detaching, Freeing, Finishes, Takes
<1> QED
  BY <1>3, <1>4, <1>5, <1>6 DEF Moves

(* The entry of a layer stays, and its builder. *)
LEMMA BuilderStays ==
    ASSUME TypesFit, EntriesFit, Moves, NEW l \in Layers
    PROVE  /\ memo[l] # "absent" => memo'[l] # "absent" /\ builder'[l] = builder[l]
           /\ memo[l] \in Ends => memo'[l] = memo[l]
           /\ memo[l] = "absent" /\ memo'[l] # "absent" =>
                 \E k \in Calls : LayerOf(k) = l /\ Begins(k)
           /\ memo[l] = "absent" /\ memo'[l] = "absent" => builder'[l] = builder[l]
<1> DEFINE Good ==
           /\ memo[l] # "absent" => memo'[l] # "absent" /\ builder'[l] = builder[l]
           /\ memo[l] \in Ends => memo'[l] = memo[l]
           /\ memo[l] = "absent" /\ memo'[l] # "absent" =>
                 \E k \in Calls : LayerOf(k) = l /\ Begins(k)
           /\ memo[l] = "absent" /\ memo'[l] = "absent" => builder'[l] = builder[l]
<1>0. \A k \in Calls : LayerOf(k) \in Layers /\ CallFits(k)
  BY CallsAre, NamesAre DEF EntriesFit
<1>t. /\ memo \in [Layers -> {"absent", "pending"} \cup Ends]
      /\ builder \in [Layers -> Builds]
  BY DEF TypesFit
<1>1. ASSUME UNCHANGED <<memo, builder>>
      PROVE  Good
  BY <1>1
<1>2. ASSUME NEW k \in Calls, CallMoves(k)
      PROVE  Good
  <2>1. CASE Begins(k)
    BY <1>0, <1>t, <2>1 DEF Begins, Ends
  <2>2. ASSUME NEW a, Returns(k, a)
        PROVE  Good
    BY <1>0, <1>t, <2>2 DEF Returns, Ends, CallFits, Wrong
  <2>3. CASE Finds(k) \/ Abandons(k) \/ LeavesUncounted(k) \/ Counts(k) \/ FindsWrong(k)
    BY <1>1, <2>3 DEF Finds, Abandons, LeavesUncounted, Counts, FindsWrong, NoEntry
  <2> QED
    BY <1>2, <2>1, <2>2, <2>3 DEF CallMoves
<1>3. ASSUME NEW k \in Calls, BuildMoves(k)
      PROVE  Good
  <2>0. LayerOf(k) \in Layers /\ CallFits(k) /\ EntryFits(LayerOf(k))
    BY <1>0 DEF EntriesFit
  <2>1. ASSUME NEW n, NEW a, Adds(k, n, a)
        PROVE  Good
    BY <2>0, <1>t, <2>1 DEF Adds, Comes, CallFits, EntryFits, Ends
  <2>2. ASSUME NEW end \in Wrong, Fails(k, end)
        PROVE  Good
    BY <2>0, <1>t, <2>2 DEF Fails, CallFits, EntryFits, Ends, Wrong
  <2>3. ASSUME NEW n, MakesLeaf(k) \/ MakesParts(k) \/ Acquires(k) \/ AddsLate(k, n)
        PROVE  Good
    BY <1>1, <2>3 DEF MakesLeaf, MakesParts, Makes, Acquires, AddsLate, NoEntry
  <2> QED
    BY <1>3, <2>1, <2>2, <2>3 DEF BuildMoves
<1>4. ASSUME MainMoves
      PROVE  Good
  BY <1>1, <1>4 DEF MainMoves, StartsOpen, StartsClosed, Starts, CallsNext, MainEnds, MainLeaves,
                    MainLeft, Interrupts, SharedCloses, NoEntry
<1>5. ASSUME FinalizerMoves
      PROVE  Good
  BY <1>1, <1>5 DEF FinalizerMoves, Releasing, ClosingTop, Detaching, Freeing, Finishes, Takes, NoEntry
<1>6. Good
  BY <1>2, <1>3, <1>4, <1>5 DEF Moves
<1> QED
  BY <1>6

(* A scope that was not made has no entries. *)
LEMMA EntriesBegin ==
    ASSUME Fit, Moves, NEW s \in Scopes, ~Begun(s)'
    PROVE  finalizers'[s] = <<>>
<1> USE DEF Fit
<1>1. state'[s] = "none" /\ state[s] = "none"
  <2>1. state'[s] = "none"
    BY DEF Begun
  <2> QED
    BY <2>1, StatesMove, TypesAre
<1>2. finalizers[s] = <<>>
  BY <1>1 DEF ScopesFit, Begun
<1>3. ~EntriesStart(s)
  <2>1. StartsOpen => state'[Top] = "Running"
    BY NamesAre DEF StartsOpen, TypesFit
  <2> QED
    BY <1>1, <2>1 DEF EntriesStart
<1>4. EntriesMove(s)
  BY FinalizersMove
<1> QED
  BY <1>1, <1>2, <1>3, <1>4
     DEF EntriesMove, EntriesStay, EntriesGrow, EntriesTurn, EntriesShrink, EntriesLose

(* Whose releaseAll runs a finalizer is closed. *)
LEMMA RunnersExited ==
    ASSUME Fit, Moves, NEW r \in running', r.by \in Scopes
    PROVE  state'[r.by] = "Exited"
<1> USE DEF Fit
<1>1. CASE r \in running
  <2>1. state[r.by] = "Exited"
    BY <1>1 DEF ScopesFit
  <2> QED
    BY <2>1, StatesMove
<1>2. CASE r \notin running
  <2>1. Main \notin Scopes /\ Other \notin Scopes /\ \A k \in Calls : k \notin Scopes
    BY CallsAre
  <2>2. state[r.by] = "Exited"
    <3>1. ASSUME NEW c, NEW l, NEW i, r = [fin |-> Close(l), by |-> c], Releasing(c, i, l)
          PROVE  state[r.by] = "Exited"
      BY <3>1 DEF Releasing, Takes
    <3>2. ASSUME NEW i, r = [fin |-> Close(Top), by |-> Shared], ClosingTop(i)
          PROVE  state[r.by] = "Exited"
      BY <3>2 DEF ClosingTop, Takes
    <3>3. ASSUME NEW c, NEW i, NEW x, r = [fin |-> Free(x), by |-> c], Freeing(c, i, x)
          PROVE  state[r.by] = "Exited"
      BY <3>3 DEF Freeing, Takes
    <3>4. ASSUME NEW k, NEW s, r = [fin |-> Close(s), by |-> k]
          PROVE  r.by = k
      BY <3>4
    <3> QED
      BY <1>2, <2>1, <3>1, <3>2, <3>3, <3>4, RunningMove
  <2> QED
    BY <2>2, StatesMove
<1> QED
  BY <1>1, <1>2

(* Every step keeps scopes and those who work in them in order. *)
LEMMA ScopesStep ==
    ASSUME Fit, Moves
    PROVE  ScopesFit'
<1> USE DEF Fit
<1>0. /\ Shared \in Scopes /\ Top \in Scopes /\ Under \subseteq Scopes /\ Under \subseteq Layers
      /\ Top \notin Under
  BY NamesAre
<1>1. Begun(Shared)'
  BY <1>0, StatesMove, TypesAre DEF ScopesFit, Begun
<1>2. (Begun(Top) <=> pc[Main] # "idle")'
  <2>1. Begun(Top) <=> pc[Main] # "idle"
    BY DEF ScopesFit
  <2>2. Begun(Top) => Begun(Top)'
    BY <1>0, StatesMove, TypesAre DEF Begun
  <2>3. StartsOpen \/ StartsClosed => Begun(Top)' /\ pc'[Main] # "idle"
    <3>1. StartsOpen \/ StartsClosed => Begun(Top)'
      BY <1>0 DEF StartsOpen, StartsClosed, TypesFit, Begun
    <3> QED
      BY <3>1, MainMove
  <2>4. \A k \in Calls : LayerOf(k) # Top
    BY CallsAre, NamesAre
  <2>5. ~Begun(Top) /\ Begun(Top)' => StartsOpen \/ StartsClosed
    BY <1>0, <2>4, StatesMove, TypesAre DEF Begun
  <2>6. pc[Main] # "idle" => pc'[Main] # "idle"
    BY MainMove
  <2>7. pc[Main] = "idle" /\ pc'[Main] # "idle" => StartsOpen \/ StartsClosed
    BY MainMove
  <2> QED
    BY <2>1, <2>2, <2>3, <2>5, <2>6, <2>7
<1>3. \A s \in Scopes : ~Begun(s)' => finalizers'[s] = <<>>
  BY EntriesBegin
<1>4. \A r \in running' : r.by \in Scopes => state'[r.by] = "Exited"
  BY RunnersExited
<1>5. ASSUME NEW l \in Under
      PROVE  /\ Begun(l)' => memo'[l] # "absent" /\ pc'[builder'[l]] # "resource"
             /\ memo'[l] # "absent" /\ pc'[builder'[l]] \in {"building", "acquired"} =>
                   state'[l] = "Running"
  <2>0. l \in Scopes /\ l \in Layers /\ l # Top
    BY <1>0
  <2>1. /\ Begun(l) => memo[l] # "absent" /\ pc[builder[l]] # "resource"
        /\ memo[l] # "absent" /\ pc[builder[l]] \in {"building", "acquired"} => state[l] = "Running"
    BY DEF ScopesFit
  <2>2. /\ memo[l] # "absent" => memo'[l] # "absent" /\ builder'[l] = builder[l]
        /\ memo[l] = "absent" /\ memo'[l] # "absent" => \E k \in Calls : LayerOf(k) = l /\ Begins(k)
    BY <2>0, BuilderStays
  <2>3. /\ state[l] = "Running" => state'[l] \in {"Running", "Exited"}
        /\ state[l] = "Exited" => state'[l] = "Exited"
        /\ state[l] = "none" /\ state'[l] # "none" =>
              state'[l] = "Running" /\ \E k \in Calls : LayerOf(k) = l /\ (MakesLeaf(k) \/ MakesParts(k))
        /\ state[l] \in {"none", "Running", "Exited"}
    BY <2>0, StatesMove, TypesAre
  <2>m. ASSUME NEW k \in Calls, LayerOf(k) = l, MakesLeaf(k) \/ MakesParts(k)
        PROVE  memo[l] = "pending" /\ builder[l] = k /\ pc'[k] = "building" /\ state'[l] = "Running"
    <3>1. Makes(k) /\ pc[k] = "resource"
      BY <2>m DEF MakesLeaf, MakesParts, Makes
    <3>2. memo[l] = "pending" /\ builder[l] = k
      BY <2>m, <3>1, ResourcesAreNew
    <3>3. state'[l] = "Running"
      BY <2>0, <2>m, <3>1 DEF Makes, TypesFit
    <3>4. k \in Builds
      BY CallsAre
    <3>5. MakesLeaf(k) => pc'[k] = "building"
      BY <3>4, GoesIs DEF MakesLeaf
    <3>6. MakesParts(k) => pc'[k] = "building"
      BY <3>4 DEF MakesParts, CallsParts
    <3> QED
      BY <2>m, <3>2, <3>3, <3>5, <3>6
  <2>4. CASE memo[l] = "absent"
    <3>1. state[l] = "none"
      BY <2>1, <2>4 DEF Begun
    <3>3. state'[l] = "none"
      BY <2>3, <2>4, <2>m, <3>1
    <3>4. memo'[l] # "absent" => pc'[builder'[l]] = "resource"
      <4> SUFFICES ASSUME memo'[l] # "absent"
                   PROVE  pc'[builder'[l]] = "resource"
        OBVIOUS
      <4>1. PICK k \in Calls : LayerOf(k) = l /\ Begins(k)
        BY <2>2, <2>4
      <4>2. k \in Builds /\ builder' = [builder EXCEPT ![l] = k] /\ Goes(k, "resource")
        BY <4>1, CallsAre DEF Begins
      <4>3. builder'[l] = k
        BY <2>0, <4>2 DEF TypesFit
      <4>4. pc'[k] = "resource"
        BY <4>2, GoesIs
      <4> QED
        BY <4>3, <4>4
    <3> QED
      BY <3>3, <3>4 DEF Begun
  <2>5. CASE memo[l] # "absent"
    <3> DEFINE b == builder[l]
    <3>1. b \in Calls /\ LayerOf(b) = l /\ pc[b] # "idle"
          /\ pc[b] \in {"resource", "building", "acquired", "adding", "closing"} \cup Ends
          /\ b \in Builds /\ builder'[l] = b /\ memo'[l] # "absent"
      BY <2>0, <2>2, <2>5, CallsAre DEF EntriesFit, EntryFits, Ends
    <3>b. b = builder[l]
      OBVIOUS
    <3> HIDE DEF b
    <3>2. pc'[b] = pc[b] \/ CallMoves(b) \/ BuildMoves(b)
      BY <3>1, CallsMove DEF Called
    <3>3. CASE MakesLeaf(b) \/ MakesParts(b)
      <4>1. pc'[b] = "building" /\ state'[l] = "Running"
        BY <2>m, <3>1, <3>3
      <4> QED
        BY <3>1, <4>1
    <3>4. CASE ~(MakesLeaf(b) \/ MakesParts(b))
      <4>1. Begun(l)' => Begun(l)
        BY <2>3, <2>m, <3>4, <3>b DEF Begun
      <4>2. CASE CallMoves(b)
        <5>1. \E step \in {"interrupted", "observed", "awaiting"} \cup Ends : Goes(b, step)
          BY <3>1, <4>2 DEF CallMoves, Begins, Finds, Abandons, LeavesUncounted, Returns, Counts, FindsWrong, Wrong, Ends
        <5>2. pc'[b] \notin {"resource", "building", "acquired"}
          BY <3>1, <5>1, GoesIs DEF Ends
        <5> QED
          BY <3>1, <5>2
      <4>3. CASE BuildMoves(b) /\ ~Acquires(b)
        <5>1. \E step \in {"adding", "closing"} \cup Ends : Goes(b, step)
          BY <3>4, <4>3 DEF BuildMoves, Adds, AddsLate, Fails, Ends
        <5>2. pc'[b] \notin {"resource", "building", "acquired"}
          BY <3>1, <5>1, GoesIs DEF Ends
        <5> QED
          BY <3>1, <5>2
      <4>4. CASE pc'[b] = pc[b] \/ Acquires(b)
        <5>1. pc'[b] = "resource" => pc[b] = "resource"
          <6>1. Acquires(b) => pc'[b] = "acquired"
            BY <3>1, GoesIs DEF Acquires
          <6> QED
            BY <4>4, <6>1
        <5>2. pc'[b] \in {"building", "acquired"} => pc[b] \in {"building", "acquired"}
          BY <4>4 DEF Acquires
        <5>3. Begun(l)' => pc'[b] # "resource"
          BY <2>1, <3>b, <4>1, <5>1
        <5>4. ASSUME pc'[b] \in {"building", "acquired"}, state'[l] # "Running"
              PROVE  FALSE
          <6>1. pc[b] \in {"building", "acquired"} /\ state[l] = "Running" /\ memo[l] = "pending"
            <7>1. pc[b] \in {"building", "acquired"}
              BY <5>2, <5>4
            <7> QED
              BY <2>0, <2>1, <2>5, <3>b, <7>1 DEF EntriesFit, EntryFits
          <6>2. state'[l] = "Exited"
            BY <2>3, <5>4, <6>1
          <6>3. ASSUME NEW k \in Calls, LayerOf(k) = l, pc[k] \in {"building", "acquired"}
                PROVE  k = b
            BY <3>b, <6>3 DEF EntriesFit, CallFits
          <6>4. ASSUME NEW k \in Calls, LayerOf(k) = l, NEW end \in Wrong, Fails(k, end)
                PROVE  FALSE
            <7>1. k = b
              BY <6>3, <6>4 DEF Fails
            <7>2. pc'[b] = "closing"
              BY <3>1, <6>4, <7>1, GoesIs DEF Fails
            <7> QED
              BY <5>4, <7>2
          <6>5. ASSUME NEW k \in Calls, LayerOf(k) = l, AddsLate(k, 1)
                PROVE  FALSE
            <7>1. pc[k] # "observed"
              BY <6>1, <6>5 DEF EntriesFit, CallFits
            <7>2. k = b
              BY <6>3, <6>5, <7>1 DEF AddsLate, Comes
            <7>3. pc'[b] = "adding"
              BY <3>1, <6>5, <7>2, GoesIs DEF AddsLate
            <7> QED
              BY <5>4, <7>3
          <6>6. observers[l] # 1
            BY <2>0, <3>b, <6>1 DEF EntriesFit, EntryFits, Finished
          <6> QED
            BY <2>0, <6>1, <6>2, <6>4, <6>5, <6>6, StatesMove
        <5> QED
          BY <3>1, <5>3, <5>4
      <4> QED
        BY <3>2, <4>2, <4>3, <4>4
    <3> QED
      BY <3>3, <3>4
  <2> QED
    BY <2>4, <2>5
<1> QED
  BY <1>1, <1>2, <1>3, <1>4, <1>5 DEF ScopesFit

(* A call that moves by itself is open, and what has ended stays so.        *)
LEMMA OpenMoves ==
    ASSUME NEW k, CallMoves(k) \/ BuildMoves(k)
    PROVE  Open(k)
<1>1. pc[k] \in {"called", "resource", "building", "acquired", "awaiting", "observed", "adding", "closing"}
  BY DEF CallMoves, Begins, Finds, Abandons, LeavesUncounted, Returns, Counts, FindsWrong,
         BuildMoves, MakesLeaf, MakesParts, Makes, Adds, AddsLate, Comes, Fails, Acquires
<1> QED
  BY <1>1 DEF Open, Ends

(* Calls that have ended stay so; others begin only when they are called. *)
LEMMA EndedStay ==
    ASSUME TypesFit, EntriesFit, ScopesFit, CallsFit, Moves, NEW k \in Calls
    PROVE  /\ pc[k] \in Ends => pc'[k] = pc[k]
           /\ pc'[k] # "idle" /\ pc[k] = "idle" => Called(k)
           /\ Open(k)' => Open(k) \/ Called(k)
           /\ pc[k] # "idle" => pc'[k] # "idle"
<1>1. pc'[k] = pc[k] \/ Called(k) \/ Open(k)
  BY CallsMove, OpenMoves
<1>2. ASSUME pc[k] # "idle"
      PROVE  pc'[k] # "idle"
  <2>1. CASE CallMoves(k)
    <3>1. \E step : step # "idle" /\ Goes(k, step)
      BY <2>1 DEF CallMoves, Begins, Finds, Abandons, LeavesUncounted, Returns, Counts, FindsWrong, Ends, Wrong
    <3>2. k \in Builds
      BY CallsAre
    <3> QED
      BY <3>1, <3>2, GoesIs
  <2>2. CASE BuildMoves(k)
    <3>1. k \in Builds
      BY CallsAre
    <3>2. CASE MakesParts(k)
      BY <3>1, <3>2 DEF MakesParts, CallsParts
    <3>3. CASE ~MakesParts(k)
      <4>1. \E step : step # "idle" /\ Goes(k, step)
        BY <2>2, <3>3 DEF BuildMoves, MakesLeaf, Adds, AddsLate, Fails, Acquires
      <4> QED
        BY <3>1, <4>1, GoesIs
    <3> QED
      BY <3>2, <3>3
  <2> QED
    BY <1>2, <2>1, <2>2, CallsMove DEF Called
<1> QED
  BY <1>1, <1>2 DEF Called, Open, Ends

(* Who builds a layer builds it until all calls for its parts have ended.  *)
LEMMA BuildingStays ==
    ASSUME TypesFit, EntriesFit, ScopesFit, CallsFit, Moves, NEW c \in Composed, Building(c)
    PROVE  Building(c)' \/ PartsEnded(c)
<1>0. c \in Layers /\ c \in Scopes
  BY NamesAre
<1>1. Begun(c)'
  BY <1>0, StatesMove, TypesAre DEF Building, Begun
<1>2. CASE c = Top
  BY <1>1, <1>2, MainMove DEF Building, BuilderOf
<1>3. CASE c # Top
  <2> DEFINE b == builder[c]
  <2>1. memo[c] # "absent"
    BY <1>0, <1>3 DEF ScopesFit, Building, Under
  <2>2. b \in Calls /\ LayerOf(b) = c /\ builder'[c] = b /\ pc[b] = "building" /\ b \in Builds
    BY <1>0, <1>3, <2>1, BuilderStays, CallsAre DEF EntriesFit, EntryFits, Building, BuilderOf
  <2> HIDE DEF b
  <2>3. CASE pc'[b] = pc[b]
    BY <1>1, <1>3, <2>2, <2>3 DEF Building, BuilderOf
  <2>4. CASE pc'[b] # pc[b]
    <3>1. CallMoves(b) \/ BuildMoves(b)
      BY <2>2, <2>4, CallsMove DEF Called
    <3>2. ~CallMoves(b)
      BY <2>2 DEF CallMoves, Begins, Finds, Abandons, LeavesUncounted, Returns, Counts, FindsWrong
    <3>3. ~MakesLeaf(b) /\ ~MakesParts(b)
      BY <2>2 DEF MakesLeaf, MakesParts, Makes
    <3>4. ~Acquires(b)
      BY <2>2, NamesAre DEF Acquires
    <3> QED
      BY <2>2, <3>1, <3>2, <3>3, <3>4 DEF BuildMoves, Adds, AddsLate, Comes, Fails
  <2> QED
    BY <2>3, <2>4
<1> QED
  BY <1>2, <1>3

(* Every step keeps what is known of the calls for a scope. *)
LEMMA CallsStep ==
    ASSUME Fit, Moves
    PROVE  CallsFit'
<1> USE DEF Fit
<1>1. TypesFit' /\ EntriesFit' /\ ScopesFit'
  BY TypesStep, EntriesStep, ScopesStep
<1>2. ASSUME NEW k \in Calls, Called(k)
      PROVE  Begun(ScopeOf(k))' /\ Building(ScopeOf(k))'
  <2>1. PICK j \in Builds : LayerOf(j) = ScopeOf(k) /\ pc'[j] = "building"
    BY <1>2 DEF Called
  <2> DEFINE c == LayerOf(j)
  <2>2. CASE j = Main
    <3>1. c = Top
      BY <2>2 DEF LayerOf
    <3>2. Begun(Top)'
      BY <1>1, <2>1, <2>2 DEF ScopesFit
    <3>3. BuilderOf(Top)' = Main
      BY DEF BuilderOf
    <3> QED
      BY <2>1, <2>2, <3>1, <3>2, <3>3 DEF Building
  <2>3. CASE j \in Calls
    <3>1. memo'[c] # "absent" /\ builder'[c] = j
      BY <1>1, <2>1, <2>3 DEF EntriesFit, CallFits
    <3>2. c \in Under /\ c # Top
      BY <2>3, CallsAre, NamesAre
    <3>3. state'[c] = "Running"
      BY <1>1, <2>1, <3>1, <3>2 DEF ScopesFit
    <3> QED
      BY <2>1, <3>1, <3>2, <3>3 DEF Building, BuilderOf, Begun
  <2> QED
    BY <2>2, <2>3, CallsAre
<1>3. ASSUME NEW k \in Calls
      PROVE  (pc'[k] # "idle" => Begun(ScopeOf(k))') /\ (Open(k)' => Building(ScopeOf(k))')
  <2>0. ScopeOf(k) \in Composed /\ ScopeOf(k) \in Scopes
    BY CallsAre, NamesAre
  <2>1. pc[k] # "idle" => Begun(ScopeOf(k))
    BY DEF CallsFit
  <2>2. Begun(ScopeOf(k)) => Begun(ScopeOf(k))'
    BY <2>0, StatesMove, TypesAre DEF Begun
  <2>3. pc'[k] # "idle" => Begun(ScopeOf(k))'
    BY <1>2, <2>1, <2>2, EndedStay
  <2>4. ASSUME Open(k)', ~Called(k)
        PROVE  Building(ScopeOf(k))'
    <3>1. Open(k)
      BY <2>4, EndedStay
    <3>2. Building(ScopeOf(k)) /\ ~PartsEnded(ScopeOf(k))
      BY <3>1 DEF CallsFit, PartsEnded
    <3> QED
      BY <2>0, <3>2, BuildingStays
  <2> QED
    BY <1>2, <2>3, <2>4
<1>4. ASSUME NEW c \in Composed, kind'[c] # "zipWithPar", pc'[Call(c, 2)] # "idle"
      PROVE  pc'[Call(c, 1)] = (IF kind'[c] = "provideTo" THEN "ok" ELSE "failed")
  <2>0. kind' = kind
    BY DEF Moves
  <2>1. Call(c, 1) \in Calls /\ Call(c, 2) \in Calls /\ ScopeOf(Call(c, 2)) = c
    BY CallsAre
  <2>2. pc[Call(c, 1)] = (IF kind[c] = "provideTo" THEN "ok" ELSE "failed")
    <3>1. CASE pc[Call(c, 2)] # "idle"
      BY <1>4, <2>0, <3>1 DEF CallsFit
    <3>2. CASE pc[Call(c, 2)] = "idle"
      <4>1. Called(Call(c, 2))
        BY <1>4, <2>1, <3>2, EndedStay
      <4>2. PICK j \in Builds : LayerOf(j) = c /\ CallsNext(j)
        BY <1>4, <2>0, <2>1, <4>1 DEF Called
      <4> QED
        BY <4>2 DEF CallsNext
    <3> QED
      BY <3>1, <3>2
  <2>3. pc[Call(c, 1)] \in Ends
    BY <2>2 DEF Ends
  <2> QED
    BY <2>0, <2>1, <2>2, <2>3, EndedStay
<1> QED
  BY <1>3, <1>4 DEF CallsFit

-----------------------------------------------------------------------------
(* Resources.                                                              *)

(* Who acquires and who releases.                                          *)
LEMMA AcquiredMove ==
    ASSUME TypesFit, Moves, NEW r \in Resources
    PROVE  acquired'[r] = acquired[r] \/ \E k \in Calls : LayerOf(k) = r /\ Acquires(k)
<1>1. ASSUME NEW k \in Calls, BuildMoves(k)
      PROVE  acquired' = acquired \/ Acquires(k)
  BY <1>1 DEF BuildMoves, MakesLeaf, MakesParts, Makes, Adds, AddsLate, Fails
<1>2. ASSUME NEW k \in Calls, CallMoves(k)
      PROVE  acquired' = acquired
  BY <1>2 DEF CallMoves, Begins, Finds, Abandons, LeavesUncounted, Returns, Counts, FindsWrong, NoScope
<1>3. ASSUME MainMoves
      PROVE  acquired' = acquired
  BY <1>3 DEF MainMoves, StartsOpen, StartsClosed, Starts, Interrupts, MainEnds, MainLeaves, MainLeft,
              SharedCloses, CallsNext, NoScope
<1>4. ASSUME FinalizerMoves
      PROVE  acquired' = acquired
  BY <1>4 DEF FinalizerMoves, Releasing, ClosingTop, Detaching, Freeing, Finishes, Takes
<1>5. ASSUME NEW k \in Calls, Acquires(k), LayerOf(k) # r
      PROVE  acquired'[r] = acquired[r]
  BY <1>5 DEF Acquires, TypesFit
<1> QED
  BY <1>1, <1>2, <1>3, <1>4, <1>5 DEF Moves

(* Resources are released by the scopes that hold them. *)
LEMMA ReleasedMove ==
    ASSUME TypesFit, Moves, NEW r \in Resources
    PROVE  \/ released'[r] = released[r]
           \/ r \in Leaves /\ \E i \in DOMAIN finalizers[r] : Freeing(r, i, r)
           \/ r = Extra /\ \E i \in DOMAIN finalizers[Shared] : Freeing(Shared, i, Extra)
<1>1. ASSUME NEW k \in Calls, CallMoves(k) \/ BuildMoves(k)
      PROVE  released' = released
  BY <1>1 DEF BuildMoves, MakesLeaf, MakesParts, Makes, Adds, AddsLate, Fails, Acquires, Gets, Closes, Stays,
              CallMoves, Begins, Finds, Abandons, LeavesUncounted, Returns, Counts, FindsWrong, NoScope
<1>2. ASSUME MainMoves
      PROVE  released' = released
  BY <1>2 DEF MainMoves, StartsOpen, StartsClosed, Starts, Interrupts, MainEnds, MainLeaves, MainLeft,
              SharedCloses, CallsNext, NoScope, Stays, Closes
<1>3. ASSUME NEW s, NEW i, NEW l, Releasing(s, i, l) \/ ClosingTop(i) \/ Detaching(i) \/ Finishes(l)
      PROVE  released' = released
  BY <1>3 DEF Releasing, ClosingTop, Detaching, Finishes, TakesClosing, Drops
<1>4. ASSUME NEW s, NEW i, NEW x \in Resources, Freeing(s, i, x), x # r
      PROVE  released'[r] = released[r]
  BY <1>4 DEF Freeing, TypesFit
<1>5. ASSUME FinalizerMoves
      PROVE  \/ released'[r] = released[r]
             \/ r \in Leaves /\ \E i \in DOMAIN finalizers[r] : Freeing(r, i, r)
             \/ r = Extra /\ \E i \in DOMAIN finalizers[Shared] : Freeing(Shared, i, Extra)
  BY <1>3, <1>4, <1>5, NamesAre DEF FinalizerMoves
<1> QED
  BY <1>1, <1>2, <1>5 DEF Moves

(* What becomes of a leaf that is not acquired or released.                *)
LEMMA LeafKept ==
    ASSUME TypesFit, ScopesFit, EntriesFit, Moves, NEW l \in Leaves,
           \A k \in Calls : LayerOf(k) = l => ~Acquires(k),
           \A i \in DOMAIN finalizers[l] : ~Freeing(l, i, l)
    PROVE  /\ acquired'[l] = acquired[l] /\ released'[l] = released[l]
           /\ finalizers'[l] = finalizers[l] \/ finalizers'[l] = Reverse(finalizers[l])
<1>0. l \in Scopes /\ l \in Resources /\ l # Shared /\ l # Top /\ l \notin Composed /\ l # Extra
  BY NamesAre
<1>1. acquired'[l] = acquired[l]
  BY <1>0, AcquiredMove
<1>2. released'[l] = released[l]
  BY <1>0, ReleasedMove
<1>3. \A k \in Calls : ScopeOf(k) # l
  BY <1>0, CallsAre
<1>4. EntriesMove(l)
  BY <1>0, FinalizersMove
<1>5. ~EntriesGrow(l)
  BY <1>0, <1>3 DEF EntriesGrow, IsGiven
<1>6. ~EntriesShrink(l)
  BY <1>0, TypesAre, Members DEF EntriesShrink, IsTaken
<1>7. ~EntriesStart(l) /\ ~EntriesLose(l)
  BY <1>0 DEF EntriesStart, EntriesLose
<1> QED
  BY <1>1, <1>2, <1>4, <1>5, <1>6, <1>7 DEF EntriesMove, EntriesStay, EntriesTurn

(* A builder that has acquired does not come back.                         *)
LEMMA BuilderLeaves ==
    ASSUME TypesFit, EntriesFit, ScopesFit, CallsFit, Moves, NEW l \in Leaves, memo[l] # "absent",
           pc[builder[l]] \notin {"resource", "building"}
    PROVE  pc'[builder'[l]] \notin {"resource", "building"}
<1> DEFINE b == builder[l]
<1>1. b \in Calls /\ b \in Builds /\ builder'[l] = b /\ LayerOf(b) = l
      /\ pc[b] \in {"acquired", "adding", "closing"} \cup Ends
  BY NamesAre, CallsAre, BuilderStays DEF EntriesFit, EntryFits
<1> HIDE DEF b
<1>2. pc'[b] = pc[b] \/ CallMoves(b) \/ BuildMoves(b)
  BY <1>1, CallsMove DEF Called, Ends
<1>3. CASE pc'[b] = pc[b]
  BY <1>1, <1>3 DEF Ends
<1>4. CASE CallMoves(b)
  <2>1. \E step \in Ends : Goes(b, step)
    BY <1>1, <1>4 DEF CallMoves, Begins, Finds, Abandons, LeavesUncounted, Returns, Counts, FindsWrong, Ends, Wrong
  <2> QED
    BY <1>1, <2>1, GoesIs DEF Ends
<1>5. CASE BuildMoves(b)
  <2>1. \E step \in {"adding", "closing"} \cup Ends : Goes(b, step)
    BY <1>1, <1>5 DEF BuildMoves, MakesLeaf, MakesParts, Makes, Adds, AddsLate, Fails, Acquires, Ends
  <2> QED
    BY <1>1, <2>1, GoesIs DEF Ends
<1> QED
  BY <1>2, <1>3, <1>4, <1>5

(* Every step keeps what is known of a leaf and its resource. *)
LEMMA LeavesStep ==
    ASSUME Fit, Moves
    PROVE  LeavesFit'
<1> USE DEF Fit
<1> SUFFICES ASSUME NEW l \in Leaves
             PROVE  /\ acquired'[l] = released'[l] + Len(finalizers'[l]) /\ acquired'[l] <= 1
                    /\ ToSet(finalizers'[l]) \subseteq {Free(l)}
                    /\ acquired'[l] > 0 => Begun(l)' /\ pc'[builder'[l]] \notin {"resource", "building"}
                    /\ released'[l] > 0 => state'[l] = "Exited"
                    /\ \A r \in running' : r.fin = Free(l) => r.by = l
  BY DEF LeavesFit
<1>0. l \in Scopes /\ l \in Resources /\ l \in Layers /\ l # Shared /\ l # Extra /\ l \in Under
  BY NamesAre
<1>1. /\ acquired[l] = released[l] + Len(finalizers[l]) /\ acquired[l] <= 1
      /\ ToSet(finalizers[l]) \subseteq {Free(l)}
      /\ acquired[l] > 0 => Begun(l) /\ pc[builder[l]] \notin {"resource", "building"}
      /\ released[l] > 0 => state[l] = "Exited"
      /\ \A r \in running : r.fin = Free(l) => r.by = l
      /\ acquired[l] \in Nat /\ released[l] \in Nat /\ finalizers[l] \in Seq(Entries)
      /\ Len(finalizers[l]) \in Nat /\ DOMAIN finalizers[l] = 1 .. Len(finalizers[l])
  BY <1>0, TypesAre, LenProperties DEF LeavesFit, TypesFit
<1>2. \A r \in running' : r.fin = Free(l) => r.by = l
  <2> SUFFICES ASSUME NEW r \in running', r.fin = Free(l), r \notin running
               PROVE  r.by = l
    BY <1>1
  <2>1. ASSUME NEW s, NEW by, r = [fin |-> Close(s), by |-> by]
        PROVE  FALSE
    BY <2>1, FinalizersDiffer
  <2>2. ASSUME NEW s, NEW by, r = [fin |-> Free(s), by |-> by]
        PROVE  s = l /\ r.by = by
    BY <2>2, FinalizersDiffer
  <2> QED
    BY <1>0, <2>1, <2>2, RunningMove
<1>3. CASE \E k \in Calls : LayerOf(k) = l /\ Acquires(k)
  <2>1. PICK k \in Calls : LayerOf(k) = l /\ Acquires(k)
    BY <1>3
  <2>2. pc[k] = "building" /\ k \in Builds
    BY <2>1, CallsAre DEF Acquires
  <2>3. memo[l] # "absent" /\ builder[l] = k
    BY <2>1, <2>2 DEF EntriesFit, CallFits
  <2>4. acquired[l] = 0 /\ released[l] = 0 /\ Len(finalizers[l]) = 0
    BY <1>1, <2>2, <2>3
  <2>5. /\ acquired' = [acquired EXCEPT ![l] = acquired[l] + 1]
        /\ Gets(l, Free(l)) /\ Goes(k, "acquired") /\ builder' = builder
    BY <2>1 DEF Acquires, NoEntry
  <2>6. /\ state[l] = "Running" /\ state' = state /\ released' = released
        /\ finalizers' = [finalizers EXCEPT ![l] = Append(finalizers[l], Free(l))]
    BY <2>5 DEF Gets
  <2>7. acquired'[l] = 1 /\ released'[l] = 0 /\ finalizers'[l] = Append(finalizers[l], Free(l))
    BY <1>0, <2>4, <2>5, <2>6 DEF TypesFit
  <2>8. Len(finalizers'[l]) = 1 /\ ToSet(finalizers'[l]) = ToSet(finalizers[l]) \cup {Free(l)}
    <3>1. Free(l) \in Entries
      BY <1>0, EntriesAre
    <3>2. Len(finalizers'[l]) = Len(finalizers[l]) + 1
      BY <1>1, <2>7, <3>1, Appended
    <3>3. ToSet(finalizers'[l]) = ToSet(finalizers[l]) \cup {Free(l)}
      BY <1>1, <2>7, <3>1, Appended
    <3> QED
      BY <2>4, <3>2, <3>3
  <2>9. pc'[builder'[l]] = "acquired"
    BY <2>2, <2>3, <2>5, GoesIs
  <2>10. Begun(l)'
    BY <2>6 DEF Begun
  <2> QED
    BY <1>1, <1>2, <2>7, <2>8, <2>9, <2>10
<1>4. CASE \E i \in DOMAIN finalizers[l] : Freeing(l, i, l)
  <2>1. PICK i \in DOMAIN finalizers[l] : Freeing(l, i, l)
    BY <1>4
  <2>2. /\ finalizers' = Rest(l, i) /\ released' = [released EXCEPT ![l] = released[l] + 1]
        /\ UNCHANGED <<state, acquired, pc, builder>> /\ state[l] = "Exited"
    BY <2>1 DEF Freeing, Takes
  <2>3. finalizers'[l] = RemoveAt(finalizers[l], i) /\ released'[l] = released[l] + 1
    BY <1>0, <2>2 DEF TypesFit, Rest
  <2>4. Len(finalizers'[l]) = Len(finalizers[l]) - 1 /\ ToSet(finalizers'[l]) \subseteq ToSet(finalizers[l])
    BY <1>1, <2>1, <2>3, RemovedAt
  <2>5. acquired'[l] = released'[l] + Len(finalizers'[l])
    BY <1>1, <2>2, <2>3, <2>4
  <2>6. ToSet(finalizers'[l]) \subseteq {Free(l)}
    BY <1>1, <2>4
  <2> QED
    BY <1>1, <1>2, <2>2, <2>5, <2>6 DEF Begun
<1>5. CASE (\A k \in Calls : LayerOf(k) = l => ~Acquires(k)) /\ \A i \in DOMAIN finalizers[l] : ~Freeing(l, i, l)
  <2>1. /\ acquired'[l] = acquired[l] /\ released'[l] = released[l]
        /\ finalizers'[l] = finalizers[l] \/ finalizers'[l] = Reverse(finalizers[l])
    BY <1>5, LeafKept
  <2>2. Len(finalizers'[l]) = Len(finalizers[l]) /\ ToSet(finalizers'[l]) = ToSet(finalizers[l])
    BY <1>1, <2>1, Reversed
  <2>3. state[l] = "Exited" => state'[l] = "Exited"
    BY <1>0, StatesMove
  <2>4. acquired[l] > 0 => Begun(l)'
    BY <1>0, <1>1, StatesMove, TypesAre DEF Begun
  <2>5. acquired[l] > 0 => pc'[builder'[l]] \notin {"resource", "building"}
    <3>1. acquired[l] > 0 => memo[l] # "absent"
      BY <1>0, <1>1 DEF ScopesFit
    <3> QED
      BY <1>1, <3>1, BuilderLeaves
  <2>6. acquired'[l] = released'[l] + Len(finalizers'[l]) /\ acquired'[l] <= 1
    BY <1>1, <2>1, <2>2
  <2> QED
    BY <1>1, <1>2, <2>1, <2>2, <2>3, <2>4, <2>5, <2>6
<1> QED
  BY <1>3, <1>4, <1>5

(* The entries of the shared scope, when there are one or two.             *)
LEMMA PairsAre ==
    ASSUME NEW x, NEW y
    PROVE  /\ Reverse(<<x>>) = <<x>> /\ Reverse(<<x, y>>) = <<y, x>>
           /\ RemoveAt(<<x>>, 1) = <<>> /\ RemoveAt(<<x, y>>, 1) = <<y>> /\ RemoveAt(<<x, y>>, 2) = <<x>>
           /\ Append(<<x>>, y) = <<x, y>>
           /\ Len(<<x>>) = 1 /\ Len(<<x, y>>) = 2
           /\ \A i \in 1 .. 1 : i = 1
           /\ \A i \in 1 .. 2 : i = 1 \/ i = 2
<1> DEFINE one == <<x>>
           two == <<x, y>>
           S == {x, y}
<1>1. /\ one \in Seq(S) /\ Len(one) = 1 /\ one[1] = x
      /\ two \in Seq(S) /\ Len(two) = 2 /\ two[1] = x /\ two[2] = y
      /\ <<y>> \in Seq(S) /\ <<y, x>> \in Seq(S) /\ Len(<<y>>) = 1 /\ <<y>>[1] = y
      /\ Len(<<y, x>>) = 2 /\ <<y, x>>[1] = y /\ <<y, x>>[2] = x
  OBVIOUS
<1>n. (\A i \in 1 .. 1 : i = 1) /\ (\A i \in 1 .. 2 : i = 1 \/ i = 2) /\ 1 \in 1 .. 1 /\ 1 \in 1 .. 2 /\ 2 \in 1 .. 2
  OBVIOUS
<1> HIDE DEF one, two, S
<1>2. Append(one, y) = two
  <2>1. y \in S
    BY DEF S
  <2>2. /\ Append(one, y) \in Seq(S) /\ Len(Append(one, y)) = Len(one) + 1
        /\ \A i \in 1 .. Len(one) : Append(one, y)[i] = one[i]
        /\ Append(one, y)[Len(one) + 1] = y
    BY <1>1, <2>1, Appended, SMTT(30)
  <2>3. Len(one) + 1 = 2 /\ 1 \in 1 .. Len(one)
    BY <1>1
  <2>4. Len(Append(one, y)) = 2 /\ Append(one, y)[1] = x /\ Append(one, y)[2] = y
    BY <1>1, <2>2, <2>3
  <2> QED
    BY <1>1, <1>n, <2>2, <2>4, SeqEqual
<1>3. Reverse(one) = one
  <2>1. /\ Reverse(one) \in Seq(S) /\ Len(Reverse(one)) = 1 /\ Reverse(one)[1] = x
    <3>1. /\ Reverse(one) \in Seq(S) /\ Len(Reverse(one)) = Len(one)
          /\ \A i \in 1 .. Len(one) : Reverse(one)[i] = one[Len(one) - i + 1]
      BY <1>1, Reversed
    <3>2. Len(one) - 1 + 1 = 1 /\ 1 \in 1 .. Len(one)
      BY <1>1
    <3>3. Reverse(one)[1] = one[1]
      BY <3>1, <3>2
    <3> QED
      BY <1>1, <3>1, <3>3
  <2> QED
    BY <1>1, <1>n, <2>1, SeqEqual
<1>4. Reverse(two) = <<y, x>>
  <2>1. /\ Reverse(two) \in Seq(S) /\ Len(Reverse(two)) = 2 /\ Reverse(two)[1] = y /\ Reverse(two)[2] = x
    <3>1. /\ Reverse(two) \in Seq(S) /\ Len(Reverse(two)) = Len(two)
          /\ \A i \in 1 .. Len(two) : Reverse(two)[i] = two[Len(two) - i + 1]
      BY <1>1, Reversed
    <3>2. Len(two) - 1 + 1 = 2 /\ 1 \in 1 .. Len(two) /\ Len(two) - 2 + 1 = 1 /\ 2 \in 1 .. Len(two)
      BY <1>1
    <3>3. Reverse(two)[1] = two[2] /\ Reverse(two)[2] = two[1]
      BY <3>1, <3>2
    <3> QED
      BY <1>1, <3>1, <3>3
  <2> QED
    BY <1>1, <1>n, <2>1, SeqEqual
<1>5. RemoveAt(one, 1) = <<>>
  <2>1. RemoveAt(one, 1) \in Seq(S) /\ Len(RemoveAt(one, 1)) = Len(one) - 1
    BY <1>1, <1>n, RemovedAt
  <2>2. Len(RemoveAt(one, 1)) = 0
    BY <1>1, <2>1
  <2> QED
    BY <2>1, <2>2, Members
<1>6. RemoveAt(two, 1) = <<y>>
  <2>0. 1 \in 1 .. Len(two)
    BY <1>1
  <2>1. /\ RemoveAt(two, 1) \in Seq(S) /\ Len(RemoveAt(two, 1)) = Len(two) - 1
        /\ \A j \in 1 .. Len(two) - 1 : RemoveAt(two, 1)[j] = IF j < 1 THEN two[j] ELSE two[j + 1]
    BY <1>1, <2>0, RemovedAt
  <2>2. Len(two) - 1 = 1 /\ 1 \in 1 .. Len(two) - 1 /\ ~(1 < 1) /\ 1 + 1 = 2
    BY <1>1
  <2>3. Len(RemoveAt(two, 1)) = 1 /\ RemoveAt(two, 1)[1] = y
    BY <1>1, <2>1, <2>2
  <2> QED
    BY <1>1, <1>n, <2>1, <2>3, SeqEqual
<1>7. RemoveAt(two, 2) = <<x>>
  <2>0. 2 \in 1 .. Len(two)
    BY <1>1
  <2>1. /\ RemoveAt(two, 2) \in Seq(S) /\ Len(RemoveAt(two, 2)) = Len(two) - 1
        /\ \A j \in 1 .. Len(two) - 1 : RemoveAt(two, 2)[j] = IF j < 2 THEN two[j] ELSE two[j + 1]
    BY <1>1, <2>0, RemovedAt
  <2>2. Len(two) - 1 = 1 /\ 1 \in 1 .. Len(two) - 1 /\ 1 < 2
    BY <1>1
  <2>3. Len(RemoveAt(two, 2)) = 1 /\ RemoveAt(two, 2)[1] = x
    BY <1>1, <2>1, <2>2
  <2> QED
    BY <1>1, <1>n, <2>1, <2>3, SeqEqual DEF one
<1> QED
  BY <1>1, <1>2, <1>3, <1>4, <1>5, <1>6, <1>7, <1>n DEF one, two

(* Every step keeps what is known of the shared scope. *)
LEMMA SharedStep ==
    ASSUME Fit, Moves
    PROVE  SharedFits'
<1> USE DEF Fit
<1> DEFINE e == Free(Extra)
           t == Close(Top)
           f == finalizers[Shared]
<1>0. Shared \in Scopes /\ Extra \in Resources /\ Shared # Top /\ Shared \notin Leaves /\ Shared \notin Composed
      /\ Extra \notin Leaves /\ Top \in Scopes
  BY NamesAre
<1>1. acquired'[Extra] = 1
  <2>1. \A k \in Calls : LayerOf(k) = Extra => ~Acquires(k)
    BY <1>0 DEF Acquires
  <2> QED
    BY <1>0, <2>1, AcquiredMove DEF SharedFits
<1>e. e # t /\ Free(Extra) = e /\ Close(Top) = t
  BY FinalizersDiffer
<1>f. /\ f \in Seq(Entries) /\ DOMAIN f = 1 .. Len(f)
      /\ state[Shared] = "Running" => f \in {<<e>>, <<e, t>>} /\ released[Extra] = 0
      /\ state[Shared] = "Exited" =>
            \/ f \in {<<e>>, <<t, e>>} /\ released[Extra] = 0
            \/ f \in {<<>>, <<t>>} /\ released[Extra] = 1
      /\ state[Shared] \in {"Running", "Exited"}
  BY <1>0, TypesAre DEF SharedFits, ScopesFit, Begun
<1>g. f = finalizers[Shared] /\ finalizers'[Shared] = finalizers[Shared]'
  OBVIOUS
<1> HIDE DEF e, t, f
<1> DEFINE Good ==
      /\ state'[Shared] = "Running" => finalizers'[Shared] \in {<<e>>, <<e, t>>} /\ released'[Extra] = 0
      /\ state'[Shared] = "Exited" =>
            \/ finalizers'[Shared] \in {<<e>>, <<t, e>>} /\ released'[Extra] = 0
            \/ finalizers'[Shared] \in {<<>>, <<t>>} /\ released'[Extra] = 1
<1>2. ASSUME \E i \in DOMAIN finalizers[Shared] : Freeing(Shared, i, Extra)
      PROVE  Good
  <2>1. PICK i \in 1 .. Len(f) : Freeing(Shared, i, Extra)
    BY <1>2, <1>f, <1>g
  <2>2. /\ finalizers' = Rest(Shared, i) /\ released' = [released EXCEPT ![Extra] = released[Extra] + 1]
        /\ state' = state /\ state[Shared] = "Exited" /\ f[i] = e
    BY <2>1, <1>g DEF Freeing, Takes, e
  <2>3. finalizers'[Shared] = RemoveAt(f, i) /\ released'[Extra] = released[Extra] + 1
    BY <1>0, <1>g, <2>2 DEF TypesFit, Rest
  <2>4. f # <<>> /\ f # <<t>>
    BY <1>e, <2>1, <2>2
  <2>5. CASE f = <<e>>
    <3>1. i = 1
      BY <2>1, <2>5, PairsAre
    <3>2. finalizers'[Shared] = <<>>
      BY <2>3, <2>5, <3>1, PairsAre
    <3>3. released'[Extra] = 1
      BY <1>f, <2>2, <2>3, <2>4, <2>5
    <3> QED
      BY <2>2, <3>2, <3>3
  <2>6. CASE f = <<t, e>>
    <3>1. i = 1 \/ i = 2
      BY <2>1, <2>6, PairsAre
    <3>2. i = 2
      BY <1>e, <2>2, <2>6, <3>1
    <3>3. finalizers'[Shared] = <<t>>
      BY <2>3, <2>6, <3>2, PairsAre
    <3>4. released'[Extra] = 1
      BY <1>f, <2>2, <2>3, <2>4, <2>6
    <3> QED
      BY <2>2, <3>3, <3>4
  <2> QED
    BY <1>f, <2>2, <2>4, <2>5, <2>6
<1>3. ASSUME \A i \in DOMAIN finalizers[Shared] : ~Freeing(Shared, i, Extra)
      PROVE  Good
  <2>1. released'[Extra] = released[Extra]
    BY <1>0, <1>3, ReleasedMove
  <2>2. EntriesMove(Shared)
    BY <1>0, FinalizersMove
  <2>3. CASE EntriesStay(Shared)
    <3>1. finalizers'[Shared] = f /\ state'[Shared] = state[Shared]
      BY <1>f, <1>g, <2>3 DEF EntriesStay
    <3> QED
      BY <1>f, <2>1, <3>1
  <2>4. CASE EntriesGrow(Shared)
    <3>1. /\ state[Shared] = "Running" /\ state'[Shared] = "Running"
          /\ finalizers'[Shared] = Append(f, t) /\ StartsOpen
      <4>1. \A k \in Calls : ScopeOf(k) # Shared
        BY <1>0, CallsAre
      <4> QED
        BY <1>0, <1>g, <2>4, <4>1 DEF EntriesGrow, IsGiven, t
    <3>2. f = <<e>>
      <4>1. finalizers[Top] = <<>>
        BY <1>0, <3>1 DEF StartsOpen, Starts, ScopesFit
      <4>2. ~Has(Maps, Top, Detach(Top, Shared))
        <5>1. Len(finalizers[Top]) = 0
          BY <4>1
        <5>2. ~ \E i \in 1 .. Len(finalizers[Top]) : finalizers[Top][i] = Detach(Top, Shared)
          BY <5>1
        <5> QED
          BY <5>2 DEF Has, Maps, Contains
      <4>3. ~Has(Maps, Shared, Close(Top))
        BY <3>1, <4>2 DEF ForksFit, ForksDetach
      <4>4. ~ \E i \in 1 .. Len(f) : f[i] = t
        BY <4>3, <1>g DEF Has, Maps, Contains, t
      <4>5. f # <<e, t>>
        <5> SUFFICES ASSUME f = <<e, t>>
                     PROVE  FALSE
          OBVIOUS
        <5>1. 2 \in 1 .. Len(f) /\ f[2] = t
          OBVIOUS
        <5> QED
          BY <4>4, <5>1
      <4> QED
        BY <1>f, <3>1, <4>5
    <3>3. finalizers'[Shared] = <<e, t>>
      BY <3>1, <3>2, PairsAre
    <3> QED
      BY <1>f, <2>1, <3>1, <3>3
  <2>5. CASE EntriesTurn(Shared)
    <3>1. state[Shared] = "Running" /\ state'[Shared] = "Exited" /\ finalizers'[Shared] = Reverse(f)
      BY <1>g, <2>5 DEF EntriesTurn
    <3>2. finalizers'[Shared] \in {<<e>>, <<t, e>>}
      BY <1>f, <3>1, PairsAre
    <3> QED
      BY <1>f, <2>1, <3>1, <3>2
  <2>6. CASE EntriesShrink(Shared)
    <3>1. PICK i \in 1 .. Len(f) : finalizers'[Shared] = RemoveAt(f, i) /\ IsTaken(Shared, i)
      BY <1>g, <2>6 DEF EntriesShrink
    <3>2. ClosingTop(i) /\ state[Shared] = "Exited" /\ state'[Shared] = "Exited"
      BY <1>0, <1>3, <1>f, <1>g, <2>6, <3>1 DEF EntriesShrink, IsTaken
    <3>3. f[i] = t
      BY <1>g, <3>2 DEF ClosingTop, t
    <3>4. f # <<>> /\ f # <<e>>
      BY <1>e, <3>1, <3>3
    <3>5. CASE f = <<t>>
      <4>1. i = 1
        BY <3>1, <3>5, PairsAre
      <4>2. finalizers'[Shared] = <<>>
        BY <3>1, <3>5, <4>1, PairsAre
      <4>3. released[Extra] = 1
        BY <1>f, <3>2, <3>4, <3>5
      <4> QED
        BY <2>1, <3>2, <4>2, <4>3
    <3>6. CASE f = <<t, e>>
      <4>1. i = 1 \/ i = 2
        BY <3>1, <3>6, PairsAre
      <4>2. i = 1
        BY <1>e, <3>3, <3>6, <4>1
      <4>3. finalizers'[Shared] = <<e>>
        BY <3>1, <3>6, <4>2, PairsAre
      <4>4. released[Extra] = 0
        BY <1>f, <3>2, <3>4, <3>6
      <4> QED
        BY <2>1, <3>2, <4>3, <4>4
    <3> QED
      BY <1>f, <3>2, <3>4, <3>5, <3>6
  <2>7. CASE EntriesLose(Shared)
    <3>1. state[Shared] = "Running" /\ state'[Shared] = "Running" /\ finalizers'[Shared] = RemoveFirst(f, t)
      BY <1>g, <2>7 DEF EntriesLose, t
    <3>2. finalizers'[Shared] = <<e>>
      <4>1. RemoveFirst(<<e, t>>, t) = <<e>> /\ RemoveFirst(<<e>>, t) = <<e>>
        BY <1>e, LastRemoved
      <4> QED
        BY <1>f, <3>1, <4>1
    <3> QED
      BY <1>f, <2>1, <3>1, <3>2
  <2>8. ~EntriesStart(Shared)
    BY <1>0 DEF EntriesStart
  <2> QED
    BY <2>2, <2>3, <2>4, <2>5, <2>6, <2>7, <2>8 DEF EntriesMove
<1>4. Good
  BY <1>2, <1>3
<1> QED
  BY <1>1, <1>4 DEF SharedFits, e, t

-----------------------------------------------------------------------------
(* Observers.                                                              *)

(* The number of observers fits release maps f and steps p.                *)
CountIs(f, p, o, m, l) ==
    LET n == Number(f, l) + Cardinality(Watching(p, l)) IN
    /\ l \notin m => o[l] = n
    /\ l \in m => o[l] > n

(* The counts of the invariant, before and after a step. *)
LEMMA CountsFitIs ==
    /\ CountsFit <=> \A l \in Layers : CountIs(finalizers, pc, observers, miscounted, l)
    /\ CountsFit' <=> \A l \in Layers : CountIs(finalizers', pc', observers', miscounted', l)
<1>1. \A l : Releases(l) = Places(finalizers, l) /\ Releases(l)' = Places(finalizers', l)
  BY DEF Releases, Places
<1>2. \A l : Observing(l) = Watching(pc, l) /\ Observing(l)' = Watching(pc', l)
  BY DEF Observing, Watching
<1> QED
  BY <1>1, <1>2 DEF CountsFit, CountIs, Number

(* How the number of releases in the scopes moves.                         *)
LEMMA NumberGets ==
    ASSUME TypesFit, NEW s \in Scopes, NEW x \in Entries, Gets(s, x), NEW l
    PROVE  Number(finalizers', l) = IF x = Release(l) THEN Number(finalizers, l) + 1 ELSE Number(finalizers, l)
<1>1. AreMaps(finalizers) /\ finalizers' = [finalizers EXCEPT ![s] = Append(finalizers[s], x)]
  BY TypesAre DEF Gets
<1>2. OneMore(finalizers, finalizers', x, l)
  BY <1>1, NumberAppended
<1> QED
  BY <1>2 DEF OneMore

(* When a scope begins to close. *)
LEMMA NumberCloses ==
    ASSUME TypesFit, NEW s \in Scopes, NEW by, Closes(s, by), NEW l
    PROVE  Number(finalizers', l) = Number(finalizers, l)
<1>1. AreMaps(finalizers) /\ finalizers' = [finalizers EXCEPT ![s] = Reverse(finalizers[s])]
  BY TypesAre DEF Closes
<1> QED
  BY <1>1, NumberReversed

(* When an entry is taken. *)
LEMMA NumberRest ==
    ASSUME TypesFit, NEW s \in Scopes, NEW i \in 1 .. Len(finalizers[s]), NEW l
    PROVE  /\ AreMaps(Rest(s, i))
           /\ Number(Rest(s, i), l) =
                IF finalizers[s][i] = Release(l) THEN Number(finalizers, l) - 1 ELSE Number(finalizers, l)
<1>1. AreMaps(finalizers) /\ Rest(s, i) = [finalizers EXCEPT ![s] = RemoveAt(finalizers[s], i)]
  BY TypesAre DEF Rest
<1>2. OneLess(finalizers, Rest(s, i), finalizers[s][i], l)
  BY <1>1, NumberRemoved
<1> QED
  BY <1>2 DEF OneLess

(* When releaseAll takes an entry. *)
LEMMA NumberTakes ==
    ASSUME TypesFit, NEW s \in Scopes, NEW i \in 1 .. Len(finalizers[s]), NEW t \in Scopes,
           Drops(s, i) \/ TakesClosing(s, i, t), NEW l
    PROVE  Number(finalizers', l) =
             IF finalizers[s][i] = Release(l) THEN Number(finalizers, l) - 1 ELSE Number(finalizers, l)
<1> DEFINE g == Rest(s, i)
<1>1. /\ AreMaps(g)
      /\ Number(g, l) =
           IF finalizers[s][i] = Release(l) THEN Number(finalizers, l) - 1 ELSE Number(finalizers, l)
  BY NumberRest
<1>2. CASE Drops(s, i)
  BY <1>1, <1>2 DEF Drops
<1>3. CASE TakesClosing(s, i, t)
  <2>1. t # s /\ finalizers' = [g EXCEPT ![t] = Reverse(finalizers[t])]
    BY <1>3 DEF TakesClosing
  <2>2. g[t] = finalizers[t]
    BY <2>1 DEF Rest, TypesFit
  <2> HIDE DEF g
  <2>3. finalizers' = [g EXCEPT ![t] = Reverse(g[t])]
    BY <2>1, <2>2
  <2>4. Number(finalizers', l) = Number(g, l)
    BY <1>1, <2>3, NumberReversed
  <2> QED
    BY <1>1, <2>4
<1> QED
  BY <1>2, <1>3

(* When the scope of the application detaches. *)
LEMMA NumberDetaches ==
    ASSUME TypesFit, SharedFits, NEW i, Detaching(i), NEW l
    PROVE  Number(finalizers', l) = Number(finalizers, l)
<1> DEFINE g == Rest(Top, i)
           f == finalizers[Shared]
<1>0. Top \in Scopes /\ Shared \in Scopes /\ Top # Shared
  BY NamesAre
<1>1. i \in 1 .. Len(finalizers[Top]) /\ finalizers[Top][i] = Detach(Top, Shared)
  BY DEF Detaching, Takes
<1>2. AreMaps(g) /\ Number(g, l) = Number(finalizers, l)
  BY <1>0, <1>1, NumberRest, FinalizersDiffer
<1>3. g[Shared] = f /\ f \in Seq(Entries)
  BY <1>0, TypesAre DEF Rest, TypesFit
<1>4. CASE state[Shared] # "Running"
  BY <1>2, <1>4 DEF Detaching
<1>5. CASE state[Shared] = "Running"
  <2>1. finalizers' = [g EXCEPT ![Shared] = RemoveFirst(f, Close(Top))]
    BY <1>5 DEF Detaching
  <2>2. f \in {<<Free(Extra)>>, <<Free(Extra), Close(Top)>>}
    BY <1>5 DEF SharedFits
  <2>3. Free(Extra) # Close(Top)
    BY FinalizersDiffer
  <2> HIDE DEF g, f
  <2>4. CASE f = <<Free(Extra)>>
    <3>1. RemoveFirst(f, Close(Top)) = g[Shared]
      BY <1>3, <2>3, <2>4, LastRemoved
    <3>2. finalizers' = g
      BY <1>0, <1>2, <2>1, <3>1 DEF AreMaps
    <3> QED
      BY <1>2, <3>2
  <2>5. CASE f = <<Free(Extra), Close(Top)>>
    <3>1. RemoveFirst(f, Close(Top)) = RemoveAt(f, 2)
      <4>1. RemoveFirst(<<Free(Extra), Close(Top)>>, Close(Top)) = <<Free(Extra)>>
        BY <2>3, LastRemoved
      <4>2. RemoveAt(<<Free(Extra), Close(Top)>>, 2) = <<Free(Extra)>>
        BY PairsAre
      <4> QED
        BY <2>5, <4>1, <4>2
    <3>2. 2 \in 1 .. Len(g[Shared]) /\ g[Shared][2] = Close(Top)
      BY <1>3, <2>5
    <3>3. finalizers' = [g EXCEPT ![Shared] = RemoveAt(g[Shared], 2)]
      BY <1>3, <2>1, <3>1
    <3>4. OneLess(g, finalizers', g[Shared][2], l)
      BY <1>0, <1>2, <3>2, <3>3, NumberRemoved
    <3> QED
      BY <1>2, <3>2, <3>4, FinalizersDiffer DEF OneLess
  <2> QED
    BY <2>2, <2>4, <2>5
<1> QED
  BY <1>4, <1>5

(* When the application forks its scope. *)
LEMMA NumberStarts ==
    ASSUME TypesFit, ScopesFit, StartsOpen, NEW l
    PROVE  Number(finalizers', l) = Number(finalizers, l)
<1>0. Top \in Scopes /\ Shared \in Scopes /\ Top # Shared /\ Close(Top) \in Entries /\ Detach(Top, Shared) \in Entries
  BY NamesAre, EntriesAre
<1>1. finalizers[Top] = <<>>
  BY <1>0 DEF StartsOpen, Starts, ScopesFit
<1>2. AreMaps(finalizers)
  BY TypesAre
<1> DEFINE g == [finalizers EXCEPT ![Shared] = Append(finalizers[Shared], Close(Top))]
<1>3. AreMaps(g) /\ Number(g, l) = Number(finalizers, l)
  <2>1. g = [finalizers EXCEPT ![Shared] = Append(finalizers[Shared], Close(Top))]
    OBVIOUS
  <2> HIDE DEF g
  <2>2. OneMore(finalizers, g, Close(Top), l)
    BY <1>0, <1>2, <2>1, NumberAppended
  <2>3. Close(Top) # Release(l)
    BY FinalizersDiffer
  <2> QED
    BY <2>2, <2>3 DEF OneMore
<1>4. finalizers' = [g EXCEPT ![Top] = <<Detach(Top, Shared)>>]
  BY <1>0 DEF StartsOpen, TypesFit
<1>5. g[Top] = <<>>
  BY <1>0, <1>1 DEF TypesFit
<1> HIDE DEF g
<1>6. <<Detach(Top, Shared)>> = Append(g[Top], Detach(Top, Shared))
  <2>1. Append(<<>>, Detach(Top, Shared)) = <<Detach(Top, Shared)>>
    OBVIOUS
  <2> QED
    BY <1>5, <2>1
<1>7. finalizers' = [g EXCEPT ![Top] = Append(g[Top], Detach(Top, Shared))]
  BY <1>4, <1>6
<1>8. OneMore(g, finalizers', Detach(Top, Shared), l)
  BY <1>0, <1>3, <1>7, NumberAppended
<1> QED
  BY <1>3, <1>8, FinalizersDiffer DEF OneMore

(* The calls that are counted, when none comes or goes.                    *)
LEMMA WatchingKept ==
    ASSUME NEW p, NEW q, \A j \in Calls : q[j] = "observed" <=> p[j] = "observed", NEW l
    PROVE  Watching(q, l) = Watching(p, l)
  BY DEF Watching

(* A count stays right when nothing it depends on changes. *)
LEMMA CountKept ==
    ASSUME NEW f, NEW p, NEW o, NEW m, NEW l, CountIs(f, p, o, m, l),
           NEW g, NEW q, NEW u, NEW n, Number(g, l) = Number(f, l),
           Watching(q, l) = Watching(p, l), u[l] = o[l], l \in n <=> l \in m
    PROVE  CountIs(g, q, u, n, l)
  BY DEF CountIs

(* A call goes on: others that are counted stay so.                        *)
LEMMA WatchingGoes ==
    ASSUME TypesFit, NEW k \in Calls, NEW step, Goes(k, step), NEW l
    PROVE  /\ Cardinality(Watching(pc, l)) \in Nat
           /\ LayerOf(k) # l \/ (step = "observed" <=> pc[k] = "observed") =>
                 Watching(pc', l) = Watching(pc, l)
           /\ LayerOf(k) = l /\ step = "observed" /\ pc[k] # "observed" =>
                 Cardinality(Watching(pc', l)) = Cardinality(Watching(pc, l)) + 1
           /\ LayerOf(k) = l /\ step # "observed" /\ pc[k] = "observed" =>
                 Cardinality(Watching(pc', l)) = Cardinality(Watching(pc, l)) - 1
<1>1. k \in Builds /\ \A j \in Calls : j \in Builds
  BY CallsAre
<1>2. pc'[k] = step /\ \A j \in Builds : j # k => pc'[j] = pc[j]
  BY <1>1, GoesIs
<1>3. \A j \in Calls \ {k} : pc'[j] = "observed" <=> pc[j] = "observed"
  BY <1>1, <1>2
<1>4. WatchesMove(pc, pc', k, l)
  BY <1>3, WatchingMoved
<1> QED
  BY <1>2, <1>4 DEF WatchesMove

(* The counts stay right in steps of calls that change no scope, *)
LEMMA CountCallStep ==
    ASSUME Fit, Moves, NEW k \in Calls, CallMoves(k), NEW l \in Layers
    PROVE  CountIs(finalizers', pc', observers', miscounted', l)
<1> USE DEF Fit
<1>1. CountIs(finalizers, pc, observers, miscounted, l)
  BY CountsFitIs
<1>2. finalizers' = finalizers
  BY DEF CallMoves, Begins, Finds, Abandons, LeavesUncounted, Returns, Counts, FindsWrong, NoScope, Stays
<1>3. LayerOf(k) \in Layers /\ k \in Builds
  BY CallsAre, NamesAre
<1>4. Number(finalizers, l) \in Nat /\ observers[l] \in Nat
  BY PlacesFinite, TypesAre DEF TypesFit
<1>5. CASE Counts(k)
  <2>1. /\ observers' = [observers EXCEPT ![LayerOf(k)] = observers[LayerOf(k)] + 1]
        /\ Goes(k, "observed") /\ miscounted' = miscounted /\ pc[k] = "awaiting"
    BY <1>5 DEF Counts
  <2>2. CASE LayerOf(k) = l
    <3>1. observers'[l] = observers[l] + 1
      BY <1>3, <2>1, <2>2 DEF TypesFit
    <3>2. Cardinality(Watching(pc, l)) \in Nat /\ Cardinality(Watching(pc', l)) = Cardinality(Watching(pc, l)) + 1
      BY <2>1, <2>2, WatchingGoes
    <3> QED
      BY <1>1, <1>2, <1>4, <2>1, <3>1, <3>2 DEF CountIs
  <2>3. CASE LayerOf(k) # l
    <3>1. observers'[l] = observers[l]
      BY <1>3, <2>1, <2>3 DEF TypesFit
    <3>2. Watching(pc', l) = Watching(pc, l)
      BY <2>1, <2>3, WatchingGoes
    <3> QED
      BY <1>1, <1>2, <2>1, <3>1, <3>2, CountKept
  <2> QED
    BY <2>2, <2>3
<1>6. CASE LeavesUncounted(k)
  <2>1. /\ observers' = observers /\ miscounted' = miscounted \cup {LayerOf(k)}
        /\ Goes(k, "interrupted") /\ pc[k] = "observed"
    BY <1>6 DEF LeavesUncounted
  <2>2. CASE LayerOf(k) = l
    <3>1. Cardinality(Watching(pc, l)) \in Nat /\ Cardinality(Watching(pc', l)) = Cardinality(Watching(pc, l)) - 1
      BY <2>1, <2>2, WatchingGoes
    <3>2. observers[l] >= Number(finalizers, l) + Cardinality(Watching(pc, l))
      BY <1>1, <1>4, <3>1 DEF CountIs
    <3>3. l \in miscounted'
      BY <2>1, <2>2
    <3> QED
      BY <1>2, <1>4, <2>1, <3>1, <3>2, <3>3 DEF CountIs
  <2>3. CASE LayerOf(k) # l
    <3>1. l \in miscounted' <=> l \in miscounted
      BY <2>1, <2>3
    <3>2. Watching(pc', l) = Watching(pc, l)
      BY <2>1, <2>3, WatchingGoes
    <3> QED
      BY <1>1, <1>2, <2>1, <3>1, <3>2, CountKept
  <2> QED
    BY <2>2, <2>3
<1>7. CASE ~Counts(k) /\ ~LeavesUncounted(k)
  <2>1. observers' = observers /\ miscounted' = miscounted
    BY <1>7 DEF CallMoves, Begins, Finds, Abandons, Returns, FindsWrong, NoEntry
  <2>2. pc[k] # "observed" /\ \E step : step # "observed" /\ Goes(k, step)
    BY <1>7 DEF CallMoves, Begins, Finds, Abandons, Returns, FindsWrong, Ends, Wrong
  <2>3. Watching(pc', l) = Watching(pc, l)
    BY <2>2, WatchingGoes
  <2> QED
    BY <1>1, <1>2, <2>1, <2>3, CountKept
<1> QED
  BY <1>5, <1>6, <1>7

(* in those that do, *)
LEMMA CountBuildStep ==
    ASSUME Fit, Moves, NEW k \in Calls, BuildMoves(k), NEW l \in Layers
    PROVE  CountIs(finalizers', pc', observers', miscounted', l)
<1> USE DEF Fit
<1>1. CountIs(finalizers, pc, observers, miscounted, l)
  BY CountsFitIs
<1>3. LayerOf(k) \in Layers /\ k \in Builds /\ ScopeOf(k) \in Scopes /\ LayerOf(k) \in Scopes
      /\ Release(LayerOf(k)) \in Entries
  BY CallsAre, NamesAre, EntriesAre
<1>4. Number(finalizers, l) \in Nat /\ observers[l] \in Nat /\ observers[LayerOf(k)] \in Nat
  BY <1>3, PlacesFinite, TypesAre DEF TypesFit
<1>5. ASSUME NEW n \in {observers[LayerOf(k)], observers[LayerOf(k)] + 1}, NEW a \in {"ok", "interrupted"},
             Adds(k, n, a)
      PROVE  CountIs(finalizers', pc', observers', miscounted', l)
  <2>1. /\ observers' = [observers EXCEPT ![LayerOf(k)] = n]
        /\ Goes(k, a) /\ miscounted' = miscounted /\ Comes(k, n) /\ a # "observed"
        /\ Gets(ScopeOf(k), Release(LayerOf(k)))
    BY <1>5 DEF Adds
  <2>2. Number(finalizers', l) =
           IF Release(LayerOf(k)) = Release(l) THEN Number(finalizers, l) + 1 ELSE Number(finalizers, l)
    BY <1>3, <2>1, NumberGets
  <2>3. CASE LayerOf(k) = l
    <3>1. observers'[l] = n
      BY <1>3, <2>1, <2>3 DEF TypesFit
    <3>2. Number(finalizers', l) = Number(finalizers, l) + 1
      BY <2>2, <2>3
    <3>3. CASE pc[k] = "observed"
      <4>1. Cardinality(Watching(pc, l)) \in Nat /\ Cardinality(Watching(pc', l)) = Cardinality(Watching(pc, l)) - 1
        BY <2>1, <2>3, <3>3, WatchingGoes
      <4>2. n = observers[l]
        BY <2>1, <2>3, <3>3 DEF Comes
      <4> QED
        BY <1>1, <1>4, <2>1, <3>1, <3>2, <4>1, <4>2 DEF CountIs
    <3>4. CASE pc[k] # "observed"
      <4>1. Cardinality(Watching(pc, l)) \in Nat /\ Watching(pc', l) = Watching(pc, l)
        BY <2>1, <2>3, <3>4, WatchingGoes
      <4>2. n = observers[l] + 1
        BY <2>1, <2>3, <3>4 DEF Comes
      <4> QED
        BY <1>1, <1>4, <2>1, <3>1, <3>2, <4>1, <4>2 DEF CountIs
    <3> QED
      BY <3>3, <3>4
  <2>4. CASE LayerOf(k) # l
    <3>1. observers'[l] = observers[l]
      BY <1>3, <2>1, <2>4 DEF TypesFit
    <3>2. Number(finalizers', l) = Number(finalizers, l)
      BY <2>2, <2>4, FinalizersDiffer
    <3>3. Watching(pc', l) = Watching(pc, l)
      BY <2>1, <2>4, WatchingGoes
    <3> QED
      BY <1>1, <2>1, <3>1, <3>2, <3>3, CountKept
  <2> QED
    BY <2>3, <2>4
<1>6. ASSUME NEW n \in {observers[LayerOf(k)], observers[LayerOf(k)] + 1}, AddsLate(k, n)
      PROVE  CountIs(finalizers', pc', observers', miscounted', l)
  <2>1. /\ observers' = [observers EXCEPT ![LayerOf(k)] = n - 1]
        /\ Goes(k, "adding") /\ miscounted' = miscounted /\ Comes(k, n)
        /\ Closes(LayerOf(k), k) \/ Stays
    BY <1>6 DEF AddsLate
  <2>2. Number(finalizers', l) = Number(finalizers, l)
    BY <1>3, <2>1, NumberCloses DEF Stays
  <2>3. CASE LayerOf(k) = l
    <3>1. observers'[l] = n - 1
      BY <1>3, <2>1, <2>3 DEF TypesFit
    <3>3. CASE pc[k] = "observed"
      <4>1. Cardinality(Watching(pc, l)) \in Nat /\ Cardinality(Watching(pc', l)) = Cardinality(Watching(pc, l)) - 1
        BY <2>1, <2>3, <3>3, WatchingGoes
      <4>2. n = observers[l]
        BY <2>1, <2>3, <3>3 DEF Comes
      <4> QED
        BY <1>1, <1>4, <2>1, <2>2, <3>1, <4>1, <4>2 DEF CountIs
    <3>4. CASE pc[k] # "observed"
      <4>1. Cardinality(Watching(pc, l)) \in Nat /\ Watching(pc', l) = Watching(pc, l)
        BY <2>1, <2>3, <3>4, WatchingGoes
      <4>2. n = observers[l] + 1
        BY <2>1, <2>3, <3>4 DEF Comes
      <4> QED
        BY <1>1, <1>4, <2>1, <2>2, <3>1, <4>1, <4>2 DEF CountIs
    <3> QED
      BY <3>3, <3>4
  <2>4. CASE LayerOf(k) # l
    <3>1. observers'[l] = observers[l]
      BY <1>3, <2>1, <2>4 DEF TypesFit
    <3>3. Watching(pc', l) = Watching(pc, l)
      BY <2>1, <2>4, WatchingGoes
    <3> QED
      BY <1>1, <2>1, <2>2, <3>1, <3>3, CountKept
  <2> QED
    BY <2>3, <2>4
<1>7. ASSUME NEW end, Fails(k, end)
      PROVE  CountIs(finalizers', pc', observers', miscounted', l)
  <2>1. observers' = observers /\ miscounted' = miscounted /\ Goes(k, "closing") /\ Closes(LayerOf(k), k)
        /\ pc[k] # "observed"
    BY <1>7 DEF Fails
  <2>2. Number(finalizers', l) = Number(finalizers, l)
    BY <1>3, <2>1, NumberCloses
  <2>3. Watching(pc', l) = Watching(pc, l)
    BY <2>1, WatchingGoes
  <2> QED
    BY <1>1, <2>1, <2>2, <2>3, CountKept
<1>8. CASE Acquires(k)
  <2>1. observers' = observers /\ miscounted' = miscounted /\ Goes(k, "acquired") /\ pc[k] # "observed"
        /\ Gets(LayerOf(k), Free(LayerOf(k))) /\ LayerOf(k) \in Leaves
    BY <1>8 DEF Acquires, NoEntry
  <2>2. Free(LayerOf(k)) \in Entries /\ Free(LayerOf(k)) # Release(l)
    BY <2>1, NamesAre, EntriesAre, FinalizersDiffer
  <2>3. Number(finalizers', l) = Number(finalizers, l)
    BY <1>3, <2>1, <2>2, NumberGets
  <2>4. Watching(pc', l) = Watching(pc, l)
    BY <2>1, WatchingGoes
  <2> QED
    BY <1>1, <2>1, <2>3, <2>4, CountKept
<1>9. CASE MakesLeaf(k) \/ MakesParts(k)
  <2>1. observers' = observers /\ miscounted' = miscounted /\ finalizers' = finalizers /\ pc[k] = "resource"
    BY <1>9 DEF MakesLeaf, MakesParts, Makes, NoEntry
  <2>2. Watching(pc', l) = Watching(pc, l)
    <3>1. CASE MakesLeaf(k)
      <4>1. Goes(k, "building")
        BY <3>1 DEF MakesLeaf
      <4> QED
        BY <2>1, <4>1, WatchingGoes
    <3>2. CASE MakesParts(k)
      <4>1. PICK is \in {{1}, {1, 2}} : CallsParts(k, LayerOf(k), is)
        BY <3>2 DEF MakesParts
      <4>2. pc'[k] = "building" /\ \A j \in Builds : j # k => pc'[j] = pc[j] \/ (pc[j] = "idle" /\ pc'[j] = "called")
        BY <1>3, <3>2, <4>1, PartsCalled
      <4>3. \A j \in Calls : pc'[j] = "observed" <=> pc[j] = "observed"
        BY <2>1, <4>2, CallsAre
      <4> QED
        BY <4>3, WatchingKept
    <3> QED
      BY <1>9, <3>1, <3>2
  <2> QED
    BY <1>1, <2>1, <2>2, CountKept
<1> QED
  BY <1>5, <1>6, <1>7, <1>8, <1>9 DEF BuildMoves

(* in those of the application, *)
LEMMA CountMainStep ==
    ASSUME Fit, Moves, MainMoves, NEW l \in Layers
    PROVE  CountIs(finalizers', pc', observers', miscounted', l)
<1> USE DEF Fit
<1>1. CountIs(finalizers, pc, observers, miscounted, l)
  BY CountsFitIs
<1>2. observers' = observers /\ miscounted' = miscounted
  BY DEF MainMoves, StartsOpen, StartsClosed, Starts, Interrupts, MainEnds, MainLeaves, MainLeft,
         SharedCloses, CallsNext, NoEntry
<1>3. Number(finalizers', l) = Number(finalizers, l)
  <2>1. Top \in Scopes /\ Shared \in Scopes
    BY NamesAre
  <2>2. CASE StartsOpen
    BY <2>2, NumberStarts
  <2>3. ASSUME NEW s \in Scopes, NEW by, Closes(s, by)
        PROVE  Number(finalizers', l) = Number(finalizers, l)
    BY <2>3, NumberCloses
  <2>4. finalizers' = finalizers \/ StartsOpen \/ Closes(Top, Main) \/ Closes(Shared, Other)
    BY DEF MainMoves, StartsClosed, Interrupts, MainEnds, MainLeaves, MainLeft,
           SharedCloses, CallsNext, NoScope, Stays
  <2> QED
    BY <2>1, <2>2, <2>3, <2>4
<1>4. Watching(pc', l) = Watching(pc, l)
  <2>0. Main \in Builds /\ (\A k \in Calls : k # Main /\ k \in Builds)
    BY CallsAre
  <2>1. ASSUME NEW step, Goes(Main, step)
        PROVE  \A j \in Calls : pc'[j] = "observed" <=> pc[j] = "observed"
    BY <2>0, <2>1, GoesIs
  <2>2. ASSUME NEW k \in Builds, NEW c, NEW is, CallsParts(k, c, is), pc[k] # "observed",
               \/ Starts /\ k = Main /\ c = Top /\ is \in {{1}, {1, 2}}
               \/ CallsNext(k) /\ c = LayerOf(k) /\ is = {2}
        PROVE  \A j \in Calls : pc'[j] = "observed" <=> pc[j] = "observed"
    <3>1. pc'[k] = "building" /\ \A j \in Builds : j # k => pc'[j] = pc[j] \/ (pc[j] = "idle" /\ pc'[j] = "called")
      BY <2>2, PartsCalled
    <3> QED
      BY <2>0, <2>2, <3>1
  <2>3. CASE Starts
    <3>1. PICK is \in {{1}, {1, 2}} : CallsParts(Main, Top, is)
      BY <2>3 DEF Starts
    <3>2. pc[Main] # "observed"
      BY <2>3 DEF Starts
    <3> QED
      BY <2>0, <2>2, <2>3, <3>1, <3>2, WatchingKept
  <2>4. ASSUME NEW k \in Builds, CallsNext(k)
        PROVE  Watching(pc', l) = Watching(pc, l)
    <3>1. CallsParts(k, LayerOf(k), {2}) /\ pc[k] # "observed"
      BY <2>4 DEF CallsNext
    <3>2. \A j \in Calls : pc'[j] = "observed" <=> pc[j] = "observed"
      BY <2>2, <2>4, <3>1
    <3> QED
      BY <3>2, WatchingKept
  <2>5. CASE pc' = pc
    BY <2>5
  <2>6. CASE \E step : Goes(Main, step)
    BY <2>1, <2>6, WatchingKept
  <2>7. Starts \/ (\E k \in Builds : CallsNext(k)) \/ pc' = pc \/ \E step : Goes(Main, step)
    BY DEF MainMoves, StartsOpen, StartsClosed, Interrupts, MainEnds, MainLeaves, MainLeft, SharedCloses
  <2> QED
    BY <2>3, <2>4, <2>5, <2>6, <2>7
<1> QED
  BY <1>1, <1>2, <1>3, <1>4, CountKept

(* and in those of releaseAll. *)
LEMMA CountFinalizerStep ==
    ASSUME Fit, Moves, FinalizerMoves, NEW l \in Layers
    PROVE  CountIs(finalizers', pc', observers', miscounted', l)
<1> USE DEF Fit
<1>1. CountIs(finalizers, pc, observers, miscounted, l)
  BY CountsFitIs
<1>2. pc' = pc /\ miscounted' = miscounted
  BY DEF FinalizerMoves, Releasing, ClosingTop, Detaching, Freeing, Finishes, Takes, NoEntry
<1>3. ASSUME Number(finalizers', l) = Number(finalizers, l), observers'[l] = observers[l]
      PROVE  CountIs(finalizers', pc', observers', miscounted', l)
  BY <1>1, <1>2, <1>3 DEF CountIs
<1>4. Top \in Scopes /\ Shared \in Scopes /\ Composed \subseteq Scopes /\ Leaves \subseteq Scopes
      /\ Under \subseteq Scopes /\ Under \subseteq Layers
  BY NamesAre
<1>5. ASSUME NEW s \in Composed, NEW t \in Under, NEW i, Releasing(s, i, t)
      PROVE  CountIs(finalizers', pc', observers', miscounted', l)
  <2>1. /\ i \in 1 .. Len(finalizers[s]) /\ finalizers[s][i] = Release(t)
        /\ observers' = [observers EXCEPT ![t] = observers[t] - 1]
        /\ TakesClosing(s, i, t) \/ Drops(s, i)
    BY <1>5 DEF Releasing, Takes
  <2>2. Number(finalizers', l) =
          IF finalizers[s][i] = Release(l) THEN Number(finalizers, l) - 1 ELSE Number(finalizers, l)
    BY <1>4, <2>1, NumberTakes
  <2>3. CASE t = l
    <3>1. observers'[l] = observers[l] - 1
      BY <1>4, <2>1, <2>3 DEF TypesFit
    <3>2. Number(finalizers', l) = Number(finalizers, l) - 1
      BY <2>1, <2>2, <2>3
    <3>3. Number(finalizers, l) \in Nat /\ observers[l] \in Nat /\ Cardinality(Watching(pc, l)) \in Nat
      BY CountsAre DEF TypesFit
    <3> QED
      BY <1>1, <1>2, <3>1, <3>2, <3>3 DEF CountIs
  <2>4. CASE t # l
    <3>1. observers'[l] = observers[l]
      BY <1>4, <2>1, <2>4 DEF TypesFit
    <3>2. Number(finalizers', l) = Number(finalizers, l)
      BY <2>1, <2>2, <2>4, FinalizersDiffer
    <3> QED
      BY <1>3, <3>1, <3>2
  <2> QED
    BY <2>3, <2>4
<1>6. ASSUME NEW i, ClosingTop(i)
      PROVE  CountIs(finalizers', pc', observers', miscounted', l)
  <2>1. /\ i \in 1 .. Len(finalizers[Shared]) /\ finalizers[Shared][i] = Close(Top) /\ observers' = observers
        /\ TakesClosing(Shared, i, Top) \/ Drops(Shared, i)
    BY <1>6 DEF ClosingTop, Takes
  <2>2. Number(finalizers', l) =
          IF finalizers[Shared][i] = Release(l) THEN Number(finalizers, l) - 1 ELSE Number(finalizers, l)
    BY <1>4, <2>1, NumberTakes
  <2> QED
    BY <1>3, <2>1, <2>2, FinalizersDiffer
<1>7. ASSUME NEW i, Detaching(i)
      PROVE  CountIs(finalizers', pc', observers', miscounted', l)
  <2>1. observers' = observers
    BY <1>7 DEF Detaching
  <2> QED
    BY <1>3, <1>7, <2>1, NumberDetaches
<1>8. ASSUME NEW s \in Scopes, NEW i, NEW r, Freeing(s, i, r)
      PROVE  CountIs(finalizers', pc', observers', miscounted', l)
  <2>1. /\ i \in 1 .. Len(finalizers[s]) /\ finalizers[s][i] = Free(r) /\ observers' = observers
        /\ finalizers' = Rest(s, i)
    BY <1>8 DEF Freeing, Takes
  <2>2. Number(Rest(s, i), l) =
          IF finalizers[s][i] = Release(l) THEN Number(finalizers, l) - 1 ELSE Number(finalizers, l)
    BY <2>1, NumberRest
  <2> QED
    BY <1>3, <2>1, <2>2, FinalizersDiffer
<1>9. ASSUME NEW r, Finishes(r)
      PROVE  CountIs(finalizers', pc', observers', miscounted', l)
  <2>1. finalizers' = finalizers /\ observers' = observers
    BY <1>9 DEF Finishes, NoEntry
  <2> QED
    BY <1>3, <2>1
<1> QED
  BY <1>4, <1>5, <1>6, <1>7, <1>8, <1>9 DEF FinalizerMoves

(* Every step keeps the counts right. *)
LEMMA CountsStep ==
    ASSUME Fit, Moves
    PROVE  CountsFit'
<1>1. ASSUME NEW l \in Layers
      PROVE  CountIs(finalizers', pc', observers', miscounted', l)
  BY CountCallStep, CountBuildStep, CountMainStep, CountFinalizerStep DEF Moves
<1> QED
  BY <1>1, CountsFitIs

-----------------------------------------------------------------------------
(* Entries of the scopes of composed layers.                               *)

(* A call comes to be adding, or to success, by these steps only.          *)
LEMMA EndsMove ==
    ASSUME TypesFit, EntriesFit, ScopesFit, CallsFit, Moves, NEW k \in Calls, pc'[k] # pc[k]
    PROVE  /\ pc'[k] = "adding" => \E n : AddsLate(k, n)
           /\ pc'[k] = "ok" => pc[k] = "adding" \/ \E n : Adds(k, n, "ok")
           /\ pc'[k] = "observed" => Counts(k)
           /\ pc[k] = "adding" => \E a \in Ends : Returns(k, a)
<1>0. k \in Builds
  BY CallsAre
<1>1. CASE Called(k)
  BY <1>1 DEF Called
<1>2. ASSUME NEW step, Goes(k, step)
      PROVE  pc'[k] = step
  BY <1>0, <1>2, GoesIs
<1>3. CASE CallMoves(k)
  <2>1. CASE Begins(k) \/ Finds(k) \/ Abandons(k) \/ LeavesUncounted(k)
    <3>1. pc'[k] \in {"resource", "awaiting", "interrupted"} /\ pc[k] # "adding"
      BY <1>2, <2>1 DEF Begins, Finds, Abandons, LeavesUncounted
    <3> QED
      BY <3>1
  <2>2. ASSUME NEW a \in Ends, Returns(k, a)
        PROVE  /\ pc'[k] \in Ends /\ (pc'[k] = "ok" => pc[k] = "adding")
               /\ pc[k] \in {"adding", "closing"}
    <3>1. pc'[k] = a
      BY <1>2, <2>2 DEF Returns
    <3>2. a = "ok" /\ pc[k] = "closing" => FALSE
      <4> SUFFICES ASSUME a = "ok", pc[k] = "closing"
                   PROVE  FALSE
        OBVIOUS
      <4>1. LayerOf(k) \in Layers /\ memo[LayerOf(k)] \in Wrong
        BY CallsAre, NamesAre DEF EntriesFit, CallFits
      <4>2. memo'[LayerOf(k)] = memo[LayerOf(k)]
        BY <2>2, <4>1 DEF Returns, TypesFit
      <4> QED
        BY <2>2, <4>1, <4>2 DEF Returns, Wrong
    <3> QED
      BY <2>2, <3>1, <3>2 DEF Returns
  <2>3. CASE Counts(k)
    BY <1>2, <2>3 DEF Counts
  <2>4. CASE FindsWrong(k)
    BY <1>2, <2>4 DEF FindsWrong, Wrong
  <2> QED
    BY <1>3, <2>1, <2>2, <2>3, <2>4 DEF CallMoves, Ends
<1>4. CASE BuildMoves(k)
  <2>1. pc[k] # "adding"
    BY <1>4 DEF BuildMoves, MakesLeaf, MakesParts, Makes, Adds, AddsLate, Comes, Fails, Acquires
  <2>2. CASE MakesParts(k)
    BY <1>0, <2>1, <2>2 DEF MakesParts, CallsParts
  <2>3. CASE MakesLeaf(k) \/ Acquires(k) \/ \E end : Fails(k, end)
    BY <1>2, <2>1, <2>3 DEF MakesLeaf, Acquires, Fails
  <2>4. ASSUME NEW n, AddsLate(k, n)
        PROVE  pc'[k] = "adding"
    BY <1>2, <2>4 DEF AddsLate
  <2>5. ASSUME NEW n, NEW a \in {"ok", "interrupted"}, Adds(k, n, a)
        PROVE  pc'[k] = a
    BY <1>2, <2>5 DEF Adds
  <2> QED
    BY <1>4, <2>1, <2>2, <2>3, <2>4, <2>5 DEF BuildMoves
<1> QED
  BY <1>1, <1>3, <1>4, CallsMove

(* An entry that a scope has, or is given, or loses.                       *)
LEMMA EntryComes ==
    ASSUME TypesFit, ScopesFit, EntriesFit, Moves, NEW s \in Scopes, s # Shared,
           NEW x \in ToSet(finalizers'[s])
    PROVE  \/ x \in ToSet(finalizers[s])
           \/ IsGiven(s, x) /\ state[s] = "Running"
           \/ s = Top /\ x = Detach(Top, Shared) /\ StartsOpen
<1>1. EntriesMove(s) /\ finalizers[s] \in Seq(Entries)
  BY FinalizersMove, TypesAre
<1>2. CASE EntriesStay(s)
  BY <1>2 DEF EntriesStay
<1>3. CASE EntriesGrow(s)
  <2>1. PICK y \in Entries : finalizers'[s] = Append(finalizers[s], y) /\ IsGiven(s, y)
    BY <1>3 DEF EntriesGrow
  <2>2. ToSet(finalizers'[s]) = ToSet(finalizers[s]) \cup {y}
    BY <1>1, <2>1, Appended
  <2> QED
    BY <1>3, <2>1, <2>2 DEF EntriesGrow
<1>4. CASE EntriesTurn(s)
  BY <1>1, <1>4, Reversed DEF EntriesTurn
<1>5. CASE EntriesShrink(s)
  <2>1. PICK i \in 1 .. Len(finalizers[s]) : finalizers'[s] = RemoveAt(finalizers[s], i)
    BY <1>5 DEF EntriesShrink
  <2>2. ToSet(finalizers'[s]) \subseteq ToSet(finalizers[s])
    BY <1>1, <2>1, RemovedAt
  <2> QED
    BY <2>2
<1>6. CASE EntriesStart(s)
  <2>1. s = Top /\ StartsOpen /\ finalizers'[s] = <<Detach(Top, Shared)>>
    BY <1>6 DEF EntriesStart
  <2>2. ToSet(<<Detach(Top, Shared)>>) = {Detach(Top, Shared)}
    BY DEF ToSet
  <2> QED
    BY <2>1, <2>2
<1>7. ~EntriesLose(s)
  BY DEF EntriesLose
<1> QED
  BY <1>1, <1>2, <1>3, <1>4, <1>5, <1>6, <1>7 DEF EntriesMove

(* An entry leaves the map of a scope only when releaseAll takes it. *)
LEMMA EntryStays ==
    ASSUME TypesFit, ScopesFit, EntriesFit, Moves, NEW s \in Scopes, s # Shared,
           NEW x \in ToSet(finalizers[s])
    PROVE  \/ x \in ToSet(finalizers'[s])
           \/ /\ state[s] = "Exited"
              /\ \E i \in 1 .. Len(finalizers[s]) :
                    /\ finalizers[s][i] = x /\ IsTaken(s, i)
                    /\ finalizers'[s] = RemoveAt(finalizers[s], i)
<1>1. EntriesMove(s) /\ finalizers[s] \in Seq(Entries)
  BY FinalizersMove, TypesAre
<1>2. CASE EntriesStay(s)
  BY <1>2 DEF EntriesStay
<1>3. CASE EntriesGrow(s)
  <2>1. PICK y \in Entries : finalizers'[s] = Append(finalizers[s], y) /\ IsGiven(s, y)
    BY <1>3 DEF EntriesGrow
  <2>2. ToSet(finalizers'[s]) = ToSet(finalizers[s]) \cup {y}
    BY <1>1, <2>1, Appended
  <2> QED
    BY <2>2
<1>4. CASE EntriesTurn(s)
  BY <1>1, <1>4, Reversed DEF EntriesTurn
<1>5. CASE EntriesShrink(s)
  <2>1. PICK i \in 1 .. Len(finalizers[s]) : finalizers'[s] = RemoveAt(finalizers[s], i) /\ IsTaken(s, i)
    BY <1>5 DEF EntriesShrink
  <2>2. x # finalizers[s][i] => x \in ToSet(finalizers'[s])
    BY <1>1, <2>1, RemovedAt
  <2> QED
    BY <1>5, <2>1, <2>2 DEF EntriesShrink
<1>6. CASE EntriesStart(s)
  <2>1. s = Top /\ StartsOpen
    BY <1>6 DEF EntriesStart
  <2>2. finalizers[s] = <<>>
    BY <2>1 DEF StartsOpen, Starts, ScopesFit
  <2>3. ToSet(finalizers[s]) = {}
    BY <1>1, <2>2, Members
  <2> QED
    BY <2>3
<1>7. ~EntriesLose(s)
  BY DEF EntriesLose
<1> QED
  BY <1>1, <1>2, <1>3, <1>4, <1>5, <1>6, <1>7 DEF EntriesMove

(* Every step keeps releases where they belong. *)
LEMMA HoldersStep ==
    ASSUME Fit, Moves
    PROVE  HoldersFit'
<1> USE DEF Fit
<1>1. ASSUME NEW k \in Calls, pc'[k] = "adding"
      PROVE  state'[ScopeOf(k)] = "Exited"
  <2>0. ScopeOf(k) \in Scopes
    BY CallsAre, NamesAre
  <2>1. CASE pc[k] = "adding"
    BY <2>0, <2>1, StatesMove DEF HoldersFit
  <2>2. CASE pc[k] # "adding"
    <3>1. PICK n : AddsLate(k, n)
      BY <1>1, <2>2, EndsMove
    <3>2. state[ScopeOf(k)] # "Running" /\ pc[k] # "idle"
      BY <3>1 DEF AddsLate, Comes
    <3>3. state[ScopeOf(k)] = "Exited"
      BY <2>0, <3>2, TypesAre DEF CallsFit, Begun
    <3> QED
      BY <2>0, <3>3, StatesMove
  <2> QED
    BY <2>1, <2>2
<1>2. ASSUME NEW c \in Composed, NEW x \in ToSet(finalizers'[c])
      PROVE  (\E l \in PartsOf(c) : x = Release(l)) \/ (c = Top /\ x = Detach(Top, Shared))
  <2>1. c \in Scopes /\ c # Shared /\ c \notin Leaves
    BY NamesAre
  <2>2. CASE x \in ToSet(finalizers[c])
    BY <2>2 DEF HoldersFit
  <2>3. CASE IsGiven(c, x)
    BY <2>1, <2>3, CallsAre DEF IsGiven
  <2> QED
    BY <2>1, <2>2, <2>3, EntryComes
<1>3. ASSUME NEW k \in Calls, pc'[k] = "ok", state'[ScopeOf(k)] = "Running"
      PROVE  Release(LayerOf(k)) \in ToSet(finalizers'[ScopeOf(k)])
  <2> DEFINE c == ScopeOf(k)
  <2>0. c \in Scopes /\ c # Shared /\ Release(LayerOf(k)) \in Entries
    BY CallsAre, NamesAre, EntriesAre
  <2>1. state[c] # "Exited"
    BY <1>3, <2>0, StatesMove
  <2>2. CASE pc[k] = "ok"
    <3>1. state[c] = "Running"
      BY <2>0, <2>1, <2>2, TypesAre DEF CallsFit, Begun
    <3>2. Release(LayerOf(k)) \in ToSet(finalizers[c])
      BY <2>2, <3>1 DEF HoldersFit
    <3> QED
      BY <2>0, <2>1, <3>2, EntryStays
  <2>3. CASE pc[k] # "ok"
    <3>1. pc[k] # "adding"
      BY <2>1 DEF HoldersFit
    <3>2. PICK n : Adds(k, n, "ok")
      BY <1>3, <2>3, <3>1, EndsMove
    <3>3. finalizers' = [finalizers EXCEPT ![c] = Append(finalizers[c], Release(LayerOf(k)))]
      BY <3>2 DEF Adds, Gets
    <3>4. finalizers'[c] = Append(finalizers[c], Release(LayerOf(k)))
      BY <2>0, <3>3 DEF TypesFit
    <3>5. ToSet(finalizers'[c]) = ToSet(finalizers[c]) \cup {Release(LayerOf(k))}
      BY <2>0, <3>4, TypesAre, Appended
    <3> QED
      BY <3>5
  <2> QED
    BY <2>2, <2>3
<1> QED
  BY <1>1, <1>2, <1>3 DEF HoldersFit

-----------------------------------------------------------------------------
(* Entries of the memo map.                                                *)

(* What becomes of the Deferred of an entry.                               *)
LEMMA MemoMove ==
    ASSUME TypesFit, EntriesFit, Moves, NEW l \in Layers, memo'[l] # memo[l]
    PROVE  \E k \in Calls :
              /\ LayerOf(k) = l
              /\ \/ Begins(k)
                 \/ memo'[l] = "ok" /\ pc[k] = "adding" /\ \E a \in Ends : Returns(k, a)
                 \/ memo'[l] = "ok" /\ \E n, a : Adds(k, n, a)
                 \/ \E end \in Wrong : Fails(k, end) /\ memo'[l] = end
<1>t. memo \in [Layers -> {"absent", "pending"} \cup Ends]
  BY DEF TypesFit
<1>1. memo' # memo
  OBVIOUS
<1>2. ASSUME NEW k \in Calls, CallMoves(k)
      PROVE  LayerOf(k) = l /\ (Begins(k) \/ (memo'[l] = "ok" /\ pc[k] = "adding" /\ \E a \in Ends : Returns(k, a)))
  <2>1. CASE Begins(k)
    BY <1>t, <2>1 DEF Begins
  <2>2. ASSUME NEW a \in Ends, Returns(k, a)
        PROVE  LayerOf(k) = l /\ memo'[l] = "ok" /\ pc[k] = "adding"
    BY <1>t, <2>2 DEF Returns
  <2> QED
    BY <1>1, <1>2, <2>1, <2>2 DEF CallMoves, Finds, Abandons, LeavesUncounted, Counts, FindsWrong, NoEntry
<1>3. ASSUME NEW k \in Calls, BuildMoves(k)
      PROVE  LayerOf(k) = l /\ ((memo'[l] = "ok" /\ \E n, a : Adds(k, n, a))
                                \/ \E end \in Wrong : Fails(k, end) /\ memo'[l] = end)
  <2>1. ASSUME NEW n, NEW a, Adds(k, n, a)
        PROVE  LayerOf(k) = l /\ memo'[l] = "ok"
    BY <1>t, <2>1 DEF Adds
  <2>2. ASSUME NEW end \in Wrong, Fails(k, end)
        PROVE  LayerOf(k) = l /\ memo'[l] = end
    BY <1>t, <2>2 DEF Fails
  <2>3. (\E n, a : Adds(k, n, a)) \/ \E end \in Wrong : Fails(k, end)
    BY <1>1, <1>3 DEF BuildMoves, MakesLeaf, MakesParts, Makes, Acquires, AddsLate, NoEntry
  <2> QED
    BY <2>1, <2>2, <2>3
<1>4. ASSUME MainMoves
      PROVE  FALSE
  BY <1>1, <1>4 DEF MainMoves, StartsOpen, StartsClosed, Starts, CallsNext, MainEnds, MainLeaves,
                    MainLeft, Interrupts, SharedCloses, NoEntry
<1>5. ASSUME FinalizerMoves
      PROVE  FALSE
  BY <1>1, <1>5 DEF FinalizerMoves, Releasing, ClosingTop, Detaching, Freeing, Finishes, Takes, NoEntry
<1> QED
  BY <1>2, <1>3, <1>4, <1>5 DEF Moves

(* What becomes of the observers of an entry.                              *)
LEMMA ObserversMove ==
    ASSUME TypesFit, Moves, NEW l \in Layers
    PROVE  \/ observers'[l] = observers[l]
           \/ \E k \in Calls : LayerOf(k) = l /\ Counts(k) /\ observers'[l] = observers[l] + 1
           \/ \E k \in Calls : LayerOf(k) = l /\ \E n, a : Adds(k, n, a) /\ observers'[l] = n
           \/ \E k \in Calls : LayerOf(k) = l /\ \E n : AddsLate(k, n) /\ observers'[l] = n - 1
           \/ \E c \in Composed : \E i \in DOMAIN finalizers[c] :
                 Releasing(c, i, l) /\ observers'[l] = observers[l] - 1
<1>t. observers \in [Layers -> Nat]
  BY DEF TypesFit
<1>2. ASSUME NEW k \in Calls, CallMoves(k)
      PROVE  observers'[l] = observers[l] \/ (LayerOf(k) = l /\ Counts(k) /\ observers'[l] = observers[l] + 1)
  <2>1. CASE Counts(k)
    BY <1>t, <2>1 DEF Counts
  <2> QED
    BY <1>2, <2>1 DEF CallMoves, Begins, Finds, Abandons, LeavesUncounted, Returns, FindsWrong, NoEntry
<1>3. ASSUME NEW k \in Calls, BuildMoves(k)
      PROVE  \/ observers'[l] = observers[l]
             \/ LayerOf(k) = l /\ \E n, a : Adds(k, n, a) /\ observers'[l] = n
             \/ LayerOf(k) = l /\ \E n : AddsLate(k, n) /\ observers'[l] = n - 1
  <2>1. ASSUME NEW n, NEW a, Adds(k, n, a)
        PROVE  observers'[l] = observers[l] \/ (LayerOf(k) = l /\ observers'[l] = n)
    BY <1>t, <2>1 DEF Adds
  <2>2. ASSUME NEW n, AddsLate(k, n)
        PROVE  observers'[l] = observers[l] \/ (LayerOf(k) = l /\ observers'[l] = n - 1)
    BY <1>t, <2>2 DEF AddsLate
  <2>3. ASSUME NEW end, MakesLeaf(k) \/ MakesParts(k) \/ Acquires(k) \/ Fails(k, end)
        PROVE  observers' = observers
    BY <2>3 DEF MakesLeaf, MakesParts, Makes, Acquires, Fails, NoEntry
  <2> QED
    BY <1>3, <2>1, <2>2, <2>3 DEF BuildMoves
<1>4. ASSUME MainMoves
      PROVE  observers' = observers
  BY <1>4 DEF MainMoves, StartsOpen, StartsClosed, Starts, CallsNext, MainEnds, MainLeaves,
              MainLeft, Interrupts, SharedCloses, NoEntry
<1>5. ASSUME FinalizerMoves
      PROVE  \/ observers'[l] = observers[l]
             \/ \E c \in Composed : \E i \in DOMAIN finalizers[c] :
                   Releasing(c, i, l) /\ observers'[l] = observers[l] - 1
  <2>1. ASSUME NEW c \in Composed, NEW t \in Under, NEW i \in DOMAIN finalizers[c], Releasing(c, i, t)
        PROVE  observers'[l] = observers[l] \/ (t = l /\ observers'[l] = observers[l] - 1)
    BY <1>t, <2>1 DEF Releasing
  <2>2. ASSUME NEW i, NEW s, NEW r, ClosingTop(i) \/ Detaching(i) \/ Freeing(s, i, r) \/ Finishes(r)
        PROVE  observers' = observers
    BY <2>2 DEF ClosingTop, Detaching, Freeing, Finishes, NoEntry
  <2> QED
    BY <1>5, <2>1, <2>2 DEF FinalizerMoves
<1> QED
  BY <1>2, <1>3, <1>4, <1>5 DEF Moves

(* A layer that is built stays so, and comes to be by the call that builds. *)
LEMMA FinishedMove ==
    ASSUME TypesFit, EntriesFit, ScopesFit, CallsFit, Moves, NEW l \in Layers
    PROVE  /\ Finished(l) => Finished(l)'
           /\ ~Finished(l) /\ Finished(l)' =>
                 \E k \in Calls :
                    /\ LayerOf(k) = l /\ pc[k] \in {"building", "acquired"}
                    /\ memo[l] # "absent" /\ builder[l] = k
                    /\ \E n : Comes(k, n) /\ ((\E a : Adds(k, n, a)) \/ AddsLate(k, n))
<1>1. /\ memo[l] # "absent" => memo'[l] # "absent" /\ builder'[l] = builder[l]
      /\ memo[l] \in Ends => memo'[l] = memo[l]
  BY BuilderStays
<1>2. ASSUME NEW k \in Calls, LayerOf(k) = l, pc[k] \in {"building", "acquired"}
      PROVE  memo[l] # "absent" /\ builder[l] = k
  BY <1>2 DEF EntriesFit, CallFits
<1>3. ASSUME Finished(l)
      PROVE  Finished(l)'
  <2>1. CASE memo[l] = "ok"
    BY <1>1, <2>1 DEF Finished, Ends
  <2>2. CASE memo[l] = "pending" /\ pc[builder[l]] = "adding"
    <3> DEFINE b == builder[l]
    <3>1. b \in Calls /\ LayerOf(b) = l /\ builder'[l] = b
      BY <1>1, <2>2 DEF EntriesFit, EntryFits
    <3>2. CASE pc'[b] # pc[b]
      <4>1. PICK a \in Ends : Returns(b, a)
        BY <2>2, <3>1, <3>2, EndsMove
      <4>2. memo'[l] = "ok"
        BY <2>2, <3>1, <4>1 DEF Returns, TypesFit
      <4> QED
        BY <4>2 DEF Finished
    <3>3. CASE memo'[l] # memo[l]
      <4>1. PICK k \in Calls :
              /\ LayerOf(k) = l
              /\ \/ Begins(k)
                 \/ memo'[l] = "ok"
                 \/ \E end \in Wrong : Fails(k, end)
        BY <3>3, MemoMove
      <4>2. ~Begins(k)
        BY <2>2, <4>1 DEF Begins
      <4>3. ASSUME NEW end, Fails(k, end)
            PROVE  FALSE
        <5>1. pc[k] \in {"building", "acquired"}
          BY <4>3 DEF Fails
        <5> QED
          BY <1>2, <2>2, <4>1, <5>1
      <4> QED
        BY <4>1, <4>2, <4>3 DEF Finished
    <3>4. CASE pc'[b] = pc[b] /\ memo'[l] = memo[l]
      BY <2>2, <3>1, <3>4 DEF Finished
    <3> QED
      BY <3>2, <3>3, <3>4
  <2> QED
    BY <1>3, <2>1, <2>2 DEF Finished
<1>4. ASSUME ~Finished(l), Finished(l)'
      PROVE  \E k \in Calls :
                    /\ LayerOf(k) = l /\ pc[k] \in {"building", "acquired"}
                    /\ memo[l] # "absent" /\ builder[l] = k
                    /\ \E n : Comes(k, n) /\ ((\E a : Adds(k, n, a)) \/ AddsLate(k, n))
  <2>0. ASSUME NEW k \in Calls, LayerOf(k) = l, NEW n, (\E a : Adds(k, n, a)) \/ AddsLate(k, n)
        PROVE  pc[k] \in {"building", "acquired"} /\ Comes(k, n)
    <3>1. Comes(k, n)
      BY <2>0 DEF Adds, AddsLate
    <3>2. pc[k] # "observed"
      BY <1>4, <2>0 DEF EntriesFit, CallFits, Finished
    <3> QED
      BY <3>1, <3>2 DEF Comes
  <2>1. CASE memo'[l] = "ok"
    <3>1. PICK k \in Calls :
              /\ LayerOf(k) = l
              /\ \/ Begins(k)
                 \/ pc[k] = "adding"
                 \/ \E n, a : Adds(k, n, a)
                 \/ \E end \in Wrong : memo'[l] = end
      BY <1>4, <2>1, MemoMove DEF Finished
    <3>2. ~Begins(k)
      BY <2>1, <3>1 DEF Begins, TypesFit
    <3>3. pc[k] # "adding"
      BY <1>4, <3>1 DEF EntriesFit, CallFits, Finished
    <3>4. \A end \in Wrong : memo'[l] # end
      BY <2>1 DEF Wrong
    <3> QED
      BY <1>2, <2>0, <3>1, <3>2, <3>3, <3>4
  <2>2. CASE memo'[l] = "pending" /\ pc'[builder'[l]] = "adding"
    <3> DEFINE b == builder'[l]
    <3>1. memo[l] # "absent"
      <4> SUFFICES ASSUME memo[l] = "absent"
                   PROVE  FALSE
        OBVIOUS
      <4>1. PICK k \in Calls : LayerOf(k) = l /\ Begins(k)
        BY <1>1, <2>2, BuilderStays
      <4>2. k \in Builds /\ builder' = [builder EXCEPT ![l] = k] /\ Goes(k, "resource")
        BY <4>1, CallsAre DEF Begins
      <4>3. builder'[l] = k /\ pc'[k] = "resource"
        BY <4>2, GoesIs DEF TypesFit
      <4> QED
        BY <2>2, <4>3
    <3>2. b = builder[l] /\ b \in Calls /\ LayerOf(b) = l
      BY <1>1, <3>1 DEF EntriesFit, EntryFits
    <3>3. memo[l] = "pending"
      BY <1>1, <2>2, <3>1 DEF TypesFit, Ends
    <3>4. pc[b] # "adding"
      BY <1>4, <3>2, <3>3 DEF Finished
    <3>5. PICK n : AddsLate(b, n)
      BY <2>2, <3>2, <3>4, EndsMove
    <3> QED
      BY <1>2, <2>0, <3>2, <3>5
  <2> QED
    BY <1>4, <2>1, <2>2 DEF Finished
<1> QED
  BY <1>3, <1>4

(* Every step keeps the reasons why a layer was closed. *)
LEMMA ExitsStep ==
    ASSUME Fit, Moves
    PROVE  ExitsFit'
<1> USE DEF Fit
<1> SUFFICES ASSUME NEW l \in Under
             PROVE  /\ state'[l] = "Exited" =>
                          \/ memo'[l] \in Wrong
                          \/ \E k \in Calls : LayerOf(k) = l /\ state'[ScopeOf(k)] = "Exited"
                    /\ Finished(l)' /\ state'[l] = "Running" => observers'[l] > 0
                    /\ Finished(l)' => Begun(l)'
  BY DEF ExitsFit
<1>0. l \in Scopes /\ l \in Layers /\ l # Top /\ \A k \in Calls : ScopeOf(k) \in Scopes
  BY CallsAre, NamesAre
<1>a. ASSUME NEW k \in Calls, LayerOf(k) = l, AddsLate(k, 1)
      PROVE  state'[ScopeOf(k)] = "Exited"
  <2>1. state[ScopeOf(k)] # "Running" /\ pc[k] # "idle"
    BY <1>a DEF AddsLate, Comes
  <2>2. state[ScopeOf(k)] = "Exited"
    BY <1>0, <2>1, TypesAre DEF CallsFit, Begun
  <2> QED
    BY <1>0, <2>2, StatesMove
<1>1. ASSUME state'[l] = "Exited"
      PROVE  memo'[l] \in Wrong \/ \E k \in Calls : LayerOf(k) = l /\ state'[ScopeOf(k)] = "Exited"
  <2>1. CASE state[l] = "Exited"
    <3>1. CASE memo[l] \in Wrong
      BY <1>0, <3>1, BuilderStays DEF Wrong, Ends
    <3>2. CASE \E k \in Calls : LayerOf(k) = l /\ state[ScopeOf(k)] = "Exited"
      BY <1>0, <3>2, StatesMove
    <3> QED
      BY <2>1, <3>1, <3>2 DEF ExitsFit
  <2>2. CASE state[l] # "Exited"
    <3>1. state[l] = "Running"
      BY <1>0, <1>1, <2>2, StatesMove, TypesAre
    <3>2. ASSUME NEW k \in Calls, LayerOf(k) = l, NEW end \in Wrong, Fails(k, end)
          PROVE  memo'[l] \in Wrong
      <4>1. memo' = [memo EXCEPT ![l] = end]
        BY <3>2 DEF Fails
      <4> QED
        BY <1>0, <4>1 DEF TypesFit
    <3>3. ASSUME NEW c \in Composed, NEW i, Releasing(c, i, l)
          PROVE  \E k \in Calls : LayerOf(k) = l /\ state'[ScopeOf(k)] = "Exited"
      <4>1. l \in PartsOf(c) /\ state[c] = "Exited" /\ c \in Scopes
        BY <3>3, NamesAre DEF Releasing, Takes
      <4>2. state'[c] = "Exited"
        BY <4>1, StatesMove
      <4> QED
        BY <4>1, <4>2, CallsAre
    <3> QED
      BY <1>0, <1>1, <1>a, <3>1, <3>2, <3>3, StatesMove
  <2> QED
    BY <2>1, <2>2
<1>2. Finished(l)' => Begun(l)'
  <2>1. Begun(l) => Begun(l)'
    BY <1>0, StatesMove, TypesAre DEF Begun
  <2>2. Finished(l) => Begun(l)
    BY DEF ExitsFit
  <2>3. ~Finished(l) /\ Finished(l)' => Begun(l)
    <3> SUFFICES ASSUME ~Finished(l), Finished(l)'
                 PROVE  Begun(l)
      OBVIOUS
    <3>1. PICK k \in Calls : pc[k] \in {"building", "acquired"} /\ memo[l] # "absent" /\ builder[l] = k
      BY <1>0, FinishedMove
    <3>2. state[l] = "Running"
      BY <3>1 DEF ScopesFit
    <3> QED
      BY <3>2 DEF Begun
  <2> QED
    BY <2>1, <2>2, <2>3
<1>3. ASSUME Finished(l)', state'[l] = "Running"
      PROVE  observers'[l] > 0
  <2>0. observers[l] \in Nat /\ state[l] # "Exited"
    BY <1>0, <1>3, StatesMove DEF TypesFit
  <2>1. CASE Finished(l)
    <3>1. state[l] = "Running" /\ observers[l] > 0
      BY <1>0, <2>0, <2>1, TypesAre DEF ExitsFit, Begun
    <3>2. ASSUME NEW k \in Calls, LayerOf(k) = l, NEW n, Comes(k, n)
          PROVE  n \in Nat /\ n >= observers[l]
      BY <2>0, <3>2 DEF Comes
    <3>3. ASSUME NEW k \in Calls, LayerOf(k) = l, NEW n, NEW a, Adds(k, n, a), observers'[l] = n
          PROVE  observers'[l] > 0
      <4>1. Comes(k, n)
        BY <3>3 DEF Adds
      <4> QED
        BY <2>0, <3>1, <3>2, <3>3, <4>1
    <3>4. ASSUME NEW k \in Calls, LayerOf(k) = l, NEW n, AddsLate(k, n), observers'[l] = n - 1
          PROVE  observers'[l] > 0
      <4>1. Comes(k, n)
        BY <3>4 DEF AddsLate
      <4>2. n # 1
        <5> SUFFICES ASSUME n = 1
                     PROVE  FALSE
          OBVIOUS
        <5>1. Closes(l, k)
          BY <3>1, <3>4 DEF AddsLate
        <5>2. state'[l] = "Exited"
          BY <1>0, <5>1 DEF Closes, TypesFit
        <5> QED
          BY <1>3, <5>2
      <4> QED
        BY <2>0, <3>1, <3>2, <3>4, <4>1, <4>2
    <3>5. ASSUME NEW c \in Composed, NEW i, Releasing(c, i, l), observers'[l] = observers[l] - 1
          PROVE  observers'[l] > 0
      <4>1. observers[l] # 1
        <5> SUFFICES ASSUME observers[l] = 1
                     PROVE  FALSE
          OBVIOUS
        <5>1. TakesClosing(c, i, l)
          BY <3>1, <3>5 DEF Releasing
        <5>2. state'[l] = "Exited"
          BY <1>0, <5>1 DEF TakesClosing, TypesFit
        <5> QED
          BY <1>3, <5>2
      <4> QED
        BY <2>0, <3>1, <3>5, <4>1
    <3>6. observers'[l] = observers[l] \/ observers'[l] = observers[l] + 1 => observers'[l] > 0
      BY <2>0, <3>1
    <3> QED
      BY <1>0, <3>3, <3>4, <3>5, <3>6, ObserversMove
  <2>2. CASE ~Finished(l)
    <3>1. PICK k \in Calls :
                    /\ LayerOf(k) = l /\ pc[k] \in {"building", "acquired"}
                    /\ memo[l] # "absent" /\ builder[l] = k
                    /\ \E n : Comes(k, n) /\ ((\E a : Adds(k, n, a)) \/ AddsLate(k, n))
      BY <1>0, <1>3, <2>2, FinishedMove
    <3>2. PICK n : Comes(k, n) /\ ((\E a : Adds(k, n, a)) \/ AddsLate(k, n))
      BY <3>1
    <3>3. state[l] = "Running" /\ observers[l] = 0
      <4>1. state[l] = "Running"
        BY <3>1 DEF ScopesFit
      <4>2. observers[l] = 0
        BY <1>0, <2>2 DEF EntriesFit, EntryFits
      <4> QED
        BY <4>1, <4>2
    <3>4. n = 1
      BY <3>1, <3>2, <3>3 DEF Comes
    <3>5. CASE AddsLate(k, n)
      <4>1. Closes(l, k)
        BY <3>1, <3>3, <3>4, <3>5 DEF AddsLate
      <4>2. state'[l] = "Exited"
        BY <1>0, <4>1 DEF Closes, TypesFit
      <4> QED
        BY <1>3, <4>2
    <3>6. ASSUME NEW a, Adds(k, n, a)
          PROVE  observers'[l] > 0
      <4>1. observers'[l] = n
        BY <1>0, <3>1, <3>6 DEF Adds, TypesFit
      <4> QED
        BY <3>4, <4>1
    <3> QED
      BY <3>2, <3>5, <3>6
  <2> QED
    BY <2>1, <2>2
<1> QED
  BY <1>1, <1>2, <1>3

-----------------------------------------------------------------------------
(* Ends of layers and of scopes.                                           *)

(* How the application goes on.                                            *)
LEMMA MainGoes ==
    ASSUME TypesFit, EntriesFit, ScopesFit, CallsFit, Moves, pc'[Main] # pc[Main]
    PROVE  \/ StartsOpen \/ StartsClosed
           \/ \E a \in Ends : MainEnds(a) /\ pc'[Main] = a
           \/ MainLeaves /\ pc'[Main] = "closing"
           \/ MainLeft /\ pc'[Main] = "left"
<1>0. Main \in Builds /\ (\A k \in Calls : k # Main /\ k \in Builds)
  BY CallsAre
<1>1. ASSUME NEW k \in Calls, NEW step, Goes(k, step)
      PROVE  FALSE
  BY <1>0, <1>1, GoesIs
<1>2. ASSUME NEW k \in Calls, CallMoves(k)
      PROVE  FALSE
  <2>1. \E step : Goes(k, step)
    BY <1>2 DEF CallMoves, Begins, Finds, Abandons, LeavesUncounted, Returns, Counts, FindsWrong
  <2> QED
    BY <1>1, <2>1
<1>3. ASSUME NEW k \in Calls, BuildMoves(k)
      PROVE  FALSE
  <2>1. CASE MakesParts(k)
    <3>1. PICK is \in {{1}, {1, 2}} : CallsParts(k, LayerOf(k), is)
      BY <2>1 DEF MakesParts
    <3>2. pc'[Main] = pc[Main]
      BY <1>0, <2>1, <3>1, PartsCalled, CallsAre
    <3> QED
      BY <3>2
  <2>2. CASE ~MakesParts(k)
    <3>1. \E step : Goes(k, step)
      BY <1>3, <2>2 DEF BuildMoves, MakesLeaf, Adds, AddsLate, Fails, Acquires
    <3> QED
      BY <1>1, <3>1
  <2> QED
    BY <2>1, <2>2
<1>4. ~FinalizerMoves
  BY DEF FinalizerMoves, Releasing, ClosingTop, Detaching, Freeing, Finishes, Takes
<1>5. ASSUME NEW k \in Builds, CallsNext(k)
      PROVE  FALSE
  <2>1. CallsParts(k, LayerOf(k), {2}) /\ pc[k] = "building"
    BY <1>5 DEF CallsNext
  <2>2. pc'[Main] = pc[Main]
    BY <1>0, <1>5, <2>1, PartsCalled, CallsAre
  <2> QED
    BY <2>2
<1>6. ASSUME NEW step, Goes(Main, step)
      PROVE  pc'[Main] = step
  BY <1>0, <1>6, GoesIs
<1> QED
  BY <1>2, <1>3, <1>4, <1>5, <1>6
     DEF Moves, MainMoves, Interrupts, SharedCloses, MainEnds, MainLeaves, MainLeft

(* Every step keeps what a success presupposes. *)
LEMMA SuccessesStep ==
    ASSUME Fit, Moves
    PROVE  SuccessesFit'
<1> USE DEF Fit
<1> SUFFICES ASSUME NEW k \in Calls, kind'[ScopeOf(k)] # "orElse", Succeeded(ScopeOf(k))'
             PROVE  pc'[k] = "ok"
  BY DEF SuccessesFit
<1> DEFINE c == ScopeOf(k)
<1>0. c \in Composed /\ c \in Layers /\ kind[c] # "orElse"
  BY CallsAre, NamesAre DEF Moves
<1>1. pc[k] = "ok" => pc'[k] = "ok"
  BY EndedStay DEF Ends
<1>2. Succeeded(c) => pc[k] = "ok"
  BY <1>0 DEF SuccessesFit
<1>3. PartsOk(c) => pc[k] = "ok"
  BY <1>0 DEF PartsOk
<1>4. CASE c = Top
  <2>1. CASE pc[Main] = "ok"
    BY <1>1, <1>2, <1>4, <2>1 DEF Succeeded
  <2>2. CASE pc[Main] # "ok"
    <3>1. pc'[Main] = "ok"
      BY <1>4 DEF Succeeded
    <3>2. StartsOpen \/ StartsClosed => pc'[Main] = "building"
      BY MainMove
    <3>3. MainEnds("ok")
      BY <2>2, <3>1, <3>2, MainGoes
    <3> QED
      BY <1>1, <1>3, <1>4, <3>3 DEF MainEnds
  <2> QED
    BY <2>1, <2>2
<1>5. CASE c # Top
  <2>1. CASE Finished(c)
    BY <1>1, <1>2, <1>5, <2>1 DEF Succeeded
  <2>2. CASE ~Finished(c)
    <3>1. Finished(c)'
      BY <1>5 DEF Succeeded
    <3>2. PICK j \in Calls : LayerOf(j) = c /\ pc[j] \in {"building", "acquired"} /\ \E n : Comes(j, n)
      BY <1>0, <2>2, <3>1, FinishedMove
    <3>3. PartsOk(c)
      BY <3>2 DEF Comes
    <3> QED
      BY <1>1, <1>3, <3>3
  <2> QED
    BY <2>1, <2>2
<1> QED
  BY <1>4, <1>5

(* Whoever runs a finalizer when it is none of the scope's own.            *)
LEMMA RunsOf ==
    ASSUME TypesFit, ScopesFit, Moves, NEW r \in running', r \notin running, r.by \in Scopes
    PROVE  \E i \in 1 .. Len(finalizers[r.by]) : IsTaken(r.by, i)
<1>1. Main \notin Scopes /\ Other \notin Scopes /\ \A k \in Calls : k \notin Scopes
  BY CallsAre
<1>2. ASSUME NEW k, NEW s, r = [fin |-> Close(s), by |-> k]
      PROVE  r.by = k
  BY <1>2
<1>3. ASSUME NEW k, NEW s, r = [fin |-> Free(s), by |-> k]
      PROVE  r.by = k
  BY <1>3
<1> QED
  BY <1>1, <1>2, <1>3, RunningMove DEF IsTaken

(* A closed scope stays closed.                                            *)
LEMMA ClosedStays ==
    ASSUME TypesFit, ScopesFit, EntriesFit, Moves, NEW s \in Scopes, Closed(s)
    PROVE  Closed(s)'
<1>1. state[s] = "Exited" /\ finalizers[s] = <<>> /\ RunsFor(s) = {}
  BY DEF Closed
<1>2. state'[s] = "Exited"
  BY <1>1, StatesMove
<1>3. Len(finalizers[s]) = 0 /\ \A i \in 1 .. Len(finalizers[s]) : FALSE
  BY <1>1
<1>4. finalizers'[s] = <<>>
  <2>1. EntriesMove(s)
    BY FinalizersMove
  <2>2. ~EntriesStart(s)
    <3> SUFFICES ASSUME EntriesStart(s)
                 PROVE  FALSE
      OBVIOUS
    <3>1. s = Top /\ pc[Main] = "idle"
      BY DEF EntriesStart, StartsOpen, Starts
    <3>2. state[Top] = "none"
      BY <3>1 DEF ScopesFit, Begun
    <3> QED
      BY <1>1, <3>1, <3>2
  <2> QED
    BY <1>1, <1>3, <2>1, <2>2
       DEF EntriesMove, EntriesStay, EntriesGrow, EntriesTurn, EntriesShrink, EntriesLose
<1>5. RunsFor(s)' = {}
  <2> SUFFICES ASSUME NEW r \in running', r.by = s
               PROVE  FALSE
    BY DEF RunsFor
  <2>1. CASE r \in running
    BY <1>1, <2>1 DEF RunsFor
  <2>2. CASE r \notin running
    BY <1>3, <2>2, RunsOf
  <2> QED
    BY <2>1, <2>2
<1> QED
  BY <1>2, <1>4, <1>5 DEF Closed

(* A finalizer under way that is gone has ended.                           *)
LEMMA RunEnds ==
    ASSUME TypesFit, Moves, NEW r \in running, r \notin running'
    PROVE  Finishes(r)
<1>1. ASSUME NEW k \in Calls, CallMoves(k) \/ BuildMoves(k)
      PROVE  running \subseteq running'
  BY <1>1 DEF BuildMoves, MakesLeaf, MakesParts, Makes, Adds, AddsLate, Fails, Acquires, Gets, Closes, Stays,
              CallMoves, Begins, Finds, Abandons, LeavesUncounted, Returns, Counts, FindsWrong, NoScope
<1>2. ASSUME MainMoves
      PROVE  running \subseteq running'
  BY <1>2 DEF MainMoves, StartsOpen, StartsClosed, Starts, Interrupts, MainEnds, MainLeaves, MainLeft,
              SharedCloses, CallsNext, NoScope, Stays, Closes
<1>3. ASSUME NEW s, NEW i, NEW l, Releasing(s, i, l) \/ ClosingTop(i) \/ Detaching(i) \/ Freeing(s, i, l)
      PROVE  running \subseteq running'
  BY <1>3 DEF Releasing, ClosingTop, Detaching, Freeing, TakesClosing, Drops
<1>4. ASSUME NEW x, Finishes(x)
      PROVE  r = x
  BY <1>4 DEF Finishes
<1> QED
  BY <1>1, <1>2, <1>3, <1>4 DEF Moves, FinalizerMoves

(* A scope that begins to close has somebody who closes it.                *)
LEMMA ClosesByOne ==
    ASSUME TypesFit, ScopesFit, EntriesFit, Moves, NEW s \in Scopes,
           state[s] # "Exited", state'[s] = "Exited"
    PROVE  \E r \in running' : r.fin = Close(s)
<1>1. ASSUME NEW x, [fin |-> Close(s), by |-> x] \in running'
      PROVE  \E r \in running' : r.fin = Close(s)
  BY <1>1
<1>2. CASE state[s] = "Running"
  <2>1. ~EntriesStart(s)
    <3> SUFFICES ASSUME EntriesStart(s)
                 PROVE  FALSE
      OBVIOUS
    <3>1. s = Top /\ pc[Main] = "idle"
      BY DEF EntriesStart, StartsOpen, Starts
    <3>2. state[Top] = "none"
      BY <3>1 DEF ScopesFit, Begun
    <3> QED
      BY <1>2, <3>1, <3>2
  <2>2. EntriesTurn(s)
    BY <1>2, <2>1, FinalizersMove
       DEF EntriesMove, EntriesStay, EntriesGrow, EntriesShrink, EntriesLose
  <2> QED
    BY <1>1, <2>2 DEF EntriesTurn
<1>3. CASE state[s] = "none"
  <2>1. s = Top /\ (StartsOpen \/ StartsClosed)
    BY <1>3, StatesMove
  <2>2. ~StartsOpen
    BY <2>1 DEF StartsOpen, TypesFit
  <2>3. [fin |-> Close(s), by |-> Main] \in running'
    BY <2>1, <2>2 DEF StartsClosed
  <2> QED
    BY <1>1, <2>3
<1> QED
  BY <1>2, <1>3, TypesAre

(* The scope whose closing is new has exited.                              *)
LEMMA CloserStarts ==
    ASSUME TypesFit, ScopesFit, Moves, NEW r \in running', r \notin running,
           NEW s \in Scopes, r.fin = Close(s)
    PROVE  state'[s] = "Exited"
<1>0. Top \in Scopes /\ Shared \in Scopes
  BY NamesAre
<1>1. ASSUME NEW t, NEW x, r = [fin |-> Close(t), by |-> x]
      PROVE  t = s
  BY <1>1, FinalizersDiffer
<1>2. ASSUME NEW t, NEW x, r = [fin |-> Free(t), by |-> x]
      PROVE  FALSE
  BY <1>2, FinalizersDiffer
<1>3. ASSUME NEW x, Closes(s, x)
      PROVE  state'[s] = "Exited"
  BY <1>3 DEF Closes, TypesFit
<1>4. ASSUME NEW c, NEW i, TakesClosing(c, i, s)
      PROVE  state'[s] = "Exited"
  BY <1>4 DEF TakesClosing, TypesFit
<1>5. ASSUME StartsClosed, s = Top
      PROVE  state'[s] = "Exited"
  BY <1>5 DEF StartsClosed, TypesFit
<1> QED
  BY <1>1, <1>2, <1>3, <1>4, <1>5, RunningMove

(* Every step keeps somebody who closes each scope that is not closed yet. *)
LEMMA ClosersStep ==
    ASSUME Fit, Moves
    PROVE  ClosersFit'
<1> USE DEF Fit
<1>1. ASSUME NEW s \in Scopes, state'[s] = "Exited", ~Closed(s)'
      PROVE  \E r \in running' : r.fin = Close(s)
  <2>1. CASE state[s] = "Exited"
    <3>1. ~Closed(s)
      BY <1>1, ClosedStays
    <3>2. PICK r \in running : r.fin = Close(s)
      BY <2>1, <3>1 DEF ClosersFit
    <3>3. ~Finishes(r)
      BY <3>1, <3>2 DEF Finishes
    <3>4. r \in running'
      BY <3>3, RunEnds
    <3> QED
      BY <3>2, <3>4
  <2>2. CASE state[s] # "Exited"
    BY <1>1, <2>2, ClosesByOne
  <2> QED
    BY <2>1, <2>2
<1>2. ASSUME NEW r \in running', NEW s \in Scopes, r.fin = Close(s)
      PROVE  state'[s] = "Exited"
  <2>1. CASE r \in running
    <3>1. state[s] = "Exited"
      BY <1>2, <2>1 DEF ClosersFit
    <3> QED
      BY <3>1, StatesMove
  <2>2. CASE r \notin running
    BY <1>2, <2>2, CloserStarts
  <2> QED
    BY <2>1, <2>2
<1>3. ASSUME NEW r \in running', NEW l \in Under, r.fin = Close(l)
      PROVE  \E k \in Calls :
                  /\ LayerOf(k) = l
                  /\ r.by = ScopeOf(k) \/ (r.by = k /\ pc'[k] \in {"closing", "adding"})
  <2>0. l \in Scopes /\ l # Top /\ l # Shared
    BY NamesAre
  <2>1. CASE r \in running
    <3>1. PICK k \in Calls :
             /\ LayerOf(k) = l
             /\ r.by = ScopeOf(k) \/ (r.by = k /\ pc[k] \in {"closing", "adding"})
      BY <1>3, <2>1 DEF ClosersFit
    <3>2. r.by = k /\ pc[k] \in {"closing", "adding"} => pc'[k] = pc[k]
      <4> SUFFICES ASSUME r.by = k, pc[k] \in {"closing", "adding"}, pc'[k] # pc[k]
                   PROVE  FALSE
        OBVIOUS
      <4>1. Busy(k)
        BY <2>1 DEF Busy, RunsFor
      <4>2. ASSUME NEW a, Returns(k, a)
            PROVE  FALSE
        BY <4>1, <4>2 DEF Returns
      <4>3. CallMoves(k) \/ BuildMoves(k)
        BY CallsMove DEF Called
      <4> QED
        BY <4>2, <4>3
           DEF CallMoves, Begins, Finds, Abandons, LeavesUncounted, Counts, FindsWrong,
               BuildMoves, MakesLeaf, MakesParts, Makes, Adds, AddsLate, Comes, Fails, Acquires
    <3> QED
      BY <3>1, <3>2
  <2>2. CASE r \notin running
    <3>1. ASSUME NEW t, NEW x, r = [fin |-> Close(t), by |-> x]
          PROVE  t = l /\ r.by = x
      BY <1>3, <3>1, FinalizersDiffer
    <3>2. ASSUME NEW t, NEW x, r = [fin |-> Free(t), by |-> x]
          PROVE  FALSE
      BY <1>3, <3>2, FinalizersDiffer
    <3>3. ASSUME NEW k \in Calls, r = [fin |-> Close(l), by |-> k], LayerOf(k) = l,
                 (\E end \in Wrong : Fails(k, end)) \/ AddsLate(k, 1)
          PROVE  r.by = k /\ pc'[k] \in {"closing", "adding"}
      <4>1. k \in Builds
        BY CallsAre
      <4>2. Goes(k, "closing") \/ Goes(k, "adding")
        BY <3>3 DEF Fails, AddsLate
      <4> QED
        BY <3>3, <4>1, <4>2, GoesIs
    <3>4. ASSUME NEW c \in Composed, NEW i, r = [fin |-> Close(l), by |-> c], Releasing(c, i, l)
          PROVE  \E k \in Calls : LayerOf(k) = l /\ r.by = ScopeOf(k)
      <4>1. l \in PartsOf(c)
        BY <3>4 DEF Releasing
      <4> QED
        BY <3>4, <4>1, CallsAre
    <3> QED
      BY <2>0, <2>2, <3>1, <3>2, <3>3, <3>4, RunningMove
  <2> QED
    BY <2>1, <2>2
<1> QED
  BY <1>1, <1>2, <1>3 DEF ClosersFit

-----------------------------------------------------------------------------
(* The scope of the application and the shared one.                        *)

(* A scope has an entry.                                                   *)
LEMMA HasIs ==
    /\ \A s \in Scopes : \A x : Has(Maps, s, x) <=> \E i \in 1 .. Len(finalizers[s]) : finalizers[s][i] = x
    /\ \A s \in Scopes : \A x : Has(Maps, s, x)' <=> \E i \in 1 .. Len(finalizers'[s]) : finalizers'[s][i] = x
  BY DEF Has, Maps, Contains

(* The entries of a scope as a set. *)
LEMMA HasMembers ==
    ASSUME TypesFit, TypesFit'
    PROVE  /\ \A s \in Scopes : \A x : Has(Maps, s, x) <=> x \in ToSet(finalizers[s])
           /\ \A s \in Scopes : \A x : Has(Maps, s, x)' <=> x \in ToSet(finalizers'[s])
<1>1. /\ \A s \in Scopes : finalizers[s] \in Seq(Entries)
      /\ \A s \in Scopes : finalizers'[s] \in Seq(Entries)
  BY DEF TypesFit, Entries
<1>2. ASSUME NEW s \in Scopes, NEW x
      PROVE  /\ x \in ToSet(finalizers[s]) <=> \E i \in 1 .. Len(finalizers[s]) : finalizers[s][i] = x
             /\ x \in ToSet(finalizers'[s]) <=> \E i \in 1 .. Len(finalizers'[s]) : finalizers'[s][i] = x
  BY <1>1, Members
<1>3. ASSUME NEW s \in Scopes, NEW x
      PROVE  Has(Maps, s, x) <=> x \in ToSet(finalizers[s])
  BY <1>2, HasIs
<1>4. ASSUME NEW s \in Scopes, NEW x
      PROVE  Has(Maps, s, x)' <=> x \in ToSet(finalizers'[s])
  BY <1>2, HasIs, SMTT(30)
<1> QED
  BY <1>3, <1>4

(* The scope of the application detaches once. *)
LEMMA DetachesOnceStep ==
    ASSUME Fit, Moves
    PROVE  DetachesOnce'
<1> USE DEF Fit
<1> DEFINE f == finalizers[Top]
           g == finalizers'[Top]
           d == Detach(Top, Shared)
           n == Len(f)
<1>0. Top \in Scopes /\ Shared \in Scopes /\ Top # Shared /\ Top \notin Leaves
  BY NamesAre
<1>1. f \in Seq(Entries) /\ DOMAIN f = 1 .. n /\ n \in Nat
  BY <1>0, TypesAre, LenProperties
<1>2. \A i, j \in 1 .. n : f[i] = d /\ f[j] = d => i = j
  BY <1>1 DEF ForksFit, DetachesOnce
<1>3. EntriesMove(Top)
  BY <1>0, FinalizersMove
<1>g. g = finalizers'[Top] /\ f = finalizers[Top] /\ d = Detach(Top, Shared)
  OBVIOUS
<1> SUFFICES \A i, j \in DOMAIN g : g[i] = d /\ g[j] = d => i = j
  BY DEF DetachesOnce
<1> HIDE DEF f, g, d, n
<1>4. CASE EntriesStay(Top)
  BY <1>1, <1>2, <1>4, <1>g DEF EntriesStay
<1>5. CASE EntriesGrow(Top)
  <2>1. PICK x \in Entries : g = Append(f, x) /\ IsGiven(Top, x)
    BY <1>5, <1>g DEF EntriesGrow
  <2>2. x # d
    BY <1>0, <1>g, <2>1, FinalizersDiffer DEF IsGiven
  <2>3. /\ g \in Seq(Entries) /\ Len(g) = n + 1 /\ g[n + 1] = x
        /\ \A i \in 1 .. n : g[i] = f[i]
    BY <1>1, <2>1, Appended DEF n
  <2>4. DOMAIN g = 1 .. n + 1 /\ \A i \in 1 .. n + 1 : i \in 1 .. n \/ i = n + 1
    BY <1>1, <2>3, LenProperties
  <2> QED
    BY <1>2, <2>2, <2>3, <2>4
<1>6. CASE EntriesTurn(Top)
  <2>1. g = Reverse(f)
    BY <1>6, <1>g DEF EntriesTurn
  <2>2. g \in Seq(Entries) /\ Len(g) = n /\ \A i \in 1 .. n : g[i] = f[n - i + 1]
    BY <1>1, <2>1, Reversed DEF n
  <2>3. DOMAIN g = 1 .. n
    BY <2>2, LenProperties
  <2>4. \A i \in 1 .. n : n - i + 1 \in 1 .. n
    BY <1>1
  <2>5. \A i, j \in 1 .. n : n - i + 1 = n - j + 1 => i = j
    BY <1>1
  <2> SUFFICES ASSUME NEW i \in 1 .. n, NEW j \in 1 .. n, g[i] = d, g[j] = d
               PROVE  i = j
    BY <2>3
  <2>6. f[n - i + 1] = d /\ f[n - j + 1] = d
    BY <2>2
  <2>7. n - i + 1 = n - j + 1
    BY <1>2, <2>4, <2>6
  <2> QED
    BY <2>5, <2>7
<1>7. CASE EntriesShrink(Top)
  <2>1. PICK m \in 1 .. n : g = RemoveAt(f, m)
    BY <1>7, <1>g DEF EntriesShrink, n
  <2>2. /\ g \in Seq(Entries) /\ Len(g) = n - 1
        /\ \A j \in 1 .. n - 1 : g[j] = IF j < m THEN f[j] ELSE f[j + 1]
    BY <1>1, <2>1, RemovedAt DEF n
  <2>3. DOMAIN g = 1 .. n - 1
    BY <2>2, LenProperties
  <2> DEFINE h(j) == IF j < m THEN j ELSE j + 1
  <2>4. \A j \in 1 .. n - 1 : h(j) \in 1 .. n /\ g[j] = f[h(j)]
    BY <1>1, <2>2
  <2>5. \A i, j \in 1 .. n - 1 : h(i) = h(j) => i = j
    BY <1>1
  <2> HIDE DEF h
  <2> QED
    BY <1>2, <2>3, <2>4, <2>5
<1>8. CASE EntriesStart(Top)
  <2>1. g = <<d>>
    BY <1>8, <1>g DEF EntriesStart
  <2>2. DOMAIN g = {1}
    BY <2>1
  <2> QED
    BY <2>2
<1>9. ~EntriesLose(Top)
  BY <1>0 DEF EntriesLose
<1> QED
  BY <1>3, <1>4, <1>5, <1>6, <1>7, <1>8, <1>9 DEF EntriesMove

(* Every step keeps both sides of the fork together. *)
LEMMA ForksStep ==
    ASSUME Fit, Moves
    PROVE  ForksFit'
<1> USE DEF Fit
<1> DEFINE e == Free(Extra)
           t == Close(Top)
           d == Detach(Top, Shared)
<1>0. Top \in Scopes /\ Shared \in Scopes /\ Top # Shared /\ Top \notin Leaves
  BY NamesAre
<1>1. DetachesOnce'
  BY DetachesOnceStep
<1>2. /\ Has(Maps, Shared, t) <=> t \in ToSet(finalizers[Shared])
      /\ Has(Maps, Shared, t)' <=> t \in ToSet(finalizers'[Shared])
      /\ Has(Maps, Top, d) <=> d \in ToSet(finalizers[Top])
      /\ Has(Maps, Top, d)' <=> d \in ToSet(finalizers'[Top])
  BY <1>0, TypesStep, HasMembers
<1>3. ASSUME state'[Shared] = "Running"
      PROVE  t \in ToSet(finalizers'[Shared]) <=> d \in ToSet(finalizers'[Top])
  <2>1. state[Shared] = "Running"
    BY <1>0, <1>3, StatesMove, TypesAre DEF ScopesFit, Begun
  <2>2. t \in ToSet(finalizers[Shared]) <=> d \in ToSet(finalizers[Top])
    BY <1>2, <2>1 DEF ForksFit, ForksDetach
  <2>3. CASE StartsOpen
    <3>1. /\ finalizers'[Shared] = Append(finalizers[Shared], t)
          /\ finalizers'[Top] = <<d>>
      BY <1>0, <2>3 DEF StartsOpen, TypesFit
    <3>2. ToSet(finalizers'[Shared]) = ToSet(finalizers[Shared]) \cup {t}
      BY <1>0, <3>1, TypesAre, EntriesAre, Appended
    <3>3. ToSet(<<d>>) = {d}
      BY DEF ToSet
    <3> QED
      BY <3>1, <3>2, <3>3
  <2>4. CASE \E i : Detaching(i)
    <3>1. PICK i : Detaching(i)
      BY <2>4
    <3>2. /\ i \in 1 .. Len(finalizers[Top]) /\ finalizers[Top][i] = d /\ state[Top] = "Exited"
          /\ finalizers' = [Rest(Top, i) EXCEPT ![Shared] = RemoveFirst(finalizers[Shared], t)]
      BY <2>1, <3>1 DEF Detaching, Takes
    <3>3. finalizers'[Top] = RemoveAt(finalizers[Top], i) /\ finalizers'[Shared] = RemoveFirst(finalizers[Shared], t)
      BY <1>0, <3>2 DEF Rest, TypesFit
    <3>4. t \notin ToSet(finalizers'[Shared])
      <4>1. e # t
        BY FinalizersDiffer
      <4>2. RemoveFirst(<<e, t>>, t) = <<e>> /\ RemoveFirst(<<e>>, t) = <<e>>
        BY <4>1, LastRemoved
      <4>3. finalizers[Shared] \in {<<e>>, <<e, t>>}
        BY <2>1 DEF SharedFits
      <4>4. finalizers'[Shared] = <<e>>
        BY <3>3, <4>2, <4>3
      <4>5. ToSet(<<e>>) = {e}
        BY DEF ToSet
      <4> QED
        BY <4>1, <4>4, <4>5
    <3>5. d \notin ToSet(finalizers'[Top])
      <4> SUFFICES ASSUME d \in ToSet(finalizers'[Top])
                   PROVE  FALSE
        OBVIOUS
      <4> DEFINE f == finalizers[Top]
                 g == finalizers'[Top]
                 n == Len(f)
      <4>1. f \in Seq(Entries) /\ n \in Nat /\ DOMAIN f = 1 .. n
        BY <1>0, TypesAre, LenProperties
      <4>2. /\ g \in Seq(Entries) /\ Len(g) = n - 1
            /\ \A j \in 1 .. n - 1 : g[j] = IF j < i THEN f[j] ELSE f[j + 1]
        BY <3>2, <3>3, <4>1, RemovedAt, ZenonT(30)
      <4>3. \A j, m \in 1 .. n : f[j] = d /\ f[m] = d => j = m
        BY <4>1 DEF ForksFit, DetachesOnce
      <4>4. i \in 1 .. n /\ f[i] = d
        BY <3>2
      <4> HIDE DEF f, n, d
      <4>5. PICK j \in 1 .. n - 1 : g[j] = d
        BY <4>2, Members
      <4> HIDE DEF g
      <4>6. CASE j < i
        <5>1. j \in 1 .. n /\ f[j] = d /\ j # i
          BY <4>1, <4>2, <4>4, <4>5, <4>6
        <5> QED
          BY <4>3, <4>4, <5>1
      <4>7. CASE ~(j < i)
        <5>1. j + 1 \in 1 .. n /\ f[j + 1] = d /\ j + 1 # i
          BY <4>1, <4>2, <4>4, <4>5, <4>7
        <5> QED
          BY <4>3, <4>4, <5>1
      <4> QED
        BY <4>6, <4>7
    <3> QED
      BY <3>4, <3>5
  <2>5. CASE ~StartsOpen /\ ~ \E i : Detaching(i)
    <3>1. finalizers'[Shared] = finalizers[Shared]
      <4>1. \A k \in Calls : ScopeOf(k) # Shared /\ LayerOf(k) # Shared
        BY CallsAre, NamesAre
      <4>2. EntriesMove(Shared)
        BY <1>0, FinalizersMove
      <4> QED
        BY <1>0, <1>3, <2>1, <2>5, <4>1, <4>2
           DEF EntriesMove, EntriesStay, EntriesGrow, EntriesTurn, EntriesShrink, EntriesStart, EntriesLose, IsGiven
    <3>2. ASSUME d \in ToSet(finalizers'[Top])
          PROVE  d \in ToSet(finalizers[Top])
      <4>1. ~IsGiven(Top, d)
        BY <1>0, FinalizersDiffer DEF IsGiven
      <4> QED
        BY <1>0, <2>5, <3>2, <4>1, EntryComes
    <3>3. ASSUME d \in ToSet(finalizers[Top])
          PROVE  d \in ToSet(finalizers'[Top])
      <4>1. ASSUME NEW i, finalizers[Top][i] = d, IsTaken(Top, i)
            PROVE  FALSE
        <5>1. ASSUME NEW l, Releasing(Top, i, l)
              PROVE  FALSE
          BY <4>1, <5>1, FinalizersDiffer DEF Releasing
        <5> QED
          BY <1>0, <2>5, <4>1, <5>1 DEF IsTaken
      <4> QED
        BY <1>0, <3>3, <4>1, EntryStays
    <3> QED
      BY <2>2, <3>1, <3>2, <3>3
  <2> QED
    BY <2>3, <2>4, <2>5
<1> QED
  BY <1>1, <1>2, <1>3 DEF ForksFit, ForksDetach

(* Every step keeps the resource of the shared scope the last to go. *)
LEMMA ExtraStep ==
    ASSUME Fit, Moves
    PROVE  ExtraIsLast'
<1> USE DEF Fit
<1> DEFINE e == Free(Extra)
           t == Close(Top)
           using == pc[Main] \notin {"idle", "closing", "left"}
           f == finalizers[Shared]
<1> SUFFICES ASSUME Shared \notin Parallel, using'
             PROVE  /\ state'[Shared] = "Running" =>
                          state'[Top] = "Running" /\ finalizers'[Shared] = <<e, t>>
                    /\ state'[Shared] = "Exited" =>
                          \/ Closed(Top)'
                          \/ finalizers'[Shared] = <<t, e>> /\ state'[Top] = "Running"
                          \/ finalizers'[Shared] = <<e>>
                             /\ \E r \in running' : r.fin = Close(Top) /\ r.by = Shared
  BY DEF ExtraIsLast
<1>0. Top \in Scopes /\ Shared \in Scopes /\ Top # Shared /\ Shared \notin Leaves /\ Main # Top
      /\ (\A k \in Calls : ScopeOf(k) # Shared /\ LayerOf(k) # Shared /\ LayerOf(k) # Top)
  BY CallsAre, NamesAre
<1>e. e # t /\ <<e>> # <<e, t>> /\ <<t, e>> # <<e>>
  <2>1. e # t
    BY FinalizersDiffer
  <2>2. Len(<<e>>) = 1 /\ Len(<<e, t>>) = 2 /\ Len(<<t, e>>) = 2
    OBVIOUS
  <2> QED
    BY <2>1, <2>2
<1>s. /\ state[Shared] \in {"Running", "Exited"}
      /\ state[Top] \in {"none", "Running", "Exited"}
      /\ state[Shared] = "Running" => state'[Shared] \in {"Running", "Exited"}
      /\ state[Shared] = "Exited" => state'[Shared] = "Exited"
      /\ pc[Main] # "idle" => state[Top] \in {"Running", "Exited"}
      /\ state[Top] = "Running" => state'[Top] \in {"Running", "Exited"}
      /\ pc[Main] = "idle" => state[Top] = "none"
  BY <1>0, StatesMove, TypesAre DEF ScopesFit, Begun
<1>m. EntriesMove(Shared)
  BY <1>0, FinalizersMove
<1>c. ASSUME state[Top] = "Running", state'[Top] = "Exited"
      PROVE  \E i \in 1 .. Len(f) : ClosingTop(i) /\ TakesClosing(Shared, i, Top)
  <2>1. PICK r \in running' : r.fin = Close(Top)
    BY <1>0, <1>c, ClosesByOne
  <2>2. r \notin running
    BY <1>0, <1>c, <2>1 DEF ClosersFit
  <2>3. ~MainLeaves
    <3>1. MainLeaves => pc'[Main] = "closing"
      BY CallsAre, GoesIs DEF MainLeaves
    <3> QED
      BY <3>1
  <2>4. ~StartsClosed
    BY <1>c, <1>s DEF StartsClosed, Starts
  <2>5. ASSUME NEW s, NEW x, r = [fin |-> Close(s), by |-> x]
        PROVE  s = Top
    BY <2>1, <2>5, FinalizersDiffer
  <2>6. ASSUME NEW s, NEW x, r = [fin |-> Free(s), by |-> x]
        PROVE  FALSE
    BY <2>1, <2>6, FinalizersDiffer
  <2>7. Top \notin Under
    BY NamesAre
  <2> QED
    BY <1>0, <2>2, <2>3, <2>4, <2>5, <2>6, <2>7, RunningMove
<1>1. CASE using
  <2>0. ~StartsOpen /\ ~StartsClosed
    BY <1>1 DEF StartsOpen, StartsClosed, Starts
  <2>1. CASE state[Shared] = "Running"
    <3>1. state[Top] = "Running" /\ f = <<e, t>>
      BY <1>1, <2>1 DEF ExtraIsLast
    <3>2. ASSUME NEW i, ClosingTop(i)
          PROVE  FALSE
      BY <2>1, <3>2 DEF ClosingTop, Takes
    <3>3. state'[Top] = "Running"
      BY <1>c, <1>s, <3>1, <3>2
    <3>4. CASE state'[Shared] = "Running"
      <4>1. ASSUME NEW i, Detaching(i)
            PROVE  FALSE
        BY <3>1, <4>1 DEF Detaching, Takes
      <4>2. finalizers'[Shared] = f
        BY <1>0, <1>m, <2>0, <2>1, <3>4, <4>1
           DEF EntriesMove, EntriesStay, EntriesGrow, EntriesTurn, EntriesShrink, EntriesStart, EntriesLose, IsGiven
      <4> QED
        BY <3>1, <3>3, <3>4, <4>2
    <3>5. CASE state'[Shared] = "Exited"
      <4>1. finalizers'[Shared] = Reverse(f)
        BY <1>0, <1>m, <2>1, <3>5
           DEF EntriesMove, EntriesStay, EntriesGrow, EntriesTurn, EntriesShrink, EntriesStart, EntriesLose
      <4>2. finalizers'[Shared] = <<t, e>>
        BY <3>1, <4>1, PairsAre
      <4> QED
        BY <3>3, <3>5, <4>2
    <3> QED
      BY <1>s, <2>1, <3>4, <3>5
  <2>2. CASE state[Shared] = "Exited"
    <3>0. state'[Shared] = "Exited"
      BY <1>s, <2>2
    <3>m. \/ finalizers'[Shared] = f
          \/ \E i \in 1 .. Len(f) : finalizers'[Shared] = RemoveAt(f, i) /\ IsTaken(Shared, i)
      BY <1>0, <1>m, <2>2
         DEF EntriesMove, EntriesStay, EntriesGrow, EntriesTurn, EntriesShrink, EntriesStart, EntriesLose
    <3>t. ASSUME NEW i, IsTaken(Shared, i)
          PROVE  i = 1 /\ ~Busy(Shared) /\ (ClosingTop(i) \/ f[i] = e)
      BY <1>0, <3>t, NamesAre DEF IsTaken, ClosingTop, Freeing, Takes
    <3>1. CASE Closed(Top)
      BY <1>0, <3>0, <3>1, ClosedStays
    <3>2. CASE f = <<t, e>> /\ state[Top] = "Running"
      <4>1. f[1] = t
        BY <3>2
      <4>2. CASE state'[Top] = "Exited"
        <5>1. PICK i \in 1 .. Len(f) : ClosingTop(i) /\ TakesClosing(Shared, i, Top)
          BY <1>c, <3>2, <4>2
        <5>2. i = 1
          BY <5>1 DEF ClosingTop, Takes
        <5>3. [fin |-> Close(Top), by |-> Shared] \in running'
          BY <5>1 DEF TakesClosing
        <5>4. finalizers'[Shared] = RemoveAt(f, 1)
          <6>1. finalizers' = [Rest(Shared, 1) EXCEPT ![Top] = Reverse(finalizers[Top])]
            BY <5>1, <5>2 DEF TakesClosing
          <6> QED
            BY <1>0, <6>1 DEF Rest, TypesFit
        <5>5. finalizers'[Shared] = <<e>>
          BY <3>2, <5>4, PairsAre, ZenonT(30)
        <5> QED
          BY <3>0, <5>3, <5>5
      <4>3. CASE state'[Top] = "Running"
        <5>1. finalizers'[Shared] = f
          <6>1. ASSUME NEW i, IsTaken(Shared, i)
                PROVE  FALSE
            <7>1. ClosingTop(i)
              BY <1>e, <3>t, <4>1, <6>1
            <7>2. TakesClosing(Shared, i, Top)
              BY <3>2, <7>1 DEF ClosingTop
            <7>3. state'[Top] = "Exited"
              BY <1>0, <7>2 DEF TakesClosing, TypesFit
            <7> QED
              BY <4>3, <7>3
          <6> QED
            BY <3>m, <6>1
        <5> QED
          BY <3>0, <3>2, <4>3, <5>1
      <4> QED
        BY <1>s, <3>2, <4>2, <4>3
    <3>3. CASE f = <<e>> /\ \E r \in running : r.fin = Close(Top) /\ r.by = Shared
      <4>1. PICK r \in running : r.fin = Close(Top) /\ r.by = Shared
        BY <3>3
      <4>2. Busy(Shared)
        BY <4>1 DEF Busy, RunsFor
      <4>3. finalizers'[Shared] = f
        BY <3>m, <3>t, <4>2
      <4>4. CASE r \in running'
        BY <3>0, <3>3, <4>1, <4>3, <4>4
      <4>5. CASE r \notin running'
        <5>1. Finishes(r)
          BY <4>5, RunEnds
        <5>2. Closed(Top)
          BY <1>0, <4>1, <5>1 DEF Finishes
        <5> QED
          BY <1>0, <3>0, <5>2, ClosedStays
      <4> QED
        BY <4>4, <4>5
    <3> QED
      BY <1>1, <2>2, <3>1, <3>2, <3>3 DEF ExtraIsLast
  <2> QED
    BY <1>s, <2>1, <2>2
<1>2. CASE ~using
  <2>1. pc'[Main] # pc[Main]
    BY <1>2
  <2>2. ASSUME NEW a \in Ends, MainEnds(a)
        PROVE  FALSE
    BY <1>2, <2>2 DEF MainEnds
  <2>3. ~MainLeaves
    BY <1>2 DEF MainLeaves, Ends
  <2>4. StartsOpen \/ StartsClosed
    BY <2>1, <2>2, <2>3, MainGoes
  <2>5. CASE StartsOpen
    <3>1. /\ state'[Top] = "Running" /\ finalizers'[Shared] = Append(f, t)
          /\ state'[Shared] = "Running"
      BY <1>0, <2>5 DEF StartsOpen, TypesFit
    <3>2. finalizers'[Shared] \in {<<e>>, <<e, t>>}
      BY <3>1, SharedStep DEF SharedFits
    <3>3. t \in ToSet(finalizers'[Shared])
      <4>1. ToSet(finalizers'[Shared]) = ToSet(f) \cup {t}
        BY <1>0, <3>1, TypesAre, EntriesAre, Appended
      <4> QED
        BY <4>1
    <3>4. ToSet(<<e>>) = {e}
      BY DEF ToSet
    <3> QED
      BY <1>e, <3>1, <3>2, <3>3, <3>4
  <2>6. CASE StartsClosed
    <3>1. /\ state'[Top] = "Exited" /\ finalizers' = finalizers
          /\ running' = running \cup {[fin |-> Close(Top), by |-> Main]}
          /\ state[Shared] = "Exited" /\ state[Top] = "none" /\ state'[Shared] = "Exited"
      BY <1>0, <1>s, <2>6 DEF StartsClosed, Starts, TypesFit
    <3>2. finalizers[Top] = <<>>
      BY <1>0, <3>1 DEF ScopesFit, Begun
    <3>3. RunsFor(Top)' = {}
      <4> SUFFICES ASSUME NEW r \in running', r.by = Top
                   PROVE  FALSE
        BY DEF RunsFor
      <4>1. r \in running
        BY <1>0, <3>1
      <4> QED
        BY <1>0, <3>1, <4>1 DEF ScopesFit
    <3> QED
      BY <3>1, <3>2, <3>3 DEF Closed
  <2> QED
    BY <2>4, <2>5, <2>6
<1> QED
  BY <1>1, <1>2

-----------------------------------------------------------------------------
(* Layers that are used although they were closed already.                 *)

(* No layer is part of itself. *)
LEMMA PartsDiffer == \A c \in Composed : c \notin PartsOf(c)
<1> SUFFICES ASSUME NEW c \in Composed, c \in PartsOf(c)
             PROVE  FALSE
  OBVIOUS
<1>1. {c} \in SUBSET Layers /\ {c} # {}
  BY NamesAre
<1>2. \E l \in {c} : \A d \in {c} \cap Composed : l \notin PartsOf(d)
  BY <1>1, OrderAssumption
<1> QED
  BY <1>2

(* When no layer went wrong, the scope of the application is the first to  *)
(* be closed.                                                              *)
LEMMA TopExits ==
    ASSUME TypesFit, ExitsFit, \A l \in Under : memo[l] \notin Wrong,
           NEW l \in Under, state[l] = "Exited"
    PROVE  state[Top] = "Exited"
<1> SUFFICES ASSUME state[Top] # "Exited"
             PROVE  FALSE
  OBVIOUS
<1> DEFINE S == {m \in Under : state[m] = "Exited"}
<1>1. S \in SUBSET Layers /\ S # {}
  BY NamesAre
<1>2. PICK m \in S : \A c \in S \cap Composed : m \notin PartsOf(c)
  BY <1>1, OrderAssumption
<1>3. PICK k \in Calls : LayerOf(k) = m /\ state[ScopeOf(k)] = "Exited"
  BY <1>2 DEF ExitsFit
<1>4. ScopeOf(k) \in Composed /\ m \in PartsOf(ScopeOf(k)) /\ ScopeOf(k) # Top
  BY <1>3, CallsAre
<1>5. ScopeOf(k) \in S
  BY <1>3, <1>4, NamesAre DEF Under
<1> QED
  BY <1>2, <1>4, <1>5

(* L has the layers that hold a layer which was closed, or one of L.       *)
LateIn(L) ==
    /\ L \in SUBSET (Composed \ {Top})
    /\ L # {} => state[Top] = "Exited"
    /\ \A p \in Composed : \A l \in PartsOf(p) :
          /\ state[l] = "Exited" \/ l \in L
          /\ \/ Release(l) \in ToSet(finalizers[p])
             \/ l \in L /\ \E r \in running : r.fin = Close(l) /\ r.by = p
          => p \in L

(* Either a layer went wrong, or there is such a set. *)
LEMMA LateFitIs ==
    /\ LateFit <=> (\E l \in Under : memo[l] \in Wrong) \/ \E L : LateIn(L)
    /\ LateFit' <=> (\E l \in Under : memo'[l] \in Wrong) \/ \E L : LateIn(L)'
<1>1. LateFit <=> (\E l \in Under : memo[l] \in Wrong) \/ \E L \in SUBSET (Composed \ {Top}) : LateIn(L)
  BY DEF LateFit, LateIn
<1>2. LateFit' <=> (\E l \in Under : memo'[l] \in Wrong) \/ \E L \in SUBSET (Composed \ {Top}) : LateIn(L)'
  BY DEF LateFit, LateIn
<1>3. \A L : /\ LateIn(L) => L \in SUBSET (Composed \ {Top})
             /\ LateIn(L)' => L \in SUBSET (Composed \ {Top})
  BY DEF LateIn
<1> QED
  BY <1>1, <1>2, <1>3

(* A layer without observers is in no scope. *)
LEMMA Unheld ==
    ASSUME TypesFit, TypesFit', CountsFit, CountsFit', NEW l \in Layers, NEW s \in Scopes
    PROVE  /\ observers[l] = 0 => Release(l) \notin ToSet(finalizers[s])
           /\ observers'[l] = 0 => Release(l) \notin ToSet(finalizers'[s])
<1>1. AreMaps(finalizers) /\ AreMaps(finalizers')
  BY DEF TypesFit, AreMaps, Entries
<1>2. ASSUME NEW f, NEW p, NEW o, NEW m, AreMaps(f), CountIs(f, p, o, m, l), o[l] = 0
      PROVE  Release(l) \notin ToSet(f[s])
  <2>1. Number(f, l) \in Nat
    BY <1>2, PlacesFinite
  <2>2. Cardinality(Watching(p, l)) \in Nat
    <3>1. Watching(p, l) \subseteq Calls
      BY DEF Watching
    <3> QED
      BY <3>1, CallsFinite, FS_Subset, FS_CardinalityType
  <2>3. Number(f, l) = 0
    BY <1>2, <2>1, <2>2 DEF CountIs
  <2> QED
    BY <1>2, <2>3, NumberZero
<1>3. /\ CountIs(finalizers, pc, observers, miscounted, l)
      /\ CountIs(finalizers', pc', observers', miscounted', l)
  BY CountsFitIs
<1> QED
  BY <1>1, <1>2, <1>3

(* A scope that gets a release of such a layer joins the set. *)
LEMMA LateAdds ==
    ASSUME Fit, Moves, NEW k \in Calls, NEW n, NEW a, Adds(k, n, a), NEW L, LateIn(L),
           \A l \in Under : memo[l] \notin Wrong
    PROVE  \E M : LateIn(M)'
<1> USE DEF Fit
<1> DEFINE c == ScopeOf(k)
           l == LayerOf(k)
<1>0. /\ c \in Composed /\ l \in Under /\ l \in PartsOf(c) /\ l # c
      /\ c \in Scopes /\ c \in Layers /\ l \in Layers
  BY CallsAre, NamesAre, PartsDiffer
<1>1. /\ finalizers' = [finalizers EXCEPT ![c] = Append(finalizers[c], Release(l))]
      /\ state' = state /\ running' = running /\ state[c] = "Running"
  BY DEF Adds, Gets
<1>2. ASSUME NEW p \in Composed, NEW m
      PROVE  Release(m) \in ToSet(finalizers'[p]) <=>
                Release(m) \in ToSet(finalizers[p]) \/ (p = c /\ m = l)
  <2>1. p \in Scopes
    BY NamesAre
  <2>2. ToSet(Append(finalizers[c], Release(l))) = ToSet(finalizers[c]) \cup {Release(l)}
    BY <1>0, TypesAre, EntriesAre, Appended
  <2>3. finalizers'[p] = IF p = c THEN Append(finalizers[c], Release(l)) ELSE finalizers[p]
    BY <1>1, <2>1 DEF TypesFit
  <2> QED
    BY <2>2, <2>3, FinalizersDiffer
<1> HIDE DEF c, l
<1>3. CASE c \in L \/ ~(state[l] = "Exited" \/ l \in L)
  <2>1. LateIn(L)'
    BY <1>1, <1>2, <1>3 DEF LateIn
  <2> QED
    BY <2>1
<1>4. CASE c \notin L /\ (state[l] = "Exited" \/ l \in L)
  <2>1. state[Top] = "Exited"
    BY <1>0, <1>4, TopExits DEF LateIn
  <2>2. c # Top
    BY <1>1, <2>1
  <2>3. observers[c] = 0
    <3>1. Open(k)
      BY CallsAre DEF Adds, Comes, Open, Ends
    <3>2. Building(c)
      BY <3>1 DEF CallsFit, c
    <3>3. pc[builder[c]] = "building" /\ memo[c] # "absent"
      BY <1>0, <2>2, <3>2 DEF Building, BuilderOf, ScopesFit, Under
    <3> QED
      BY <1>0, <3>3 DEF EntriesFit, EntryFits, Finished
  <2>4. ASSUME NEW p \in Composed
        PROVE  Release(c) \notin ToSet(finalizers[p])
    <3>1. p \in Scopes
      BY NamesAre
    <3> QED
      BY <1>0, <2>3, <3>1, TypesStep, CountsStep, Unheld
  <2>5. ASSUME NEW r \in running, r.fin = Close(c)
        PROVE  FALSE
    BY <1>0, <1>1, <2>5 DEF ClosersFit
  <2>6. LateIn(L \cup {c})'
    <3>1. L \cup {c} \in SUBSET (Composed \ {Top})
      BY <1>0, <2>2 DEF LateIn
    <3>2. ASSUME NEW p \in Composed, NEW m \in PartsOf(p),
                 state[m] = "Exited" \/ m \in L \cup {c},
                 \/ Release(m) \in ToSet(finalizers'[p])
                 \/ m \in L \cup {c} /\ \E r \in running : r.fin = Close(m) /\ r.by = p
          PROVE  p \in L \cup {c}
      <4>1. CASE p = c
        BY <4>1
      <4>2. CASE p # c
        <5>1. m # c
          BY <1>2, <2>4, <2>5, <3>2, <4>2
        <5> QED
          BY <1>2, <3>2, <4>2, <5>1 DEF LateIn
      <4> QED
        BY <4>1, <4>2
    <3> QED
      BY <1>1, <2>1, <3>1, <3>2 DEF LateIn
  <2> QED
    BY <2>6
<1> QED
  BY <1>3, <1>4

(* Every step keeps such a set. *)
LEMMA LateStep ==
    ASSUME Fit, Moves
    PROVE  LateFit'
<1> USE DEF Fit
<1>1. CASE \E l \in Under : memo[l] \in Wrong
  <2>1. PICK l \in Under : memo[l] \in Wrong
    BY <1>1
  <2>2. memo'[l] = memo[l]
    BY <2>1, BuilderStays, NamesAre DEF Wrong, Ends
  <2> QED
    BY <2>1, <2>2, LateFitIs
<1>2. CASE \E l \in Under : memo'[l] \in Wrong
  BY <1>2, LateFitIs
<1>3. CASE (\A l \in Under : memo[l] \notin Wrong) /\ (\A l \in Under : memo'[l] \notin Wrong)
  <2>1. PICK L : LateIn(L)
    BY <1>3, LateFitIs
  <2>2. CASE \E k \in Calls : \E n, a : Adds(k, n, a)
    <3>1. \E M : LateIn(M)'
      BY <1>3, <2>1, <2>2, LateAdds
    <3> QED
      BY <3>1, LateFitIs
  <2>3. CASE ~ \E k \in Calls : \E n, a : Adds(k, n, a)
    <3>0. /\ Composed \subseteq Scopes /\ Shared \notin Composed /\ Top \in Scopes
          /\ \A p \in Composed : \A l \in PartsOf(p) : l \in Under /\ l \in Layers /\ l \in Scopes
          /\ \A k \in Calls : k \notin Composed
          /\ Main \notin Composed /\ Other \notin Composed
          /\ Top \notin Under /\ (\A s \in Leaves : s \notin Composed)
      BY CallsAre, NamesAre
    <3>1. ASSUME NEW p \in Composed, NEW l \in PartsOf(p), Release(l) \in ToSet(finalizers'[p])
          PROVE  Release(l) \in ToSet(finalizers[p])
      <4>1. ~IsGiven(p, Release(l))
        BY <2>3, FinalizersDiffer DEF IsGiven
      <4>2. p \in Scopes /\ p # Shared
        BY <3>0
      <4> QED
        BY <3>1, <4>1, <4>2, EntryComes, FinalizersDiffer
    <3>2. ASSUME NEW p \in Composed, NEW l \in PartsOf(p), NEW r \in running',
                 r.fin = Close(l), r.by = p, r \notin running
          PROVE  Release(l) \in ToSet(finalizers[p])
      <4>1. PICK i \in 1 .. Len(finalizers[p]) : Releasing(p, i, l)
        <5>1. ASSUME NEW s, NEW x, r = [fin |-> Close(s), by |-> x]
              PROVE  s = l /\ x = p
          BY <3>2, <5>1, FinalizersDiffer
        <5>2. ASSUME NEW s, NEW x, r = [fin |-> Free(s), by |-> x]
              PROVE  FALSE
          BY <3>2, <5>2, FinalizersDiffer
        <5> QED
          BY <3>0, <3>2, <5>1, <5>2, RunningMove
      <4>2. finalizers[p][i] = Release(l)
        BY <4>1 DEF Releasing
      <4>3. finalizers[p] \in Seq(Entries)
        BY <3>0, TypesAre
      <4> QED
        BY <4>2, <4>3, Members
    <3>3. ASSUME NEW p \in Composed, NEW l \in PartsOf(p), state'[l] = "Exited", state[l] # "Exited"
          PROVE  Release(l) \notin ToSet(finalizers'[p])
      <4>1. l \in Under /\ l \in Layers /\ l \in Scopes /\ p \in Scopes
        BY <3>0
      <4>2. state[l] = "Running"
        <5>1. state[l] \in {"none", "Running", "Exited"}
          BY <4>1, TypesAre
        <5>2. state[l] # "none"
          BY <3>0, <3>3, <4>1, StatesMove
        <5> QED
          BY <3>3, <5>1, <5>2
      <4>3. ASSUME NEW k \in Calls, LayerOf(k) = l, NEW end \in Wrong, Fails(k, end)
            PROVE  FALSE
        <5>1. memo' = [memo EXCEPT ![l] = end]
          BY <4>3 DEF Fails
        <5>2. memo'[l] = end
          BY <4>1, <5>1 DEF TypesFit
        <5> QED
          BY <1>3, <4>1, <5>2
      <4>4. observers'[l] = 0
        <5>1. CASE \E k \in Calls : LayerOf(k) = l /\ AddsLate(k, 1)
          <6>1. observers' = [observers EXCEPT ![l] = 1 - 1]
            BY <5>1 DEF AddsLate
          <6> QED
            BY <4>1, <6>1 DEF TypesFit
        <5>2. CASE \E c \in Composed : \E i \in DOMAIN finalizers[c] : Releasing(c, i, l) /\ observers[l] = 1
          <6>1. observers' = [observers EXCEPT ![l] = observers[l] - 1] /\ observers[l] = 1
            BY <5>2 DEF Releasing
          <6> QED
            BY <4>1, <6>1 DEF TypesFit
        <5> QED
          BY <3>3, <4>1, <4>2, <4>3, <5>1, <5>2, StatesMove
      <4> QED
        BY <4>1, <4>4, TypesStep, CountsStep, Unheld
    <3>4. state[Top] = "Exited" => state'[Top] = "Exited"
      BY <3>0, StatesMove
    <3>5. LateIn(L)'
      <4>1. ASSUME NEW p \in Composed, NEW l \in PartsOf(p),
                   state'[l] = "Exited" \/ l \in L,
                   \/ Release(l) \in ToSet(finalizers'[p])
                   \/ l \in L /\ \E r \in running' : r.fin = Close(l) /\ r.by = p
            PROVE  p \in L
        <5>1. CASE Release(l) \in ToSet(finalizers[p])
          <6>1. state[l] = "Exited" \/ l \in L
            BY <3>3, <4>1
          <6> QED
            BY <2>1, <5>1, <6>1 DEF LateIn
        <5>2. CASE Release(l) \notin ToSet(finalizers[p])
          <6>1. PICK r \in running' : l \in L /\ r.fin = Close(l) /\ r.by = p
            BY <3>1, <4>1, <5>2
          <6>2. r \in running
            BY <3>2, <5>2, <6>1
          <6> QED
            BY <2>1, <6>1, <6>2 DEF LateIn
        <5> QED
          BY <5>1, <5>2
      <4> QED
        BY <2>1, <3>4, <4>1 DEF LateIn
    <3> QED
      BY <3>5, LateFitIs
  <2> QED
    BY <2>2, <2>3
<1> QED
  BY <1>1, <1>2, <1>3

-----------------------------------------------------------------------------
(* The order in which a sequential scope is taken down.                    *)

(* Of the release maps of c, in the state s: every release of l has one of *)
(* d that comes later.                                                     *)
Ordered(f, s, d, l) ==
    \A i \in 1 .. Len(f) : f[i] = Release(l) =>
        \E j \in 1 .. Len(f) : f[j] = Release(d) /\ IF s = "Exited" THEN i < j ELSE j < i

InOrder(c) == kind[c] = "provideTo" /\ SoleUse(Parts[c][2], c) /\ c \notin Parallel

(* The order in the release maps, before and after a step. *)
LEMMA OrderFitsIs ==
    ASSUME TypesFit, TypesFit', kind' = kind
    PROVE  /\ OrderFits <=> \A c \in Composed : InOrder(c) =>
                 /\ Ordered(finalizers[c], state[c], Parts[c][1], Parts[c][2])
                 /\ \A r \in running : r.by = c /\ r.fin = Close(Parts[c][2]) =>
                       Release(Parts[c][1]) \in ToSet(finalizers[c])
           /\ OrderFits' <=> \A c \in Composed : InOrder(c) =>
                 /\ Ordered(finalizers'[c], state'[c], Parts[c][1], Parts[c][2])
                 /\ \A r \in running' : r.by = c /\ r.fin = Close(Parts[c][2]) =>
                       Release(Parts[c][1]) \in ToSet(finalizers'[c])
<1>0. Composed \subseteq Scopes
  BY NamesAre
<1>1. \A c \in Composed : DOMAIN finalizers[c] = 1 .. Len(finalizers[c])
  BY <1>0, TypesAre, LenProperties
<1>2. \A c \in Composed : DOMAIN finalizers'[c] = 1 .. Len(finalizers'[c])
  <2>1. ASSUME NEW c \in Composed
        PROVE  finalizers'[c] \in Seq(Entries)
    BY <1>0 DEF TypesFit, Entries
  <2> QED
    BY <2>1, LenProperties
<1>3. OrderFits <=> \A c \in Composed : InOrder(c) =>
                 /\ Ordered(finalizers[c], state[c], Parts[c][1], Parts[c][2])
                 /\ \A r \in running : r.by = c /\ r.fin = Close(Parts[c][2]) =>
                       Release(Parts[c][1]) \in ToSet(finalizers[c])
  BY <1>1 DEF OrderFits, InOrder, Ordered
<1>4. OrderFits' <=> \A c \in Composed : InOrder(c) =>
                 /\ Ordered(finalizers'[c], state'[c], Parts[c][1], Parts[c][2])
                 /\ \A r \in running' : r.by = c /\ r.fin = Close(Parts[c][2]) =>
                       Release(Parts[c][1]) \in ToSet(finalizers'[c])
  BY <1>2 DEF OrderFits, InOrder, Ordered, SoleUse
<1> QED
  BY <1>3, <1>4

(* Every step keeps the order. *)
LEMMA OrderStep ==
    ASSUME Fit, Moves
    PROVE  OrderFits'
<1> USE DEF Fit
<1>k. kind' = kind
  BY DEF Moves
<1> SUFFICES ASSUME NEW c \in Composed, InOrder(c)
             PROVE  /\ Ordered(finalizers'[c], state'[c], Parts[c][1], Parts[c][2])
                    /\ \A r \in running' : r.by = c /\ r.fin = Close(Parts[c][2]) =>
                          Release(Parts[c][1]) \in ToSet(finalizers'[c])
  BY <1>k, TypesStep, OrderFitsIs
<1> DEFINE d == Parts[c][1]
           l == Parts[c][2]
           f == finalizers[c]
           g == finalizers'[c]
           n == Len(f)
<1>0. /\ c \in Scopes /\ c # Shared /\ c \notin Leaves /\ c \notin Parallel
      /\ d \in PartsOf(c) /\ l \in PartsOf(c) /\ d # l /\ l # c
      /\ d \in Layers /\ l \in Layers /\ l \in Scopes
  <2>1. d \in PartsOf(c) /\ l \in PartsOf(c)
    BY DEF PartsOf
  <2>2. d # l
    BY <2>1 DEF InOrder, SoleUse
  <2> QED
    BY <2>1, <2>2, CallsAre, NamesAre, PartsDiffer DEF InOrder
<1>1. /\ f \in Seq(Entries) /\ DOMAIN f = 1 .. n /\ n \in Nat
      /\ \A x : x \in ToSet(f) <=> \E i \in 1 .. n : f[i] = x
  BY <1>0, TypesAre, Members
<1>2. /\ Ordered(f, state[c], d, l)
      /\ \A r \in running : r.by = c /\ r.fin = Close(l) => Release(d) \in ToSet(f)
  BY <1>k, TypesStep, OrderFitsIs
<1>3. EntriesMove(c) /\ ~EntriesLose(c)
  BY <1>0, FinalizersMove DEF EntriesLose
<1>4. ASSUME NEW m, IsTaken(c, m)
      PROVE  m = 1 /\ ~Busy(c)
  BY <1>0, <1>4 DEF IsTaken, Releasing, Detaching, Takes
<1>5. c \in Composed /\ InOrder(c) /\ d = Parts[c][1] /\ l = Parts[c][2]
      /\ f = finalizers[c] /\ g = finalizers'[c]
  OBVIOUS
<1>6. ASSUME NEW k \in Calls, ScopeOf(k) = c, LayerOf(k) = l, NEW m, NEW a, Adds(k, m, a)
      PROVE  Release(d) \in ToSet(f)
  <2>1. k = Call(c, 2) /\ Call(c, 1) \in Calls /\ ScopeOf(Call(c, 1)) = c /\ LayerOf(Call(c, 1)) = d
    BY <1>0, <1>5, <1>6, CallsAre
  <2>2. pc[k] # "idle" /\ state[c] = "Running"
    BY <1>6 DEF Adds, Comes, Gets
  <2>3. pc[Call(c, 1)] = "ok"
    BY <1>5, <2>1, <2>2 DEF CallsFit, InOrder
  <2> QED
    BY <1>5, <2>1, <2>2, <2>3 DEF HoldersFit
<1>7. Ordered(g, state'[c], d, l)
  <2> HIDE DEF d, l, f, g, n
  <2>1. CASE EntriesStay(c)
    <3>1. CASE state[c] = "none"
      <4>1. f = <<>>
        BY <1>0, <1>5, <3>1 DEF ScopesFit, Begun
      <4> QED
        BY <1>5, <2>1, <4>1 DEF EntriesStay, Ordered
    <3>2. CASE state[c] # "none"
      BY <1>2, <1>5, <2>1, <3>2 DEF EntriesStay
    <3> QED
      BY <3>1, <3>2
  <2>2. CASE EntriesGrow(c)
    <3>1. PICK x \in Entries : g = Append(f, x) /\ IsGiven(c, x)
      BY <1>5, <2>2 DEF EntriesGrow
    <3>2. state[c] = "Running" /\ state'[c] = "Running"
      BY <2>2 DEF EntriesGrow
    <3>3. /\ g \in Seq(Entries) /\ Len(g) = n + 1 /\ g[n + 1] = x
          /\ \A i \in 1 .. n : g[i] = f[i]
      BY <1>1, <3>1, Appended DEF n
    <3>4. x = Release(l) => Release(d) \in ToSet(f)
      <4> SUFFICES ASSUME x = Release(l)
                   PROVE  Release(d) \in ToSet(f)
        OBVIOUS
      <4>1. PICK k \in Calls : ScopeOf(k) = c /\ Release(l) = Release(LayerOf(k)) /\ \E m, a : Adds(k, m, a)
        BY <1>0, <3>1, FinalizersDiffer DEF IsGiven
      <4>2. LayerOf(k) = l
        BY <4>1, FinalizersDiffer
      <4> QED
        BY <1>6, <4>1, <4>2 DEF f, d, l
    <3> SUFFICES ASSUME NEW i \in 1 .. n + 1, g[i] = Release(l)
                 PROVE  \E j \in 1 .. n + 1 : g[j] = Release(d) /\ j < i
      BY <3>2, <3>3 DEF Ordered
    <3>5. CASE i = n + 1
      <4>1. PICK j \in 1 .. n : f[j] = Release(d)
        BY <1>1, <3>3, <3>4, <3>5
      <4>2. j \in 1 .. n + 1 /\ j < i /\ g[j] = Release(d)
        BY <1>1, <3>3, <3>5, <4>1
      <4> QED
        BY <4>2
    <3>6. CASE i # n + 1
      <4>1. i \in 1 .. n
        BY <1>1, <3>6
      <4>2. PICK j \in 1 .. n : f[j] = Release(d) /\ j < i
        BY <1>2, <3>2, <3>3, <4>1 DEF Ordered, n
      <4>3. j \in 1 .. n + 1 /\ g[j] = Release(d)
        BY <1>1, <3>3, <4>2
      <4> QED
        BY <4>2, <4>3
    <3> QED
      BY <3>5, <3>6
  <2>3. CASE EntriesTurn(c)
    <3>1. g = Reverse(f) /\ state[c] = "Running" /\ state'[c] = "Exited"
      BY <1>5, <2>3 DEF EntriesTurn
    <3>2. g \in Seq(Entries) /\ Len(g) = n /\ \A i \in 1 .. n : g[i] = f[n - i + 1]
      BY <1>1, <3>1, Reversed DEF n
    <3> SUFFICES ASSUME NEW i \in 1 .. n, g[i] = Release(l)
                 PROVE  \E j \in 1 .. n : g[j] = Release(d) /\ i < j
      BY <3>1, <3>2 DEF Ordered
    <3>3. n - i + 1 \in 1 .. n /\ f[n - i + 1] = Release(l)
      BY <1>1, <3>2
    <3>4. PICK j \in 1 .. n : f[j] = Release(d) /\ j < n - i + 1
      BY <1>2, <3>1, <3>3 DEF Ordered, n
    <3>5. n - j + 1 \in 1 .. n /\ i < n - j + 1 /\ n - (n - j + 1) + 1 = j
      BY <1>1, <3>4
    <3>6. g[n - j + 1] = Release(d)
      BY <3>2, <3>4, <3>5
    <3> QED
      BY <3>5, <3>6
  <2>4. CASE EntriesShrink(c)
    <3>1. PICK m \in 1 .. n : g = RemoveAt(f, m) /\ IsTaken(c, m)
      BY <1>5, <2>4 DEF EntriesShrink, n
    <3>2. state[c] = "Exited" /\ state'[c] = "Exited"
      BY <2>4 DEF EntriesShrink
    <3>3. m = 1
      BY <1>4, <3>1
    <3>4. /\ g \in Seq(Entries) /\ Len(g) = n - 1
          /\ \A j \in 1 .. n - 1 : g[j] = IF j < m THEN f[j] ELSE f[j + 1]
      BY <1>1, <3>1, RemovedAt DEF n
    <3> SUFFICES ASSUME NEW i \in 1 .. n - 1, g[i] = Release(l)
                 PROVE  \E j \in 1 .. n - 1 : g[j] = Release(d) /\ i < j
      BY <3>2, <3>4 DEF Ordered
    <3>5. i + 1 \in 1 .. n /\ f[i + 1] = Release(l)
      BY <1>1, <3>3, <3>4
    <3>6. PICK j \in 1 .. n : f[j] = Release(d) /\ i + 1 < j
      BY <1>2, <3>2, <3>5 DEF Ordered, n
    <3>7. j - 1 \in 1 .. n - 1 /\ i < j - 1 /\ ~(j - 1 < 1) /\ (j - 1) + 1 = j
      BY <1>1, <3>6
    <3>8. g[j - 1] = Release(d)
      BY <3>3, <3>4, <3>6, <3>7
    <3> QED
      BY <3>7, <3>8
  <2>5. CASE EntriesStart(c)
    <3>1. g = <<Detach(Top, Shared)>>
      BY <1>5, <2>5 DEF EntriesStart
    <3>2. Len(g) = 1 /\ g[1] # Release(l) /\ \A i \in 1 .. 1 : i = 1
      BY <3>1, FinalizersDiffer
    <3> QED
      BY <3>2 DEF Ordered
  <2> QED
    BY <1>3, <2>1, <2>2, <2>3, <2>4, <2>5 DEF EntriesMove
<1>8. ASSUME NEW r \in running', r.by = c, r.fin = Close(l)
      PROVE  Release(d) \in ToSet(g)
  <2>1. CASE r \in running
    <3>1. Release(d) \in ToSet(f) /\ Busy(c)
      BY <1>2, <1>8, <2>1 DEF Busy, RunsFor
    <3> QED
      BY <1>0, <1>4, <3>1, EntryStays
  <2>2. CASE r \notin running
    <3>1. PICK i \in 1 .. n : Releasing(c, i, l) /\ TakesClosing(c, i, l)
      <4>1. ASSUME NEW s, NEW x, r = [fin |-> Close(s), by |-> x]
            PROVE  s = l /\ x = c
        BY <1>8, <4>1, FinalizersDiffer
      <4>2. ASSUME NEW s, NEW x, r = [fin |-> Free(s), by |-> x]
            PROVE  FALSE
        BY <1>8, <4>2, FinalizersDiffer
      <4>3. /\ \A k \in Calls : k # c
            /\ Main # c /\ Other # c /\ Shared # c
        BY <1>0, CallsAre
      <4> QED
        BY <2>2, <4>1, <4>2, <4>3, RunningMove
    <3>2. f[i] = Release(l) /\ state[c] = "Exited"
      BY <3>1 DEF Releasing, Takes
    <3>3. PICK j \in 1 .. n : f[j] = Release(d)
      BY <1>2, <3>1, <3>2 DEF Ordered
    <3>4. Release(d) \in ToSet(f) /\ Release(d) # f[i]
      BY <1>0, <1>1, <3>2, <3>3, FinalizersDiffer
    <3>5. g = RemoveAt(f, i)
      <4>1. finalizers' = [Rest(c, i) EXCEPT ![l] = Reverse(finalizers[l])]
        BY <3>1 DEF TakesClosing
      <4> QED
        BY <1>0, <4>1 DEF Rest, TypesFit
    <3>6. i \in 1 .. Len(f)
      BY <3>1
    <3> HIDE DEF f, g, n, d, l
    <3> QED
      BY <1>1, <3>4, <3>5, <3>6, RemovedAt
  <2> QED
    BY <2>1, <2>2
<1> QED
  BY <1>7, <1>8

-----------------------------------------------------------------------------
(* The invariant.                                                          *)

(* All is as the invariant says when nothing was started yet.              *)
LEMMA FitInit == Init => Fit
<1> SUFFICES ASSUME Init
             PROVE  Fit
  OBVIOUS
<1>0. /\ Top \in Scopes /\ Shared \in Scopes /\ Shared \notin Layers /\ Top \in Layers
      /\ Extra \in Resources /\ Extra \notin Leaves /\ Leaves \subseteq Resources
      /\ Leaves \subseteq Under /\ Under \subseteq Layers /\ Composed \subseteq Layers
      /\ Layers \subseteq Scopes /\ Main \in Builds /\ Top \notin Under
      /\ (\A k \in Calls : k \in Builds /\ LayerOf(k) \in Layers /\ ScopeOf(k) \in Layers)
  BY CallsAre, NamesAre
<1>1. /\ kind \in Kinds /\ running = {} /\ interrupted = {} /\ miscounted = {}
      /\ \A s \in Scopes : state[s] = IF s = Shared THEN "Running" ELSE "none"
      /\ \A s \in Scopes : finalizers[s] = IF s = Shared THEN <<Free(Extra)>> ELSE <<>>
      /\ \A r \in Resources : released[r] = 0 /\ acquired[r] = IF r = Extra THEN 1 ELSE 0
      /\ \A l \in Layers : memo[l] = "absent" /\ observers[l] = 0
      /\ \A k \in Builds : pc[k] = "idle"
  BY DEF Init
<1>2. \A l \in Layers : finalizers[l] = <<>> /\ state[l] = "none"
  BY <1>0, <1>1
<1>3. TypesFit
  <2>1. <<Free(Extra)>> \in Seq(Entries) /\ <<>> \in Seq(Entries)
    BY <1>0, EntriesAre
  <2>2. finalizers \in [Scopes -> Seq(Entries)]
    BY <2>1 DEF Init
  <2> QED
    BY <1>0, <2>2 DEF Init, TypesFit, Entries, Steps
<1>4. ScopesFit
  BY <1>0, <1>1, <1>2 DEF ScopesFit, Begun
<1>5. EntriesFit
  BY <1>0, <1>1, <1>2 DEF EntriesFit, MainFits, EntryFits, CallFits, Finished, Wrong
<1>6. CallsFit
  <2>1. \A c \in Composed : Call(c, 2) \in Builds
    BY CallsAre
  <2> QED
    BY <1>0, <1>1, <2>1 DEF CallsFit, Open
<1>7. LeavesFit
  <2>1. ToSet(<<>>) = {} /\ Len(<<>>) = 0
    BY DEF ToSet
  <2> QED
    BY <1>0, <1>1, <1>2, <2>1 DEF LeavesFit
<1>8. SharedFits
  BY <1>0, <1>1 DEF SharedFits
<1>9. CountsFit
  <2> SUFFICES ASSUME NEW l \in Layers
               PROVE  Cardinality(Releases(l)) + Cardinality(Observing(l)) = 0
    BY <1>1 DEF CountsFit
  <2>1. ASSUME NEW s \in Scopes
        PROVE  {j \in DOMAIN finalizers[s] : finalizers[s][j] = Release(l)} = {}
    <3>1. CASE s = Shared
      <4>1. finalizers[s] = <<Free(Extra)>>
        BY <1>1, <3>1
      <4>2. \A j \in DOMAIN <<Free(Extra)>> : <<Free(Extra)>>[j] = Free(Extra)
        OBVIOUS
      <4> QED
        BY <4>1, <4>2, FinalizersDiffer
    <3>2. CASE s # Shared
      <4>1. finalizers[s] = <<>>
        BY <1>1, <3>2
      <4> QED
        BY <4>1
    <3> QED
      BY <3>1, <3>2
  <2>2. Releases(l) = {}
    BY <2>1 DEF Releases
  <2>3. Observing(l) = {}
    BY <1>0, <1>1 DEF Observing
  <2>4. Cardinality({}) = 0
    BY FS_EmptySet
  <2> QED
    BY <2>2, <2>3, <2>4
<1>10. HoldersFit
  <2>1. ToSet(<<>>) = {}
    BY DEF ToSet
  <2> QED
    BY <1>0, <1>1, <1>2, <2>1 DEF HoldersFit
<1>11. ExitsFit
  BY <1>0, <1>1, <1>2 DEF ExitsFit, Finished
<1>12. SuccessesFit
  BY <1>0, <1>1, <1>2 DEF SuccessesFit, Succeeded, Finished
<1>13. ClosersFit
  BY <1>0, <1>1, <1>2 DEF ClosersFit
<1>14. ForksFit
  <2>1. DetachesOnce
    <3>1. finalizers[Top] = <<>>
      BY <1>0, <1>2
    <3> QED
      BY <3>1 DEF DetachesOnce
  <2>2. ~Has(Maps, Shared, Close(Top))
    <3>1. finalizers[Shared] = <<Free(Extra)>>
      BY <1>0, <1>1
    <3>2. \A i \in 1 .. Len(<<Free(Extra)>>) : <<Free(Extra)>>[i] = Free(Extra)
      OBVIOUS
    <3> QED
      BY <1>0, <3>1, <3>2, HasIs, FinalizersDiffer
  <2>3. ~Has(Maps, Top, Detach(Top, Shared))
    <3>1. finalizers[Top] = <<>> /\ \A i \in 1 .. Len(<<>>) : FALSE
      BY <1>0, <1>2
    <3> QED
      BY <1>0, <3>1, HasIs
  <2> QED
    BY <2>1, <2>2, <2>3 DEF ForksFit, ForksDetach
<1>15. ExtraIsLast
  BY <1>0, <1>1 DEF ExtraIsLast
<1>16. LateFit
  <2>1. \A p \in Composed : \A l \in PartsOf(p) : state[l] # "Exited"
    BY <1>2, CallsAre, NamesAre
  <2>2. LateIn({})
    BY <2>1 DEF LateIn
  <2> QED
    BY <2>2, LateFitIs
<1>17. OrderFits
  <2>1. ASSUME NEW c \in Composed
        PROVE  DOMAIN finalizers[c] = {}
    <3>1. finalizers[c] = <<>>
      BY <1>0, <1>2
    <3> QED
      BY <3>1
  <2> QED
    BY <1>1, <2>1 DEF OrderFits
<1> QED
  BY <1>3, <1>4, <1>5, <1>6, <1>7, <1>8, <1>9, <1>10, <1>11, <1>12, <1>13, <1>14, <1>15,
     <1>16, <1>17 DEF Fit

(* Every step keeps the invariant. *)
LEMMA FitNext == Fit /\ [Next]_vars => Fit'
<1> SUFFICES ASSUME Fit, [Next]_vars
             PROVE  Fit'
  OBVIOUS
<1>1. Moves
  BY NextIs DEF Fit
<1>2. TypesFit' /\ ScopesFit' /\ EntriesFit' /\ CallsFit' /\ LeavesFit' /\ SharedFits'
  BY <1>1, TypesStep, ScopesStep, EntriesStep, CallsStep, LeavesStep, SharedStep
<1>3. CountsFit' /\ HoldersFit' /\ ExitsFit' /\ SuccessesFit' /\ ClosersFit' /\ ForksFit'
  BY <1>1, CountsStep, HoldersStep, ExitsStep, SuccessesStep, ClosersStep, ForksStep
<1>4. ExtraIsLast' /\ LateFit' /\ OrderFits'
  BY <1>1, ExtraStep, LateStep, OrderStep
<1> QED
  BY <1>2, <1>3, <1>4 DEF Fit

(* The inductive invariant holds in every behaviour, for any tree of       *)
(* layers: the memo map, the calls, the scopes with their release maps and *)
(* the counts of observers always fit together.                            *)
THEOREM FitHolds == Spec => []Fit
<1> QED
  BY FitInit, FitNext, PTL DEF Spec

-----------------------------------------------------------------------------
(* What follows from it.                                                   *)

(* The types. *)
LEMMA FitTypes == Fit => TypeOK
<1> SUFFICES ASSUME Fit
             PROVE  TypeOK
  OBVIOUS
<1>1. \A r \in running : r.fin \in Finalizers /\ r.by \in Scopes \cup Builds \cup {Other}
  <2> SUFFICES ASSUME NEW r \in running
               PROVE  r.fin \in Finalizers /\ r.by \in Scopes \cup Builds \cup {Other}
    OBVIOUS
  <2>1. r \in Runs
    BY DEF Fit, TypesFit
  <2> QED
    BY <2>1 DEF Runs, Finalizers
<1> QED
  BY <1>1 DEF Fit, TypesFit, TypeOK

(* The resource of a leaf is held by its scope, or released. *)
LEMMA FitAllocates == Fit => AllocatedOnce
<1> SUFFICES ASSUME Fit, NEW r \in Resources
             PROVE  released[r] <= acquired[r] /\ acquired[r] <= 1
  BY DEF AllocatedOnce
<1>1. CASE r \in Leaves
  <2>1. /\ acquired[r] = released[r] + Len(finalizers[r]) /\ acquired[r] <= 1
        /\ acquired[r] \in Nat /\ released[r] \in Nat
    BY <1>1 DEF Fit, LeavesFit, TypesFit
  <2>2. Len(finalizers[r]) \in Nat
    <3>1. finalizers[r] \in Seq(Entries)
      BY <1>1, TypesAre, NamesAre DEF Fit
    <3> QED
      BY <3>1, LenProperties
  <2> QED
    BY <2>1, <2>2
<1>2. CASE r = Extra
  <2>1. state[Shared] \in {"Running", "Exited"}
    BY TypesAre, NamesAre DEF Fit, ScopesFit, Begun
  <2> QED
    BY <1>2, <2>1 DEF Fit, SharedFits
<1> QED
  BY <1>1, <1>2, NamesAre

(* The counts. *)
LEMMA FitObserves == Fit => ObserversWillRelease
  BY DEF Fit, CountsFit, ObserversWillRelease

(* A layer that is not there although the application uses it would have,  *)
(* among those it is part of, another one that is not there.               *)
LEMMA FitServes == Fit => ServicesLive
<1> SUFFICES ASSUME Fit, OneWay, pc[Main] = "ok", state[Top] = "Running"
             PROVE  \A l \in Leaves : acquired[l] > 0 => Held(l)
  BY DEF ServicesLive, SafelyReleased
<1> USE DEF Fit
<1> DEFINE T == {l \in Under : Begun(l) /\ ~(Finished(l) /\ state[l] = "Running")}
<1>1. T = {}
  <2> SUFFICES ASSUME T # {}
               PROVE  FALSE
    OBVIOUS
  <2>1. T \in SUBSET Layers
    BY NamesAre
  <2>2. PICK l \in T : \A c \in T \cap Composed : l \notin PartsOf(c)
    BY <2>1, OrderAssumption
  <2>3. /\ l \in Under /\ l \in Layers /\ Begun(l) /\ ~(Finished(l) /\ state[l] = "Running")
        /\ l \in Scopes
    BY <2>2, NamesAre
  <2>4. ASSUME NEW k \in Calls, LayerOf(k) = l, ScopeOf(k) # Top, Begun(ScopeOf(k))
        PROVE  Finished(ScopeOf(k)) /\ state[ScopeOf(k)] = "Running"
    <3>1. ScopeOf(k) \in Composed /\ l \in PartsOf(ScopeOf(k)) /\ ScopeOf(k) \in Under
      BY <2>4, CallsAre, NamesAre DEF Under
    <3>2. ScopeOf(k) \notin T
      BY <2>2, <3>1
    <3> QED
      BY <2>4, <3>1, <3>2
  <2>5. Finished(l)
    <3>1. memo[l] # "absent"
      BY <2>3 DEF ScopesFit
    <3>2. PICK k \in Calls : LayerOf(k) = l /\ pc[k] # "idle"
      BY <2>3, <3>1 DEF EntriesFit, EntryFits, Ends
    <3>3. Begun(ScopeOf(k)) /\ kind[ScopeOf(k)] # "orElse"
      BY <3>2, CallsAre DEF CallsFit, OneWay
    <3>4. Succeeded(ScopeOf(k))
      BY <2>4, <3>2, <3>3 DEF Succeeded
    <3>5. pc[k] = "ok"
      BY <3>3, <3>4 DEF SuccessesFit
    <3> QED
      BY <3>2, <3>5 DEF EntriesFit, CallFits, Finished
  <2>6. state[l] = "Exited"
    BY <2>3, <2>5, TypesAre DEF Begun
  <2>7. memo[l] \notin Wrong
    BY <2>5 DEF Finished, Wrong
  <2>8. PICK k \in Calls : LayerOf(k) = l /\ state[ScopeOf(k)] = "Exited"
    BY <2>3, <2>6, <2>7 DEF ExitsFit
  <2> QED
    BY <2>4, <2>8 DEF Begun
<1>2. ASSUME NEW l \in Leaves, acquired[l] > 0
      PROVE  Held(l)
  <2>1. Begun(l) /\ l \in Under
    BY <1>2, NamesAre DEF LeavesFit
  <2>2. state[l] = "Running"
    BY <1>1, <2>1
  <2>3. ~(released[l] > 0) /\ released[l] \in Nat /\ acquired[l] \in Nat
    BY <2>2, NamesAre DEF LeavesFit, TypesFit
  <2> QED
    BY <1>2, <2>3 DEF Held
<1> QED
  BY <1>2

(* When no call is open, who still uses a layer that is not closed.        *)
Uses(p, l) ==
    \/ Release(l) \in ToSet(finalizers[p])
    \/ \E r \in running : r.fin = Close(l) /\ r.by = p

(* Somebody uses a layer that is not closed. *)
LEMMA UserIs ==
    ASSUME Fit, \A k \in Calls : ~Open(k), miscounted = {},
           NEW l \in Under, Begun(l), ~Closed(l)
    PROVE  \E p \in Composed : l \in PartsOf(p) /\ Begun(p) /\ ~Closed(p) /\ Uses(p, l)
<1> USE DEF Fit
<1>0. l \in Layers /\ l \in Scopes /\ Composed \subseteq Scopes
  BY NamesAre
<1>1. memo[l] \in Ends
  <2>1. memo[l] # "absent" /\ memo[l] \in {"absent", "pending"} \cup Ends
    BY <1>0 DEF ScopesFit, TypesFit
  <2>2. EntryFits(l)
    BY <1>0 DEF EntriesFit
  <2>3. builder[l] \in Calls /\ pc[builder[l]] \in Ends
    BY <2>1, <2>2 DEF EntryFits, Open, Ends
  <2> QED
    BY <2>1, <2>2, <2>3 DEF EntryFits, Ends
<1>2. state[l] \in {"Running", "Exited"}
  BY <1>0, TypesAre DEF Begun
<1>3. CASE state[l] = "Running"
  <2>1. memo[l] = "ok"
    BY <1>0, <1>1, <1>3 DEF EntriesFit, EntryFits, Wrong, Ends
  <2>2. observers[l] > 0
    BY <1>3, <2>1 DEF ExitsFit, Finished
  <2>3. observers[l] = Number(finalizers, l) + Cardinality(Watching(pc, l))
    BY <1>0, CountsAre
  <2>4. Cardinality(Watching(pc, l)) = 0
    <3>1. Watching(pc, l) = {}
      BY DEF Watching, Open, Ends
    <3> QED
      BY <3>1, FS_EmptySet
  <2>5. Number(finalizers, l) # 0 /\ AreMaps(finalizers)
    <3>1. Number(finalizers, l) \in Nat
      BY <1>0, CountsAre
    <3> QED
      BY <2>2, <2>3, <2>4, <3>1, TypesAre
  <2>6. PICK p \in Scopes : Release(l) \in ToSet(finalizers[p])
    BY <2>5, NumberZero
  <2>7. p \in Composed
    <3>1. p \notin Leaves
      BY <2>6, FinalizersDiffer DEF LeavesFit
    <3>2. p # Shared
      <4>1. ASSUME p = Shared
            PROVE  FALSE
        <5>1. finalizers[p] \in {<<Free(Extra)>>, <<Free(Extra), Close(Top)>>, <<Close(Top), Free(Extra)>>,
                                 <<>>, <<Close(Top)>>}
          <6>1. state[Shared] \in {"Running", "Exited"}
            BY TypesAre, NamesAre DEF ScopesFit, Begun
          <6> QED
            BY <4>1, <6>1 DEF SharedFits
        <5>2. ToSet(finalizers[p]) \subseteq {Free(Extra), Close(Top)}
          <6>1. /\ ToSet(<<Free(Extra)>>) \subseteq {Free(Extra), Close(Top)}
                /\ ToSet(<<Close(Top)>>) \subseteq {Free(Extra), Close(Top)}
                /\ ToSet(<<Free(Extra), Close(Top)>>) \subseteq {Free(Extra), Close(Top)}
                /\ ToSet(<<Close(Top), Free(Extra)>>) \subseteq {Free(Extra), Close(Top)}
                /\ ToSet(<<>>) \subseteq {Free(Extra), Close(Top)}
            BY DEF ToSet
          <6> QED
            BY <5>1, <6>1
        <5> QED
          BY <2>6, <5>2, FinalizersDiffer
      <4> QED
        BY <4>1
    <3> QED
      BY <3>1, <3>2, NamesAre
  <2>8. l \in PartsOf(p)
    <3>1. \/ \E m \in PartsOf(p) : Release(l) = Release(m)
          \/ Release(l) = Detach(Top, Shared)
      BY <2>6, <2>7 DEF HoldersFit
    <3> QED
      BY <3>1, FinalizersDiffer
  <2>9. finalizers[p] # <<>>
    <3>1. ToSet(<<>>) = {}
      BY DEF ToSet
    <3> QED
      BY <2>6, <3>1
  <2>10. Begun(p) /\ ~Closed(p)
    BY <2>9 DEF ScopesFit, Closed
  <2> QED
    BY <2>6, <2>7, <2>8, <2>10 DEF Uses
<1>4. CASE state[l] = "Exited"
  <2>1. PICK r \in running : r.fin = Close(l)
    BY <1>0, <1>4 DEF ClosersFit
  <2>2. PICK k \in Calls : LayerOf(k) = l /\ (r.by = ScopeOf(k) \/ pc[k] \in {"closing", "adding"})
    BY <2>1 DEF ClosersFit
  <2>3. r.by = ScopeOf(k)
    BY <2>2 DEF Open, Ends
  <2>4. ScopeOf(k) \in Composed /\ l \in PartsOf(ScopeOf(k)) /\ ScopeOf(k) \in Scopes
    BY <2>2, CallsAre, NamesAre
  <2>5. Begun(ScopeOf(k)) /\ ~Closed(ScopeOf(k))
    BY <2>1, <2>3, <2>4 DEF ScopesFit, Begun, Closed, RunsFor
  <2> QED
    BY <2>1, <2>3, <2>4, <2>5 DEF Uses
<1> QED
  BY <1>2, <1>3, <1>4

(* A leaf whose scope is closed, or was never made, is free. *)
LEMMA ClosedIsFreed ==
    ASSUME Fit, NEW l \in Leaves, Begun(l) => Closed(l)
    PROVE  Freed(l)
<1> USE DEF Fit
<1>0. l \in Scopes /\ l \in Resources
  BY NamesAre
<1>1. finalizers[l] = <<>>
  BY <1>0 DEF ScopesFit, Closed
<1>2. released[l] = acquired[l]
  <2>1. acquired[l] = released[l] + Len(finalizers[l]) /\ released[l] \in Nat /\ Len(<<>>) = 0
    BY <1>0 DEF LeavesFit, TypesFit
  <2> QED
    BY <1>1, <2>1
<1>3. ASSUME NEW r \in running, r.fin = Free(l)
      PROVE  FALSE
  <2>1. r.by = l
    BY <1>3 DEF LeavesFit
  <2>2. state[l] = "Exited"
    BY <1>0, <2>1 DEF ScopesFit
  <2> QED
    BY <2>1, <2>2 DEF Begun, Closed, RunsFor
<1> QED
  BY <1>2, <1>3 DEF Freed

(* All is closed with the scope of the application.                        *)
LEMMA AllClosed ==
    ASSUME Fit, Closed(Top), \A k \in Calls : ~Open(k), miscounted = {}
    PROVE  \A l \in Under : Begun(l) => Closed(l)
<1> DEFINE S == {l \in Under : Begun(l) /\ ~Closed(l)}
<1> SUFFICES ASSUME S # {}
             PROVE  FALSE
  OBVIOUS
<1>1. S \in SUBSET Layers
  BY NamesAre
<1>2. PICK l \in S : \A c \in S \cap Composed : l \notin PartsOf(c)
  BY <1>1, OrderAssumption
<1>3. PICK p \in Composed : l \in PartsOf(p) /\ Begun(p) /\ ~Closed(p)
  BY <1>2, UserIs
<1>4. p \in S
  BY <1>3, NamesAre DEF Under
<1> QED
  BY <1>2, <1>3, <1>4

(* Once the application is not building any more, no call is.              *)
LEMMA NoneOpen ==
    ASSUME Fit, pc[Main] # "building"
    PROVE  \A k \in Calls : ~Open(k)
<1> USE DEF Fit
<1> DEFINE B == {c \in Composed : Building(c)}
<1>1. B = {}
  <2> SUFFICES ASSUME B # {}
               PROVE  FALSE
    OBVIOUS
  <2>1. B \in SUBSET Layers
    BY NamesAre
  <2>2. PICK c \in B : \A d \in B \cap Composed : c \notin PartsOf(d)
    BY <2>1, OrderAssumption
  <2>3. c \in Composed /\ Begun(c) /\ pc[BuilderOf(c)] = "building"
    BY <2>2 DEF Building
  <2>4. c # Top
    BY <2>3 DEF BuilderOf
  <2>5. c \in Under /\ c \in Layers /\ BuilderOf(c) = builder[c]
    BY <2>3, <2>4, NamesAre DEF BuilderOf, Under
  <2>6. memo[c] # "absent"
    BY <2>3, <2>5 DEF ScopesFit
  <2>7. builder[c] \in Calls /\ LayerOf(builder[c]) = c
    BY <2>5, <2>6 DEF EntriesFit, EntryFits
  <2>8. Open(builder[c])
    BY <2>3, <2>5 DEF Open, Ends
  <2>9. Building(ScopeOf(builder[c]))
    BY <2>7, <2>8 DEF CallsFit
  <2>10. ScopeOf(builder[c]) \in Composed /\ c \in PartsOf(ScopeOf(builder[c]))
    BY <2>7, CallsAre
  <2> QED
    BY <2>2, <2>9, <2>10
<1> QED
  BY <1>1, CallsAre DEF CallsFit

(* What is left when the scope of the application is closed. *)
LEMMA FitLeaves == Fit => NothingLeftOver
<1> SUFFICES ASSUME Fit
             PROVE  NothingLeftOver
  OBVIOUS
<1>1. ForksDetach
  BY DEF Fit, ForksFit
<1>2. ASSUME Closed(Top), pc[Main] \notin {"idle", "building"}, NEW l \in Leaves, miscounted = {}
      PROVE  Freed(l)
  <2>1. \A k \in Calls : ~Open(k)
    BY <1>2, NoneOpen
  <2>2. Begun(l) => Closed(l)
    BY <1>2, <2>1, AllClosed, NamesAre
  <2> QED
    BY <2>2, ClosedIsFreed
<1> QED
  BY <1>1, <1>2 DEF NothingLeftOver, LeavesFreed

(* When both parts of a layer without a second way succeeded, all calls    *)
(* did, and no observer was lost.                                          *)
LEMMA AllOk ==
    ASSUME Fit, OneWay, \A i \in {1, 2} : pc[Call(Top, i)] = "ok"
    PROVE  /\ \A k \in Calls : pc[k] \in {"idle", "ok"}
           /\ \A l \in Under : memo[l] \notin Wrong
           /\ miscounted = {}
<1> USE DEF Fit
<1> DEFINE S == {c \in Composed : \E k \in Calls : ScopeOf(k) = c /\ pc[k] \notin {"idle", "ok"}}
<1>1. S = {}
  <2> SUFFICES ASSUME S # {}
               PROVE  FALSE
    OBVIOUS
  <2>1. S \in SUBSET Layers
    BY NamesAre
  <2>2. PICK c \in S : \A d \in S \cap Composed : c \notin PartsOf(d)
    BY <2>1, OrderAssumption
  <2>3. PICK k \in Calls : ScopeOf(k) = c /\ pc[k] \notin {"idle", "ok"}
    BY <2>2
  <2>4. c \in Composed /\ c # Top
    <3>1. k = Call(c, 1) \/ k = Call(c, 2)
      BY <2>3, CallsAre
    <3> QED
      BY <2>2, <2>3, <3>1
  <2>5. c \in Under /\ c \in Layers /\ Begun(c)
    BY <2>3, <2>4, NamesAre DEF CallsFit, Under
  <2>6. memo[c] # "absent"
    BY <2>5 DEF ScopesFit
  <2>7. PICK j \in Calls : LayerOf(j) = c /\ pc[j] # "idle"
    BY <2>5, <2>6 DEF EntriesFit, EntryFits, Ends
  <2>8. ScopeOf(j) \in Composed /\ c \in PartsOf(ScopeOf(j))
    BY <2>7, CallsAre
  <2>9. pc[j] = "ok"
    BY <2>2, <2>7, <2>8
  <2>10. Finished(c)
    BY <2>7, <2>9 DEF EntriesFit, CallFits, Finished
  <2>11. pc[k] = "ok"
    BY <2>3, <2>4, <2>10 DEF SuccessesFit, Succeeded, OneWay
  <2> QED
    BY <2>3, <2>11
<1>2. \A k \in Calls : pc[k] \in {"idle", "ok"}
  BY <1>1, CallsAre
<1>3. ASSUME NEW l \in Under, memo[l] \in Wrong
      PROVE  FALSE
  <2>1. EntryFits(l) /\ memo[l] # "absent"
    BY <1>3, NamesAre DEF EntriesFit, Wrong
  <2>2. builder[l] \in Calls /\ LayerOf(builder[l]) = l /\ pc[builder[l]] # "idle"
    BY <2>1 DEF EntryFits, Ends
  <2>3. pc[builder[l]] = "ok"
    BY <1>2, <2>2
  <2>4. memo[l] = "ok"
    BY <2>2, <2>3 DEF EntriesFit, CallFits
  <2> QED
    BY <1>3, <2>4 DEF Wrong
<1>4. ASSUME NEW l \in miscounted
      PROVE  FALSE
  <2>1. l \in Layers
    BY DEF TypesFit
  <2>2. \E k \in Calls : pc[k] = "interrupted"
    BY <1>4, <2>1 DEF EntriesFit, EntryFits
  <2> QED
    BY <1>2, <2>2
<1> QED
  BY <1>2, <1>3, <1>4

(* Then no scope has to release a layer that was closed.                   *)
LEMMA NoneLate ==
    ASSUME Fit, OneWay, \A i \in {1, 2} : pc[Call(Top, i)] = "ok",
           NEW c \in Composed, NEW d \in PartsOf(c), state[d] = "Exited"
    PROVE  Release(d) \notin ToSet(finalizers[c])
<1>1. PICK L : LateIn(L)
  BY AllOk, LateFitIs DEF Fit
<1>2. \A k \in Calls : ~Open(k)
  BY AllOk DEF Open, Ends
<1> DEFINE M == {e \in L : Begun(e) /\ ~Closed(e)}
<1>3. M = {}
  <2> SUFFICES ASSUME M # {}
               PROVE  FALSE
    OBVIOUS
  <2>1. M \in SUBSET Layers
    BY <1>1, NamesAre DEF LateIn
  <2>2. PICK e \in M : \A p \in M \cap Composed : e \notin PartsOf(p)
    BY <2>1, OrderAssumption
  <2>3. e \in Under /\ e \in L
    BY <1>1, <2>2, NamesAre DEF LateIn, Under
  <2>4. PICK p \in Composed : e \in PartsOf(p) /\ Begun(p) /\ ~Closed(p) /\ Uses(p, e)
    BY <1>2, <2>2, <2>3, UserIs, AllOk
  <2>5. p \in L
    BY <1>1, <2>3, <2>4 DEF LateIn, Uses
  <2> QED
    BY <2>2, <2>4, <2>5
<1> SUFFICES ASSUME Release(d) \in ToSet(finalizers[c])
             PROVE  FALSE
  OBVIOUS
<1>4. c \in L
  BY <1>1 DEF LateIn
<1>5. finalizers[c] # <<>>
  <2>1. ToSet(<<>>) = {}
    BY DEF ToSet
  <2> QED
    BY <2>1
<1>6. Begun(c) /\ ~Closed(c)
  BY <1>5, NamesAre DEF Fit, ScopesFit, Closed
<1> QED
  BY <1>3, <1>4, <1>6

(* The order in which all is taken down. *)
LEMMA FitOrders == Fit => DependentsFirst
<1> SUFFICES ASSUME Fit, OneWay, \A i \in {1, 2} : pc[Call(Top, i)] = "ok", NEW l \in Leaves
             PROVE  /\ \A d \in Provided(l) : released[d] = 1 => Freed(l)
                    /\ Shared \notin Parallel /\ released[Extra] = 1 =>
                          Freed(l) \/ pc[Main] \in {"closing", "left"}
  BY DEF DependentsFirst
<1> USE DEF Fit
<1>0. \A k \in Calls : ~Open(k)
  BY AllOk DEF Open, Ends
<1>1. ASSUME NEW d \in Provided(l), released[d] = 1
      PROVE  Freed(l)
  <2>1. PICK c \in Composed \ Parallel :
            kind[c] = "provideTo" /\ Parts[c] = <<d, l>> /\ SoleUse(l, c)
    BY DEF Provided
  <2>2. d = Parts[c][1] /\ l = Parts[c][2] /\ d \in Leaves
    BY <2>1 DEF Provided
  <2>3. d \in PartsOf(c) /\ l \in PartsOf(c)
    BY <2>2 DEF PartsOf
  <2>4. state[d] = "Exited"
    BY <1>1, <2>2 DEF LeavesFit
  <2>5. Release(d) \notin ToSet(finalizers[c])
    BY <2>1, <2>3, <2>4, NoneLate
  <2>6. ~Uses(c, l)
    <3>1. Composed \subseteq Scopes
      BY NamesAre
    <3>2. /\ finalizers[c] \in Seq(Entries) /\ DOMAIN finalizers[c] = 1 .. Len(finalizers[c])
          /\ \A x : x \in ToSet(finalizers[c]) <=> \E i \in 1 .. Len(finalizers[c]) : finalizers[c][i] = x
      BY <2>1, <3>1, TypesAre, Members
    <3> QED
      BY <2>1, <2>2, <2>5, <3>2 DEF OrderFits, Uses
  <2>7. Begun(l) => Closed(l)
    <3> SUFFICES ASSUME Begun(l), ~Closed(l)
                 PROVE  FALSE
      OBVIOUS
    <3>1. PICK p \in Composed : l \in PartsOf(p) /\ Uses(p, l)
      BY <1>0, AllOk, UserIs, NamesAre
    <3>2. p = c
      BY <2>1, <3>1 DEF SoleUse
    <3> QED
      BY <2>6, <3>1, <3>2
  <2> QED
    BY <2>7, ClosedIsFreed
<1>2. ASSUME Shared \notin Parallel, released[Extra] = 1, pc[Main] \notin {"closing", "left"}
      PROVE  Freed(l)
  <2>1. pc[Main] # "idle"
    <3>1. Call(Top, 1) \in Calls /\ ScopeOf(Call(Top, 1)) = Top
      BY CallsAre, TopAssumption
    <3>2. Begun(Top)
      BY <3>1 DEF CallsFit
    <3> QED
      BY <3>2 DEF ScopesFit
  <2>2. state[Shared] \in {"Running", "Exited"}
    BY TypesAre, NamesAre DEF ScopesFit, Begun
  <2>3. state[Shared] = "Exited" /\ finalizers[Shared] \in {<<>>, <<Close(Top)>>}
    BY <1>2, <2>2 DEF SharedFits
  <2>4. finalizers[Shared] # <<Close(Top), Free(Extra)>> /\ finalizers[Shared] # <<Free(Extra)>>
    <3>1. Close(Top) # Free(Extra)
      BY FinalizersDiffer
    <3>2. ASSUME NEW x, NEW y, x # y, NEW f, f = <<>> \/ f = <<x>>
          PROVE  f # <<x, y>> /\ f # <<y>>
      <4>1. CASE f = <<>>
        <5>1. Len(<<>>) = 0 /\ Len(<<x, y>>) = 2 /\ Len(<<y>>) = 1
          OBVIOUS
        <5> QED
          BY <4>1, <5>1
      <4>2. CASE f = <<x>>
        <5>1. Len(<<x>>) = 1 /\ Len(<<x, y>>) = 2 /\ <<x>>[1] = x /\ <<y>>[1] = y
          OBVIOUS
        <5> QED
          BY <3>2, <4>2, <5>1
      <4> QED
        BY <3>2, <4>1, <4>2
    <3>3. finalizers[Shared] = <<>> \/ finalizers[Shared] = <<Close(Top)>>
      BY <2>3
    <3> QED
      BY <3>1, <3>2, <3>3
  <2>5. Closed(Top)
    BY <1>2, <2>1, <2>3, <2>4 DEF ExtraIsLast
  <2>6. Begun(l) => Closed(l)
    BY <1>0, <2>5, AllOk, AllClosed, NamesAre
  <2> QED
    BY <2>6, ClosedIsFreed
<1> QED
  BY <1>1, <1>2

(* Types of the memo map, the calls and the scopes (layer.ts, core.ts).    *)
THEOREM LayerTypes == Spec => []TypeOK
<1> QED
  BY FitHolds, FitTypes, PTL

(* A layer that is used twice is allocated a single time by                *)
(* getOrElseMemoize, and no resource is released twice, whoever closes     *)
(* which scope first.                                                      *)
THEOREM LayersAllocateOnce == Spec => []AllocatedOnce
<1> QED
  BY FitHolds, FitAllocates, PTL

(* observers of an entry counts the releases that are still to come,       *)
(* unless a call was interrupted between being counted and adding its own. *)
THEOREM LayersObserve == Spec => []ObserversWillRelease
<1> QED
  BY FitHolds, FitObserves, PTL

(* While the application uses its layer and nobody closed its scope, no    *)
(* leaf was released, unless there is an orElse.                           *)
THEOREM LayersServe == Spec => []ServicesLive
<1> QED
  BY FitHolds, FitServes, PTL

(* A layer is taken down in order: what a leaf was provided with, by       *)
(* provideTo in a sequential scope, and what the shared scope had before   *)
(* the fork, is released after the leaf.                                   *)
THEOREM LayersAreOrdered == Spec => []DependentsFirst
<1> QED
  BY FitHolds, FitOrders, PTL

(* When the scope of the application is closed, nothing is left over, and  *)
(* scopeFork keeps both sides of the fork together.                        *)
THEOREM LayersLeaveNothing == Spec => []NothingLeftOver
<1> QED
  BY FitHolds, FitLeaves, PTL
===============================================================================
