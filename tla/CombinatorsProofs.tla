-------------------------- MODULE CombinatorsProofs --------------------------
(***************************************************************************)
(* What the parallel combinators and the races promise, for any number of  *)
(* effects and whatever the walks over causes compute.                     *)
(***************************************************************************)
EXTENDS Combinators, FiniteSets, FiniteSetTheorems, SequenceTheorems, TLAPS

-----------------------------------------------------------------------------
(* The inductive invariant.                                                *)

Phases == {"unborn", "start", "body", "caught", "leaving", "done"}
Places == {"start", "register", "await", "collect", "stopLoser", "joinOther", "cleanup",
           "awaitBoth", "out", "windDown", "ended"}

Typed ==
    /\ combinator \in Combinators /\ open \in BOOLEAN /\ told \in BOOLEAN
    /\ pc \in Places
    /\ phase \in [Fibers -> Phases]
    /\ DOMAIN exit = Fibers /\ DOMAIN work = Fibers
    /\ asked \in [Fibers -> BOOLEAN] /\ workAsked \in [Fibers -> BOOLEAN]
    /\ ref \in 0 .. Size[combinator] - 1
    /\ next \in 1 .. Items + 1
    /\ item \in [Fibers -> 0 .. MaxSize + Items]
    /\ results \subseteq 0 .. MaxSize + Items
    /\ winner \in Fibers \cup {0}
    /\ arbiter \in [Fibers -> {"unborn", "waiting", "asking", "done"}]
    /\ DOMAIN todo = Agents /\ todo[0] \in Seq(Fibers)
    /\ fails \in Int

(* The parallel combinators. *)

Handled(k) == phase[k] \in {"leaving", "done"}
Ended(k) == phase[k] = "caught" \/ Handled(k)
Counted == {k \in Team : Handled(k) /\ Succeeded(exit[k])}

(* Every fiber of the team goes its way once, and has an exit when its     *)
(* body has ended.                                                         *)
ParallelPhases ==
    /\ pc \in {"start", "await", "collect", "out", "windDown", "ended"}
    /\ \A k \in Fibers : phase[k] # "start"
    /\ \A k \in Fibers : IF Ended(k) THEN exit[k].tag # "Pending" ELSE exit[k] = Pending

(* ref counts the successes but the last, which completes the deferred.    *)
CountIsRight ==
    /\ Counted # Team => ref = Cardinality(Counted)
    /\ deferred \in {Pending, Success(0), Void}
    /\ deferred = Success(0) => Counted = Team
    /\ deferred = Void => \E k \in Team : Failed(exit[k])

(* An effect that succeeded is processed; the workers share the elements.  *)
SharedItems ==
    /\ results \cup ({item[k] : k \in Team} \ {0}) = 1 .. next - 1
    /\ \A k \in Team : Succeeded(exit[k]) => item[k] = 0 /\ next = Items + 1

OwnItems ==
    /\ results = {k \in Team : Succeeded(exit[k])}
    /\ \A k \in Team : phase[k] = "body" => item[k] = k

ItemsAreProcessed == IF Shared THEN SharedItems ELSE OwnItems

CollectsForAReason ==
    pc = "collect" =>
        \/ why = InterruptedBy("caller") /\ Listening
        \/ why = Void /\ deferred = Void

ParallelReturns ==
    /\ pc = "out" => \A k \in Team : Handled(k)
    /\ Out /\ Succeeded(result) => Counted = Team
    /\ Out /\ Failed(result) => Listening \/ \E k \in Team : Failed(exit[k])

ParallelInv ==
    /\ ParallelPhases
    /\ CountIsRight
    /\ ItemsAreProcessed
    /\ CollectsForAReason
    /\ ParallelReturns

(* raceAll. *)

Lost == {k \in Team : arbiter[k] = "done" /\ Failed(exit[k])}

RacersOfAll ==
    /\ pc \in {"start", "await", "cleanup", "out", "windDown", "ended"}
    /\ \A k \in Fibers : phase[k] \in {"unborn", "body", "done"}
    /\ \A k \in Fibers : IF phase[k] = "done" THEN exit[k] = Success(k) \/ Failed(exit[k])
                         ELSE exit[k] = Pending
    /\ \A k \in Fibers : arbiter[k] \in {"asking", "done"} => phase[k] = "done"
    /\ \A k \in Fibers : arbiter[k] = "asking" => exit[k] = Success(k)

(* fails counts the failures down; the race fails with the last of them.   *)
FailsIsRight ==
    /\ fails = Size[combinator] - 1 - Cardinality(Lost)
    /\ \/ done = Pending
       \/ Failed(done) /\ Lost = Team
       \/ \E k \in Team : done = Success(k) /\ exit[k] = Success(k)

(* An interrupted parent forgets no racer that is not done.                *)
CleansUp ==
    pc = "cleanup" =>
        /\ Listening
        /\ \A k \in Team : phase[k] = "done" \/ \E i \in 1 .. Len(todo[0]) : todo[0][i] = k

AllReturns ==
    /\ pc = "out" /\ Failed(result) => AllDone \/ Succeeded(done)
    /\ Out /\ Succeeded(result) =>
          \E k \in Team : /\ inherited = <<k>> /\ exit[k] = Success(k)
                          /\ result = Success(k)
    /\ Out /\ Failed(result) => Listening \/ \A k \in Team : Failed(exit[k])

AllInv ==
    /\ RacersOfAll
    /\ FailsIsRight
    /\ CleansUp
    /\ AllReturns

(* raceWith, race and raceFirst. *)

RacersOfTwo ==
    /\ pc \in {"start", "register", "await", "stopLoser", "joinOther", "awaitBoth",
               "out", "windDown", "ended"}
    /\ \A k \in Fibers : arbiter[k] = "unborn"
    /\ winner # 0 => winner \in Team /\ phase[winner] = "done"
    /\ pc \in {"start", "register"} => \A k \in Fibers : ~asked[k]
    /\ pc = "start" => \A k \in Fibers : phase[k] = "unborn"
    /\ \A k \in Fibers : phase[k] = "start" => Disconnected
    /\ \A k \in Fibers : IF phase[k] = "done" THEN exit[k].tag # "Pending"
                         ELSE exit[k] = Pending

(* The daemon of a racer that is done is done, or interrupted.             *)
DaemonsOfTwo ==
    \A k \in Fibers :
        /\ work[k] = Pending \/ work[k].tag # "Pending"
        /\ phase[k] \in {"unborn", "start"} \/ ~Disconnected => work[k] = Pending
        /\ work[k] = Running /\ phase[k] = "done" => workAsked[k]

TwoDecides ==
    /\ pc = "stopLoser" => winner # 0 /\ Succeeded(exit[winner]) /\ inherited = <<winner>>
    /\ pc = "joinOther" => winner # 0 /\ Failed(exit[winner])
    /\ pc = "awaitBoth" => Listening

TwoReturns ==
    /\ pc = "out" /\ result # InterruptedBy("caller") => AllDone
    /\ pc = "out" => \A k \in Team : asked[k] => phase[k] = "done"
    /\ Out /\ Succeeded(result) =>
          \E k \in Team : /\ inherited = <<k>> /\ Succeeded(exit[k])
                          /\ result = Flattened(exit[k])
    /\ Out /\ Failed(result) =>
          Listening \/ combinator = "raceFirst" \/ \A k \in Team : Failed(exit[k])

TwoInv ==
    /\ RacersOfTwo
    /\ DaemonsOfTwo
    /\ TwoDecides
    /\ TwoReturns

Inv ==
    /\ Typed
    /\ combinator \in Parallels => ParallelInv
    /\ combinator \in Races => results = {} /\ IF All THEN AllInv ELSE TwoInv

-----------------------------------------------------------------------------
(* Facts about the team and the counts.                                    *)

(* The team is a part of the fibers, and no combinator is of both kinds.   *)
LEMMA Teams ==
    ASSUME Typed
    PROVE  /\ Size[combinator] \in Nat \ {0}
           /\ Team \subseteq Fibers
           /\ Team # {}
           /\ combinator \in Parallels \/ combinator \in Races
           /\ ~(combinator \in Parallels /\ combinator \in Races)
           /\ combinator \in Parallels => ~All
           /\ combinator \in Races /\ ~All => Team = {1, 2} /\ Size[combinator] = 2
<1>1. Size[combinator] \in 1 .. MaxSize /\ MaxSize \in Nat
  BY SizeAssumption DEF Typed, Fibers
<1>2. /\ combinator \in Parallels \/ combinator \in Races
      /\ ~(combinator \in Parallels /\ combinator \in Races)
      /\ combinator \in Parallels => ~All
  BY SizeAssumption DEF Typed, Parallels, Races, Disconnecting, All
<1>3. combinator \in Races /\ ~All => Size[combinator] = 2
  BY SizeAssumption DEF Typed, Races, Disconnecting, All
<1>4. Team # {}
  <2>1. 1 \in Team
    BY <1>1 DEF Team
  <2> QED
    BY <2>1
<1> QED
  BY <1>1, <1>2, <1>3, <1>4 DEF Team, Fibers

(* One more fiber of the team: it is the last one when all but one were    *)
(* counted.                                                                *)
LEMMA CountTeam ==
    ASSUME Typed, NEW A \in SUBSET Team, NEW k \in Team \ A
    PROVE  /\ Cardinality(A) \in Nat /\ Size[combinator] \in Nat
           /\ Cardinality(A \cup {k}) = Cardinality(A) + 1
           /\ Cardinality(A) + 1 = Size[combinator] <=> A \cup {k} = Team
<1>0. Size[combinator] \in Nat
  BY Teams
<1>1. IsFiniteSet(Team) /\ Cardinality(Team) = Size[combinator]
  <2> DEFINE n == Size[combinator]
  <2>1. n \in Nat /\ n \in Int /\ 1 \in Int /\ Team = 1 .. n
    BY <1>0 DEF Team
  <2> HIDE DEF n
  <2>2. IsFiniteSet(1 .. n) /\ Cardinality(1 .. n) = IF 1 > n THEN 0 ELSE n - 1 + 1
    BY <2>1, FS_Interval
  <2>3. Cardinality(1 .. n) = n
    BY ONLY <2>1, <2>2
  <2> QED
    BY <2>1, <2>2, <2>3 DEF n
<1>2. IsFiniteSet(A) /\ Cardinality(A) \in Nat
  BY <1>1, FS_Subset, FS_CardinalityType
<1>3. Cardinality(A \cup {k}) = Cardinality(A) + 1
  BY <1>2, FS_AddElement
<1>4. A \cup {k} \in SUBSET Team
  OBVIOUS
<1>5. Cardinality(A \cup {k}) = Cardinality(Team) => A \cup {k} = Team
  BY <1>1, <1>4, FS_Subset
<1> QED
  BY <1>0, <1>1, <1>2, <1>3, <1>5

(* Nothing is counted in the beginning. *)
LEMMA CountNone == Cardinality({}) = 0
BY FS_EmptySet

-----------------------------------------------------------------------------
(* Types.                                                                  *)

(* The fibers of a parallel combinator, their effects and their parent     *)
(* respect the types of the variables.                                     *)
LEMMA ParallelTyped ==
    ASSUME Typed, combinator \in Parallels, UNCHANGED raceVars,
           \/ \E k \in Team : ParallelFiber(k) \/ ParallelBody(k)
           \/ ParallelParent
    PROVE  Typed'
<1> USE SizeAssumption, ItemsAssumption
<1>t. Team \subseteq Fibers /\ MaxSize \in Nat /\ Size[combinator] \in Fibers
  BY Teams DEF Typed, Fibers
<1>r. /\ winner' = winner /\ arbiter' = arbiter /\ todo' = todo /\ fails' = fails
      /\ work' = work /\ workAsked' = workAsked
  BY DEF raceVars
<1> USE DEF Typed, childrenVars, parentVars, parallelVars
<1>1. ASSUME NEW k \in Team, Fork(k) PROVE Typed'
  BY <1>1, <1>t, <1>r, SMTT(30) DEF Fork, Fibers, Phases, Places, Shared
<1>2. ASSUME NEW k \in Team, TakeItem(k) PROVE Typed'
  BY <1>2, <1>t, <1>r DEF TakeItem, Fibers, Phases, Places, Shared
<1>3. ASSUME NEW k \in Team, FinishItem(k) PROVE Typed'
  <2>1. results' \subseteq 0 .. MaxSize + Items /\ item' \in [Fibers -> 0 .. MaxSize + Items]
    <3>1. item[k] \in 1 .. MaxSize + Items
      BY <1>3, <1>t, ItemsAssumption DEF FinishItem
    <3>2. 0 \in 0 .. MaxSize + Items
      BY <1>t, ItemsAssumption
    <3> QED
      BY <1>3, <3>1, <3>2, <1>t DEF FinishItem
  <2> QED
    BY <1>3, <2>1, <1>t, <1>r DEF FinishItem
<1>4. ASSUME NEW k \in Team, BodySucceeds(k) PROVE Typed'
  <2>1. results' \subseteq 0 .. MaxSize + Items
    <3>1. results' \in {results, results \cup {item[k]}}
      BY <1>4, Zenon DEF BodySucceeds
    <3>2. item[k] \in 0 .. MaxSize + Items /\ results \subseteq 0 .. MaxSize + Items
      BY <1>t DEF Typed
    <3> QED
      BY <3>1, <3>2, Zenon
  <2>2. phase' \in [Fibers -> Phases] /\ DOMAIN exit' = Fibers
    BY <1>4, <1>t DEF BodySucceeds, EndBody, Phases
  <2> QED
    BY <1>4, <2>1, <2>2, <1>t, <1>r DEF BodySucceeds, EndBody
<1>5. ASSUME NEW k \in Team, BodyFails(k) PROVE Typed'
  BY <1>5, <1>t, <1>r DEF BodyFails, EndBody, Fibers, Phases, Places, Shared
<1>6. ASSUME NEW k \in Team, HandleBody(k) PROVE Typed'
  <2>1. ref' \in 0 .. Size[combinator] - 1
    <3>1. ref' = ref \/ (ref' = ref + 1 /\ ref + 1 # Size[combinator])
      BY <1>6 DEF HandleBody, Count
    <3>2. ref \in 0 .. Size[combinator] - 1 /\ Size[combinator] \in Nat /\ combinator' = combinator
      BY <1>6, <1>t, Teams DEF HandleBody
    <3> QED
      BY <3>1, <3>2
  <2>2. phase' \in [Fibers -> Phases]
    BY <1>6, <1>t DEF HandleBody, Phases
  <2> QED
    BY <1>6, <2>1, <2>2, <1>t, <1>r DEF HandleBody
<1>7. ASSUME NEW k \in Team, EndFiber(k) PROVE Typed'
  BY <1>7, <1>t, <1>r DEF EndFiber, Fibers, Phases, Places, Shared
<1>8. ASSUME NEW k \in Team, InterruptFiber(k) PROVE Typed'
  BY <1>8, <1>t, <1>r DEF InterruptFiber, Ask, Fibers, Phases, Places, Shared
<1>9. ASSUME AllSucceeded PROVE Typed'
  BY <1>9, <1>t, <1>r DEF AllSucceeded, Finish, Fibers, Phases, Places
<1>10. ASSUME SomeFailed PROVE Typed'
  BY <1>10, <1>t, <1>r DEF SomeFailed, Fibers, Phases, Places
<1>11. ASSUME Collect PROVE Typed'
  BY <1>11, <1>t, <1>r DEF Collect, Finish, Fibers, Phases, Places
<1> QED
  BY <1>1, <1>2, <1>3, <1>4, <1>5, <1>6, <1>7, <1>8, <1>9, <1>10, <1>11 DEF ParallelFiber, ParallelBody, ParallelParent

(* So do those of a race. *)
LEMMA RaceTyped ==
    ASSUME Typed, combinator \in Races, UNCHANGED parallelVars, All => pc # "register",
           \/ \E k \in Team : RaceFiber(k) \/ RaceBody(k)
           \/ RaceParent
    PROVE  Typed'
<1>t. /\ Team \subseteq Fibers /\ MaxSize \in Nat /\ Size[combinator] \in Fibers
      /\ \A k \in Team : k # 0
  BY Teams, SizeAssumption DEF Typed, Fibers, Team
<1>r. ref' = ref /\ next' = next /\ item' = item /\ results' = results
  BY DEF parallelVars
<1>i. 0 \in Agents /\ Fibers \subseteq Agents
  BY DEF Agents
<1> USE DEF Typed, childrenVars, parentVars, raceVars, allVars, workVars
<1>1. ASSUME NEW k \in Team, ForkRacer(k) PROVE Typed'
  BY <1>1, <1>t, <1>r, <1>i DEF ForkRacer, Phases, Places
<1>2. ASSUME NEW k \in Team, ForkArbiter(k) PROVE Typed'
  BY <1>2, <1>t, <1>r, <1>i DEF ForkArbiter, Phases, Places
<1>3. ASSUME NEW k \in Team, ArbiterFails(k) PROVE Typed'
  BY <1>3, <1>t, <1>r, <1>i DEF ArbiterFails, Phases, Places
<1>4. ASSUME NEW k \in Team, ArbiterWins(k) PROVE Typed'
  BY <1>4, <1>t, <1>r, <1>i DEF ArbiterWins, Phases, Places
<1>5. ASSUME NEW k \in Team, ArbiterEnds(k) PROVE Typed'
  BY <1>5, <1>t, <1>r, <1>i DEF ArbiterEnds, Phases, Places
<1>6. ASSUME NEW k \in Team, Disconnect(k) PROVE Typed'
  BY <1>6, <1>t, <1>r, <1>i DEF Disconnect, Phases, Places
<1>7. ASSUME NEW k \in Team, JoinWork(k) PROVE Typed'
  BY <1>7, <1>t, <1>r, <1>i DEF JoinWork, End, CompleteRace, Phases, Places
<1>8. ASSUME NEW k \in Team, LeaveWork(k) PROVE Typed'
  BY <1>8, <1>t, <1>r, <1>i DEF LeaveWork, End, CompleteRace, Phases, Places
<1>9. ASSUME NEW k \in Team, RacerEnds(k) PROVE Typed'
  BY <1>9, <1>t, <1>r, <1>i DEF RacerEnds, End, CompleteRace, Phases, Places
<1>10. ASSUME NEW k \in Team, WorkEnds(k) PROVE Typed'
  BY <1>10, <1>t, <1>r, <1>i DEF WorkEnds, Phases, Places
<1>11. ASSUME NEW i \in Agents, AskNext(i) PROVE Typed'
  BY <1>11, <1>t, <1>r, <1>i DEF AskNext, Ask, Phases, Places
<1>12. ASSUME NEW i \in Agents, NextStopped(i) PROVE Typed'
  BY <1>12, <1>t, <1>r, <1>i DEF NextStopped, Phases, Places
<1>13. ASSUME RaceAllDone PROVE Typed'
  BY <1>13, <1>t, <1>r, <1>i DEF RaceAllDone, Finish, Phases, Places
<1>14. ASSUME RaceAllInterrupted PROVE Typed'
  <2>1. Size[combinator] \in Nat
    BY Teams
  <2>2. [j \in Team |-> j] \in [1 .. Size[combinator] -> Fibers]
    BY <1>t DEF Team
  <2>3. [1 .. Size[combinator] -> Fibers] \in {[1 .. n -> Fibers] : n \in Nat}
    BY <2>1
  <2>4. [1 .. Size[combinator] -> Fibers] \subseteq Seq(Fibers)
    BY ONLY <2>3, SeqDef, Zenon
  <2>5. [j \in Team |-> j] \in Seq(Fibers)
    BY <2>2, <2>4
  <2> QED
    BY <1>14, <2>5, <1>t, <1>r, <1>i DEF RaceAllInterrupted, Places
<1>15. ASSUME CleanedUp PROVE Typed'
  BY <1>15, <1>t, <1>r, <1>i DEF CleanedUp, Finish, Phases, Places
<1>16. ASSUME StartRace PROVE Typed'
  BY <1>16, <1>t, <1>r, <1>i DEF StartRace, Phases, Places
<1>17. ASSUME Register PROVE Typed'
  <2>1. 1 \in Fibers /\ 2 \in Fibers
    BY <1>17, <1>t, Teams DEF Register, At
  <2> QED
    BY <1>17, <2>1, <1>t, <1>r, <1>i DEF Register, Places
<1>18. ASSUME WinnerSucceeded PROVE Typed'
  BY <1>18, <1>t, <1>r, <1>i DEF WinnerSucceeded, Ask, Phases, Places
<1>19. ASSUME LoserStopped PROVE Typed'
  BY <1>19, <1>t, <1>r, <1>i DEF LoserStopped, Finish, Phases, Places
<1>20. ASSUME WinnerFailed PROVE Typed'
  BY <1>20, <1>t, <1>r, <1>i DEF WinnerFailed, Phases, Places
<1>21. ASSUME OtherJoined PROVE Typed'
  BY <1>21, <1>t, <1>r, <1>i DEF OtherJoined, Finish, Phases, Places
<1>22. ASSUME InterruptedEarly PROVE Typed'
  BY <1>22, <1>t, <1>r, <1>i DEF InterruptedEarly, Finish, Phases, Places
<1>23. ASSUME RaceInterrupted PROVE Typed'
  BY <1>23, <1>t, <1>r, <1>i DEF RaceInterrupted, Ask, Phases, Places
<1>24. ASSUME BothEnded PROVE Typed'
  BY <1>24, <1>t, <1>r, <1>i DEF BothEnded, Finish, Phases, Places
<1> QED
  BY <1>1, <1>2, <1>3, <1>4, <1>5, <1>6, <1>7, <1>8, <1>9, <1>10, <1>11, <1>12, <1>13,
     <1>14, <1>15, <1>16, <1>17, <1>18, <1>19, <1>20, <1>21, <1>22, <1>23, <1>24, <1>t, <1>i
     DEF RaceFiber, RaceBody, RaceParent

-----------------------------------------------------------------------------
(* The parallel combinators.                                               *)

(* What is common to the steps of a parallel combinator.                   *)
Step == Typed /\ combinator \in Parallels /\ ParallelInv

(* The count is right as long as the fibers that handled their exit, the   *)
(* counter and the deferred stay.                                          *)
LEMMA CountKept ==
    ASSUME CountIsRight, combinator' = combinator, ref' = ref, deferred' = deferred,
           Counted' = Counted,
           (\E k \in Team : Failed(exit[k])) => \E k \in Team : Failed(exit'[k])
    PROVE  CountIsRight'
<1>1. Team' = Team
  BY DEF Team
<1> QED
  BY <1>1 DEF CountIsRight, Failed, Void, Pending

(* A fiber that is forked. *)
LEMMA ForkStep ==
    ASSUME Step, NEW k \in Team, Fork(k)
    PROVE  ParallelInv'
<1>t. Team \subseteq Fibers /\ Team' = Team /\ pc # "out" /\ ~Out /\ ~Out' /\ pc # "collect" /\ pc' # "collect"
  BY Teams DEF Step, Fork, Team, Out
<1>p. phase \in [Fibers -> Phases] /\ phase' = [phase EXCEPT ![k] = "body"] /\ phase[k] = "unborn"
  BY DEF Step, Typed, Fork
<1>1. ParallelPhases'
  BY <1>t, <1>p DEF Step, ParallelInv, ParallelPhases, Fork, Ended, Handled
<1>2. Counted' = Counted
  BY <1>t, <1>p DEF Counted, Handled, Fork
<1>3. CountIsRight'
  BY <1>2, CountKept DEF Step, ParallelInv, Fork
<1>4. ItemsAreProcessed'
  <2>1. CASE Shared
    BY <2>1, <1>t DEF Step, ParallelInv, ItemsAreProcessed, SharedItems, Shared, Fork
  <2>2. CASE ~Shared
    BY <2>2, <1>t, <1>p DEF Step, Typed, ParallelInv, ItemsAreProcessed, OwnItems, Shared, Fork
  <2> QED
    BY <2>1, <2>2
<1>5. CollectsForAReason' /\ ParallelReturns'
  BY <1>t DEF CollectsForAReason, ParallelReturns, Out
<1> QED
  BY <1>1, <1>3, <1>4, <1>5 DEF ParallelInv

(* A worker that takes an element. *)
LEMMA TakeItemStep ==
    ASSUME Step, NEW k \in Team, TakeItem(k)
    PROVE  ParallelInv'
<1>t. Team \subseteq Fibers /\ Team' = Team /\ Shared /\ Shared'
  BY Teams DEF Step, TakeItem, Team, Shared, childrenVars
<1>1. ParallelPhases' /\ CollectsForAReason' /\ ParallelReturns'
  BY <1>t DEF Step, ParallelInv, ParallelPhases, TakeItem, Ended, Handled, childrenVars,
     CollectsForAReason, ParallelReturns, Out, Listening, Counted
<1>2. Counted' = Counted
  BY <1>t DEF Counted, Handled, TakeItem, childrenVars
<1>3. CountIsRight'
  BY <1>2, <1>t, CountKept DEF Step, ParallelInv, TakeItem, childrenVars
<1>4. SharedItems'
  <2>1. next \in Nat \ {0} /\ next' = next + 1 /\ results' = results /\ exit' = exit
    BY ItemsAssumption DEF Step, Typed, TakeItem, childrenVars
  <2>2. item' = [item EXCEPT ![k] = next] /\ k \in DOMAIN item /\ item[k] = 0 /\ next <= Items
    BY <1>t DEF Step, Typed, TakeItem
  <2>3. SharedItems
    BY <1>t DEF Step, ParallelInv, ItemsAreProcessed
  <2>4. {item'[j] : j \in Team} \ {0} = ({item[j] : j \in Team} \ {0}) \cup {next}
    <3>1. \A j \in Team : item'[j] = IF j = k THEN next ELSE item[j]
      BY <2>2, <1>t DEF Step, Typed
    <3> QED
      BY <3>1, <2>1, <2>2
  <2>5. 1 .. next' - 1 = (1 .. next - 1) \cup {next}
    BY <2>1
  <2>6. results' \cup ({item'[j] : j \in Team} \ {0}) = 1 .. next' - 1
    BY <2>1, <2>3, <2>4, <2>5 DEF SharedItems
  <2>7. \A j \in Team : ~Succeeded(exit[j])
    BY <2>2, <2>3, ItemsAssumption, <2>1 DEF SharedItems
  <2> QED
    BY <2>6, <2>7, <2>1, <1>t DEF SharedItems
<1> QED
  BY <1>1, <1>3, <1>4, <1>t DEF ParallelInv, ItemsAreProcessed

(* A worker that is done with its element. *)
LEMMA FinishItemStep ==
    ASSUME Step, NEW k \in Team, FinishItem(k)
    PROVE  ParallelInv'
<1>t. Team \subseteq Fibers /\ Team' = Team /\ Shared /\ Shared'
  BY Teams DEF Step, FinishItem, Team, Shared, childrenVars
<1>1. ParallelPhases' /\ CollectsForAReason' /\ ParallelReturns'
  BY <1>t DEF Step, ParallelInv, ParallelPhases, FinishItem, Ended, Handled, childrenVars,
     CollectsForAReason, ParallelReturns, Out, Listening, Counted
<1>2. Counted' = Counted
  BY <1>t DEF Counted, Handled, FinishItem, childrenVars
<1>3. CountIsRight'
  BY <1>2, <1>t, CountKept DEF Step, ParallelInv, FinishItem, childrenVars
<1>4. SharedItems'
  <2>1. next' = next /\ results' = results \cup {item[k]} /\ exit' = exit /\ item[k] # 0
    BY DEF FinishItem, childrenVars
  <2>2. \A j \in Team : item'[j] = IF j = k THEN 0 ELSE item[j]
    BY <1>t DEF Step, Typed, FinishItem
  <2>3. SharedItems
    BY <1>t DEF Step, ParallelInv, ItemsAreProcessed
  <2>4. results' \cup ({item'[j] : j \in Team} \ {0}) = results \cup ({item[j] : j \in Team} \ {0})
    BY <2>1, <2>2
  <2> QED
    BY <2>1, <2>2, <2>3, <2>4, <1>t DEF SharedItems
<1> QED
  BY <1>1, <1>3, <1>4, <1>t DEF ParallelInv, ItemsAreProcessed

(* A body that ends, with a success or a failure. *)
LEMMA EndBodyStep ==
    ASSUME Step, NEW k \in Team, NEW e, EndBody(k, e)
    PROVE  /\ ParallelPhases'
           /\ CountIsRight'
           /\ CollectsForAReason'
           /\ ParallelReturns'
<1>t. Team \subseteq Fibers /\ Team' = Team
  BY Teams DEF Step, EndBody, Team
<1>p. /\ phase \in [Fibers -> Phases] /\ phase' = [phase EXCEPT ![k] = "caught"]
      /\ phase[k] = "body" /\ DOMAIN exit = Fibers /\ exit' = [exit EXCEPT ![k] = e]
  BY DEF Step, Typed, EndBody
<1>e. e.tag # "Pending" /\ exit[k] = Pending
  <2>1. exit[k] = Pending
    BY <1>t, <1>p DEF Step, ParallelInv, ParallelPhases, Ended, Handled
  <2> QED
    BY <2>1 DEF EndBody, Outcomes, Success, FailWith, InterruptedBy, Sequential
<1>x. \A j \in Fibers : exit'[j] = IF j = k THEN e ELSE exit[j]
  BY <1>p, <1>t
<1>u. /\ combinator' = combinator /\ ref' = ref /\ deferred' = deferred /\ pc' = pc /\ why' = why
      /\ told' = told /\ open' = open /\ result' = result
  BY DEF EndBody, parentVars
<1>1. ParallelPhases'
  BY <1>t, <1>p, <1>e, <1>x, <1>u DEF Step, ParallelInv, ParallelPhases, Ended, Handled
<1>2. Counted' = Counted
  <2>1. \A j \in Team : Handled(j)' <=> Handled(j) /\ j # k
    BY <1>t, <1>p DEF Handled
  <2>2. ~Handled(k)
    BY <1>p DEF Handled
  <2> QED
    BY <2>1, <2>2, <1>t, <1>x DEF Counted
<1>f. \A j \in Team : Failed(exit[j]) => Failed(exit'[j])
  BY <1>x, <1>e, <1>t DEF Failed, Pending
<1>3. CountIsRight'
  BY <1>2, <1>f, <1>u, CountKept DEF Step, ParallelInv
<1>4. CollectsForAReason'
  BY <1>u DEF Step, ParallelInv, CollectsForAReason, Listening, Void
<1>5. ParallelReturns'
  <2>1. pc # "out"
    BY <1>p DEF Step, ParallelInv, ParallelReturns, Handled
  <2> QED
    BY <2>1, <1>u, <1>2, <1>f, <1>t DEF Step, ParallelInv, ParallelReturns, Out, Listening
<1> QED
  BY <1>1, <1>3, <1>4, <1>5

LEMMA BodySucceedsStep ==
    ASSUME Step, NEW k \in Team, BodySucceeds(k)
    PROVE  ParallelInv'
<1>t. Team \subseteq Fibers /\ Team' = Team /\ (Shared <=> Shared')
  BY Teams DEF Step, BodySucceeds, EndBody, Team, Shared
<1>x. /\ \A j \in Fibers : exit'[j] = IF j = k THEN Success(k) ELSE exit[j]
      /\ \A j \in Fibers : phase'[j] = IF j = k THEN "caught" ELSE phase[j]
      /\ item' = item /\ next' = next /\ phase[k] = "body"
  BY <1>t DEF Step, Typed, BodySucceeds, EndBody
<1>1. ItemsAreProcessed'
  <2>1. CASE Shared
    <3>1. item[k] = 0 /\ next > Items /\ results' = results
      BY <2>1 DEF BodySucceeds
    <3>2. next = Items + 1
      BY <3>1, ItemsAssumption DEF Step, Typed
    <3>3. SharedItems
      BY <2>1 DEF Step, ParallelInv, ItemsAreProcessed
    <3> QED
      BY <2>1, <3>1, <3>2, <3>3, <1>t, <1>x DEF ItemsAreProcessed, SharedItems
  <2>2. CASE ~Shared
    <3>1. OwnItems
      BY <2>2 DEF Step, ParallelInv, ItemsAreProcessed
    <3>2. results' = results \cup {k}
      BY <2>2, <3>1, <1>x DEF BodySucceeds, OwnItems
    <3>3. {j \in Team : Succeeded(exit'[j])} = {j \in Team : Succeeded(exit[j])} \cup {k}
      BY <1>x, <1>t DEF Succeeded, Success
    <3> QED
      BY <2>2, <3>1, <3>2, <3>3, <1>t, <1>x DEF ItemsAreProcessed, OwnItems
  <2> QED
    BY <2>1, <2>2
<1> QED
  BY <1>1, EndBodyStep DEF BodySucceeds, ParallelInv

LEMMA BodyFailsStep ==
    ASSUME Step, NEW k \in Team, BodyFails(k)
    PROVE  ParallelInv'
<1>1. PICK e \in Outcomes(k, asked[k]) : Failed(e) /\ EndBody(k, e)
  BY DEF BodyFails
<1>t. Team \subseteq Fibers /\ Team' = Team /\ (Shared <=> Shared') /\ results' = results
  BY <1>1, Teams DEF Step, BodyFails, EndBody, Team, Shared
<1>x. /\ \A j \in Fibers : exit'[j] = IF j = k THEN e ELSE exit[j]
      /\ \A j \in Fibers : phase'[j] = IF j = k THEN "caught" ELSE phase[j]
      /\ item' = item /\ next' = next /\ phase[k] = "body"
  BY <1>1, <1>t DEF Step, Typed, EndBody
<1>s. \A j \in Team : Succeeded(exit'[j]) <=> Succeeded(exit[j])
  <2>1. ~Succeeded(e)
    BY <1>1 DEF Failed, Succeeded
  <2>2. exit[k] = Pending
    BY <1>t, <1>x DEF Step, ParallelInv, ParallelPhases, Ended, Handled
  <2> QED
    BY <2>1, <2>2, <1>x, <1>t DEF Succeeded, Pending
<1>2. ItemsAreProcessed'
  <2>1. CASE Shared
    BY <2>1, <1>t, <1>x, <1>s DEF Step, ParallelInv, ItemsAreProcessed, SharedItems
  <2>2. CASE ~Shared
    BY <2>2, <1>t, <1>x, <1>s DEF Step, ParallelInv, ItemsAreProcessed, OwnItems
  <2> QED
    BY <2>1, <2>2
<1> QED
  BY <1>1, <1>2, EndBodyStep DEF ParallelInv

(* The counted fibers are the team if and only if nobody is left to count. *)
LEMMA CountNext ==
    ASSUME Typed, CountIsRight, NEW k \in Team, k \notin Counted
    PROVE  /\ ref = Cardinality(Counted) /\ Counted # Team
           /\ ref \in Nat /\ Size[combinator] \in Nat
           /\ Cardinality(Counted \cup {k}) = ref + 1
           /\ ref + 1 = Size[combinator] <=> Counted \cup {k} = Team
<1>1. Counted \in SUBSET Team /\ k \in Team \ Counted
  BY DEF Counted
<1>2. Counted # Team /\ ref = Cardinality(Counted)
  BY DEF CountIsRight
<1> QED
  BY <1>1, <1>2, CountTeam

(* A fiber that handles the exit of its body. *)
LEMMA HandleBodyStep ==
    ASSUME Step, NEW k \in Team, HandleBody(k)
    PROVE  ParallelInv'
<1>t. Team \subseteq Fibers /\ Team' = Team /\ (Shared <=> Shared')
  BY Teams DEF Step, HandleBody, Team, Shared
<1>p. /\ \A j \in Fibers : phase'[j] = IF j = k THEN "leaving" ELSE phase[j]
      /\ phase[k] = "caught"
  BY <1>t DEF Step, Typed, HandleBody
<1>u. /\ combinator' = combinator /\ exit' = exit /\ item' = item /\ next' = next
      /\ results' = results /\ pc' = pc /\ why' = why /\ told' = told /\ open' = open
      /\ result' = result
  BY DEF HandleBody, parentVars
<1>h. /\ \A j \in Team : Handled(j)' <=> Handled(j) \/ j = k
      /\ k \notin Counted
  BY <1>t, <1>p DEF Handled, Counted
<1>1. ParallelPhases'
  BY <1>t, <1>p, <1>u DEF Step, ParallelInv, ParallelPhases, Ended, Handled
<1>2. ItemsAreProcessed'
  BY <1>t, <1>p, <1>u DEF Step, ParallelInv, ItemsAreProcessed, SharedItems, OwnItems
<1>n. /\ ref = Cardinality(Counted) /\ Counted # Team
      /\ ref \in Nat /\ Size[combinator] \in Nat
      /\ Cardinality(Counted \cup {k}) = ref + 1
      /\ ref + 1 = Size[combinator] <=> Counted \cup {k} = Team
  BY <1>h, CountNext DEF Step, ParallelInv
<1>d. deferred \in {Pending, Void} /\ (deferred = Void => \E j \in Team : Failed(exit[j]))
  BY <1>n DEF Step, ParallelInv, CountIsRight
<1>v. Pending # Success(0) /\ Pending # Void /\ Success(0) # Void
  BY DEF Pending, Success, Void, FailWith
<1>3. CountIsRight'
  <2>1. CASE Succeeded(exit[k])
    <3>1. Counted' = Counted \cup {k}
      BY <2>1, <1>h, <1>t, <1>u DEF Counted
    <3>2. CASE ref + 1 = Size[combinator]
      <4>1. ref' = ref /\ deferred' = IF deferred = Pending THEN Success(0) ELSE deferred
        BY <2>1, <3>2 DEF HandleBody, Count, Done
      <4> QED
        BY <4>1, <3>1, <3>2, <1>n, <1>d, <1>v, <1>t, <1>u DEF CountIsRight
    <3>3. CASE ref + 1 # Size[combinator]
      <4>1. ref' = ref + 1 /\ deferred' = deferred
        BY <2>1, <3>3 DEF HandleBody, Count
      <4> QED
        BY <4>1, <3>1, <1>n, <1>d, <1>v, <1>t, <1>u DEF CountIsRight
    <3> QED
      BY <3>2, <3>3
  <2>2. CASE ~Succeeded(exit[k])
    <3>1. Counted' = Counted
      BY <2>2, <1>h, <1>t, <1>u DEF Counted
    <3>2. ref' = ref /\ deferred' \in {deferred, Void}
      BY <2>2 DEF HandleBody, Done
    <3>3. Failed(exit[k])
      BY <2>2, <1>t, <1>p DEF Step, ParallelInv, ParallelPhases, Ended, Failed, Succeeded
    <3> QED
      BY <3>1, <3>2, <3>3, <1>n, <1>d, <1>v, <1>t, <1>u DEF CountIsRight
  <2> QED
    BY <2>1, <2>2
<1>4. CollectsForAReason'
  <2>1. deferred = Void => deferred' = Void
    BY <1>v DEF HandleBody, Count, Done
  <2>2. Void' = Void
    BY DEF Void
  <2> QED
    BY <2>1, <2>2, <1>u DEF Step, ParallelInv, CollectsForAReason, Listening
<1>5. ParallelReturns'
  <2>1. ~(Out /\ Succeeded(result))
    BY <1>n DEF Step, ParallelInv, ParallelReturns
  <2>2. pc # "out"
    BY <1>p DEF Step, ParallelInv, ParallelReturns, Handled
  <2> QED
    BY <2>1, <2>2, <1>u, <1>t DEF Step, ParallelInv, ParallelReturns, Out, Listening
<1> QED
  BY <1>1, <1>2, <1>3, <1>4, <1>5 DEF ParallelInv

(* A fiber that ends. *)
LEMMA EndFiberStep ==
    ASSUME Step, NEW k \in Team, EndFiber(k)
    PROVE  ParallelInv'
<1>t. Team \subseteq Fibers /\ Team' = Team /\ (Shared <=> Shared')
  BY Teams DEF Step, EndFiber, Team, Shared
<1>p. /\ \A j \in Fibers : phase'[j] = IF j = k THEN "done" ELSE phase[j]
      /\ phase[k] = "leaving"
  BY <1>t DEF Step, Typed, EndFiber
<1>h. \A j \in Fibers : (Handled(j)' <=> Handled(j)) /\ (Ended(j)' <=> Ended(j))
  BY <1>t, <1>p DEF Handled, Ended
<1>1. Counted' = Counted
  BY <1>h, <1>t DEF Counted, EndFiber
<1>2. CountIsRight'
  BY <1>1, <1>t, CountKept DEF Step, ParallelInv, EndFiber, parallelVars
<1>3. ParallelPhases'
  BY <1>h, <1>p DEF Step, ParallelInv, ParallelPhases, EndFiber, parentVars
<1>4. ItemsAreProcessed'
  BY <1>t, <1>p DEF Step, ParallelInv, ItemsAreProcessed, SharedItems, OwnItems, EndFiber, parallelVars
<1>5. CollectsForAReason' /\ ParallelReturns'
  BY <1>t, <1>h, <1>1 DEF Step, ParallelInv, CollectsForAReason, ParallelReturns, EndFiber, parallelVars,
     parentVars, Out, Listening, Void
<1> QED
  BY <1>2, <1>3, <1>4, <1>5 DEF ParallelInv

(* A step that moves no fiber and counts nothing. *)
LEMMA FibersKept ==
    ASSUME Step, UNCHANGED <<combinator, open, phase, exit, deferred, ref, item, next, results>>,
           pc' \in {"start", "await", "collect", "out", "windDown", "ended"}
    PROVE  /\ ParallelPhases'
           /\ CountIsRight'
           /\ ItemsAreProcessed'
           /\ Counted' = Counted
<1>1. Counted' = Counted /\ Team' = Team /\ (Shared <=> Shared')
  BY DEF Counted, Team, Handled, Shared
<1>2. CountIsRight'
  BY <1>1, CountKept DEF Step, ParallelInv
<1> QED
  BY <1>1, <1>2 DEF Step, ParallelInv, ParallelPhases, ItemsAreProcessed, SharedItems, OwnItems,
     Ended, Handled

LEMMA InterruptFiberStep ==
    ASSUME Step, NEW k \in Team, InterruptFiber(k)
    PROVE  ParallelInv'
<1>1. ParallelPhases' /\ CountIsRight' /\ ItemsAreProcessed' /\ Counted' = Counted
  BY FibersKept DEF InterruptFiber, Step, ParallelInv, ParallelPhases, parentVars
<1>2. Team' = Team
  BY DEF InterruptFiber, Team
<1>3. CollectsForAReason' /\ ParallelReturns'
  BY <1>1, <1>2 DEF InterruptFiber, Step, ParallelInv, CollectsForAReason, ParallelReturns, parentVars, Out,
     Listening, Handled, Void
<1> QED
  BY <1>1, <1>3 DEF ParallelInv

(* The parent returns what it has to. *)
LEMMA AllSucceededStep ==
    ASSUME Step, AllSucceeded
    PROVE  ParallelInv'
<1>1. ParallelPhases' /\ CountIsRight' /\ ItemsAreProcessed' /\ Counted' = Counted
  BY FibersKept DEF AllSucceeded, Finish, parallelVars
<1>2. Team' = Team /\ \A k \in Team : Handled(k)' <=> Handled(k)
  BY DEF AllSucceeded, Team, Handled
<1>3. Counted = Team
  <2>1. deferred = Success(0)
    BY DEF AllSucceeded, Step, ParallelInv, CountIsRight, Succeeded, Pending, Void, FailWith
  <2> QED
    BY <2>1 DEF Step, ParallelInv, CountIsRight
<1>4. result' = Success(0) /\ pc' = "out"
  BY DEF AllSucceeded, Finish, At
<1> QED
  BY <1>1, <1>2, <1>3, <1>4 DEF ParallelInv, CollectsForAReason, ParallelReturns, Failed, Success, Counted

(* The parent is about to interrupt the fibers. *)
LEMMA SomeFailedStep ==
    ASSUME Step, SomeFailed
    PROVE  ParallelInv'
<1>1. ParallelPhases' /\ CountIsRight' /\ ItemsAreProcessed' /\ Counted' = Counted
  BY FibersKept DEF SomeFailed
<1>2. ParallelReturns'
  BY DEF SomeFailed, ParallelReturns, Out
<1>3. CollectsForAReason'
  BY DEF SomeFailed, Step, ParallelInv, CountIsRight, CollectsForAReason, Listening, Failed, Success, Pending,
     Void
<1> QED
  BY <1>1, <1>2, <1>3 DEF ParallelInv

(* The parent returns the cause. *)
LEMMA CollectStep ==
    ASSUME Step, Collect
    PROVE  ParallelInv'
<1>1. ParallelPhases' /\ CountIsRight' /\ ItemsAreProcessed' /\ Counted' = Counted
  BY FibersKept DEF Collect, Finish, parallelVars
<1>2. Team' = Team /\ \A k \in Team : Handled(k)'
  BY DEF Collect, Team, Handled, AllDone
<1>3. Failed(Strip(why))
  BY StripAssumption DEF Collect, Step, ParallelInv, CollectsForAReason
<1>4. Failed(Collected)
  BY <1>3 DEF Collected, Failed, Parallel
<1>5. result' = Collected /\ pc' = "out"
  BY <1>4 DEF Collect, Finish, Failed, Succeeded
<1>6. Listening' \/ \E k \in Team : Failed(exit[k])
  BY DEF Collect, Step, ParallelInv, CollectsForAReason, CountIsRight, Listening
<1>7. ParallelReturns'
  BY <1>2, <1>4, <1>5, <1>6 DEF ParallelReturns, Failed, Succeeded, Collect
<1> QED
  BY <1>1, <1>5, <1>7 DEF ParallelInv, CollectsForAReason

(* The parent ends, or is interrupted. *)
LEMMA ParallelParentEnds ==
    ASSUME Step, UNCHANGED parallelVars,
           \/ WindDown
           \/ EndParent
           \/ Interrupt
    PROVE  ParallelInv'
<1>1. ParallelPhases' /\ CountIsRight' /\ ItemsAreProcessed' /\ Counted' = Counted
  BY FibersKept DEF WindDown, EndParent, Interrupt, parallelVars, Step, ParallelInv, ParallelPhases
<1>2. /\ Team' = Team /\ exit' = exit /\ result' = result
      /\ \A k \in Team : Handled(k)' <=> Handled(k)
  BY DEF WindDown, EndParent, Interrupt, Team, Handled
<1>3. (Listening => Listening') /\ (Out' => Out) /\ (pc' \in {"collect", "out"} => pc' = pc)
  BY DEF WindDown, EndParent, Interrupt, Listening, Out
<1>4. why' = why /\ deferred' = deferred /\ Void' = Void
  BY DEF parallelVars, Void
<1> QED
  BY <1>1, <1>2, <1>3, <1>4 DEF Step, ParallelInv, CollectsForAReason, ParallelReturns

-----------------------------------------------------------------------------
(* raceAll.                                                                *)

AllStep == Typed /\ combinator \in Races /\ All /\ AllInv

(* The counter is right as long as the arbiters that saw a failure, the    *)
(* counter and the deferred stay.                                          *)
LEMMA FailsKept ==
    ASSUME FailsIsRight, combinator' = combinator, fails' = fails, done' = done, Lost' = Lost,
           \A k \in Team : exit[k] = Success(k) => exit'[k] = Success(k)
    PROVE  FailsIsRight'
<1>1. Team' = Team
  BY DEF Team
<1> QED
  BY <1>1 DEF FailsIsRight, Failed, Pending, Success

(* A step that moves neither the racers nor the arbiters. *)
LEMMA RacersKept ==
    ASSUME AllStep, UNCHANGED <<combinator, open, phase, exit, arbiter, done, fails>>,
           pc' \in {"start", "await", "cleanup", "out", "windDown", "ended"}
    PROVE  RacersOfAll' /\ FailsIsRight' /\ Team' = Team /\ (AllDone' <=> AllDone)
<1>1. Lost' = Lost /\ Team' = Team /\ (AllDone' <=> AllDone)
  BY DEF Lost, Team, AllDone
<1>2. FailsIsRight'
  BY <1>1, FailsKept DEF AllStep, AllInv
<1> QED
  BY <1>1, <1>2 DEF AllStep, AllInv, RacersOfAll

(* The racers and their arbiters are forked. *)
LEMMA AllForkStep ==
    ASSUME AllStep, NEW k \in Team, ForkRacer(k) \/ ForkArbiter(k)
    PROVE  AllInv'
<1>t. Team \subseteq Fibers /\ Team' = Team
  BY Teams DEF AllStep, ForkRacer, ForkArbiter, Team
<1>c. pc' \in {"start", "await"} /\ CleansUp' /\ AllReturns'
  BY DEF ForkRacer, ForkArbiter, CleansUp, AllReturns, Out, parentVars
<1>1. CASE ForkRacer(k)
  <2>1. \A j \in Fibers : phase'[j] = IF j = k THEN "body" ELSE phase[j]
    BY <1>1, <1>t DEF AllStep, Typed, ForkRacer
  <2>2. phase[k] = "unborn" /\ exit' = exit /\ arbiter' = arbiter /\ pc' = pc
    BY <1>1 DEF ForkRacer, raceVars, parentVars
  <2>3. RacersOfAll'
    BY <2>1, <2>2 DEF AllStep, AllInv, RacersOfAll
  <2>4. Lost' = Lost
    BY <2>2, <1>t DEF Lost
  <2>5. FailsIsRight'
    BY <1>1, <2>4, FailsKept DEF AllStep, AllInv, ForkRacer, raceVars
  <2> QED
    BY <2>3, <2>5, <1>c DEF AllInv
<1>2. CASE ForkArbiter(k)
  <2>1. \A j \in Fibers : arbiter'[j] = IF j = k THEN "waiting" ELSE arbiter[j]
    BY <1>2, <1>t DEF AllStep, Typed, ForkArbiter
  <2>2. arbiter[k] = "unborn" /\ exit' = exit /\ phase' = phase
    BY <1>2 DEF ForkArbiter
  <2>3. RacersOfAll'
    BY <2>1, <2>2, <1>c DEF AllStep, AllInv, RacersOfAll
  <2>4. Lost' = Lost
    BY <2>1, <2>2, <1>t DEF Lost
  <2>5. FailsIsRight'
    BY <1>2, <2>4, FailsKept DEF AllStep, AllInv, ForkArbiter
  <2> QED
    BY <2>3, <2>5, <1>c DEF AllInv
<1> QED
  BY <1>1, <1>2

(* What the parent knows stays while it does not move and racers end.      *)
LEMMA AllKept ==
    ASSUME CleansUp, AllReturns, UNCHANGED <<combinator, open, told, pc, result, inherited>>,
           UNCHANGED <<phase, exit>>,
           UNCHANGED todo \/ ((\E k \in Team : todo' = [todo EXCEPT ![k] = Rest(k)]) /\ Typed),
           Succeeded(done) => Succeeded(done')
    PROVE  CleansUp' /\ AllReturns'
<1>1. Team' = Team /\ (Listening' <=> Listening) /\ (Out' <=> Out) /\ (AllDone' <=> AllDone)
  BY DEF Team, Listening, Out, AllDone
<1>2. todo'[0] = todo[0]
  BY Teams DEF Typed, Agents, Team
<1> QED
  BY <1>1, <1>2 DEF CleansUp, AllReturns, Succeeded

(* An arbiter sees a failure; the last one fails the race. *)
LEMMA ArbiterFailsStep ==
    ASSUME AllStep, NEW k \in Team, ArbiterFails(k)
    PROVE  AllInv'
<1>t. Team \subseteq Fibers /\ Team' = Team
  BY Teams DEF AllStep, ArbiterFails, Team, childrenVars
<1>a. /\ \A j \in Fibers : arbiter'[j] = IF j = k THEN "done" ELSE arbiter[j]
      /\ arbiter[k] = "waiting" /\ phase[k] = "done" /\ Failed(exit[k])
  BY <1>t DEF AllStep, Typed, ArbiterFails
<1>u. UNCHANGED <<combinator, open, told, pc, result, inherited, phase, exit, todo>>
  BY DEF ArbiterFails, childrenVars
<1>1. RacersOfAll'
  BY <1>a, <1>u DEF AllStep, AllInv, RacersOfAll
<1>2. k \notin Lost /\ Lost' = Lost \cup {k}
  BY <1>a, <1>u, <1>t DEF Lost
<1>3. /\ Cardinality(Lost) \in Nat /\ Size[combinator] \in Nat
      /\ Cardinality(Lost') = Cardinality(Lost) + 1
      /\ Cardinality(Lost) + 1 = Size[combinator] <=> Lost' = Team
  <2>1. Lost \in SUBSET Team /\ k \in Team \ Lost
    BY <1>2 DEF Lost
  <2> QED
    BY <2>1, <1>2, CountTeam DEF AllStep
<1>4. fails' = Size[combinator]' - 1 - Cardinality(Lost')
  <2>1. fails = Size[combinator] - 1 - Cardinality(Lost) /\ fails' = fails - 1
    BY DEF ArbiterFails, AllStep, AllInv, FailsIsRight
  <2> QED
    BY <2>1, <1>3, <1>u
<1>5. done' = done \/ (done' = exit[k] /\ Lost' = Team)
  <2>1. fails = Size[combinator] - 1 - Cardinality(Lost)
    BY DEF AllStep, AllInv, FailsIsRight
  <2>2. fails = 0 => Lost' = Team
    BY <2>1, <1>3
  <2> QED
    BY <2>2 DEF ArbiterFails
<1>6. Lost # Team
  BY <1>2
<1>7. FailsIsRight'
  BY <1>4, <1>5, <1>6, <1>a, <1>t, <1>u DEF AllStep, AllInv, FailsIsRight
<1>8. Succeeded(done) => Succeeded(done')
  BY DEF ArbiterFails, Succeeded, Pending
<1>9. CleansUp' /\ AllReturns'
  BY <1>8, <1>u, AllKept DEF AllStep, AllInv
<1> QED
  BY <1>1, <1>7, <1>9 DEF AllInv

(* An arbiter sees a success; the first one decides the race. *)
LEMMA ArbiterWinsStep ==
    ASSUME AllStep, NEW k \in Team, ArbiterWins(k)
    PROVE  AllInv'
<1>t. Team \subseteq Fibers /\ Team' = Team
  BY Teams DEF AllStep, ArbiterWins, Team, childrenVars
<1>u. UNCHANGED <<combinator, open, told, pc, result, inherited, phase, exit, fails>>
  BY DEF ArbiterWins, childrenVars
<1>a. /\ \A j \in Fibers : arbiter'[j] = arbiter[j] \/ (j = k /\ arbiter'[j] \in {"asking", "done"})
      /\ arbiter[k] = "waiting" /\ phase[k] = "done" /\ Succeeded(exit[k])
  BY <1>t DEF AllStep, Typed, ArbiterWins
<1>e. exit[k] = Success(k) /\ ~Failed(exit[k])
  BY <1>a, <1>t DEF AllStep, AllInv, RacersOfAll, Failed, Succeeded
<1>1. RacersOfAll'
  BY <1>a, <1>e, <1>u DEF AllStep, AllInv, RacersOfAll
<1>2. Lost' = Lost
  <2>1. \A j \in Team : j # k => arbiter'[j] = arbiter[j]
    BY <1>a, <1>t
  <2>2. k \notin Lost /\ k \notin Lost'
    BY <1>e, <1>u DEF Lost
  <2> QED
    BY <2>1, <2>2, <1>t, <1>u DEF Lost
<1>3. done' = done \/ (done = Pending /\ done' = Success(k))
  BY <1>e DEF ArbiterWins
<1>4. FailsIsRight'
  BY <1>2, <1>3, <1>e, <1>t, <1>u DEF AllStep, AllInv, FailsIsRight
<1>5. UNCHANGED todo \/ ((\E j \in Team : todo' = [todo EXCEPT ![j] = Rest(j)]) /\ Typed)
  BY DEF ArbiterWins, AllStep
<1>6. Succeeded(done) => Succeeded(done')
  BY <1>3 DEF Succeeded, Success
<1>7. CleansUp' /\ AllReturns'
  BY <1>5, <1>6, <1>u, AllKept DEF AllStep, AllInv
<1> QED
  BY <1>1, <1>4, <1>7 DEF AllInv

(* An arbiter that stopped the losers ends. *)
LEMMA ArbiterEndsStep ==
    ASSUME AllStep, NEW k \in Team, ArbiterEnds(k)
    PROVE  AllInv'
<1>t. Team \subseteq Fibers /\ Team' = Team /\ k # 0
  BY Teams DEF AllStep, ArbiterEnds, Team, childrenVars
<1>u. UNCHANGED <<combinator, open, told, pc, result, inherited, phase, exit, fails, done, todo>>
  BY DEF ArbiterEnds, childrenVars
<1>a. /\ \A j \in Fibers : arbiter'[j] = IF j = k THEN "done" ELSE arbiter[j]
      /\ arbiter[k] = "asking"
  BY <1>t DEF AllStep, Typed, ArbiterEnds, Stopping
<1>e. ~Failed(exit[k]) /\ phase[k] = "done"
  <2>1. exit[k] = Success(k) /\ phase[k] = "done"
    BY <1>a, <1>t DEF AllStep, AllInv, RacersOfAll
  <2> QED
    BY <2>1 DEF Failed, Success
<1>1. RacersOfAll'
  BY <1>a, <1>e, <1>u DEF AllStep, AllInv, RacersOfAll
<1>2. Lost' = Lost
  BY <1>a, <1>e, <1>t, <1>u DEF Lost
<1>3. FailsIsRight'
  BY <1>2, <1>u, FailsKept DEF AllStep, AllInv
<1>4. CleansUp' /\ AllReturns'
  BY <1>u, AllKept DEF AllStep, AllInv
<1> QED
  BY <1>1, <1>3, <1>4 DEF AllInv

(* Somebody asks the next racer to end. *)
LEMMA AskNextStep ==
    ASSUME AllStep, NEW i \in Agents, AskNext(i)
    PROVE  AllInv'
<1>1. UNCHANGED <<combinator, open, told, pc, result, inherited, phase, exit, raceVars>>
  BY DEF AskNext, parentVars
<1>2. RacersOfAll' /\ FailsIsRight'
  BY <1>1, RacersKept DEF AllStep, AllInv, RacersOfAll, raceVars
<1>3. CleansUp' /\ AllReturns'
  BY <1>1, AllKept DEF AllStep, AllInv, raceVars
<1> QED
  BY <1>2, <1>3 DEF AllInv

(* The racer that was asked is done, and the next one is to be asked. *)
LEMMA NextStoppedStep ==
    ASSUME AllStep, NEW i \in Agents, NextStopped(i)
    PROVE  AllInv'
<1>u. UNCHANGED <<combinator, open, told, pc, result, inherited, phase, exit, winner, done, fails, arbiter>>
  BY DEF NextStopped, childrenVars
<1>t. Team' = Team /\ (Listening' <=> Listening)
  BY <1>u DEF Team, Listening
<1>1. RacersOfAll' /\ FailsIsRight'
  BY <1>u, RacersKept DEF AllStep, AllInv, RacersOfAll
<1>2. CleansUp'
  <2>1. CASE pc # "cleanup"
    BY <2>1, <1>u DEF CleansUp
  <2>2. CASE pc = "cleanup" /\ i # 0
    <3>1. todo'[0] = todo[0]
      BY <2>2 DEF NextStopped, AllStep, Typed, Agents
    <3> QED
      BY <3>1, <1>u, <1>t DEF AllStep, AllInv, CleansUp
  <2>3. CASE pc = "cleanup" /\ i = 0
    <3> DEFINE q == todo[0]
    <3>1. q \in Seq(Fibers) /\ q # <<>> /\ todo'[0] = Tail(q) /\ phase[Head(q)] = "done"
      BY <2>3 DEF NextStopped, AllStep, Typed, Agents
    <3>2. ASSUME NEW k \in Team, phase[k] # "done"
          PROVE  \E j \in 1 .. Len(Tail(q)) : Tail(q)[j] = k
      <4>1. PICK j \in 1 .. Len(q) : q[j] = k
        BY <3>2, <2>3 DEF AllStep, AllInv, CleansUp
      <4>2. j # 1
        BY <3>1, <3>2, <4>1
      <4>3. j - 1 \in 1 .. Len(Tail(q)) /\ Tail(q)[j - 1] = q[j]
        BY <3>1, <4>1, <4>2
      <4> QED
        BY <4>1, <4>3
    <3> QED
      BY <3>1, <3>2, <2>3, <1>u, <1>t DEF AllStep, AllInv, CleansUp
  <2> QED
    BY <2>1, <2>2, <2>3
<1>3. AllReturns'
  BY <1>u, <1>t DEF AllStep, AllInv, AllReturns, Out, AllDone
<1> QED
  BY <1>1, <1>2, <1>3 DEF AllInv

(* A racer ends. *)
LEMMA AllRacerEndsStep ==
    ASSUME AllStep, NEW k \in Team, RacerEnds(k)
    PROVE  AllInv'
<1>t. Team \subseteq Fibers /\ Team' = Team
  BY Teams DEF AllStep, RacerEnds, Team
<1>1. PICK e \in Outcomes(k, asked[k]) : End(k, e)
  BY DEF RacerEnds
<1>e. e = Success(k) \/ Failed(e)
  BY DEF Outcomes, Failed, Success, InterruptedBy, FailWith, Sequential
<1>x. /\ \A j \in Fibers : exit'[j] = IF j = k THEN e ELSE exit[j]
      /\ \A j \in Fibers : phase'[j] = IF j = k THEN "done" ELSE phase[j]
      /\ phase[k] = "body"
  BY <1>1, <1>t DEF AllStep, Typed, End, RacerEnds
<1>u. UNCHANGED <<combinator, open, told, pc, result, inherited, asked, done, fails, arbiter, todo>>
  BY DEF RacerEnds, parentVars, allVars
<1>a. arbiter[k] \notin {"asking", "done"} /\ exit[k] = Pending
  BY <1>x, <1>t DEF AllStep, AllInv, RacersOfAll
<1>2. RacersOfAll'
  BY <1>a, <1>e, <1>x, <1>u, <1>t DEF AllStep, AllInv, RacersOfAll
<1>3. Lost' = Lost
  BY <1>a, <1>x, <1>u, <1>t DEF Lost
<1>4. \A j \in Team : exit[j] = Success(j) => exit'[j] = Success(j)
  BY <1>a, <1>x, <1>t DEF Success, Pending
<1>f. \A j \in Team : Failed(exit[j]) => Failed(exit'[j])
  BY <1>a, <1>x, <1>t DEF Failed, Pending
<1>5. FailsIsRight'
  BY <1>3, <1>4, <1>u, FailsKept DEF AllStep, AllInv
<1>6. CleansUp'
  BY <1>x, <1>u, <1>t DEF AllStep, AllInv, CleansUp, Listening
<1>7. AllDone => AllDone'
  BY <1>x, <1>t DEF AllDone
<1>8. AllReturns'
  BY <1>4, <1>f, <1>7, <1>u, <1>t DEF AllStep, AllInv, AllReturns, Out, Listening
<1> QED
  BY <1>2, <1>5, <1>6, <1>8 DEF AllInv

(* The parent returns the winner, or the last failure. *)
LEMMA RaceAllDoneStep ==
    ASSUME AllStep, RaceAllDone
    PROVE  AllInv'
<1>u. UNCHANGED <<combinator, open, told, phase, exit, winner, done, fails, arbiter, todo>>
  BY DEF RaceAllDone, raceVars
<1>1. pc' = "out" /\ result' = done /\ done # Pending
  BY DEF RaceAllDone, Finish, At
<1>2. RacersOfAll' /\ FailsIsRight' /\ Team' = Team /\ (AllDone' <=> AllDone)
  BY <1>1, <1>u, RacersKept
<1>t. Team \subseteq Fibers
  BY Teams DEF AllStep
<1>3. CASE Failed(done) /\ Lost = Team
  <2>1. AllDone /\ \A k \in Team : Failed(exit[k])
    BY <1>3, <1>t DEF AllStep, AllInv, RacersOfAll, AllDone, Lost
  <2>2. AllReturns'
    BY <1>3, <2>1, <1>1, <1>2, <1>u DEF AllReturns, Failed, Succeeded
  <2> QED
    BY <2>2, <1>1, <1>2 DEF AllInv, CleansUp
<1>4. CASE \E k \in Team : done = Success(k) /\ exit[k] = Success(k)
  <2>1. PICK k \in Team : done = Success(k) /\ exit[k] = Success(k)
    BY <1>4
  <2>2. inherited' = <<k>>
    BY <2>1 DEF RaceAllDone, Succeeded, Success
  <2>3. Succeeded(done) /\ ~Failed(done)
    BY <2>1 DEF Succeeded, Failed, Success
  <2>4. AllReturns'
    BY <2>1, <2>2, <2>3, <1>1, <1>2, <1>u DEF AllReturns
  <2> QED
    BY <2>4, <1>1, <1>2 DEF AllInv, CleansUp
<1> QED
  BY <1>1, <1>3, <1>4 DEF AllStep, AllInv, FailsIsRight

(* The parent is interrupted and has every racer to stop. *)
LEMMA RaceAllInterruptedStep ==
    ASSUME AllStep, RaceAllInterrupted
    PROVE  AllInv'
<1>1. RacersOfAll' /\ FailsIsRight' /\ Team' = Team
  BY RacersKept DEF RaceAllInterrupted
<1>2. todo'[0] = [j \in Team |-> j]
  BY DEF RaceAllInterrupted, AllStep, Typed, Agents
<1>3. Size[combinator] \in Nat /\ Team = 1 .. Size[combinator]
  BY Teams DEF AllStep, Team
<1>4. Len(todo'[0]) = Size[combinator]
  BY <1>2, <1>3
<1>5. CleansUp'
  BY <1>1, <1>2, <1>3, <1>4 DEF CleansUp, RaceAllInterrupted, Listening
<1>6. AllReturns'
  BY DEF AllReturns, RaceAllInterrupted, Out
<1> QED
  BY <1>1, <1>5, <1>6 DEF AllInv

(* The parent has stopped every racer. *)
LEMMA CleanedUpStep ==
    ASSUME AllStep, CleanedUp
    PROVE  AllInv'
<1>u. UNCHANGED <<combinator, open, told, phase, exit, winner, done, fails, arbiter, todo>>
  BY DEF CleanedUp, raceVars
<1>1. pc' = "out" /\ result' = InterruptedBy("caller") /\ pc = "cleanup" /\ todo[0] = <<>>
  BY DEF CleanedUp, Finish, Stopping, Succeeded, InterruptedBy
<1>2. RacersOfAll' /\ FailsIsRight' /\ Team' = Team /\ (AllDone' <=> AllDone)
  BY <1>1, <1>u, RacersKept
<1>3. Listening /\ AllDone
  BY <1>1 DEF AllStep, AllInv, CleansUp, AllDone
<1>4. AllReturns'
  BY <1>1, <1>2, <1>3, <1>u DEF AllReturns, Listening, Succeeded, InterruptedBy
<1> QED
  BY <1>1, <1>2, <1>4 DEF AllInv, CleansUp

(* The parent ends, or is interrupted. *)
LEMMA AllParentEnds ==
    ASSUME AllStep, UNCHANGED raceVars,
           \/ WindDown
           \/ EndParent
           \/ Interrupt
    PROVE  AllInv'
<1>u. UNCHANGED <<combinator, open, phase, exit, result, inherited, done, fails, arbiter, todo>>
  BY DEF WindDown, EndParent, Interrupt, raceVars
<1>1. pc' \in {pc, "windDown", "ended"}
  BY DEF WindDown, EndParent, Interrupt
<1>2. RacersOfAll' /\ FailsIsRight' /\ Team' = Team /\ (AllDone' <=> AllDone)
  BY <1>1, <1>u, RacersKept DEF AllStep, AllInv, RacersOfAll
<1>3. (Listening => Listening') /\ (Out' => Out) /\ (pc' \in {"cleanup", "out"} => pc' = pc)
  BY DEF WindDown, EndParent, Interrupt, Listening, Out
<1>4. CleansUp' /\ AllReturns'
  BY <1>2, <1>3, <1>u DEF AllStep, AllInv, CleansUp, AllReturns
<1> QED
  BY <1>2, <1>4 DEF AllInv

-----------------------------------------------------------------------------
(* raceWith, race and raceFirst.                                           *)

TwoStep == Typed /\ combinator \in Races /\ ~All /\ TwoInv

(* A racer that ends: what it does to the invariant, whatever becomes of   *)
(* its daemon.                                                             *)
LEMMA TwoEnds ==
    ASSUME TwoStep, NEW k \in Team, NEW e, e.tag # "Pending",
           phase[k] \in {"start", "body"}, End(k, e),
           UNCHANGED <<combinator, open, told, pc, result, inherited, asked, arbiter>>
    PROVE  RacersOfTwo' /\ TwoDecides' /\ TwoReturns'
<1>t. /\ Team \subseteq Fibers /\ Team' = Team /\ k # 0
      /\ (Listening' <=> Listening) /\ (Out' <=> Out) /\ (Disconnected' <=> Disconnected)
  BY Teams DEF TwoStep, Team, Listening, Out, Disconnected
<1>x. /\ \A j \in Fibers : exit'[j] = IF j = k THEN e ELSE exit[j]
      /\ \A j \in Fibers : phase'[j] = IF j = k THEN "done" ELSE phase[j]
      /\ exit[k] = Pending
  BY <1>t DEF TwoStep, Typed, TwoInv, RacersOfTwo, End
<1>w. winner' = IF pc = "register" \/ winner # 0 THEN winner ELSE k
  BY DEF TwoStep, End, CompleteRace
<1>1. RacersOfTwo'
  BY <1>t, <1>x, <1>w DEF TwoStep, TwoInv, RacersOfTwo
<1>s. \A j \in Team : /\ Succeeded(exit[j]) => exit'[j] = exit[j]
                      /\ Failed(exit[j]) => exit'[j] = exit[j]
  BY <1>t, <1>x DEF Succeeded, Failed, Pending
<1>2. TwoDecides'
  BY <1>t, <1>s, <1>w DEF TwoStep, TwoInv, RacersOfTwo, TwoDecides
<1>3. TwoReturns'
  <2>1. AllDone => AllDone'
    BY <1>t, <1>x DEF AllDone
  <2>2. \A j \in Team : phase[j] = "done" => phase'[j] = "done"
    BY <1>t, <1>x
  <2>3. \A j \in Team : exit'[j] = exit[j] => Flattened(exit[j])' = Flattened(exit[j])
    BY DEF Flattened
  <2> QED
    BY <2>1, <2>2, <2>3, <1>t, <1>s DEF TwoStep, TwoInv, TwoReturns
<1> QED
  BY <1>1, <1>2, <1>3

LEMMA TwoRacerEndsStep ==
    ASSUME TwoStep, NEW k \in Team, RacerEnds(k)
    PROVE  TwoInv'
<1>1. PICK e \in Outcomes(k, asked[k]) : End(k, e)
  BY DEF RacerEnds
<1>2. e.tag # "Pending"
  BY DEF Outcomes, Success, InterruptedBy, FailWith, Sequential
<1>3. RacersOfTwo' /\ TwoDecides' /\ TwoReturns'
  BY <1>1, <1>2, TwoEnds DEF RacerEnds, parentVars, allVars
<1>4. DaemonsOfTwo'
  BY DEF TwoStep, TwoInv, DaemonsOfTwo, RacerEnds, workVars, Disconnected, Running, Pending
<1> QED
  BY <1>3, <1>4 DEF TwoInv

LEMMA JoinWorkStep ==
    ASSUME TwoStep, NEW k \in Team, JoinWork(k)
    PROVE  TwoInv'
<1>t. Team \subseteq Fibers
  BY Teams DEF TwoStep
<1>1. work[k].tag # "Pending" /\ work[k] # Running
  BY <1>t DEF TwoStep, TwoInv, DaemonsOfTwo, JoinWork
<1>2. RacersOfTwo' /\ TwoDecides' /\ TwoReturns'
  BY <1>1, TwoEnds DEF JoinWork, parentVars, allVars
<1>3. DaemonsOfTwo'
  <2>1. \A j \in Fibers : phase'[j] = IF j = k THEN "done" ELSE phase[j]
    BY <1>t DEF TwoStep, Typed, JoinWork, End
  <2> QED
    BY <2>1, <1>1 DEF TwoStep, TwoInv, DaemonsOfTwo, JoinWork, workVars, Disconnected
<1> QED
  BY <1>2, <1>3 DEF TwoInv

LEMMA LeaveWorkStep ==
    ASSUME TwoStep, NEW k \in Team, LeaveWork(k)
    PROVE  TwoInv'
<1>t. Team \subseteq Fibers
  BY Teams DEF TwoStep
<1>1. InterruptedBy("team").tag # "Pending"
  BY DEF InterruptedBy
<1>2. RacersOfTwo' /\ TwoDecides' /\ TwoReturns'
  BY <1>1, TwoEnds DEF LeaveWork, parentVars, allVars
<1>3. DaemonsOfTwo'
  <2>1. /\ \A j \in Fibers : phase'[j] = IF j = k THEN "done" ELSE phase[j]
        /\ \A j \in Fibers : workAsked'[j] = IF j = k THEN phase[k] = "body" ELSE workAsked[j]
        /\ phase[k] \in {"start", "body"} /\ work' = work /\ combinator' = combinator
    BY <1>t DEF TwoStep, Typed, LeaveWork, End
  <2>2. work[k] = Running => phase[k] = "body"
    BY <2>1, <1>t DEF TwoStep, TwoInv, DaemonsOfTwo, Running, Pending
  <2> QED
    BY <2>1, <2>2 DEF TwoStep, TwoInv, DaemonsOfTwo, Disconnected
<1> QED
  BY <1>2, <1>3 DEF TwoInv

(* A step of a racer or its daemon that ends no racer. *)
LEMMA DisconnectStep ==
    ASSUME TwoStep, NEW k \in Team, Disconnect(k)
    PROVE  TwoInv'
<1>t. /\ Team \subseteq Fibers /\ Team' = Team
      /\ (Listening' <=> Listening) /\ (Out' <=> Out) /\ (Disconnected' <=> Disconnected)
  BY Teams DEF TwoStep, Disconnect, Team, Listening, Out, Disconnected, parentVars
<1>x. /\ \A j \in Fibers : phase'[j] = IF j = k THEN "body" ELSE phase[j]
      /\ \A j \in Fibers : work'[j] = IF j = k THEN Running ELSE work[j]
      /\ phase[k] = "start" /\ UNCHANGED <<exit, asked, winner, arbiter, workAsked, pc, result, inherited, combinator>>
  BY <1>t DEF TwoStep, Typed, Disconnect, parentVars, allVars
<1>1. RacersOfTwo'
  BY <1>t, <1>x DEF TwoStep, TwoInv, RacersOfTwo
<1>2. DaemonsOfTwo'
  <2>1. Disconnected
    BY <1>t, <1>x DEF TwoStep, TwoInv, RacersOfTwo
  <2> QED
    BY <2>1, <1>t, <1>x DEF TwoStep, TwoInv, DaemonsOfTwo, Running
<1>3. TwoDecides'
  BY <1>t, <1>x DEF TwoStep, TwoInv, TwoDecides
<1>4. TwoReturns'
  <2>1. \A j \in Team : phase'[j] = "done" <=> phase[j] = "done"
    BY <1>t, <1>x
  <2>2. (AllDone' <=> AllDone) /\ \A j \in Team : Flattened(exit[j])' = Flattened(exit[j])
    BY <2>1, <1>t, <1>x DEF AllDone, Flattened
  <2> QED
    BY <2>1, <2>2, <1>t, <1>x DEF TwoStep, TwoInv, TwoReturns
<1> QED
  BY <1>1, <1>2, <1>3, <1>4 DEF TwoInv

LEMMA WorkEndsStep ==
    ASSUME TwoStep, NEW k \in Team, WorkEnds(k)
    PROVE  TwoInv'
<1>t. /\ Team \subseteq Fibers /\ Team' = Team
      /\ (Listening' <=> Listening) /\ (Out' <=> Out) /\ (Disconnected' <=> Disconnected)
  BY Teams DEF TwoStep, WorkEnds, Team, Listening, Out, Disconnected, childrenVars
<1>u. UNCHANGED <<combinator, phase, exit, asked, winner, arbiter, workAsked, pc, result, inherited>>
  BY DEF WorkEnds, childrenVars, allVars
<1>1. RacersOfTwo' /\ TwoDecides'
  BY <1>t, <1>u DEF TwoStep, TwoInv, RacersOfTwo, TwoDecides
<1>2. DaemonsOfTwo'
  <2>1. PICK e \in Outcomes(k, workAsked[k]) :
           work' = [work EXCEPT ![k] = IF workAsked[k] /\ BodyOpen THEN e ELSE Captured(e)]
    BY DEF WorkEnds
  <2>2. /\ e.tag \notin {"Pending", "Running"}
        /\ Captured(e).tag \notin {"Pending", "Running"}
    BY DEF Outcomes, Captured, Success, InterruptedBy, FailWith, Sequential
  <2>3. \A j \in Fibers : work'[j] = work[j] \/ (j = k /\ work'[j].tag \notin {"Pending", "Running"})
    BY <2>1, <2>2 DEF TwoStep, Typed
  <2>4. work[k] = Running /\ Running # Pending
    BY DEF WorkEnds, Running, Pending
  <2> QED
    BY <2>3, <2>4, <1>t, <1>u DEF TwoStep, TwoInv, DaemonsOfTwo, Running, Pending
<1>3. TwoReturns'
  BY <1>t, <1>u DEF TwoStep, TwoInv, TwoReturns, AllDone, Flattened
<1> QED
  BY <1>1, <1>2, <1>3 DEF TwoInv

(* A step of the parent that moves no racer. *)
LEMMA TwoKept ==
    ASSUME TwoStep, UNCHANGED <<combinator, open, phase, exit, winner, arbiter, work, workAsked>>,
           pc' \in {"start", "register", "await", "stopLoser", "joinOther", "awaitBoth",
                    "out", "windDown", "ended"},
           pc' \in {"start", "register"} => pc' = pc /\ asked' = asked
    PROVE  /\ RacersOfTwo'
           /\ DaemonsOfTwo'
           /\ Team' = Team
           /\ AllDone' <=> AllDone
           /\ \A k \in Team : Flattened(exit[k])' = Flattened(exit[k])
<1>1. Team' = Team /\ (AllDone' <=> AllDone) /\ (Disconnected' <=> Disconnected)
      /\ \A k \in Team : Flattened(exit[k])' = Flattened(exit[k])
  BY DEF Team, AllDone, Disconnected, Flattened
<1> QED
  BY <1>1 DEF TwoStep, TwoInv, RacersOfTwo, DaemonsOfTwo

LEMMA StartRaceStep ==
    ASSUME TwoStep, StartRace
    PROVE  TwoInv'
<1>t. Team \subseteq Fibers /\ Team' = Team /\ (Disconnected' <=> Disconnected)
  BY Teams DEF TwoStep, StartRace, Team, Disconnected
<1>u. UNCHANGED <<combinator, exit, asked, winner, arbiter, work, workAsked>> /\ pc = "start" /\ pc' = "register"
  BY DEF StartRace, raceVars
<1>1. \A k \in Fibers : phase[k] = "unborn" /\ phase'[k] \in {"unborn", "start", "body"}
                         /\ (phase'[k] = "start" => Disconnected)
                         /\ (phase'[k] = "body" => ~Disconnected)
  BY DEF StartRace, TwoStep, TwoInv, RacersOfTwo
<1>2. winner = 0
  BY <1>1, <1>t, <1>u DEF TwoStep, TwoInv, RacersOfTwo
<1>3. RacersOfTwo'
  BY <1>1, <1>2, <1>t, <1>u DEF TwoStep, TwoInv, RacersOfTwo
<1>4. DaemonsOfTwo'
  BY <1>1, <1>t, <1>u DEF TwoStep, TwoInv, DaemonsOfTwo
<1>5. TwoDecides' /\ TwoReturns'
  BY <1>u DEF TwoDecides, TwoReturns, Out
<1> QED
  BY <1>3, <1>4, <1>5 DEF TwoInv

LEMMA RegisterStep ==
    ASSUME TwoStep, Register
    PROVE  TwoInv'
<1>t. Team \subseteq Fibers /\ Team' = Team /\ Team = {1, 2} /\ (Disconnected' <=> Disconnected)
  BY Teams DEF TwoStep, Register, Team, Disconnected
<1>u. UNCHANGED <<combinator, phase, exit, asked, arbiter, work, workAsked>> /\ pc' = "await"
  BY DEF Register, allVars, workVars
<1>w. winner' # 0 => winner' \in Team /\ phase[winner'] = "done"
  BY <1>t DEF Register
<1>1. RacersOfTwo'
  BY <1>t, <1>u, <1>w DEF TwoStep, TwoInv, RacersOfTwo
<1>2. DaemonsOfTwo'
  BY <1>t, <1>u DEF TwoStep, TwoInv, DaemonsOfTwo
<1>3. TwoDecides' /\ TwoReturns'
  BY <1>u DEF TwoDecides, TwoReturns, Out
<1> QED
  BY <1>1, <1>2, <1>3 DEF TwoInv

(* The first to end decides whether the other one is stopped or joined. *)
LEMMA WinnerDecidesStep ==
    ASSUME TwoStep, WinnerSucceeded \/ WinnerFailed
    PROVE  TwoInv'
<1>u. /\ UNCHANGED <<combinator, open, phase, exit, winner, arbiter, work, workAsked>>
      /\ pc' \in {"stopLoser", "joinOther"} /\ winner # 0
  BY DEF WinnerSucceeded, WinnerFailed, raceVars
<1>1. RacersOfTwo' /\ DaemonsOfTwo'
  BY <1>u, TwoKept
<1>2. TwoDecides'
  BY <1>u DEF WinnerSucceeded, WinnerFailed, TwoDecides
<1>3. TwoReturns'
  BY <1>u DEF TwoReturns, Out
<1> QED
  BY <1>1, <1>2, <1>3 DEF TwoInv

LEMMA LoserStoppedStep ==
    ASSUME TwoStep, LoserStopped
    PROVE  TwoInv'
<1>u. UNCHANGED <<combinator, open, told, inherited, phase, exit, asked, winner, arbiter, work, workAsked>>
  BY DEF LoserStopped, raceVars
<1>1. pc' = "out" /\ result' = Flattened(exit[winner]) /\ pc = "stopLoser"
  BY DEF LoserStopped, Finish, At
<1>2. /\ RacersOfTwo' /\ DaemonsOfTwo' /\ Team' = Team /\ (AllDone' <=> AllDone)
      /\ \A k \in Team : Flattened(exit[k])' = Flattened(exit[k])
  BY <1>1, <1>u, TwoKept
<1>3. /\ winner \in Team /\ phase[winner] = "done" /\ Team = {1, 2}
      /\ Succeeded(exit[winner]) /\ inherited = <<winner>>
  BY <1>1, Teams DEF TwoStep, TwoInv, RacersOfTwo, TwoDecides
<1>4. AllDone
  BY <1>3 DEF LoserStopped, Other, AllDone
<1>5. combinator # "raceFirst" => ~Failed(result')
  BY <1>1, <1>3 DEF Flattened, Failed, Succeeded
<1>6. TwoReturns'
  <2>1. \A k \in Team : phase'[k] = "done"
    BY <1>4, <1>u DEF AllDone
  <2>2. \A k \in Team : k = winner => result' = Flattened(exit[k])'
    BY <1>1, <1>2
  <2>3. inherited' = <<winner>> /\ Succeeded(exit'[winner])
    BY <1>3, <1>u
  <2>4. AllDone'
    BY <1>2, <1>4
  <2>5. Out' /\ Succeeded(result') =>
          \E k \in Team' : /\ inherited' = <<k>> /\ Succeeded(exit'[k])
                           /\ result' = Flattened(exit[k])'
    BY <1>2, <1>3, <2>2, <2>3
  <2> QED
    BY <2>1, <2>4, <2>5, <1>2, <1>5, <1>u DEF TwoReturns
<1> QED
  BY <1>1, <1>2, <1>6 DEF TwoInv, TwoDecides

LEMMA OtherJoinedStep ==
    ASSUME TwoStep, OtherJoined
    PROVE  TwoInv'
<1> DEFINE loser == Other(winner)
           other == exit[loser]
<1>u. UNCHANGED <<combinator, open, told, phase, exit, asked, winner, arbiter, work, workAsked>>
  BY DEF OtherJoined, raceVars
<1>1. /\ pc' = "out" /\ pc = "joinOther" /\ phase[loser] = "done"
      /\ inherited' = IF Succeeded(other) THEN <<loser>> ELSE <<>>
      /\ result' = IF Succeeded(other) THEN Flattened(other) ELSE Parallel(exit[1], exit[2])
  BY DEF OtherJoined, Finish, At
<1>2. /\ RacersOfTwo' /\ DaemonsOfTwo' /\ Team' = Team /\ (AllDone' <=> AllDone)
      /\ \A k \in Team : Flattened(exit[k])' = Flattened(exit[k])
  BY <1>1, <1>u, TwoKept
<1>3. /\ winner \in Team /\ phase[winner] = "done" /\ Team = {1, 2} /\ Failed(exit[winner])
  BY <1>1, Teams DEF TwoStep, TwoInv, RacersOfTwo, TwoDecides
<1>4. loser \in Team /\ Team = {winner, loser} /\ Team \subseteq Fibers
  BY <1>3, Teams DEF Other, TwoStep
<1>5. AllDone
  BY <1>1, <1>3, <1>4 DEF AllDone
<1>6. ~Succeeded(other) => \A k \in Team : Failed(exit[k])
  <2>1. other.tag # "Pending"
    BY <1>1, <1>4 DEF TwoStep, TwoInv, RacersOfTwo
  <2> QED
    BY <2>1, <1>3, <1>4 DEF Failed, Succeeded
<1>7. Succeeded(other) /\ combinator # "raceFirst" => ~Failed(result')
  BY <1>1 DEF Flattened, Failed, Succeeded
<1>8. ~Succeeded(Parallel(exit[1], exit[2]))
  BY DEF Parallel, Succeeded
<1>9. TwoReturns'
  <2>1. \A k \in Team : phase'[k] = "done"
    BY <1>5, <1>u DEF AllDone
  <2>2. Succeeded(other) => /\ inherited' = <<loser>> /\ Succeeded(exit'[loser])
                            /\ result' = Flattened(exit[loser])'
    BY <1>1, <1>2, <1>4, <1>u
  <2>3. AllDone'
    BY <1>2, <1>5
  <2>4. Out' /\ Succeeded(result') =>
          \E k \in Team' : /\ inherited' = <<k>> /\ Succeeded(exit'[k])
                           /\ result' = Flattened(exit[k])'
    BY <1>1, <1>2, <1>4, <1>8, <2>2
  <2>5. Out' /\ Failed(result') =>
          Listening' \/ combinator' = "raceFirst" \/ \A k \in Team' : Failed(exit'[k])
    BY <1>2, <1>6, <1>7, <1>u
  <2> QED
    BY <2>1, <2>3, <2>4, <2>5, <1>2 DEF TwoReturns
<1> QED
  BY <1>1, <1>2, <1>9 DEF TwoInv, TwoDecides

(* The parent is interrupted: it asks both and waits for them. *)
LEMMA RaceInterruptedStep ==
    ASSUME TwoStep, RaceInterrupted
    PROVE  TwoInv'
<1>1. RacersOfTwo' /\ DaemonsOfTwo'
  BY TwoKept DEF RaceInterrupted, raceVars
<1>2. TwoDecides' /\ TwoReturns'
  BY DEF RaceInterrupted, TwoDecides, TwoReturns, Out, Listening
<1> QED
  BY <1>1, <1>2 DEF TwoInv

(* It returns the interruption, before it asked or when both are done. *)
LEMMA TwoInterruptedStep ==
    ASSUME TwoStep, InterruptedEarly \/ BothEnded
    PROVE  TwoInv'
<1>u. UNCHANGED <<combinator, open, told, phase, exit, asked, winner, arbiter, work, workAsked>>
  BY DEF InterruptedEarly, BothEnded, raceVars
<1>1. pc' = "out" /\ result' = InterruptedBy("caller")
  BY DEF InterruptedEarly, BothEnded, Finish, Succeeded, InterruptedBy
<1>2. RacersOfTwo' /\ DaemonsOfTwo' /\ Team' = Team
  BY <1>1, <1>u, TwoKept
<1>3. Listening' /\ InterruptedBy("caller")' = InterruptedBy("caller") /\ ~Succeeded(result')
  BY <1>1 DEF TwoStep, TwoInv, TwoDecides, InterruptedEarly, BothEnded, Listening, InterruptedBy, Succeeded
<1>4. \A k \in Team : asked'[k] => phase'[k] = "done"
  BY Teams, <1>u DEF TwoStep, TwoInv, RacersOfTwo, InterruptedEarly, BothEnded, AllDone
<1>5. TwoReturns'
  BY <1>1, <1>2, <1>3, <1>4 DEF TwoReturns
<1> QED
  BY <1>1, <1>2, <1>5 DEF TwoInv, TwoDecides

(* The parent ends, or somebody interrupts it. *)
LEMMA TwoParentEnds ==
    ASSUME TwoStep, UNCHANGED raceVars,
           \/ WindDown
           \/ EndParent
           \/ Interrupt
    PROVE  TwoInv'
<1>u. UNCHANGED <<combinator, open, phase, exit, result, inherited, winner, arbiter, work, workAsked>>
  BY DEF WindDown, EndParent, Interrupt, raceVars
<1>1. /\ pc' \in {pc, "windDown", "ended"} /\ (pc' \notin {"windDown", "ended"} => asked' = asked)
      /\ (Listening => Listening') /\ (Out' => Out) /\ (pc' \notin {"windDown", "ended"} => pc' = pc)
  BY DEF WindDown, EndParent, Interrupt, Listening, Out
<1>2. /\ RacersOfTwo' /\ DaemonsOfTwo' /\ Team' = Team /\ (AllDone' <=> AllDone)
      /\ \A k \in Team : Flattened(exit[k])' = Flattened(exit[k])
  BY <1>1, <1>u, TwoKept DEF TwoStep, TwoInv, RacersOfTwo
<1>3. TwoDecides'
  BY <1>1, <1>u DEF TwoStep, TwoInv, TwoDecides
<1>4. TwoReturns'
  BY <1>1, <1>2, <1>u DEF TwoStep, TwoInv, TwoReturns
<1> QED
  BY <1>2, <1>3, <1>4 DEF TwoInv

-----------------------------------------------------------------------------
(* The invariant and what it says.                                         *)

(* A step of a parallel combinator. *)
LEMMA ParallelStep ==
    ASSUME Step,
           \/ \E k \in Team : ParallelFiber(k) \/ ParallelBody(k)
           \/ ParallelParent
    PROVE  ParallelInv'
BY ForkStep, TakeItemStep, FinishItemStep, BodySucceedsStep, BodyFailsStep, HandleBodyStep,
   EndFiberStep, InterruptFiberStep, AllSucceededStep, SomeFailedStep, CollectStep
   DEF ParallelFiber, ParallelBody, ParallelParent

(* The daemons are none of the business of raceAll. *)
LEMMA AllWorkEndsStep ==
    ASSUME AllStep, NEW k \in Team, WorkEnds(k)
    PROVE  AllInv'
<1>u. UNCHANGED <<combinator, open, told, pc, result, inherited, phase, exit, asked, winner,
                  done, fails, arbiter, todo>>
  BY DEF WorkEnds, childrenVars, allVars
<1>1. RacersOfAll' /\ FailsIsRight'
  BY <1>u, RacersKept DEF AllStep, AllInv, RacersOfAll
<1>2. CleansUp' /\ AllReturns'
  BY <1>u, AllKept DEF AllStep, AllInv
<1> QED
  BY <1>1, <1>2 DEF AllInv

(* A step of raceAll: the other actions of Race are those of other races.  *)
LEMMA RaceAllStep ==
    ASSUME AllStep,
           \/ \E k \in Team : RaceFiber(k) \/ RaceBody(k)
           \/ RaceParent
    PROVE  AllInv'
<1>1. ASSUME NEW k \in Team, RaceFiber(k) PROVE AllInv'
  <2>1. k \in Agents /\ k \in Fibers
    BY Teams DEF AllStep, Agents
  <2>2. ~Disconnect(k) /\ ~JoinWork(k) /\ ~LeaveWork(k)
    BY <2>1 DEF AllStep, AllInv, RacersOfAll, Disconnect, JoinWork, LeaveWork, Disconnected,
                Disconnecting, All
  <2> QED
    BY <1>1, <2>1, <2>2, AllForkStep, ArbiterFailsStep, ArbiterWinsStep, ArbiterEndsStep,
       AskNextStep, NextStoppedStep DEF RaceFiber
<1>2. ASSUME NEW k \in Team, RaceBody(k) PROVE AllInv'
  BY <1>2, AllRacerEndsStep, AllWorkEndsStep DEF RaceBody
<1>3. ASSUME RaceParent PROVE AllInv'
  <2>1. 0 \in Agents
    BY DEF Agents
  <2>2. /\ ~StartRace /\ ~Register /\ ~WinnerSucceeded /\ ~LoserStopped /\ ~WinnerFailed
        /\ ~OtherJoined /\ ~InterruptedEarly /\ ~RaceInterrupted /\ ~BothEnded
    BY DEF AllStep, AllInv, RacersOfAll, StartRace, Register, WinnerSucceeded, LoserStopped,
           WinnerFailed, OtherJoined, InterruptedEarly, RaceInterrupted, BothEnded, At
  <2> QED
    BY <1>3, <2>1, <2>2, RaceAllDoneStep, RaceAllInterruptedStep, CleanedUpStep, AskNextStep,
       NextStoppedStep DEF RaceParent
<1> QED
  BY <1>1, <1>2, <1>3

(* A step of raceWith, race or raceFirst, which have no arbiters. *)
LEMMA RaceTwoStep ==
    ASSUME TwoStep,
           \/ \E k \in Team : RaceFiber(k) \/ RaceBody(k)
           \/ RaceParent
    PROVE  TwoInv'
<1>1. ASSUME NEW k \in Team, RaceFiber(k) PROVE TwoInv'
  <2>1. k \in Fibers /\ k # 0
    BY Teams, SizeAssumption DEF TwoStep, Fibers
  <2>2. /\ ~ForkRacer(k) /\ ~ForkArbiter(k) /\ ~ArbiterFails(k) /\ ~ArbiterWins(k)
        /\ ~ArbiterEnds(k) /\ ~AskNext(k) /\ ~NextStopped(k)
    BY <2>1 DEF TwoStep, TwoInv, RacersOfTwo, ForkRacer, ForkArbiter, ArbiterFails, ArbiterWins,
                ArbiterEnds, AskNext, NextStopped, Stopping
  <2> QED
    BY <1>1, <2>2, DisconnectStep, JoinWorkStep, LeaveWorkStep DEF RaceFiber
<1>2. ASSUME NEW k \in Team, RaceBody(k) PROVE TwoInv'
  BY <1>2, TwoRacerEndsStep, WorkEndsStep DEF RaceBody
<1>3. ASSUME RaceParent PROVE TwoInv'
  <2>1. ~RaceAllDone /\ ~RaceAllInterrupted /\ ~AskNext(0) /\ ~NextStopped(0) /\ ~CleanedUp
    BY DEF TwoStep, TwoInv, RacersOfTwo, RaceAllDone, RaceAllInterrupted, AskNext, NextStopped,
           CleanedUp, Stopping
  <2> QED
    BY <1>3, <2>1, StartRaceStep, RegisterStep, WinnerDecidesStep, LoserStoppedStep,
       OtherJoinedStep, RaceInterruptedStep, TwoInterruptedStep DEF RaceParent
<1> QED
  BY <1>1, <1>2, <1>3

(* The parent that ends, and whoever interrupts it, keep the types. *)
LEMMA ParentEndsTyped ==
    ASSUME Typed, UNCHANGED <<parallelVars, raceVars>>,
           \/ WindDown
           \/ EndParent
           \/ Interrupt
    PROVE  Typed'
<1>1. /\ UNCHANGED <<combinator, open, phase, exit, ref, next, item, results, winner, arbiter>>
      /\ UNCHANGED <<todo, fails, work, workAsked>>
  BY DEF WindDown, EndParent, Interrupt, parallelVars, raceVars
<1>2. pc' \in Places /\ told' \in BOOLEAN /\ asked' \in [Fibers -> BOOLEAN]
  BY DEF Typed, WindDown, EndParent, Interrupt, Ask, Places
<1> QED
  BY <1>1, <1>2 DEF Typed

(* The invariant holds in the beginning. *)
LEMMA InitInv == Init => Inv
<1> SUFFICES ASSUME Init PROVE Inv
  OBVIOUS
<1> USE DEF Init, InitChildren, InitParallel, InitRace
<1>s. Size[combinator] \in 1 .. MaxSize /\ MaxSize \in Nat
  BY SizeAssumption DEF Fibers
<1>1. Typed
  <2>1. ref \in 0 .. Size[combinator] - 1 /\ fails \in Int
    BY <1>s
  <2>2. next \in 1 .. Items + 1 /\ 0 \in 0 .. MaxSize + Items
    BY <1>s, ItemsAssumption
  <2>3. todo[0] \in Seq(Fibers) /\ DOMAIN todo = Agents
    BY DEF Agents
  <2> QED
    BY <2>1, <2>2, <2>3 DEF Typed, Places, Phases
<1>t. Team \subseteq Fibers /\ Team # {}
  BY <1>1, Teams
<1>2. ASSUME combinator \in Parallels PROVE ParallelInv
  <2>1. Counted = {} /\ ParallelPhases
    BY <1>t DEF Counted, Handled, ParallelPhases, Ended
  <2>2. CountIsRight
    BY <2>1, <1>t, CountNone DEF CountIsRight, Pending, Success, Void, FailWith
  <2>3. ItemsAreProcessed
    <3>1. CASE Shared
      <4>1. results \cup ({item[k] : k \in Team} \ {0}) = {}
        BY <1>t
      <4>2. 1 .. next - 1 = {}
        OBVIOUS
      <4> QED
        BY <4>1, <4>2, <1>t, <3>1 DEF ItemsAreProcessed, SharedItems, Succeeded, Pending
    <3>2. CASE ~Shared
      BY <3>2, <1>t DEF ItemsAreProcessed, OwnItems, Succeeded, Pending
    <3> QED
      BY <3>1, <3>2
  <2> QED
    BY <2>1, <2>2, <2>3 DEF ParallelInv, CollectsForAReason, ParallelReturns, Out
<1>3. ASSUME combinator \in Races, All PROVE AllInv
  <2>1. Lost = {} /\ RacersOfAll
    BY <1>t DEF Lost, RacersOfAll
  <2>2. FailsIsRight
    BY <2>1, <1>s, CountNone DEF FailsIsRight
  <2> QED
    BY <2>1, <2>2 DEF AllInv, CleansUp, AllReturns, Out
<1>4. ASSUME combinator \in Races, ~All PROVE TwoInv
  BY DEF TwoInv, RacersOfTwo, DaemonsOfTwo, TwoDecides, TwoReturns, Out
<1> QED
  BY <1>1, <1>2, <1>3, <1>4 DEF Inv

(* Every step keeps it. *)
LEMMA NextInv == Inv /\ [Next]_vars => Inv'
<1> SUFFICES ASSUME Inv, [Next]_vars PROVE Inv'
  OBVIOUS
<1>t. /\ Typed
      /\ combinator \in Parallels => Step
      /\ combinator \in Races /\ All => AllStep
      /\ combinator \in Races /\ ~All => TwoStep
      /\ ~(combinator \in Parallels /\ combinator \in Races)
  BY Teams DEF Inv, Step, AllStep, TwoStep
<1>1. ASSUME combinator \in Parallels, UNCHANGED raceVars,
             \/ \E k \in Team : ParallelFiber(k) \/ ParallelBody(k)
             \/ ParallelParent
      PROVE  Inv'
  <2>1. Typed' /\ ParallelInv'
    BY <1>1, <1>t, ParallelTyped, ParallelStep
  <2>2. combinator' = combinator
    BY <1>1 DEF ParallelFiber, ParallelBody, ParallelParent, Fork, TakeItem, FinishItem,
                BodySucceeds, BodyFails, EndBody, HandleBody, EndFiber, InterruptFiber,
                AllSucceeded, SomeFailed, Collect, childrenVars
  <2> QED
    BY <1>1, <1>t, <2>1, <2>2 DEF Inv
<1>2. ASSUME combinator \in Races, UNCHANGED parallelVars,
             \/ \E k \in Team : RaceFiber(k) \/ RaceBody(k)
             \/ RaceParent
      PROVE  Inv'
  <2>1. All => pc # "register"
    BY <1>2, <1>t DEF AllStep, AllInv, RacersOfAll
  <2>2. Typed'
    BY <1>2, <1>t, <2>1, RaceTyped
  <2>3. combinator' = combinator
    BY <1>2 DEF RaceFiber, RaceBody, RaceParent, ForkRacer, ForkArbiter, ArbiterFails,
                ArbiterWins, ArbiterEnds, AskNext, NextStopped, Disconnect, JoinWork, LeaveWork,
                RacerEnds, WorkEnds, RaceAllDone, RaceAllInterrupted, CleanedUp, StartRace,
                Register, WinnerSucceeded, LoserStopped, WinnerFailed, OtherJoined,
                InterruptedEarly, RaceInterrupted, BothEnded, childrenVars
  <2>4. IF All THEN AllInv' ELSE TwoInv'
    BY <1>2, <1>t, RaceAllStep, RaceTwoStep
  <2>5. results = {} /\ results' = results
    BY <1>2 DEF Inv, parallelVars
  <2> QED
    BY <1>2, <1>t, <2>2, <2>3, <2>4, <2>5 DEF Inv, All
<1>3. ASSUME UNCHANGED <<parallelVars, raceVars>>, WindDown \/ EndParent \/ Interrupt
      PROVE  Inv'
  <2>1. combinator' = combinator /\ results' = results
    BY <1>3 DEF WindDown, EndParent, Interrupt, parallelVars
  <2>2. /\ Typed'
        /\ combinator \in Parallels => ParallelInv'
        /\ combinator \in Races => IF All THEN AllInv' ELSE TwoInv'
    BY <1>3, <1>t, ParentEndsTyped, ParallelParentEnds, AllParentEnds, TwoParentEnds
  <2> QED
    BY <2>1, <2>2 DEF Inv, All
<1>4. CASE UNCHANGED vars
  BY <1>4 DEF vars, childrenVars, parallelVars, raceVars, Inv, Typed, ParallelInv,
     ParallelPhases, CountIsRight, ItemsAreProcessed, SharedItems, OwnItems, CollectsForAReason,
     ParallelReturns, AllInv, RacersOfAll, FailsIsRight, CleansUp, AllReturns, TwoInv,
     RacersOfTwo, DaemonsOfTwo, TwoDecides, TwoReturns, Counted, Handled, Ended, Lost, Team, All,
     Shared, Listening, Out, AllDone, Disconnected, Flattened
<1> QED
  BY <1>1, <1>2, <1>3, <1>4 DEF Next, Parent, Fiber, Effect, WindDown, EndParent, Interrupt

(* The invariant holds in every state. *)
THEOREM CombinatorsInvariant == Spec => []Inv
BY InitInv, NextInv, PTL DEF Spec

-----------------------------------------------------------------------------
(* What the invariant says.                                                *)

(* The variables keep their types. *)
THEOREM CombinatorsTypes == Spec => []TypeOK
<1>1. ASSUME Inv PROVE TypeOK
  <2>t. Typed /\ Team \subseteq Fibers /\ Size[combinator] \in 1 .. MaxSize /\ MaxSize \in Nat
    BY <1>1, Teams, SizeAssumption DEF Inv, Typed, Fibers
  <2>1. results \subseteq 1 .. MaxSize + Items
    <3>1. CASE combinator \in Races
      BY <1>1, <3>1 DEF Inv
    <3>2. CASE combinator \in Parallels /\ Shared
      <4>1. results \subseteq 1 .. next - 1 /\ next \in 1 .. Items + 1
        BY <1>1, <3>2, <2>t DEF Inv, ParallelInv, ItemsAreProcessed, SharedItems, Typed
      <4> QED
        BY <4>1, <2>t, ItemsAssumption
    <3>3. CASE combinator \in Parallels /\ ~Shared
      <4>1. results \subseteq Fibers
        BY <1>1, <3>3, <2>t DEF Inv, ParallelInv, ItemsAreProcessed, OwnItems
      <4> QED
        BY <4>1, <2>t, ItemsAssumption DEF Fibers
    <3> QED
      BY <1>1, <3>1, <3>2, <3>3, <2>t, Teams
  <2>2. ref \in 0 .. MaxSize
    BY <2>t DEF Typed
  <2> QED
    BY <2>t, <2>1, <2>2 DEF Typed, TypeOK, Phases, Places
<1> QED
  BY <1>1, CombinatorsInvariant, PTL

(* A combinator that returns leaves no effect of its own behind, but for   *)
(* the losers of raceAll and the daemons of disconnected racers, which are *)
(* interrupted by then: for any number of effects and of elements.         *)
THEOREM CombinatorsEndEffects == Spec => []EffectsEndFirst
<1>1. ASSUME Inv PROVE EffectsEndFirst
  <2> SUFFICES ASSUME pc = "out" PROVE EffectsEndFirst
    BY DEF EffectsEndFirst
  <2>t. Team \subseteq Fibers /\ Typed
    BY <1>1, Teams DEF Inv
  <2>1. CASE combinator \in Parallels
    <3>1. \A k \in Team : phase[k] \in {"leaving", "done"}
      BY <1>1, <2>1 DEF Inv, ParallelInv, ParallelReturns, Handled
    <3>2. combinator # "raceAll"
      BY <2>1 DEF Parallels
    <3> QED
      BY <2>1, <3>1, <3>2 DEF EffectsEndFirst
  <2>2. CASE combinator \in Races /\ All
    <3>1. Failed(result) => AllDone \/ Succeeded(done)
      BY <1>1, <2>2 DEF Inv, AllInv, AllReturns
    <3>2. combinator \notin Parallels /\ combinator = "raceAll"
      BY <2>2 DEF All, Parallels
    <3> QED
      BY <3>1, <3>2 DEF EffectsEndFirst
  <2>3. CASE combinator \in Races /\ ~All
    <3>1. /\ result # InterruptedBy("caller") => AllDone
          /\ \A k \in Team : asked[k] => phase[k] = "done"
      BY <1>1, <2>3 DEF Inv, TwoInv, TwoReturns
    <3>2. \A k \in Team : work[k] = Running /\ phase[k] = "done" => workAsked[k]
      BY <1>1, <2>3, <2>t DEF Inv, TwoInv, DaemonsOfTwo
    <3>3. combinator \notin Parallels /\ combinator # "raceAll"
      BY <2>3, <2>t, Teams DEF All
    <3> QED
      BY <3>1, <3>2, <3>3 DEF EffectsEndFirst
  <2> QED
    BY <2>t, <2>1, <2>2, <2>3, Teams
<1> QED
  BY <1>1, CombinatorsInvariant, PTL

(* A success is the success of every effect, each element processed once,  *)
(* or of the one racer whose FiberRefs the parent took; a parent that is   *)
(* not interrupted fails only because an effect, or every racer, failed.   *)
THEOREM CombinatorsAreJustified == Spec => []ResultIsJustified
<1>1. ASSUME Inv PROVE ResultIsJustified
  <2> SUFFICES ASSUME Out PROVE ResultIsJustified
    BY DEF ResultIsJustified
  <2>t. Team \subseteq Fibers /\ Team # {} /\ Typed
    BY <1>1, Teams DEF Inv
  <2>1. CASE combinator \in Parallels
    <3> DEFINE Processed == results = IF Shared THEN 1 .. Items ELSE Team
    <3>1. ASSUME Succeeded(result) PROVE Processed /\ \A k \in Team : Succeeded(exit[k])
      <4>1. \A k \in Team : Succeeded(exit[k])
        BY <1>1, <2>1, <3>1 DEF Inv, ParallelInv, ParallelReturns, Counted
      <4>2. CASE Shared
        <5>1. PICK k \in Team : Succeeded(exit[k])
          BY <4>1, <2>t
        <5>2. next = Items + 1 /\ \A j \in Team : item[j] = 0
          BY <1>1, <2>1, <4>1, <4>2, <5>1 DEF Inv, ParallelInv, ItemsAreProcessed, SharedItems
        <5>3. results \cup ({item[j] : j \in Team} \ {0}) = 1 .. next - 1
          BY <1>1, <2>1, <4>2 DEF Inv, ParallelInv, ItemsAreProcessed, SharedItems
        <5>4. {item[j] : j \in Team} \ {0} = {}
          BY <5>2
        <5>5. next - 1 = Items
          BY <5>2, ItemsAssumption
        <5>6. results = 1 .. Items
          BY <5>3, <5>4, <5>5
        <5> QED
          BY <4>1, <4>2, <5>6
      <4>3. CASE ~Shared
        BY <1>1, <2>1, <4>1, <4>3 DEF Inv, ParallelInv, ItemsAreProcessed, OwnItems
      <4> QED
        BY <4>1, <4>2, <4>3
    <3>2. ASSUME Failed(result), ~Listening PROVE \E k \in Team : Failed(exit[k])
      BY <1>1, <2>1, <3>2 DEF Inv, ParallelInv, ParallelReturns
    <3> QED
      BY <2>1, <3>1, <3>2 DEF ResultIsJustified
  <2>2. CASE combinator \in Races /\ All
    <3>1. ASSUME Succeeded(result)
          PROVE  \E k \in Team : /\ inherited = <<k>> /\ Succeeded(exit[k])
                                 /\ result = Flattened(exit[k])
      BY <1>1, <2>2, <3>1 DEF Inv, AllInv, AllReturns, All, Flattened, Succeeded, Success
    <3>2. ASSUME Failed(result), ~Listening PROVE \A k \in Team : Failed(exit[k])
      BY <1>1, <2>2, <3>2 DEF Inv, AllInv, AllReturns
    <3>3. combinator \notin Parallels
      BY <2>2, <2>t, Teams
    <3> QED
      BY <3>1, <3>2, <3>3 DEF ResultIsJustified
  <2>3. CASE combinator \in Races /\ ~All
    <3>1. combinator \notin Parallels
      BY <2>3, <2>t, Teams
    <3> QED
      BY <1>1, <2>3, <3>1 DEF Inv, TwoInv, TwoReturns, ResultIsJustified
  <2> QED
    BY <2>t, <2>1, <2>2, <2>3, Teams
<1> QED
  BY <1>1, CombinatorsInvariant, PTL

=============================================================================
