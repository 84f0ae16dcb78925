----------------------------- MODULE Combinators -----------------------------
(* The parallel combinators, and together with them the races: the parent  *)
(* evaluates one of them and then ends, and with it the fibers in its      *)
(* scope.  First forEachPar, with unbounded parallelism and with n workers *)
(* that share an iterator, and zipWithPar: daemons count their successes   *)
(* towards a deferred that the first failure fails; then the parent        *)
(* interrupts all of them and waits for them.                              *)
EXTENDS Race

CONSTANT Items      \* how many elements the workers of forEachParN share

ASSUME ItemsAssumption == Items \in Nat

VARIABLES
    deferred,     \* the deferred the parent awaits
    ref,          \* the successes counted so far
    why,          \* the cause the parent handles
    daemons,      \* the fibers that a daemon is about to interrupt
    item,         \* item[k]: the element fiber k works on, 0 for none
    next,         \* the element the iterator is at
    results       \* the elements processed

parallelVars == <<deferred, ref, why, daemons, item, next, results>>

InitParallel ==
    /\ deferred = Pending /\ ref = 0 /\ why = Pending /\ daemons = {}
    /\ item = [k \in Fibers |-> 0]
    /\ next = 1 /\ results = {}

Shared == combinator = "forEachParN"

(* The parent forks the fibers one by one, uninterruptibly. *)
Fork(k) ==
    /\ pc = "start"
    /\ phase[k] = "unborn" /\ \A j \in Team : j < k => phase[j] # "unborn"
    /\ phase' = [phase EXCEPT ![k] = "body"]
    /\ item' = IF Shared THEN item ELSE [item EXCEPT ![k] = k]
    /\ pc' = IF k = Size[combinator] THEN "await" ELSE pc
    /\ UNCHANGED <<combinator, open, told, result, inherited, exit, asked,
                   deferred, ref, why, daemons, next, results>>

Working(k) == phase[k] = "body" /\ ~(asked[k] /\ BodyOpen)

(* A worker takes the next element of the iterator. *)
TakeItem(k) ==
    /\ Working(k) /\ Shared /\ item[k] = 0 /\ next <= Items
    /\ item' = [item EXCEPT ![k] = next]
    /\ next' = next + 1
    /\ UNCHANGED <<childrenVars, deferred, ref, why, daemons, results>>

FinishItem(k) ==
    /\ Working(k) /\ Shared /\ item[k] # 0
    /\ results' = results \cup {item[k]}
    /\ item' = [item EXCEPT ![k] = 0]
    /\ UNCHANGED <<childrenVars, deferred, ref, why, daemons, next>>

EndBody(k, e) ==
    /\ phase[k] = "body" /\ e \in Outcomes(k, asked[k])
    /\ exit' = [exit EXCEPT ![k] = e]
    /\ phase' = [phase EXCEPT ![k] = "caught"]
    /\ UNCHANGED <<combinator, open, parentVars, asked, deferred, ref, why, daemons, item, next>>

BodySucceeds(k) ==
    /\ Shared => item[k] = 0 /\ next > Items
    /\ EndBody(k, Success(k))
    /\ results' = IF Shared THEN results ELSE results \cup {item[k]}

BodyFails(k) ==
    /\ \E e \in Outcomes(k, asked[k]) :
          /\ Failed(e) /\ EndBody(k, e)
          /\ Shared /\ item[k] = 0 => e = InterruptedBy("team")
    /\ UNCHANGED results

(* The deferred is failed with no value; effects fail with their number. *)
Void == FailWith(0)

Done(e) == deferred' = IF deferred = Pending THEN e ELSE deferred

(* Mutant: the deferred is done one success too early. *)
CountEarly ==
    IF ref + 2 >= Size[combinator] THEN Done(Success(0)) /\ UNCHANGED ref
    ELSE ref' = ref + 1 /\ UNCHANGED deferred

(* The last success completes the deferred (for zipWithPar, whose ref is a *)
(* flag, the second one).                                                  *)
Count ==
    IF ref + 1 = Size[combinator] THEN Done(Success(0)) /\ UNCHANGED ref
    ELSE ref' = ref + 1 /\ UNCHANGED deferred

(* The fiber handles the exit of its body, and then ends with it. *)
HandleBody(k) ==
    /\ phase[k] = "caught"
    /\ IF Succeeded(exit[k]) THEN Count ELSE Done(Void) /\ UNCHANGED ref
    /\ phase' = [phase EXCEPT ![k] = "leaving"]
    /\ UNCHANGED <<combinator, open, parentVars, exit, asked, why, daemons, item, next, results>>

EndFiber(k) ==
    /\ phase[k] = "leaving"
    /\ phase' = [phase EXCEPT ![k] = "done"]
    /\ UNCHANGED <<combinator, open, parentVars, exit, asked, parallelVars>>

-----------------------------------------------------------------------------
(* forEachPar inherits without a look at the exits, zipWithPar joins.      *)
AllSucceeded ==
    /\ At("await") /\ Succeeded(deferred)
    /\ combinator = "zipWithPar" => AllDone
    /\ inherited' = [k \in Team |-> k]
    /\ Finish(Success(0))
    /\ UNCHANGED <<combinator, open, told, phase, exit, asked, parallelVars>>

(* The await fails or is interrupted: everybody is to be interrupted. *)
SomeFailed ==
    /\ pc = "await"
    /\ \/ Listening /\ why' = InterruptedBy("caller")
       \/ ~Listening /\ Failed(deferred) /\ why' = deferred
    /\ daemons' = Team
    /\ pc' = "collect"
    /\ UNCHANGED <<combinator, open, told, result, inherited, phase, exit, asked,
                   deferred, ref, item, next, results>>

(* A daemon interrupts one of them (interruptFiber in forEachParUnbounded, *)
(* fiberInterruptFork in zipWithPar).                                      *)
InterruptFiber(k) ==
    /\ k \in daemons
    /\ Ask({k})
    /\ daemons' = daemons \ {k}
    /\ UNCHANGED <<combinator, open, parentVars, phase, exit,
                   deferred, ref, why, item, next, results>>

(* A cause without its errors is a cause. *)
ASSUME StripAssumption == \A c \in {InterruptedBy("caller"), Void} : Failed(Strip(c))

(* exitCollectAllPar and exitZipWith: the failures in parallel, in order. *)
CollectAllPar ==
    LET causes == SelectSeq([k \in Team |-> exit[k]], Failed) IN
    IF causes = <<>> THEN Success(0)
    ELSE FoldLeft(Parallel, Head(causes), Tail(causes))

Collected ==
    LET exits == CollectAllPar IN
    IF Failed(exits) THEN Parallel(Strip(why), exits) ELSE Strip(why)

(* Mutant: the parent leaves without waiting for whom it interrupted. *)
CollectUnawaited ==
    /\ pc = "collect" /\ daemons = {}
    /\ Finish(Collected)
    /\ UNCHANGED <<combinator, open, told, inherited, phase, exit, asked, parallelVars>>

Collect ==
    /\ pc = "collect" /\ AllDone
    /\ combinator # "zipWithPar" => daemons = {}
    /\ Finish(Collected)
    /\ UNCHANGED <<combinator, open, told, inherited, phase, exit, asked, parallelVars>>

-----------------------------------------------------------------------------
(* What a fiber does by itself, what its effect does, and the parent. *)
ParallelFiber(k) ==
    Fork(k) \/ TakeItem(k) \/ HandleBody(k) \/ EndFiber(k) \/ InterruptFiber(k)
ParallelBody(k) == FinishItem(k) \/ BodySucceeds(k) \/ BodyFails(k)
ParallelParent == AllSucceeded \/ SomeFailed \/ Collect

-----------------------------------------------------------------------------
vars == <<childrenVars, parallelVars, raceVars>>

Init == InitChildren /\ InitParallel /\ InitRace

(* forEachPar, zipWithPar and disconnect fork daemons; racers and arbiters *)
(* are in the scope of the parent, which ends after them.                  *)
InScope == IF combinator \in Parallels THEN {} ELSE Team

WindDown ==
    /\ pc = "out"
    /\ pc' = "windDown"
    /\ Ask(InScope)
    /\ UNCHANGED <<combinator, open, told, result, inherited, phase, exit,
                   parallelVars, raceVars>>

EndParent ==
    /\ pc = "windDown"
    /\ \A k \in InScope : phase[k] = "done" /\ arbiter[k] \in {"unborn", "done"}
    /\ pc' = "ended"
    /\ UNCHANGED <<combinator, open, told, result, inherited, phase, exit, asked,
                   parallelVars, raceVars>>

Fiber(k) ==
    \/ combinator \in Parallels /\ ParallelFiber(k) /\ UNCHANGED raceVars
    \/ combinator \in Races /\ RaceFiber(k) /\ UNCHANGED parallelVars

(* The effect of fiber k, in the fiber or in its daemon. *)
Effect(k) ==
    \/ combinator \in Parallels /\ ParallelBody(k) /\ UNCHANGED raceVars
    \/ combinator \in Races /\ RaceBody(k) /\ UNCHANGED parallelVars

Parent ==
    \/ combinator \in Parallels /\ ParallelParent /\ UNCHANGED raceVars
    \/ combinator \in Races /\ RaceParent /\ UNCHANGED parallelVars
    \/ WindDown
    \/ EndParent

Next ==
    \/ Parent
    \/ \E k \in Team : Fiber(k) \/ Effect(k)
    \/ Interrupt /\ UNCHANGED <<parallelVars, raceVars>>

Spec == Init /\ [][Next]_vars

(* The run loop serves every fiber.  An effect may last for ever, unless   *)
(* it was interrupted or cannot be.                                        *)
MustEnd(k) == ~BodyOpen \/ (IF work[k] = Running THEN workAsked[k] ELSE asked[k])

Fairness ==
    /\ WF_vars(Parent)
    /\ \A k \in Fibers :
          /\ WF_vars(k \in Team /\ Fiber(k))
          /\ WF_vars(k \in Team /\ MustEnd(k) /\ Effect(k))

FairSpec == Spec /\ Fairness

-----------------------------------------------------------------------------
(* Properties.                                                             *)

TypeOK ==
    /\ combinator \in Combinators /\ open \in BOOLEAN /\ told \in BOOLEAN
    /\ pc \in {"start", "register", "await", "collect", "stopLoser", "joinOther", "cleanup",
               "awaitBoth", "out", "windDown", "ended"}
    /\ phase \in [Fibers -> {"unborn", "start", "body", "caught", "leaving", "done"}]
    /\ asked \in [Fibers -> BOOLEAN] /\ workAsked \in [Fibers -> BOOLEAN]
    /\ ref \in 0 .. MaxSize /\ next \in 1 .. Items + 1 /\ results \subseteq 1 .. MaxSize + Items
    /\ winner \in Fibers \cup {0}
    /\ arbiter \in [Fibers -> {"unborn", "waiting", "asking", "done"}]

(* Structured concurrency: a combinator that returns leaves no effect of   *)
(* its own behind, whether it succeeds, fails or is interrupted.  The      *)
(* exceptions are the races: raceAll returns before it has stopped the     *)
(* losers, and disconnected racers leave their daemons, already            *)
(* interrupted.                                                            *)
EffectsEndFirst ==
    pc = "out" =>
        CASE combinator \in Parallels -> \A k \in Team : phase[k] \in {"leaving", "done"}
          [] combinator = "raceAll" -> Failed(result) => AllDone \/ Succeeded(done)
          [] OTHER ->
                /\ result # InterruptedBy("caller") => AllDone
                /\ \A k \in Team : asked[k] => phase[k] = "done"
                /\ \A k \in Team : work[k] = Running /\ phase[k] = "done" => workAsked[k]

Reported == UNION {{ErrorsIn(exit[k])[i] : i \in DOMAIN ErrorsIn(exit[k])} :
                      k \in {j \in Team : Failed(exit[j])}}
Blamed == {ErrorsIn(result)[i] : i \in DOMAIN ErrorsIn(result)}

(* A success is the success of every effect, each element processed once,  *)
(* or of the one racer whose FiberRefs the parent took; without an         *)
(* interrupt a combinator fails only because an effect did, and a race     *)
(* only because every racer did.                                           *)
ResultIsJustified ==
    Out =>
        IF combinator \in Parallels
        THEN /\ Succeeded(result) =>
                   /\ \A k \in Team : Succeeded(exit[k])
                   /\ results = IF Shared THEN 1 .. Items ELSE Team
             /\ Failed(result) /\ ~Listening => \E k \in Team : Failed(exit[k])
        ELSE /\ Succeeded(result) =>
                   \E k \in Team : /\ inherited = <<k>> /\ Succeeded(exit[k])
                                   /\ result = Flattened(exit[k])
             /\ Failed(result) /\ ~Listening /\ combinator # "raceFirst" =>
                   \A k \in Team : Failed(exit[k])

(* The cause tells why: it holds every error of the effects and no other,  *)
(* and it is an interruption and nothing else only if the parent was       *)
(* interrupted.                                                            *)
CauseTellsWhy ==
    Out /\ Failed(result) =>
        /\ OnlyInterrupts(result) => Listening
        /\ combinator \in Parallels => Blamed = Reported
        /\ combinator \in Races => Blamed \subseteq Team
        /\ combinator \in {"raceWith", "race"} /\ ~Listening => Blamed = Reported

(* What the combinator returns is what its effects came to. *)
OutcomeIsRight == ResultIsJustified /\ CauseTellsWhy

Decided == Failed(deferred) \/ Succeeded(done) \/ AllDone

(* The parent goes on once the outcome is known or it is interrupted,      *)
(* whatever the other effects do.                                          *)
ParentLeaves == Decided \/ Listening ~> pc = "ended"

(* No effect runs for ever after its combinator returned, not even in the  *)
(* daemon of a disconnected racer.                                         *)
EffectsEnd ==
    \A k \in Fibers : Out ~> phase[k] \in {"unborn", "leaving", "done"} /\ work[k] # Running

=============================================================================
