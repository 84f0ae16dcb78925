-------------------------------- MODULE Race --------------------------------
(* raceAll, with an arbiter fiber for every racer; raceWith as raceAwait   *)
(* uses it, on the observers of two racers; and race and raceFirst, whose  *)
(* racers are disconnected: each one runs its effect in a daemon that it   *)
(* does not wait for when it is interrupted.                               *)
EXTENDS Children

VARIABLES
    winner,       \* raceWith: the racer whose observer came first, 0 for none
    done,         \* raceAll: the deferred, with the winner
    fails,        \* raceAll: the failures that may still come
    arbiter,      \* raceAll: where the arbiter of each racer is
    todo,         \* whom the arbiter, or the parent (0), is to interrupt, in order
    work,         \* work[k]: the exit of the daemon of a disconnected racer
    workAsked     \* workAsked[k]: whether that daemon has been interrupted

allVars == <<done, fails, arbiter, todo>>
workVars == <<work, workAsked>>
raceVars == <<winner, done, fails, arbiter, todo, work, workAsked>>

Running == [tag |-> "Running"]
Agents == {0} \cup Fibers

InitRace ==
    /\ winner = 0 /\ done = Pending
    /\ fails = Size[combinator] - 1
    /\ arbiter = [k \in Fibers |-> "unborn"]
    /\ todo = [i \in Agents |-> <<>>]
    /\ work = [k \in Fibers |-> Pending]
    /\ workAsked = [k \in Fibers |-> FALSE]

All == combinator = "raceAll"
Disconnected == combinator \in Disconnecting
Other(k) == 3 - k

(* raceFirst races exits: a failure wins as a value and is flattened. *)
Captured(e) == IF combinator = "raceFirst" THEN Success(e) ELSE e
Flattened(e) == IF combinator = "raceFirst" /\ Succeeded(e) THEN e.value ELSE e

-----------------------------------------------------------------------------
(* raceAll.                                                                *)

(* The racers are forked one by one, then their arbiters. *)
ForkRacer(k) ==
    /\ All /\ pc = "start"
    /\ phase[k] = "unborn" /\ \A j \in Team : j < k => phase[j] # "unborn"
    /\ phase' = [phase EXCEPT ![k] = "body"]
    /\ UNCHANGED <<combinator, open, parentVars, exit, asked, raceVars>>

ForkArbiter(k) ==
    /\ All /\ pc = "start"
    /\ \A j \in Team : phase[j] # "unborn"
    /\ arbiter[k] = "unborn" /\ \A j \in Team : j < k => arbiter[j] # "unborn"
    /\ arbiter' = [arbiter EXCEPT ![k] = "waiting"]
    /\ pc' = IF k = Size[combinator] THEN "await" ELSE pc
    /\ UNCHANGED <<combinator, open, told, result, inherited, phase, exit, asked,
                   winner, done, fails, todo, workVars>>

Rest(k) == SelectSeq([j \in Team |-> j], LAMBDA j : j # k)

(* Mutant: the counter is read as if it started at the number of racers. *)
ArbiterFailsLate(k) ==
    /\ arbiter[k] = "waiting" /\ phase[k] = "done" /\ Failed(exit[k])
    /\ done' = IF fails + 1 = 0 /\ done = Pending THEN exit[k] ELSE done
    /\ fails' = fails - 1
    /\ arbiter' = [arbiter EXCEPT ![k] = "done"]
    /\ UNCHANGED <<childrenVars, winner, todo, workVars>>

(* The last failure fails the race. *)
ArbiterFails(k) ==
    /\ arbiter[k] = "waiting" /\ phase[k] = "done" /\ Failed(exit[k])
    /\ done' = IF fails = 0 /\ done = Pending THEN exit[k] ELSE done
    /\ fails' = fails - 1
    /\ arbiter' = [arbiter EXCEPT ![k] = "done"]
    /\ UNCHANGED <<childrenVars, winner, todo, workVars>>

(* The first success wins the race, and its arbiter stops the others. *)
ArbiterWins(k) ==
    /\ arbiter[k] = "waiting" /\ phase[k] = "done" /\ Succeeded(exit[k])
    /\ IF done = Pending
       THEN /\ done' = exit[k]
            /\ arbiter' = [arbiter EXCEPT ![k] = "asking"]
            /\ todo' = [todo EXCEPT ![k] = Rest(k)]
       ELSE /\ arbiter' = [arbiter EXCEPT ![k] = "done"]
            /\ UNCHANGED <<done, todo>>
    /\ UNCHANGED <<childrenVars, winner, fails, workVars>>

(* interruptFiber, one after the other: ask, and wait for the end. *)
Stopping(i) == IF i = 0 THEN pc = "cleanup" ELSE arbiter[i] = "asking"

AskNext(i) ==
    /\ Stopping(i) /\ todo[i] # <<>> /\ ~asked[Head(todo[i])]
    /\ Ask({Head(todo[i])})
    /\ UNCHANGED <<combinator, open, parentVars, phase, exit, raceVars>>

NextStopped(i) ==
    /\ Stopping(i) /\ todo[i] # <<>> /\ asked[Head(todo[i])]
    /\ phase[Head(todo[i])] = "done"
    /\ todo' = [todo EXCEPT ![i] = Tail(@)]
    /\ UNCHANGED <<childrenVars, winner, done, fails, arbiter, workVars>>

ArbiterEnds(k) ==
    /\ Stopping(k) /\ todo[k] = <<>>
    /\ arbiter' = [arbiter EXCEPT ![k] = "done"]
    /\ UNCHANGED <<childrenVars, winner, done, fails, todo, workVars>>

RaceAllDone ==
    /\ All /\ At("await") /\ done # Pending
    /\ inherited' = IF Succeeded(done) THEN <<done.value>> ELSE <<>>
    /\ Finish(done)
    /\ UNCHANGED <<combinator, open, told, phase, exit, asked, raceVars>>

(* onInterrupt: the parent interrupts the racers one after the other. *)
RaceAllInterrupted ==
    /\ All /\ pc = "await" /\ Listening
    /\ pc' = "cleanup"
    /\ todo' = [todo EXCEPT ![0] = [j \in Team |-> j]]
    /\ UNCHANGED <<combinator, open, told, result, inherited, phase, exit, asked,
                   winner, done, fails, arbiter, workVars>>

CleanedUp ==
    /\ Stopping(0) /\ todo[0] = <<>>
    /\ Finish(InterruptedBy("caller"))
    /\ UNCHANGED <<combinator, open, told, inherited, phase, exit, asked, raceVars>>

-----------------------------------------------------------------------------
(* raceWith.                                                               *)

(* Both racers are started in one step, before their observers are added. *)
StartRace ==
    /\ ~All /\ pc = "start"
    /\ pc' = "register"
    /\ phase' = [k \in Fibers |-> IF k \notin Team THEN "unborn"
                                  ELSE IF Disconnected THEN "start" ELSE "body"]
    /\ UNCHANGED <<combinator, open, told, result, inherited, exit, asked, raceVars>>

(* An observer added to a fiber that is done is called at once. *)
Register ==
    /\ At("register")
    /\ pc' = "await"
    /\ winner' = IF phase[1] = "done" THEN 1 ELSE IF phase[2] = "done" THEN 2 ELSE 0
    /\ UNCHANGED <<combinator, open, told, result, inherited, phase, exit, asked,
                   allVars, workVars>>

(* completeRace: the observer that finds the indicator set wins. *)
CompleteRace(k) == winner' = IF pc = "register" \/ winner # 0 THEN winner ELSE k

End(k, e) ==
    /\ exit' = [exit EXCEPT ![k] = e]
    /\ phase' = [phase EXCEPT ![k] = "done"]
    /\ IF All THEN UNCHANGED winner ELSE CompleteRace(k)

RacerEnds(k) ==
    /\ ~Disconnected /\ phase[k] = "body"
    /\ \E e \in Outcomes(k, asked[k]) : End(k, e)
    /\ UNCHANGED <<combinator, open, parentVars, asked, allVars, workVars>>

(* disconnect: the racer forks the daemon and joins it interruptibly. *)
Disconnect(k) ==
    /\ phase[k] = "start" /\ ~asked[k]
    /\ phase' = [phase EXCEPT ![k] = "body"]
    /\ work' = [work EXCEPT ![k] = Running]
    /\ UNCHANGED <<combinator, open, parentVars, exit, asked, winner, allVars, workAsked>>

WorkEnds(k) ==
    /\ work[k] = Running
    /\ \E e \in Outcomes(k, workAsked[k]) :
          work' = [work EXCEPT ![k] =
                      IF workAsked[k] /\ BodyOpen THEN e ELSE Captured(e)]
    /\ UNCHANGED <<childrenVars, winner, allVars, workAsked>>

JoinWork(k) ==
    /\ Disconnected /\ phase[k] = "body" /\ ~asked[k]
    /\ work[k] \notin {Pending, Running}
    /\ End(k, work[k])
    /\ UNCHANGED <<combinator, open, parentVars, asked, allVars, workVars>>

(* Mutant: an interrupted racer leaves its daemon alone. *)
LeaveWorking(k) ==
    /\ Disconnected /\ phase[k] \in {"start", "body"} /\ asked[k]
    /\ End(k, InterruptedBy("team"))
    /\ UNCHANGED <<combinator, open, parentVars, asked, allVars, workVars>>

(* An interrupted racer interrupts its daemon, if it has one, and ends. *)
LeaveWork(k) ==
    /\ Disconnected /\ phase[k] \in {"start", "body"} /\ asked[k]
    /\ End(k, InterruptedBy("team"))
    /\ workAsked' = [workAsked EXCEPT ![k] = phase[k] = "body"]
    /\ UNCHANGED <<combinator, open, parentVars, asked, allVars, work>>

(* raceAwait: the winner succeeded, and the loser is interrupted. *)
WinnerSucceeded ==
    /\ ~All /\ At("await") /\ winner # 0 /\ Succeeded(exit[winner])
    /\ inherited' = <<winner>>
    /\ Ask({Other(winner)})
    /\ pc' = "stopLoser"
    /\ UNCHANGED <<combinator, open, told, result, phase, exit, raceVars>>

LoserStopped ==
    /\ At("stopLoser") /\ phase[Other(winner)] = "done"
    /\ Finish(Flattened(exit[winner]))
    /\ UNCHANGED <<combinator, open, told, inherited, phase, exit, asked, raceVars>>

(* The first to end failed: the other one is joined. *)
WinnerFailed ==
    /\ ~All /\ At("await") /\ winner # 0 /\ Failed(exit[winner])
    /\ pc' = "joinOther"
    /\ UNCHANGED <<combinator, open, told, result, inherited, phase, exit, asked, raceVars>>

OtherJoined ==
    LET other == exit[Other(winner)] IN
    /\ At("joinOther") /\ phase[Other(winner)] = "done"
    /\ inherited' = IF Succeeded(other) THEN <<Other(winner)>> ELSE <<>>
    /\ Finish(IF Succeeded(other) THEN Flattened(other) ELSE Parallel(exit[1], exit[2]))
    /\ UNCHANGED <<combinator, open, told, phase, exit, asked, raceVars>>

(* The parent is interrupted before onInterrupt guards the race: it leaves *)
(* the racers to the end of its own fiber.                                 *)
InterruptedEarly ==
    /\ pc = "register" /\ Listening
    /\ Finish(InterruptedBy("caller"))
    /\ UNCHANGED <<combinator, open, told, inherited, phase, exit, asked, raceVars>>

(* onInterrupt: both are interrupted, then awaited. *)
RaceInterrupted ==
    /\ ~All /\ pc \in {"register", "await", "stopLoser", "joinOther"} /\ Listening
    /\ Ask(Team)
    /\ pc' = "awaitBoth"
    /\ UNCHANGED <<combinator, open, told, result, inherited, phase, exit, raceVars>>

BothEnded ==
    /\ pc = "awaitBoth" /\ AllDone
    /\ Finish(InterruptedBy("caller"))
    /\ UNCHANGED <<combinator, open, told, inherited, phase, exit, asked, raceVars>>

-----------------------------------------------------------------------------
(* What a fiber does but for the end of its effect, and the parent.        *)
RaceFiber(k) ==
    \/ ForkRacer(k) \/ ForkArbiter(k)
    \/ ArbiterFails(k) \/ ArbiterWins(k) \/ ArbiterEnds(k)
    \/ AskNext(k) \/ NextStopped(k)
    \/ Disconnect(k) \/ JoinWork(k) \/ LeaveWork(k)
RaceBody(k) == RacerEnds(k) \/ WorkEnds(k)
RaceParent ==
    \/ RaceAllDone \/ RaceAllInterrupted \/ AskNext(0) \/ NextStopped(0) \/ CleanedUp
    \/ StartRace \/ Register \/ WinnerSucceeded \/ LoserStopped \/ WinnerFailed
    \/ OtherJoined \/ InterruptedEarly \/ RaceInterrupted \/ BothEnded

=============================================================================
