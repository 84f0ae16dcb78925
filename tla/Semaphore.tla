------------------------------- MODULE Semaphore -------------------------------
(***************************************************************************)
(* The semaphore of @effect/io (internal/effect/circular.ts) as its        *)
(* withPermits uses it: clients are fibers that take permits, run an       *)
(* effect, and release.  A client that finds too few permits free leaves   *)
(* an observer in waiters; a release schedules a task that calls them.     *)
(*                                                                         *)
(* The steps of different fibers interleave; one synchronous stretch of    *)
(* code is one step, except the task, which makes a step per observer      *)
(* while nothing else happens (waking > 0).                                *)
(***************************************************************************)
EXTENDS Integers, Sequences, FiniteSets, FiniteSetsExt, SequencesExt

CONSTANTS
    Clients,  \* the fibers that use the semaphore
    Masked,   \* those that call withPermits in an uninterruptible region
    Roots,    \* those that Runtime.unsafeFork starts on the current thread
    Permits,  \* permits
    Want,     \* Want[c]: the permits client c asks for
    Rounds    \* bound: Rounds[c] is how often client c calls withPermits

ASSUME ClientsAssumption == IsFiniteSet(Clients)
ASSUME MaskedAssumption == Masked \subseteq Clients
ASSUME RootsAssumption == Roots \subseteq Clients
ASSUME PermitsAssumption == Permits \in Nat
ASSUME WantAssumption == Want \in [Clients -> Nat \ {0}]
ASSUME RoundsAssumption == Rounds \in [Clients -> Nat]

VARIABLES
    waiters,      \* waiters: the clients whose observer is in the array
    taken,        \* taken
    wakes,        \* the tasks of release the scheduler holds
    waking,       \* the index forEach has reached, 0 when no task runs
    phase,        \* where the client is in withPermits
    interrupted,  \* an Interrupt message was told to the client
    calls         \* the calls of withPermits the client made

vars == <<waiters, taken, wakes, waking, phase, interrupted, calls>>

(* "idle" outside withPermits; "waiting" suspended in take; "granted" told *)
(* to resume with its permits; "holding" in the effect; "out" ended by an  *)
(* interruption in take.                                                   *)
Phases == {"idle", "waiting", "granted", "holding", "out"}

Free == Permits - taken

Interrupting(c) == interrupted[c] /\ c \notin Masked
Idle == waking = 0

Init ==
    /\ waiters = <<>>
    /\ taken = 0
    /\ wakes = 0
    /\ waking = 0
    /\ phase = [c \in Clients |-> "idle"]
    /\ interrupted = [c \in Clients |-> FALSE]
    /\ calls = [c \in Clients |-> 0]

-----------------------------------------------------------------------------
(* take: the permits if they are free, else an observer.  A client that    *)
(* gets its permits at once resumes in the drain it runs in; one that is   *)
(* inside start, that is a root in its first take, in a later task.        *)
Take(c) ==
    /\ Idle
    /\ phase[c] = "idle" /\ ~Interrupting(c)
    /\ calls[c] < Rounds[c]
    /\ calls' = [calls EXCEPT ![c] = @ + 1]
    /\ \/ /\ Free < Want[c]
          /\ waiters' = Append(waiters, c)
          /\ phase' = [phase EXCEPT ![c] = "waiting"]
          /\ UNCHANGED taken
       \/ /\ Free >= Want[c]
          /\ taken' = taken + Want[c]
          /\ phase' = [phase EXCEPT ![c] =
                          IF c \in Roots /\ calls[c] = 0 THEN "granted" ELSE "holding"]
          /\ UNCHANGED waiters
    /\ UNCHANGED <<wakes, waking, interrupted>>

(* Another fiber tells the client to interrupt, at any time. *)
Interrupt(c) ==
    /\ Idle
    /\ ~interrupted[c]
    /\ interrupted' = [interrupted EXCEPT ![c] = TRUE]
    /\ UNCHANGED <<waiters, taken, wakes, waking, phase, calls>>

(* Mutant: the canceler leaves the observer in the array. *)
CancelNothing(c) ==
    /\ Idle
    /\ phase[c] = "waiting" /\ Interrupting(c)
    /\ phase' = [phase EXCEPT ![c] = "out"]
    /\ UNCHANGED <<waiters, taken, wakes, waking, interrupted, calls>>

(* The client handles the message while it waits: it resumes with the      *)
(* interruption, and the canceler of take removes the observer.            *)
Cancel(c) ==
    /\ Idle
    /\ phase[c] = "waiting" /\ Interrupting(c)
    /\ waiters' = RemoveFirst(waiters, c)
    /\ phase' = [phase EXCEPT ![c] = "out"]
    /\ UNCHANGED <<taken, wakes, waking, interrupted, calls>>

(* The client resumes with its permits.  take is restored to the caller's  *)
(* interruptibility: an interrupt told meanwhile wins, its canceler finds  *)
(* no observer, and nobody releases the permits.                           *)
Enter(c) ==
    /\ Idle
    /\ phase[c] = "granted"
    /\ phase' = [phase EXCEPT ![c] = IF Interrupting(c) THEN "out" ELSE "holding"]
    /\ UNCHANGED <<waiters, taken, wakes, waking, interrupted, calls>>

(* Mutant: release wakes nobody. *)
ReleaseSilently(c) ==
    /\ Idle
    /\ phase[c] = "holding"
    /\ taken' = taken - Want[c]
    /\ phase' = [phase EXCEPT ![c] = "idle"]
    /\ UNCHANGED <<waiters, wakes, waking, interrupted, calls>>

(* release, when the effect ended in whatever way (ensuring).              *)
Release(c) ==
    /\ Idle
    /\ phase[c] = "holding"
    /\ taken' = taken - Want[c]
    /\ wakes' = wakes + 1
    /\ phase' = [phase EXCEPT ![c] = "idle"]
    /\ UNCHANGED <<waiters, waking, interrupted, calls>>

-----------------------------------------------------------------------------
(* The task of release: waiters.forEach((wake) => wake()).                 *)

WakeStart ==
    /\ Idle
    /\ wakes > 0
    /\ wakes' = wakes - 1
    /\ waking' = 1
    /\ UNCHANGED <<waiters, taken, phase, interrupted, calls>>

(* The callback of take, which resumes a client once. *)
Resume(c) == phase' = [phase EXCEPT ![c] = IF @ = "waiting" THEN "granted" ELSE @]

(* Mutant: an observer does not look again at the free permits. *)
WakeUnchecked(c) ==
    /\ waking \in 1 .. Len(waiters) /\ waiters[waking] = c
    /\ waking' = waking + 1
    /\ waiters' = RemoveFirst(waiters, c)
    /\ taken' = taken + Want[c]
    /\ Resume(c)
    /\ UNCHANGED <<wakes, interrupted, calls>>

(* Mutant: an observer stays in the array when it takes its permits. *)
WakeStays(c) ==
    /\ waking \in 1 .. Len(waiters) /\ waiters[waking] = c
    /\ waking' = waking + 1
    /\ \/ /\ Free >= Want[c]
          /\ taken' = taken + Want[c]
          /\ Resume(c)
       \/ /\ Free < Want[c]
          /\ UNCHANGED <<taken, phase>>
    /\ UNCHANGED <<waiters, wakes, interrupted, calls>>

(* The observer of c.  It removes itself and takes the permits if they are *)
(* free; forEach then skips the observer that moved into its place.        *)
WakeNext(c) ==
    /\ waking \in 1 .. Len(waiters) /\ waiters[waking] = c
    /\ waking' = waking + 1
    /\ \/ /\ Free >= Want[c]
          /\ waiters' = RemoveFirst(waiters, c)
          /\ taken' = taken + Want[c]
          /\ Resume(c)
       \/ /\ Free < Want[c]
          /\ UNCHANGED <<waiters, taken, phase>>
    /\ UNCHANGED <<wakes, interrupted, calls>>

WakeEnd ==
    /\ waking > Len(waiters)
    /\ waking' = 0
    /\ UNCHANGED <<waiters, taken, wakes, phase, interrupted, calls>>

Wake == WakeStart \/ (\E c \in Clients : WakeNext(c)) \/ WakeEnd

(* A client's own steps once it is in withPermits. *)
Proceed(c) == Cancel(c) \/ Enter(c) \/ Release(c)

Next ==
    \/ \E c \in Clients : Take(c) \/ Interrupt(c) \/ Proceed(c)
    \/ Wake

Spec == Init /\ [][Next]_vars

(* Tasks run, resumed fibers proceed, and effects under withPermits end.   *)
Fairness == WF_vars(Wake) /\ \A c \in Clients : WF_vars(Proceed(c))

FairSpec == Spec /\ Fairness

-----------------------------------------------------------------------------
(* Properties.                                                             *)

Owners == {c \in Clients : phase[c] \in {"granted", "holding"}}
Demand(S) == MapThenSumSet(LAMBDA c : Want[c], S)
Owned == Demand(Owners)
Lost == taken - Owned

TypeOK ==
    /\ waiters \in Seq(Clients)
    /\ taken \in Nat
    /\ wakes \in Nat
    /\ waking \in Nat
    /\ phase \in [Clients -> Phases]
    /\ interrupted \in [Clients -> BOOLEAN]
    /\ calls \in [Clients -> Nat] /\ \A c \in Clients : calls[c] <= Rounds[c]

(* The clients inside never hold more than there are permits, although     *)
(* observers take permits while other clients take them directly.          *)
WithinPermits == Owned <= taken /\ taken <= Permits

(* An observer is in the array once, exactly while its client waits; a     *)
(* client that left take is never called again.                            *)
ObserversWait ==
    /\ \A i, j \in 1 .. Len(waiters) : waiters[i] = waiters[j] => i = j
    /\ \A c \in Clients :
          phase[c] = "waiting" <=> Contains(waiters, c)

(* Permits get lost in one way only: with a client that was interrupted    *)
(* between the moment its permits were taken and its resumption.  In       *)
(* particular clients in uninterruptible regions lose none.                *)
LostToInterrupts ==
    Lost <= Demand({c \in Clients : phase[c] = "out" /\ interrupted[c]})

(* No waiter is forgotten: when no task is on its way, a waiter whose      *)
(* permits are free waits for a client that will release, unless permits   *)
(* were lost.  (A release wakes a waiter late, since forEach skips the one *)
(* after an observer that removed itself, but that observer's client will  *)
(* release too.)                                                           *)
WaiterHasWaker ==
    (wakes = 0 /\ Idle /\ Lost = 0) =>
        \A c \in Clients : phase[c] = "waiting" /\ Free >= Want[c] => Owners # {}

(* The array of observers is right: it holds whoever waits, and somebody   *)
(* will look at it (take, its canceler and release).                       *)
WaitersAreRight == ObserversWait /\ WaiterHasWaker

(* Once nobody is inside, all permits are free again, as in the test that  *)
(* uses one semaphore twice (test/Effect/semaphore.ts:22-35).              *)
PermitsReturn == (\A c \in Clients : phase[c] \in {"idle", "out"}) => taken = 0

(* If no permit is lost and effects end, nobody waits forever. *)
WaitersServed ==
    [](Lost = 0) => \A c \in Clients : phase[c] = "waiting" ~> phase[c] # "waiting"
===============================================================================
