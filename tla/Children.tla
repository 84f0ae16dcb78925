------------------------------ MODULE Children ------------------------------
(* A parent fiber evaluates one combinator that runs effects in fibers of  *)
(* their own (src/src/internal/fiberRuntime.ts and effect/circular.ts):    *)
(* what the combinators have in common.  A step is what a fiber does       *)
(* between two points where it may yield or wait; the run loop that makes  *)
(* this so, and interrupts an asked fiber in an interruptible region       *)
(* before it goes on, is FiberRuntime.  The walks over causes are          *)
(* parameters: stripFailures, failures and isInterruptedOnly of Cause.     *)
EXTENDS CauseTree, Naturals, Sequences, SequencesExt

CONSTANTS
    Combinators,        \* the combinators the parent may evaluate
    Size,               \* Size[c]: how many fibers the combinator c runs
    Strip(_),           \* a cause without its errors
    ErrorsIn(_),        \* the errors of a cause, in order
    OnlyInterrupts(_)   \* whether a cause holds interruptions and nothing else

Parallels == {"forEachPar", "forEachParN", "zipWithPar"}
Disconnecting == {"race", "raceFirst"}
Races == {"raceAll", "raceWith"} \cup Disconnecting

MaxSize == CHOOSE n \in {Size[c] : c \in Combinators} :
              \A c \in Combinators : Size[c] <= n
Fibers == 1 .. MaxSize

(* The combinators run an effect at least (of none, and of one by itself,  *)
(* forEachPar makes no fiber), the binary ones run two.                    *)
ASSUME SizeAssumption ==
    /\ Combinators \subseteq Parallels \cup Races
    /\ MaxSize \in Nat
    /\ \A c \in Combinators : Size[c] \in Fibers
    /\ \A c \in Combinators \cap (Disconnecting \cup {"raceWith"}) : Size[c] = 2

VARIABLES
    combinator,   \* the combinator the parent evaluates
    open,         \* whether the parent is interruptible around it
    told,         \* whether the parent has been interrupted
    pc,           \* where the parent is
    result,       \* the exit of the combinator
    inherited,    \* the fibers whose FiberRefs the parent inherited, in order
    phase,        \* phase[k]: where fiber k is
    exit,         \* exit[k]: the exit of fiber k or of its body
    asked         \* asked[k]: whether fiber k has been interrupted

parentVars == <<told, pc, result, inherited>>
childrenVars == <<combinator, open, told, pc, result, inherited, phase, exit, asked>>

Team == 1 .. Size[combinator]

(* An exit is a success or a cause. *)
Pending == [tag |-> "Pending"]
Success(v) == [tag |-> "Success", value |-> v]
Succeeded(e) == e.tag = "Success"
Failed(e) == e.tag \notin {"Success", "Pending"}

InitChildren ==
    /\ combinator \in Combinators
    /\ open \in BOOLEAN
    /\ told = FALSE
    /\ pc = "start"
    /\ result = Pending
    /\ inherited = <<>>
    /\ phase = [k \in Fibers |-> "unborn"]
    /\ exit = [k \in Fibers |-> Pending]
    /\ asked = [k \in Fibers |-> FALSE]

(* The next step of the parent would be the interruption. *)
Listening == told /\ open
At(where) == pc = where /\ ~Listening
Out == pc \in {"out", "windDown", "ended"}

Ask(ks) == asked' = [k \in Fibers |-> asked[k] \/ k \in ks]
AllDone == \A k \in Team : phase[k] = "done"

(* The masks of the combinators restore the region of the parent around    *)
(* the body; raceAll makes the body interruptible.                         *)
BodyOpen == open \/ combinator = "raceAll"

(* How a body may end: an interrupted one cannot succeed, and a finalizer  *)
(* of it may fail.                                                         *)
Outcomes(k, interrupted) ==
    IF interrupted /\ BodyOpen
    THEN {InterruptedBy("team"), Sequential(InterruptedBy("team"), FailWith(k))}
    ELSE {Success(k), FailWith(k)}

(* Leaving the region of a combinator: a pending interrupt takes the place *)
(* of a success.                                                           *)
Finish(r) ==
    /\ result' = IF Succeeded(r) /\ Listening THEN InterruptedBy("caller") ELSE r
    /\ pc' = "out"

(* Somebody interrupts the parent. *)
Interrupt ==
    /\ ~told /\ pc # "ended"
    /\ told' = TRUE
    /\ UNCHANGED <<combinator, open, pc, result, inherited, phase, exit, asked>>

=============================================================================
