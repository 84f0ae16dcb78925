------------------------------- MODULE Programs -------------------------------
(* Programs composed with the combinators of Effects, one combinator after *)
(* another, and run by a fiber that an interrupt signal may reach before   *)
(* any of its operations.  A program is a term; what it logs names the     *)
(* combinator by its number.                                               *)
EXTENDS Cause, FiniteSets

CONSTANTS MaxSize,         \* combinators in a program
          MaxSignal,       \* operations before the signal
          Values, Refs, RefValues, Environment, Annotations, Spans, Labels,
          Undefined, LoopStates

ASSUME EnvironmentIsRef == Environment \in Refs
ASSUME LocalsAreRefs == {Annotations, Spans, Labels} \subseteq Refs

VARIABLES program, size, result

vars == <<program, size, result>>

Kinds == {"use", "read", "acquire", "release", "enter", "cleanup", "interrupted", "recover"}
Events == Kinds \X (0 .. MaxSize)

INSTANCE Effects

NotRun == [exit |-> [tag |-> "NotRun"]]
Say(kind, n) == Log(<<kind, n>>, "unit")

-----------------------------------------------------------------------------
(* What a program means.                                                   *)

Atoms == {"use", "fail", "die", "interrupt", "read"}
(* Reading the environment that is provided is seen in the log. *)
Atom(kind, n) ==
    CASE kind = "use" -> Say("use", n)
      [] kind = "fail" -> As(Fail("e"), "unit")
      [] kind = "die" -> As(DieWith("d"), "unit")
      [] kind = "interrupt" -> Interrupt
      [] kind = "read" -> EnvironmentWithEffect([env \in Values |-> Say("read", env)])

RECURSIVE Meaning(_)
Meaning(p) ==
    LET n == p.n
        self == Meaning(p.self)
    IN  CASE p.op = "atom" -> Atom(p.kind, n)
          [] p.op = "before" -> ZipRight(Atom(p.kind, n), self)
          [] p.op = "after" -> ZipRight(self, Atom(p.kind, n))
          [] p.op = "catchAllCause" -> CatchAllCause(self, [cause \in Values |-> Say("recover", n)])
          [] p.op = "orElse" -> OrElse(self, Say("recover", n))
          [] p.op = "acquireUseRelease" ->
                AcquireUseRelease(Say("acquire", n), [a \in Values |-> self],
                                  [a \in Values, exit \in Values |-> Say("release", n)])
          [] p.op = "releaseDies" ->
                AcquireUseRelease(Say("acquire", n), [a \in Values |-> self],
                                  [a \in Values, exit \in Values |->
                                      ZipRight(Say("release", n), DieWith("d"))])
          [] p.op = "ensuring" -> Ensuring(ZipRight(Say("enter", n), self), Say("cleanup", n))
          [] p.op = "onInterrupt" -> OnInterrupt(self, [ids \in Values |-> Say("interrupted", n)])
          [] p.op = "uninterruptible" -> Uninterruptible(self)
          [] p.op = "interruptible" -> Interruptible(self)
          [] p.op = "restored" ->
                UninterruptibleMask([old \in BOOLEAN |->
                    ZipRight(Say("use", n), Restore(old, self))])
          [] p.op = "provide" -> ProvideEnvironment(self, n)

-----------------------------------------------------------------------------
(* Composing and running.                                                  *)

Init == /\ \E kind \in Atoms : program = [op |-> "atom", kind |-> kind, n |-> 0]
        /\ size = 0
        /\ result = NotRun

Compose(p) == /\ result = NotRun
              /\ size < MaxSize
              /\ program' = p
              /\ size' = size + 1
              /\ UNCHANGED result

With(op) == [op |-> op, n |-> size + 1, self |-> program]
WithAtom(op, kind) == [op |-> op, kind |-> kind, n |-> size + 1, self |-> program]

Before == \E kind \in {"use", "interrupt"} : Compose(WithAtom("before", kind))
After == \E kind \in {"use", "fail"} : Compose(WithAtom("after", kind))
Recover == \E op \in {"catchAllCause", "orElse"} : Compose(With(op))
Bracket == \E op \in {"acquireUseRelease", "releaseDies"} : Compose(With(op))
Ensure == \E op \in {"ensuring", "onInterrupt"} : Compose(With(op))
Mask == \E op \in {"uninterruptible", "interruptible", "restored"} : Compose(With(op))
Provide == Compose(With("provide"))

Start(signal, interruptible) ==
    [log |-> <<>>, refs |-> [ref \in Refs |-> 0], signal |-> signal, heard |-> 0,
     interruptible |-> interruptible, interrupted |-> FALSE]

Run == /\ result = NotRun
       /\ \E signal \in 0 .. MaxSignal, interruptible \in BOOLEAN :
             result' = [began |-> interruptible]
                           @@ Meaning(program)[Start(signal, interruptible)]
       /\ UNCHANGED <<program, size>>

Next == Before \/ After \/ Recover \/ Bracket \/ Ensure \/ Mask \/ Provide \/ Run

Spec == Init /\ [][Next]_vars

-----------------------------------------------------------------------------
(* Properties of a run.                                                    *)

HasRun == result # NotRun
End == result.world
Entries == DOMAIN End.log
(* The entry of an event, if it was logged. *)
At(kind, n) == {i \in Entries : End.log[i][1] = <<kind, n>>}

Closers == [acquire |-> "release", enter |-> "cleanup"]

(* Finalizers run exactly once: wherever the signal arrives, whatever      *)
(* fails, every resource that was acquired is released and every region    *)
(* that ensuring entered is cleaned up, once, and the inner one before the *)
(* outer one (acquireUseRelease, onExit, and the run loop's reverting).    *)
FinalizersRun ==
    HasRun =>
        /\ \A n \in 1 .. MaxSize : At("release", n) # {} => At("acquire", n) # {}
        /\ \A opens \in DOMAIN Closers, n \in 1 .. MaxSize : \A i \in At(opens, n) :
              \E j \in i + 1 .. Len(End.log) :
                  /\ At(Closers[opens], n) = {j}
                  /\ \A inner \in DOMAIN Closers, m \in 1 .. (n - 1) :
                        \A k \in At(Closers[inner], m) : i < k /\ k < j

(* A fiber that has drained the signal runs nothing but uninterruptible    *)
(* code: no recovery, no use of a resource and no next step of a program   *)
(* gets in after an interruption (the checks of OP_ON_FAILURE, of the flag *)
(* updates and of OP_REVERT_FLAGS).                                        *)
NothingAfterInterrupt ==
    HasRun /\ End.interrupted => \A i \in Entries : i > End.heard => ~End.log[i][2]

(* An interruption is not swallowed: a program that was interrupted and    *)
(* ends where the fiber may be interrupted ends with the interruption in   *)
(* its cause, however much of it was uninterruptible or recovered.         *)
InterruptionShows ==
    HasRun /\ MustStop(End) =>
        /\ ~IsSuccess(result.exit)
        /\ "other" \in Interruptors(result.exit.cause)

(* A region and a local value end with the effect they were made for: the  *)
(* interruption flag and the fiber refs are after every program as before  *)
(* it (updateRuntimeFlags with a scope, fiberRefLocally).                  *)
RegionsEnd ==
    HasRun => /\ \A ref \in Refs : End.refs[ref] = 0
              /\ End.interruptible = result.began

===============================================================================
