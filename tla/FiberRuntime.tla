----------------------------- MODULE FiberRuntime -----------------------------
(***************************************************************************)
(* The fiber runtime of @effect/io: fibers, their inboxes, the run loop,   *)
(* interruption and structured concurrency (internal/fiberRuntime.ts).     *)
(*                                                                         *)
(* JavaScript runs one callback at a time, so at most one fiber has the    *)
(* thread.  It keeps it until its run loop ends, suspends on an            *)
(* asynchronous operation, or yields.  A fiber reacts to other fibers only *)
(* through the messages of its inbox.                                      *)
(*                                                                         *)
(* A program is a sequence of sets of primitives: the fiber evaluates one  *)
(* primitive of each set in turn and may end before any of them.  Programs *)
(* bounds how long the programs are and where they branch.                 *)
(***************************************************************************)
EXTENDS Integers, Sequences, FiniteSets

CONSTANTS
    Fibers,      \* the fibers that may ever be created
    Root,        \* the fiber started by Runtime.unsafeFork
    NoFiber,     \* nobody: an idle thread, the global fiber scope
    Knows,       \* Knows[f]: the fibers whose handle the program of f may use
    Scopes,      \* Scopes[f]: the fiber scopes f may fork a child into
    Programs     \* the programs: for each fiber, its possible primitives in order

ASSUME RootAssumption == Root \in Fibers
ASSUME NoFiberAssumption == NoFiber \notin Fibers
ASSUME KnowsAssumption == Knows \in [Fibers -> SUBSET Fibers]
ASSUME ScopesAssumption == Scopes \in [Fibers -> SUBSET (Fibers \cup {NoFiber})]

Primitives == {"fork", "interrupt", "await", "async", "yield", "mask", "unmask", "catch", "fail"}

ASSUME ProgramsAssumption == Programs \subseteq [Fibers -> Seq(SUBSET Primitives)]

VARIABLES
    thread,           \* the fiber on the JavaScript thread, or NoFiber
    inStart,          \* that fiber runs inside start(), not inside a drain
    queue,            \* _queue: the inbox
    running,          \* _running
    scheduled,        \* how many run() tasks of the fiber the scheduler holds
    loop,             \* "unborn", "idle" (not in runLoop) or "running"
    cur,              \* what runLoop evaluates next
    stack,            \* _stack: continuations, the top one last
    flag,             \* the Interruption bit of _runtimeFlags
    windDown,         \* the WindDown bit of _runtimeFlags
    interrupted,      \* the interruptedCause fiber ref is not empty
    children,         \* _children
    observers,        \* _observers
    exitValue,        \* _exitValue
    asyncInterruptor, \* _asyncInterruptor: the callback it is, 0 for null
    asyncs,           \* callbacks made so far by initiateAsync; they are 1..asyncs
    called,           \* the callbacks whose alreadyCalled is true
    external,         \* the callbacks that code outside any fiber holds
    program,          \* what is left of the programs
    scope,            \* history: the fiber scope the fiber was forked into
    verdict           \* history: the exit the first run loop of the fiber returned

mailVars == <<queue, running, scheduled>>
evalVars == <<loop, cur, stack, flag, windDown>>
signalVars == <<interrupted, children, observers>>
asyncVars == <<asyncInterruptor, asyncs, called, external>>
historyVars == <<scope, verdict>>
vars == <<thread, inStart, mailVars, evalVars, signalVars, exitValue, asyncVars,
          program, historyVars>>

None == "none"
Results == {"ok", "fail"}

-----------------------------------------------------------------------------
(* Messages (internal/fiberMessage.ts).  A stateful message is a closure;  *)
(* the three the runtime itself sends are told apart by their effect.      *)

Interrupt == [tag |-> "Interrupt"]
Resume(eff) == [tag |-> "Resume", eff |-> eff]
YieldNow == [tag |-> "YieldNow"]
AddObserver(f, n) == [tag |-> "AddObserver", who |-> f, cb |-> n]
RemoveObserver(f, n) == [tag |-> "RemoveObserver", who |-> f, cb |-> n]
AddChild(c) == [tag |-> "AddChild", child |-> c]

Messages ==
    {Interrupt, YieldNow}
    \cup [tag: {"Resume"}, eff: {"next", "ok", "fail"}]
    \cup [tag: {"AddObserver", "RemoveObserver"}, who: Fibers, cb: Nat]
    \cup [tag: {"AddChild"}, child: Fibers]

(* Continuations.  "Then": an OnSuccess, evaluating c next.  "Catch": an   *)
(* OnFailure of the program.  "Revert": a RevertFlags.  "Await": the mask, *)
(* canceler and restored region of an asyncInterrupt waiting for fiber on. *)
(* "Children": the while loop of interruptAllChildren, then the exit.      *)
Then(c) == [k |-> "Then", c |-> c]
Catch == [k |-> "Catch"]
Revert(b) == [k |-> "Revert", to |-> b]
Awaiting(b, g, n) == [k |-> "Await", to |-> b, on |-> g, cb |-> n]
Children(cs, r) == [k |-> "Children", rest |-> cs, exit |-> r]

Frames ==
    {Catch}
    \cup [k: {"Then"}, c: {"next", "ok", "fail"}]
    \cup [k: {"Revert"}, to: BOOLEAN]
    \cup [k: {"Await"}, to: BOOLEAN, on: Fibers, cb: Nat]
    \cup [k: {"Children"}, rest: SUBSET Fibers, exit: Results]

AwaitObserver(f, n) == [kind |-> "await", who |-> f, cb |-> n]
ChildObserver(p) == [kind |-> "child", who |-> p, cb |-> 0]

-----------------------------------------------------------------------------
(* Helpers.                                                                *)

Born(f) == loop[f] # "unborn"
Done(f) == exitValue[f] # None

(* Mutant: winding down does not mask interruption. *)
InterruptibleWindingDown(f) == flag[f]
Interruptible(f) == flag[f] /\ ~windDown[f]
Interrupting(f) == Interruptible(f) /\ interrupted[f]

Top(f) == stack[f][Len(stack[f])]
Pop(f) == SubSeq(stack[f], 1, Len(stack[f]) - 1)

(* The inboxes q after message m is offered to every fiber of to. *)
Offered(q, to, m) ==
    [h \in Fibers |-> IF h \in to THEN Append(q[h], m) ELSE q[h]]
Polled(f) == [queue EXCEPT ![f] = Tail(@)]

(* The second half of tell for every fiber of to: take _running and       *)
(* schedule a drain unless the fiber is running already.                   *)
Wake(to) ==
    /\ running' = [h \in Fibers |-> h \in to \/ running[h]]
    /\ scheduled' = [h \in Fibers |->
          IF h \in to /\ ~running[h] THEN scheduled[h] + 1 ELSE scheduled[h]]

Tell(q, to, m) == queue' = Offered(q, to, m) /\ Wake(to)

(* Mutant: initiateAsync without its alreadyCalled guard. *)
FreshAlways(cbs) == {h \in Fibers : \E n \in 1 .. asyncs[h] : <<h, n>> \in cbs}

(* A callback of initiateAsync is <<fiber, n>>.  Those of cbs that were    *)
(* not called before tell their fiber to resume; the others do nothing.    *)
Uncalled(f) == (1 .. asyncs[f]) \ called[f]
Fresh(cbs) == {h \in Fibers : \E n \in Uncalled(h) : <<h, n>> \in cbs}
Called(cbs) ==
    [h \in Fibers |-> called[h] \cup {n \in 1 .. asyncs[h] : <<h, n>> \in cbs}]

(* Mutant: an interrupt does not reach the suspended operation. *)
NoInterruptor(f) == {}
Interruptor(f) == {<<f, asyncInterruptor[f]>>}

AwaitingCallbacks(f) ==
    {<<o.who, o.cb>> : o \in {b \in observers[f] : b.kind = "await"}}

-----------------------------------------------------------------------------
Init ==
    /\ thread = NoFiber
    /\ inStart = FALSE
    /\ queue = [f \in Fibers |-> <<>>]
    /\ running = [f \in Fibers |-> FALSE]
    /\ scheduled = [f \in Fibers |-> 0]
    /\ loop = [f \in Fibers |-> "unborn"]
    /\ cur = [f \in Fibers |-> "next"]
    /\ stack = [f \in Fibers |-> <<>>]
    /\ flag = [f \in Fibers |-> TRUE]
    /\ windDown = [f \in Fibers |-> FALSE]
    /\ interrupted = [f \in Fibers |-> FALSE]
    /\ children = [f \in Fibers |-> {}]
    /\ observers = [f \in Fibers |-> {}]
    /\ exitValue = [f \in Fibers |-> None]
    /\ asyncInterruptor = [f \in Fibers |-> 0]
    /\ asyncs = [f \in Fibers |-> 0]
    /\ called = [f \in Fibers |-> {}]
    /\ external = [f \in Fibers |-> {}]
    /\ program \in Programs
    /\ scope = [f \in Fibers |-> NoFiber]
    /\ verdict = [f \in Fibers |-> None]

-----------------------------------------------------------------------------
(* Getting and leaving the thread.                                         *)

(* Runtime.unsafeFork: the root fiber, in the global scope, starts on the  *)
(* current thread.                                                         *)
Start ==
    /\ thread = NoFiber
    /\ ~Born(Root)
    /\ thread' = Root
    /\ inStart' = TRUE
    /\ running' = [running EXCEPT ![Root] = TRUE]
    /\ loop' = [loop EXCEPT ![Root] = "running"]
    /\ UNCHANGED <<queue, scheduled, cur, stack, flag, windDown, signalVars,
                   exitValue, asyncVars, program, historyVars>>

(* Mutant: start leaves messages told meanwhile in the inbox. *)
StartForgets(f) ==
    /\ thread = f /\ inStart /\ loop[f] = "idle"
    /\ thread' = NoFiber
    /\ inStart' = FALSE
    /\ running' = [running EXCEPT ![f] = FALSE]
    /\ UNCHANGED <<queue, scheduled, evalVars, signalVars, exitValue, asyncVars, program,
                   historyVars>>

(* The finally of start: messages told meanwhile get a drain, which is     *)
(* scheduled without taking _running.                                      *)
StartReturn(f) ==
    /\ thread = f /\ inStart /\ loop[f] = "idle"
    /\ thread' = NoFiber
    /\ inStart' = FALSE
    /\ running' = [running EXCEPT ![f] = FALSE]
    /\ scheduled' = [scheduled EXCEPT ![f] = IF queue[f] # <<>> THEN @ + 1 ELSE @]
    /\ UNCHANGED <<queue, evalVars, signalVars, exitValue, asyncVars, program, historyVars>>

(* Mutant: a drain starts without a task. *)
RunUnscheduled(f) ==
    /\ thread = NoFiber
    /\ thread' = f
    /\ scheduled' = [scheduled EXCEPT ![f] = @ - 1]
    /\ UNCHANGED <<inStart, queue, running, evalVars, signalVars, exitValue,
                   asyncVars, program, historyVars>>

(* The scheduler runs a task: run, that is drainQueueOnCurrentThread.  The *)
(* currentScheduler of a fiber can be replaced, and background drains wait *)
(* for the main thread, so tasks run in any order.                         *)
Run(f) ==
    /\ thread = NoFiber
    /\ scheduled[f] > 0
    /\ thread' = f
    /\ scheduled' = [scheduled EXCEPT ![f] = @ - 1]
    /\ UNCHANGED <<inStart, queue, running, evalVars, signalVars, exitValue,
                   asyncVars, program, historyVars>>

Draining(f) == thread = f /\ ~inStart /\ loop[f] = "idle"

(* The inbox is empty: the drain ends.                                     *)
DrainDone(f) ==
    /\ Draining(f)
    /\ queue[f] = <<>>
    /\ thread' = NoFiber
    /\ running' = [running EXCEPT ![f] = FALSE]
    /\ UNCHANGED <<inStart, queue, scheduled, evalVars, signalVars, exitValue,
                   asyncVars, program, historyVars>>

Receives(f, m) == queue[f] # <<>> /\ Head(queue[f]).tag = m

(* A yield ends the drain; another is scheduled for the messages left.     *)
DrainYield(f) ==
    /\ Draining(f) /\ Receives(f, "YieldNow")
    /\ thread' = NoFiber
    /\ queue' = Polled(f)
    /\ running' = [running EXCEPT ![f] = Tail(queue[f]) # <<>>]
    /\ scheduled' = [scheduled EXCEPT ![f] = IF Tail(queue[f]) # <<>> THEN @ + 1 ELSE @]
    /\ UNCHANGED <<inStart, evalVars, signalVars, exitValue, asyncVars, program, historyVars>>

-----------------------------------------------------------------------------
(* Messages, while suspended (evaluateMessageWhileSuspended) and inside    *)
(* the run loop (drainQueueWhileRunning).                                  *)

(* Resumption: an interrupted fiber in an interruptible region evaluates   *)
(* the interruption instead of the effect it was resumed with.             *)
HandleResume(f) ==
    /\ Draining(f) /\ Receives(f, "Resume")
    /\ queue' = Polled(f)
    /\ asyncInterruptor' = [asyncInterruptor EXCEPT ![f] = 0]
    /\ loop' = [loop EXCEPT ![f] = "running"]
    /\ cur' = [cur EXCEPT ![f] = IF Interrupting(f) THEN "fail" ELSE Head(queue[f]).eff]
    /\ UNCHANGED <<thread, inStart, running, scheduled, stack, flag, windDown, signalVars,
                   exitValue, asyncs, called, external, program, historyVars>>

(* An interrupt signal is recorded and passed on to all children.  A       *)
(* suspended fiber is resumed with it through its asyncInterruptor.        *)
HandleInterrupt(f) ==
    LET cbs == Interruptor(f)
        told == Offered(Polled(f), children[f], Interrupt)
    IN
    /\ Draining(f) /\ Receives(f, "Interrupt")
    /\ interrupted' = [interrupted EXCEPT ![f] = TRUE]
    /\ queue' = Offered(told, Fresh(cbs), Resume("fail"))
    /\ Wake(children[f] \cup Fresh(cbs))
    /\ called' = Called(cbs)
    /\ asyncInterruptor' = [asyncInterruptor EXCEPT ![f] = 0]
    /\ UNCHANGED <<thread, inStart, evalVars, children, observers, exitValue, asyncs,
                   external, program, historyVars>>

RunInterrupt(f) ==
    /\ thread = f /\ loop[f] = "running" /\ Receives(f, "Interrupt")
    /\ interrupted' = [interrupted EXCEPT ![f] = TRUE]
    /\ Tell(Polled(f), children[f], Interrupt)
    /\ cur' = [cur EXCEPT ![f] = IF Interruptible(f) THEN "fail" ELSE @]
    /\ UNCHANGED <<thread, inStart, loop, stack, flag, windDown, children, observers,
                   exitValue, asyncVars, program, historyVars>>

(* Stateful messages are handled the same way suspended and running.       *)
Handling(f, m) ==
    thread = f /\ (Draining(f) \/ loop[f] = "running") /\ Receives(f, m)

(* FiberRuntime.await: call back if the exit is there, else observe it.    *)
HandleAddObserver(f) ==
    LET m == Head(queue[f])
        cbs == {<<m.who, m.cb>>}
    IN
    /\ Handling(f, "AddObserver")
    /\ \/ /\ Done(f)
          /\ Tell(Polled(f), Fresh(cbs), Resume("ok"))
          /\ called' = Called(cbs)
          /\ UNCHANGED observers
       \/ /\ ~Done(f)
          /\ observers' = [observers EXCEPT ![f] = @ \cup {AwaitObserver(m.who, m.cb)}]
          /\ queue' = Polled(f)
          /\ UNCHANGED <<running, scheduled, called>>
    /\ UNCHANGED <<thread, inStart, evalVars, interrupted, children, exitValue,
                   asyncInterruptor, asyncs, external, program, historyVars>>

HandleRemoveObserver(f) ==
    LET m == Head(queue[f]) IN
    /\ Handling(f, "RemoveObserver")
    /\ queue' = Polled(f)
    /\ observers' = [observers EXCEPT ![f] = @ \ {AwaitObserver(m.who, m.cb)}]
    /\ UNCHANGED <<thread, inStart, running, scheduled, evalVars, interrupted, children,
                   exitValue, asyncVars, program, historyVars>>

(* Local.add: the child is in the set until it exits; a child that exited  *)
(* already removes itself at once.                                         *)
HandleAddChild(f) ==
    LET c == Head(queue[f]).child IN
    /\ Handling(f, "AddChild")
    /\ queue' = Polled(f)
    /\ \/ /\ Done(c)
          /\ children' = [children EXCEPT ![f] = @ \ {c}]
          /\ UNCHANGED observers
       \/ /\ ~Done(c)
          /\ children' = [children EXCEPT ![f] = @ \cup {c}]
          /\ observers' = [observers EXCEPT ![c] = @ \cup {ChildObserver(f)}]
    /\ UNCHANGED <<thread, inStart, running, scheduled, evalVars, interrupted,
                   exitValue, asyncVars, program, historyVars>>

-----------------------------------------------------------------------------
(* The primitives of the program.  Every turn of runLoop drains the inbox  *)
(* before it evaluates a primitive.                                        *)

Turn(f) == thread = f /\ loop[f] = "running" /\ queue[f] = <<>>

Evaluates(f, p) ==
    /\ Turn(f)
    /\ program[f] # <<>> /\ p \in Head(program[f])
    /\ program' = [program EXCEPT ![f] = Tail(@)]

Primitive(f, p) == Evaluates(f, p) /\ cur[f] = "next"

(* fork, forkDaemon, and fork under forkScopeOverride: unsafeFork adds the *)
(* child to a scope, then resumes it.  Flags are inherited.  The caller    *)
(* gets the handle of the child, so the child is one f may know.           *)
Fork(f, c, p) ==
    LET owner == {p} \ {NoFiber} IN
    /\ Primitive(f, "fork")
    /\ ~Born(c) /\ c # Root /\ c \in Knows[f]
    /\ p \in Scopes[f] /\ p \in {NoFiber} \cup {h \in Fibers : Born(h)}
    /\ loop' = [loop EXCEPT ![c] = "idle"]
    /\ flag' = [flag EXCEPT ![c] = flag[f]]
    /\ windDown' = [windDown EXCEPT ![c] = windDown[f]]
    /\ scope' = [scope EXCEPT ![c] = p]
    /\ queue' = Offered(Offered(queue, owner, AddChild(c)), {c}, Resume("next"))
    /\ Wake(owner \cup {c})
    /\ UNCHANGED <<thread, inStart, cur, stack, signalVars, exitValue, asyncVars, verdict>>

(* interruptAsFork: a Sync primitive.  When it is the last one of the      *)
(* program, the run loop returns without draining the inbox again.         *)
InterruptFiber(f, g) ==
    /\ Primitive(f, "interrupt")
    /\ g \in Knows[f] \cup {f} /\ Born(g)
    /\ Tell(queue, {g}, Interrupt)
    /\ \/ UNCHANGED cur
       \/ stack[f] = <<>> /\ cur' = [cur EXCEPT ![f] = "ok"]
    /\ UNCHANGED <<thread, inStart, loop, stack, flag, windDown, signalVars, exitValue,
                   asyncVars, historyVars>>

(* async: code outside the fibers gets the callback, and may call it       *)
(* before register returns.                                                *)
Async(f) ==
    LET n == asyncs[f] + 1 IN
    /\ Primitive(f, "async")
    /\ stack' = [stack EXCEPT ![f] = Append(@, Then("next"))]
    /\ asyncs' = [asyncs EXCEPT ![f] = n]
    /\ asyncInterruptor' = [asyncInterruptor EXCEPT ![f] = IF Interruptible(f) THEN n ELSE @]
    /\ external' = [external EXCEPT ![f] = @ \cup {n}]
    /\ loop' = [loop EXCEPT ![f] = "idle"]
    /\ \/ UNCHANGED <<called, mailVars>>
       \/ /\ called' = [called EXCEPT ![f] = @ \cup {n}]
          /\ Tell(queue, {f}, Resume("ok"))
    /\ UNCHANGED <<thread, inStart, cur, flag, windDown, signalVars, exitValue, historyVars>>

(* FiberRuntime.await of g: the callback observes g.  base is the stack    *)
(* below the mask of asyncInterrupt.                                       *)
SuspendOn(f, g, base) ==
    LET n == asyncs[f] + 1 IN
    /\ stack' = [stack EXCEPT ![f] = Append(base, Awaiting(flag[f], g, n))]
    /\ asyncs' = [asyncs EXCEPT ![f] = n]
    /\ asyncInterruptor' = [asyncInterruptor EXCEPT ![f] = IF Interruptible(f) THEN n ELSE @]
    /\ Tell(queue, {g}, AddObserver(f, n))
    /\ loop' = [loop EXCEPT ![f] = "idle"]
    /\ UNCHANGED <<thread, inStart, cur, flag, windDown, signalVars, exitValue,
                   called, external, historyVars>>

Await(f, g) ==
    /\ Primitive(f, "await")
    /\ g \in Knows[f] /\ Born(g)
    /\ SuspendOn(f, g, Append(stack[f], Then("next")))

(* yieldNow, by the program or forced by the run loop between any two      *)
(* primitives once it evaluated 2048 of them.                              *)
Yield(f) ==
    /\ Evaluates(f, "yield")
    /\ stack' = [stack EXCEPT ![f] = Append(@, Then(cur[f]))]
    /\ loop' = [loop EXCEPT ![f] = "idle"]
    /\ queue' = Offered(Offered(queue, {f}, YieldNow), {f}, Resume("ok"))
    /\ Wake({f})
    /\ UNCHANGED <<thread, inStart, cur, flag, windDown, signalVars, exitValue,
                   asyncVars, historyVars>>

(* uninterruptible and interruptible regions: OP_UPDATE_RUNTIME_FLAGS with *)
(* a scope.  Entering an interruptible region with an interrupt pending    *)
(* fails instead.                                                          *)
Region(f, b) ==
    /\ Primitive(f, IF b THEN "unmask" ELSE "mask")
    /\ b # flag[f]
    /\ \/ /\ b /\ ~windDown[f] /\ interrupted[f]
          /\ cur' = [cur EXCEPT ![f] = "fail"]
          /\ UNCHANGED <<flag, stack>>
       \/ /\ ~(b /\ ~windDown[f] /\ interrupted[f])
          /\ flag' = [flag EXCEPT ![f] = b]
          /\ stack' = [stack EXCEPT ![f] = @ \o <<Then("next"), Revert(flag[f])>>]
          /\ UNCHANGED cur
    /\ UNCHANGED <<thread, inStart, mailVars, loop, windDown, signalVars, exitValue,
                   asyncVars, historyVars>>

(* catchAllCause around the rest of a region. *)
CatchAll(f) ==
    /\ Primitive(f, "catch")
    /\ stack' = [stack EXCEPT ![f] = @ \o <<Then("next"), Catch>>]
    /\ UNCHANGED <<thread, inStart, mailVars, loop, cur, flag, windDown, signalVars,
                   exitValue, asyncVars, historyVars>>

Fail(f) ==
    /\ Primitive(f, "fail")
    /\ cur' = [cur EXCEPT ![f] = "fail"]
    /\ UNCHANGED <<thread, inStart, mailVars, loop, stack, flag, windDown, signalVars,
                   exitValue, asyncVars, historyVars>>

(* The region, or the whole program, ends with a value. *)
Return(f) ==
    /\ Turn(f)
    /\ cur[f] = "next"
    /\ cur' = [cur EXCEPT ![f] = "ok"]
    /\ UNCHANGED <<thread, inStart, mailVars, loop, stack, flag, windDown, signalVars,
                   exitValue, asyncVars, program, historyVars>>

-----------------------------------------------------------------------------
(* Unwinding a result through the continuations.                           *)

Unwinding(f, r, k) ==
    Turn(f) /\ cur[f] = r /\ stack[f] # <<>> /\ Top(f).k = k

unwindFrame == <<thread, inStart, loop, windDown, signalVars, exitValue, asyncVars, program,
                 historyVars>>

OnSuccess(f) ==
    /\ \/ Unwinding(f, "ok", "Then") /\ cur' = [cur EXCEPT ![f] = Top(f).c]
       \/ Unwinding(f, "fail", "Then") /\ UNCHANGED cur
    /\ stack' = [stack EXCEPT ![f] = Pop(f)]
    /\ UNCHANGED <<unwindFrame, mailVars, flag>>

(* A handler is skipped while the fiber is being interrupted. *)
OnFailure(f) ==
    /\ \/ Unwinding(f, "ok", "Catch") /\ UNCHANGED cur
       \/ Unwinding(f, "fail", "Catch") /\ Interrupting(f) /\ UNCHANGED cur
       \/ /\ Unwinding(f, "fail", "Catch") /\ ~Interrupting(f)
          /\ cur' = [cur EXCEPT ![f] = "next"]
    /\ stack' = [stack EXCEPT ![f] = Pop(f)]
    /\ UNCHANGED <<unwindFrame, mailVars, flag>>

(* Mutant: flags go back without a look at the pending interrupt. *)
RevertedOnly(f) ==
    /\ flag' = [flag EXCEPT ![f] = Top(f).to]
    /\ stack' = [stack EXCEPT ![f] = Pop(f)]
    /\ UNCHANGED <<unwindFrame, cur>>

(* Flags go back; a success becomes the interruption if that makes an      *)
(* interrupted fiber interruptible.                                        *)
Reverted(f) ==
    /\ flag' = [flag EXCEPT ![f] = Top(f).to]
    /\ stack' = [stack EXCEPT ![f] = Pop(f)]
    /\ cur' = [cur EXCEPT ![f] =
                  IF Top(f).to /\ ~windDown[f] /\ interrupted[f] THEN "fail" ELSE @]
    /\ UNCHANGED unwindFrame

RevertFlags(f) ==
    /\ \E r \in Results : Unwinding(f, r, "Revert")
    /\ Reverted(f)
    /\ UNCHANGED mailVars

(* Leaving an await.  An interruption runs the canceler. *)
AwaitExit(f) ==
    /\ \/ Unwinding(f, "ok", "Await") /\ UNCHANGED mailVars
       \/ /\ Unwinding(f, "fail", "Await")
          /\ Tell(queue, {Top(f).on}, RemoveObserver(f, Top(f).cb))
    /\ Reverted(f)

(* Mutant: winding down awaits the first child only. *)
ChildrenFirst(f) ==
    /\ Unwinding(f, "ok", "Children")
    /\ \E c \in Top(f).rest : SuspendOn(f, c, Append(Pop(f), Children({}, Top(f).exit)))
    /\ UNCHANGED program

(* The loop of interruptAllChildren awaits the children one by one. *)
ChildrenNext(f) ==
    /\ Unwinding(f, "ok", "Children")
    /\ \E c \in Top(f).rest :
          SuspendOn(f, c, Append(Pop(f), Children(Top(f).rest \ {c}, Top(f).exit)))
    /\ UNCHANGED program

ChildrenDone(f) ==
    /\ Unwinding(f, "ok", "Children")
    /\ Top(f).rest = {}
    /\ cur' = [cur EXCEPT ![f] = Top(f).exit]
    /\ stack' = [stack EXCEPT ![f] = Pop(f)]
    /\ UNCHANGED <<unwindFrame, mailVars, flag>>

-----------------------------------------------------------------------------
(* runLoop returns an exit: evaluateEffect winds the fiber down.           *)

LoopReturn(f) ==
    /\ thread = f /\ loop[f] = "running"
    /\ cur[f] \in Results
    /\ stack[f] = <<>>
    /\ windDown' = [windDown EXCEPT ![f] = TRUE]
    /\ verdict' = [verdict EXCEPT ![f] = IF @ = None THEN cur[f] ELSE @]

(* Children are interrupted and awaited before the exit is returned again. *)
WindDownChildren(f) ==
    /\ LoopReturn(f)
    /\ children[f] # {}
    /\ Tell(queue, children[f], Interrupt)
    /\ children' = [children EXCEPT ![f] = {}]
    /\ stack' = [stack EXCEPT ![f] = <<Children(children[f], cur[f])>>]
    /\ cur' = [cur EXCEPT ![f] = "ok"]
    /\ UNCHANGED <<thread, inStart, loop, flag, interrupted, observers, exitValue,
                   asyncVars, program, scope>>

(* Messages told by the last primitive are executed before the end. *)
WindDownMessages(f) ==
    /\ LoopReturn(f)
    /\ children[f] = {} /\ queue[f] # <<>>
    /\ Tell(queue, {f}, Resume(cur[f]))
    /\ loop' = [loop EXCEPT ![f] = "idle"]
    /\ UNCHANGED <<thread, inStart, cur, stack, flag, signalVars, exitValue, asyncVars,
                   program, scope>>

(* setExitValue calls every observer: awaiting fibers are resumed, the     *)
(* fiber leaves the children of its parent.                                *)
SetExitValue(f) ==
    LET cbs == AwaitingCallbacks(f) IN
    /\ LoopReturn(f)
    /\ children[f] = {} /\ queue[f] = <<>>
    /\ exitValue' = [exitValue EXCEPT ![f] = cur[f]]
    /\ loop' = [loop EXCEPT ![f] = "idle"]
    /\ Tell(queue, Fresh(cbs), Resume("ok"))
    /\ called' = Called(cbs)
    /\ children' = [p \in Fibers |->
          IF ChildObserver(p) \in observers[f] THEN children[p] \ {f} ELSE children[p]]
    /\ UNCHANGED <<thread, inStart, cur, stack, flag, interrupted, observers,
                   asyncInterruptor, asyncs, external, program, scope>>

-----------------------------------------------------------------------------
(* Code outside the fibers calls a callback it holds, once or more often.  *)
ExternalCall(f, n) ==
    /\ thread = NoFiber
    /\ n \in external[f]
    /\ Tell(queue, Fresh({<<f, n>>}), Resume("ok"))
    /\ called' = Called({<<f, n>>})
    /\ UNCHANGED <<thread, inStart, evalVars, signalVars, exitValue, asyncInterruptor,
                   asyncs, external, program, historyVars>>

Handle(f) ==
    \/ HandleResume(f) \/ HandleInterrupt(f) \/ RunInterrupt(f)
    \/ HandleAddObserver(f) \/ HandleRemoveObserver(f) \/ HandleAddChild(f)

Evaluate(f) ==
    \/ \E c \in Fibers : \E p \in Scopes[f] : Fork(f, c, p)
    \/ \E g \in Fibers : InterruptFiber(f, g)
    \/ \E g \in Fibers : Await(f, g)
    \/ \E b \in BOOLEAN : Region(f, b)
    \/ Async(f) \/ Yield(f) \/ CatchAll(f) \/ Fail(f) \/ Return(f)

Unwind(f) ==
    \/ OnSuccess(f) \/ OnFailure(f) \/ RevertFlags(f) \/ AwaitExit(f)
    \/ ChildrenNext(f) \/ ChildrenDone(f)

WindDown(f) == WindDownChildren(f) \/ WindDownMessages(f) \/ SetExitValue(f)

(* The fiber on the thread takes its next step. *)
Advance(f) ==
    \/ StartReturn(f) \/ DrainDone(f) \/ DrainYield(f)
    \/ Handle(f) \/ Evaluate(f) \/ Unwind(f) \/ WindDown(f)

Next ==
    \/ Start
    \/ \E f \in Fibers : Advance(f) \/ Run(f)
    \/ \E f \in Fibers : \E n \in external[f] : ExternalCall(f, n)

Spec == Init /\ [][Next]_vars

(* The event loop runs every task, and a task runs to its end. *)
Fairness ==
    /\ WF_vars(Start)
    /\ \A f \in Fibers : WF_vars(Advance(f)) /\ WF_vars(Run(f))

FairSpec == Spec /\ Fairness

-----------------------------------------------------------------------------
(* Properties.                                                             *)

TypeOK ==
    /\ thread \in Fibers \cup {NoFiber}
    /\ inStart \in BOOLEAN
    /\ queue \in [Fibers -> Seq(Messages)]
    /\ running \in [Fibers -> BOOLEAN]
    /\ scheduled \in [Fibers -> Nat]
    /\ loop \in [Fibers -> {"unborn", "idle", "running"}]
    /\ cur \in [Fibers -> {"next", "ok", "fail"}]
    /\ stack \in [Fibers -> Seq(Frames)]
    /\ flag \in [Fibers -> BOOLEAN]
    /\ windDown \in [Fibers -> BOOLEAN]
    /\ interrupted \in [Fibers -> BOOLEAN]
    /\ children \in [Fibers -> SUBSET Fibers]
    /\ observers \in [Fibers -> SUBSET [kind: {"await", "child"}, who: Fibers, cb: Nat]]
    /\ exitValue \in [Fibers -> Results \cup {None}]
    /\ asyncInterruptor \in [Fibers -> Nat]
    /\ asyncs \in [Fibers -> Nat]
    /\ called \in [Fibers -> SUBSET Nat]
    /\ external \in [Fibers -> SUBSET Nat]
    /\ program \in [Fibers -> Seq(SUBSET Primitives)]
    /\ scope \in [Fibers -> Fibers \cup {NoFiber}]
    /\ verdict \in [Fibers -> Results \cup {None}]

Mail(q, tags) == {i \in 1 .. Len(q) : q[i].tag \in tags}
Silent(q) == Mail(q, {"Resume", "YieldNow"}) = {}

(* A fiber has one continuation: while its run loop is active, and once it *)
(* is done, no resumption of it is on its way.  This is what keeps the run *)
(* loop from meeting a Resume ("It is illegal to have multiple concurrent  *)
(* run loops in a single fiber", fiberRuntime.ts:164).                     *)
SingleRunLoop ==
    \A f \in Fibers :
        loop[f] = "running" \/ Done(f) => Silent(queue[f])

(* One resumption in an inbox, after the yields. *)
Orderly(q) ==
    /\ \A i, j \in Mail(q, {"Resume"}) : i = j
    /\ \A i \in Mail(q, {"YieldNow"}) : \E j \in Mail(q, {"Resume"}) : i < j

Continuation(f) ==
    /\ Uncalled(f) \subseteq {asyncs[f]}
    /\ Orderly(queue[f])
    /\ Done(f) => loop[f] = "idle"
    /\ loop[f] # "idle" \/ Done(f) => Silent(queue[f]) /\ Uncalled(f) = {}
    /\ Uncalled(f) # {} => Silent(queue[f])

(* Why that holds: a suspended fiber is resumed either by the one callback *)
(* it has not seen called yet, the last it made, or by the one message in  *)
(* its inbox, never by both (initiateAsync's alreadyCalled).               *)
OneContinuation == \A f \in Fibers : Continuation(f)

(* No lost wake-up: a fiber with messages holds the thread or a drain of   *)
(* its inbox is scheduled (the _running handshake of tell, start and       *)
(* drainQueueOnCurrentThread).                                             *)
NoStrandedMessage ==
    \A f \in Fibers : queue[f] # <<>> => thread = f \/ scheduled[f] > 0

(* An interrupted fiber in an interruptible region evaluates nothing but   *)
(* the interruption: the program takes no further step there.              *)
InterruptedMakesNoProgress ==
    \A f \in Fibers : loop[f] = "running" /\ Interrupting(f) => cur[f] = "fail"

(* The exit of the first run loop is the exit of the fiber, whatever       *)
(* arrives while it winds down; and await returns only when there is one,  *)
(* whatever callbacks and cancelers of earlier awaits are on their way.    *)
ExitIsVerdict == \A f \in Fibers : Done(f) => exitValue[f] = verdict[f]

AwaitReturnsExit ==
    \A f \in Fibers :
        loop[f] = "running" /\ stack[f] # <<>> /\ cur[f] = "ok" =>
            (Top(f).k = "Await" => Done(Top(f).on))

ExitsAreRight == ExitIsVerdict /\ AwaitReturnsExit

(* Structured concurrency: a fiber exits after the fibers in its scope,    *)
(* when only the fiber itself forks into its scope.                        *)
ChildrenExitFirst ==
    \A f, c \in Fibers : Done(f) /\ Born(c) /\ scope[c] = f => Done(c)

Quiet == thread = NoFiber /\ \A f \in Fibers : queue[f] = <<>>

WaitsFor(f) ==
    \/ asyncs[f] \in external[f] \ called[f]
    \/ Top(f).k = "Await" /\ ~Done(Top(f).on) /\ Top(f).cb = asyncs[f]

(* Nothing is left behind: once no message is on its way, every fiber that *)
(* is not done waits for an operation that did not complete or for a fiber *)
(* that is not done, and no interrupt it could react to was lost; every    *)
(* observer of a live fiber is a suspended await, so awaits that were      *)
(* interrupted left none behind.                                           *)
FibersWait ==
    \A f \in Fibers : Born(f) /\ ~Done(f) =>
        loop[f] = "idle" /\ WaitsFor(f) /\ ~Interrupting(f)

ObserversArePending ==
    \A g \in Fibers : ~Done(g) =>
        \A o \in observers[g] : o.kind = "await" =>
            /\ loop[o.who] = "idle" /\ stack[o.who] # <<>>
            /\ Top(o.who).k = "Await" /\ Top(o.who).cb = o.cb

NothingLeftBehind == Quiet => FibersWait /\ ObserversArePending

(* A fiber ends once: no later message evaluates anything on it or changes *)
(* its exit.                                                               *)
DoneIsFinal ==
    [][\A f \in Fibers : Done(f) =>
          exitValue'[f] = exitValue[f] /\ loop'[f] = "idle" /\ stack'[f] = stack[f]]_vars

(* An interrupt reaches a fiber suspended in an interruptible region, even *)
(* if the operation it waits for never completes.                          *)
InterruptWakes ==
    \A f \in Fibers :
        (loop[f] = "idle" /\ asyncInterruptor[f] # 0 /\ Mail(queue[f], {"Interrupt"}) # {})
            ~> loop[f] = "running"

OperationsComplete == []<>(\A f \in Fibers : external[f] \subseteq called[f])

(* If asynchronous operations complete and awaits form no cycle, every     *)
(* fiber ends; in particular winding down never hangs on a child.          *)
EveryFiberExits == OperationsComplete => \A f \in Fibers : Born(f) ~> Done(f)

===============================================================================
