-------------------------- MODULE FiberRuntimeProofs --------------------------
(***************************************************************************)
(* Proofs about FiberRuntime for any set of fibers and any programs: type  *)
(* correctness, that no message waits for a later one, that an interrupted *)
(* fiber evaluates nothing but the interruption, that a fiber never has    *)
(* two continuations (the invariant TypeOK /\ OneContinuation); and how    *)
(* fibers end: with the exit the run loop came to first, after the fibers  *)
(* in their scope, and none waits for what is not still to come.           *)
(***************************************************************************)
EXTENDS FiberRuntime, TLAPS

-----------------------------------------------------------------------------
(* Types of the helpers.                                                   *)

(* The message constructors build messages. *)
LEMMA MessageTypes ==
    /\ Interrupt \in Messages /\ YieldNow \in Messages
    /\ \A e \in {"next", "ok", "fail"} : Resume(e) \in Messages
    /\ \A f \in Fibers, n \in Nat :
          AddObserver(f, n) \in Messages /\ RemoveObserver(f, n) \in Messages
    /\ \A f \in Fibers : AddChild(f) \in Messages
  BY DEF Messages, Interrupt, YieldNow, Resume, AddObserver, RemoveObserver, AddChild

(* What a message of a kind carries. *)
LEMMA MessageParts ==
    ASSUME NEW m \in Messages
    PROVE  /\ m.tag = "Resume" => m.eff \in {"next", "ok", "fail"}
           /\ m.tag \in {"AddObserver", "RemoveObserver"} => m.who \in Fibers /\ m.cb \in Nat
           /\ m.tag = "AddChild" => m.child \in Fibers
  BY DEF Messages, Interrupt, YieldNow

(* Offering a message to some inboxes gives inboxes. *)
LEMMA OfferedType ==
    ASSUME NEW q \in [Fibers -> Seq(Messages)], NEW to, NEW m \in Messages
    PROVE  Offered(q, to, m) \in [Fibers -> Seq(Messages)]
  BY DEF Offered

(* Polling an inbox that is not empty gives inboxes and a message. *)
LEMMA PolledType ==
    ASSUME TypeOK, NEW f \in Fibers, queue[f] # <<>>
    PROVE  /\ Polled(f) \in [Fibers -> Seq(Messages)]
           /\ Head(queue[f]) \in Messages
  BY DEF Polled, TypeOK

(* Wake keeps the types of running and scheduled. *)
LEMMA WakeType ==
    ASSUME TypeOK, NEW to, Wake(to)
    PROVE  running' \in [Fibers -> BOOLEAN] /\ scheduled' \in [Fibers -> Nat]
  BY DEF Wake, TypeOK

(* Marking callbacks as called keeps the type of called. *)
LEMMA CalledType ==
    ASSUME TypeOK, NEW cbs
    PROVE  Called(cbs) \in [Fibers -> SUBSET Nat]
  BY DEF Called, TypeOK

(* The continuation constructors build continuations. *)
LEMMA FrameTypes ==
    /\ Catch \in Frames
    /\ \A c \in {"next", "ok", "fail"} : Then(c) \in Frames
    /\ \A b \in BOOLEAN : Revert(b) \in Frames
    /\ \A b \in BOOLEAN, g \in Fibers, n \in Nat : Awaiting(b, g, n) \in Frames
    /\ \A cs \in SUBSET Fibers, r \in Results : Children(cs, r) \in Frames
  BY DEF Frames, Catch, Then, Revert, Awaiting, Children

(* What a continuation of a kind carries. *)
LEMMA FrameParts ==
    ASSUME NEW k \in Frames
    PROVE  /\ k.k = "Then" => k.c \in {"next", "ok", "fail"}
           /\ k.k \in {"Revert", "Await"} => k.to \in BOOLEAN
           /\ k.k = "Await" => k.on \in Fibers /\ k.cb \in Nat
           /\ k.k = "Children" => k.rest \in SUBSET Fibers /\ k.exit \in Results
  BY DEF Frames, Catch

(* The top of a stack is a continuation, what is below it a stack. *)
LEMMA StackParts ==
    ASSUME TypeOK, NEW f \in Fibers, stack[f] # <<>>
    PROVE  Top(f) \in Frames /\ Pop(f) \in Seq(Frames)
  BY DEF TypeOK, Top, Pop

(* What is left of a program is a program. *)
LEMMA EvaluatesType ==
    ASSUME TypeOK, NEW f \in Fibers, NEW p, Evaluates(f, p)
    PROVE  program' \in [Fibers -> Seq(SUBSET Primitives)]
<1>1. program \in [Fibers -> Seq(SUBSET Primitives)]
  BY DEF TypeOK
<1>2. program[f] # <<>> /\ program' = [program EXCEPT ![f] = Tail(program[f])]
  BY DEF Evaluates
<1>3. Tail(program[f]) \in Seq(SUBSET Primitives)
  BY <1>1, <1>2
<1> QED
  BY <1>1, <1>2, <1>3

-----------------------------------------------------------------------------
(* TypeOK in groups of variables, those that actions leave alone together. *)

ThreadType == thread \in Fibers \cup {NoFiber} /\ inStart \in BOOLEAN

MailType ==
    /\ queue \in [Fibers -> Seq(Messages)]
    /\ running \in [Fibers -> BOOLEAN]
    /\ scheduled \in [Fibers -> Nat]

EvalType ==
    /\ loop \in [Fibers -> {"unborn", "idle", "running"}]
    /\ cur \in [Fibers -> {"next", "ok", "fail"}]
    /\ stack \in [Fibers -> Seq(Frames)]
    /\ flag \in [Fibers -> BOOLEAN]
    /\ windDown \in [Fibers -> BOOLEAN]

SignalType ==
    /\ interrupted \in [Fibers -> BOOLEAN]
    /\ children \in [Fibers -> SUBSET Fibers]
    /\ observers \in [Fibers -> SUBSET [kind: {"await", "child"}, who: Fibers, cb: Nat]]

AsyncType ==
    /\ asyncInterruptor \in [Fibers -> Nat]
    /\ asyncs \in [Fibers -> Nat]
    /\ called \in [Fibers -> SUBSET Nat]
    /\ external \in [Fibers -> SUBSET Nat]

ExitType == exitValue \in [Fibers -> Results \cup {None}]
ProgramType == program \in [Fibers -> Seq(SUBSET Primitives)]

HistoryType ==
    /\ scope \in [Fibers -> Fibers \cup {NoFiber}]
    /\ verdict \in [Fibers -> Results \cup {None}]

GroupTypes == /\ ThreadType /\ MailType /\ EvalType /\ SignalType
              /\ AsyncType /\ ExitType /\ ProgramType /\ HistoryType

(* The type invariant is the conjunction of its parts per group of variables. *)
LEMMA TypeGroups == (TypeOK <=> GroupTypes) /\ (TypeOK' <=> GroupTypes')
  BY DEF TypeOK, GroupTypes, ThreadType, MailType, EvalType, SignalType, AsyncType,
         ExitType, ProgramType, HistoryType

(* A group of variables that does not change keeps its types. *)
LEMMA UnchangedTypes ==
    /\ MailType /\ UNCHANGED mailVars => MailType'
    /\ EvalType /\ UNCHANGED evalVars => EvalType'
    /\ SignalType /\ UNCHANGED signalVars => SignalType'
    /\ AsyncType /\ UNCHANGED asyncVars => AsyncType'
    /\ HistoryType /\ UNCHANGED historyVars => HistoryType'
  BY DEF MailType, EvalType, SignalType, AsyncType, HistoryType,
         mailVars, evalVars, signalVars, asyncVars, historyVars

(* tell keeps the types of the mail variables. *)
LEMMA TellType ==
    ASSUME MailType, NEW q \in [Fibers -> Seq(Messages)], NEW to, NEW m \in Messages,
           Tell(q, to, m)
    PROVE  MailType'
<1>1. Offered(q, to, m) \in [Fibers -> Seq(Messages)]
  BY OfferedType
<1>2. queue' \in [Fibers -> Seq(Messages)]
  BY <1>1 DEF Tell
<1>3. running' \in [Fibers -> BOOLEAN] /\ scheduled' \in [Fibers -> Nat]
  BY DEF Tell, Wake, MailType
<1> QED
  BY <1>2, <1>3 DEF MailType

(* Suspending on the exit of a fiber keeps every type. *)
LEMMA SuspendTypes ==
    ASSUME TypeOK, NEW f \in Fibers, NEW g \in Fibers, NEW base \in Seq(Frames),
           SuspendOn(f, g, base)
    PROVE  ThreadType' /\ MailType' /\ EvalType' /\ SignalType' /\ AsyncType' /\ ExitType'
           /\ HistoryType'
<1> DEFINE n == asyncs[f] + 1
<1>a. GroupTypes
  BY TypeGroups
<1> USE <1>a DEF GroupTypes
<1>1. n \in Nat
  BY DEF AsyncType
<1>2. AddObserver(f, n) \in Messages
  BY <1>1, MessageTypes
<1>3. Awaiting(flag[f], g, n) \in Frames
  BY <1>1, FrameTypes DEF EvalType
<1>4. MailType'
  BY <1>2, TellType DEF SuspendOn, MailType
<1>5. EvalType'
  BY <1>3 DEF SuspendOn, EvalType
<1>6. AsyncType'
  BY <1>1 DEF SuspendOn, AsyncType
<1>7. ThreadType' /\ SignalType' /\ ExitType' /\ HistoryType'
  BY UnchangedTypes DEF SuspendOn, ThreadType, ExitType
<1> QED
  BY <1>4, <1>5, <1>6, <1>7

-----------------------------------------------------------------------------
(* Type correctness: every variable keeps the type TypeOK gives it. *)
THEOREM TypeCorrect == Spec => []TypeOK
<1>1. Init => TypeOK
  <2> SUFFICES ASSUME Init
               PROVE  TypeOK
    OBVIOUS
  <2>1. ThreadType
    BY DEF Init, ThreadType
  <2>6. MailType
    <3>1. \A f \in Fibers : queue[f] \in Seq(Messages)
      BY DEF Init
    <3> QED
      BY <3>1 DEF Init, MailType
  <2>4. SignalType
    BY DEF Init, SignalType
  <2>5. AsyncType
    BY DEF Init, AsyncType
  <2>2. EvalType
    BY DEF Init, EvalType
  <2>3. ProgramType /\ ExitType /\ HistoryType
    BY ProgramsAssumption DEF Init, ProgramType, ExitType, HistoryType
  <2> QED
    BY TypeGroups, <2>1, <2>2, <2>3, <2>4, <2>5, <2>6 DEF GroupTypes
<1>2. TypeOK /\ [Next]_vars => TypeOK'
  <2> SUFFICES ASSUME TypeOK, [Next]_vars
               PROVE  TypeOK'
    OBVIOUS
  <2>a. /\ ThreadType /\ MailType /\ EvalType /\ SignalType
        /\ AsyncType /\ ExitType /\ ProgramType /\ HistoryType
    BY TypeGroups DEF GroupTypes
  <2> USE <2>a
  <2>1. ASSUME Start
        PROVE  TypeOK'
    <3>1. ThreadType'
      BY <2>1, RootAssumption DEF Start, ThreadType
    <3>2. MailType'
      BY <2>1 DEF Start, MailType
    <3>3. EvalType'
      BY <2>1, RootAssumption DEF Start, EvalType
    <3>4. SignalType' /\ AsyncType' /\ ExitType' /\ ProgramType' /\ HistoryType'
      BY <2>1, UnchangedTypes DEF Start, ExitType, ProgramType
    <3> QED
      BY TypeGroups, <3>1, <3>2, <3>3, <3>4 DEF GroupTypes
  <2>2. ASSUME NEW f \in Fibers, StartReturn(f)
        PROVE  TypeOK'
    <3>1. ThreadType'
      BY <2>2 DEF StartReturn, ThreadType
    <3>2. MailType'
      BY <2>2 DEF StartReturn, MailType
    <3>3. EvalType' /\ SignalType' /\ AsyncType' /\ ExitType' /\ ProgramType' /\ HistoryType'
      BY <2>2, UnchangedTypes DEF StartReturn, ExitType, ProgramType
    <3> QED
      BY TypeGroups, <3>1, <3>2, <3>3 DEF GroupTypes
  <2>3. ASSUME NEW f \in Fibers, Run(f)
        PROVE  TypeOK'
    <3>1. ThreadType'
      BY <2>3 DEF Run, ThreadType
    <3>2. MailType'
      BY <2>3 DEF Run, MailType
    <3>3. EvalType' /\ SignalType' /\ AsyncType' /\ ExitType' /\ ProgramType' /\ HistoryType'
      BY <2>3, UnchangedTypes DEF Run, ExitType, ProgramType
    <3> QED
      BY TypeGroups, <3>1, <3>2, <3>3 DEF GroupTypes
  <2>4. ASSUME NEW f \in Fibers, DrainDone(f)
        PROVE  TypeOK'
    <3>1. ThreadType'
      BY <2>4 DEF DrainDone, ThreadType
    <3>2. MailType'
      BY <2>4 DEF DrainDone, MailType
    <3>3. EvalType' /\ SignalType' /\ AsyncType' /\ ExitType' /\ ProgramType' /\ HistoryType'
      BY <2>4, UnchangedTypes DEF DrainDone, ExitType, ProgramType
    <3> QED
      BY TypeGroups, <3>1, <3>2, <3>3 DEF GroupTypes
  <2>5. ASSUME NEW f \in Fibers, DrainYield(f)
        PROVE  TypeOK'
    <3>1. ThreadType'
      BY <2>5 DEF DrainYield, Receives, ThreadType
    <3>2. MailType'
      BY <2>5, PolledType DEF DrainYield, Receives, MailType
    <3>3. EvalType' /\ SignalType' /\ AsyncType' /\ ExitType' /\ ProgramType' /\ HistoryType'
      BY <2>5, UnchangedTypes DEF DrainYield, Receives, ExitType, ProgramType
    <3> QED
      BY TypeGroups, <3>1, <3>2, <3>3 DEF GroupTypes
  <2>6. ASSUME NEW f \in Fibers, HandleResume(f)
        PROVE  TypeOK'
    <3>1. MailType'
      BY <2>6, PolledType DEF HandleResume, Receives, MailType
    <3>2. EvalType'
      BY <2>6, PolledType, MessageParts DEF HandleResume, Receives, EvalType
    <3>3. AsyncType'
      BY <2>6 DEF HandleResume, Receives, AsyncType
    <3>4. ThreadType' /\ SignalType' /\ ExitType' /\ ProgramType' /\ HistoryType'
      BY <2>6, UnchangedTypes DEF HandleResume, Receives, ThreadType, ExitType, ProgramType
    <3> QED
      BY TypeGroups, <3>1, <3>2, <3>3, <3>4 DEF GroupTypes
  <2>7. ASSUME NEW f \in Fibers, HandleInterrupt(f)
        PROVE  TypeOK'
    <3>1. MailType'
      BY <2>7, PolledType, OfferedType, MessageTypes, WakeType
         DEF HandleInterrupt, Receives, MailType
    <3>2. SignalType'
      BY <2>7 DEF HandleInterrupt, Receives, SignalType
    <3>3. AsyncType'
      BY <2>7, CalledType DEF HandleInterrupt, Receives, AsyncType
    <3>4. ThreadType' /\ EvalType' /\ ExitType' /\ ProgramType' /\ HistoryType'
      BY <2>7, UnchangedTypes DEF HandleInterrupt, Receives, ThreadType, ExitType, ProgramType
    <3> QED
      BY TypeGroups, <3>1, <3>2, <3>3, <3>4 DEF GroupTypes
  <2>8. ASSUME NEW f \in Fibers, RunInterrupt(f)
        PROVE  TypeOK'
    <3>1. MailType'
      BY <2>8, PolledType, TellType, MessageTypes DEF RunInterrupt, Receives, MailType
    <3>2. EvalType'
      BY <2>8 DEF RunInterrupt, Receives, EvalType
    <3>3. SignalType'
      BY <2>8 DEF RunInterrupt, Receives, SignalType
    <3>4. ThreadType' /\ AsyncType' /\ ExitType' /\ ProgramType' /\ HistoryType'
      BY <2>8, UnchangedTypes DEF RunInterrupt, Receives, ThreadType, ExitType, ProgramType
    <3> QED
      BY TypeGroups, <3>1, <3>2, <3>3, <3>4 DEF GroupTypes
  <2>9. ASSUME NEW f \in Fibers, HandleAddObserver(f)
        PROVE  TypeOK'
    <3>1. MailType'
      BY <2>9, PolledType, TellType, MessageTypes
         DEF HandleAddObserver, Handling, Receives, AwaitObserver, MailType
    <3>2. SignalType'
      <4> DEFINE m == Head(queue[f])
      <4>1. m \in Messages /\ m.tag = "AddObserver"
        BY <2>9, PolledType DEF HandleAddObserver, Handling, Receives
      <4>2. AwaitObserver(m.who, m.cb) \in [kind: {"await", "child"}, who: Fibers, cb: Nat]
        BY <4>1, MessageParts DEF AwaitObserver
      <4> QED
        BY <2>9, <4>2 DEF HandleAddObserver, SignalType
    <3>3. AsyncType'
      BY <2>9, CalledType DEF HandleAddObserver, Handling, Receives, AwaitObserver, AsyncType
    <3>4. ThreadType' /\ EvalType' /\ ExitType' /\ ProgramType' /\ HistoryType'
      BY <2>9, UnchangedTypes
         DEF HandleAddObserver, Handling, Receives, AwaitObserver, ThreadType, ExitType, ProgramType
    <3> QED
      BY TypeGroups, <3>1, <3>2, <3>3, <3>4 DEF GroupTypes
  <2>10. ASSUME NEW f \in Fibers, HandleRemoveObserver(f)
        PROVE  TypeOK'
    <3>1. MailType'
      BY <2>10, PolledType DEF HandleRemoveObserver, Handling, Receives, MailType
    <3>2. SignalType'
      BY <2>10 DEF HandleRemoveObserver, Handling, Receives, SignalType
    <3>3. ThreadType' /\ EvalType' /\ AsyncType' /\ ExitType' /\ ProgramType' /\ HistoryType'
      BY <2>10, UnchangedTypes
         DEF HandleRemoveObserver, Handling, Receives, ThreadType, ExitType, ProgramType
    <3> QED
      BY TypeGroups, <3>1, <3>2, <3>3 DEF GroupTypes
  <2>11. ASSUME NEW f \in Fibers, HandleAddChild(f)
        PROVE  TypeOK'
    <3>1. MailType'
      BY <2>11, PolledType DEF HandleAddChild, Handling, Receives, ChildObserver, MailType
    <3>2. SignalType'
      <4> DEFINE c == Head(queue[f]).child
      <4>1. c \in Fibers
        BY <2>11, PolledType, MessageParts DEF HandleAddChild, Handling, Receives
      <4>2. ChildObserver(f) \in [kind: {"await", "child"}, who: Fibers, cb: Nat]
        BY DEF ChildObserver
      <4> QED
        BY <2>11, <4>1, <4>2 DEF HandleAddChild, SignalType
    <3>3. ThreadType' /\ EvalType' /\ AsyncType' /\ ExitType' /\ ProgramType' /\ HistoryType'
      BY <2>11, UnchangedTypes
         DEF HandleAddChild, Handling, Receives, ChildObserver, ThreadType, ExitType, ProgramType
    <3> QED
      BY TypeGroups, <3>1, <3>2, <3>3 DEF GroupTypes
  <2>12. ASSUME NEW f \in Fibers, NEW c \in Fibers, NEW p \in Scopes[f], Fork(f, c, p)
        PROVE  TypeOK'
    <3>1. MailType'
      BY <2>12, OfferedType, MessageTypes, WakeType DEF Fork, Primitive, MailType
    <3>2. EvalType'
      BY <2>12 DEF Fork, Primitive, EvalType
    <3>3. ProgramType'
      BY <2>12, EvaluatesType DEF Fork, Primitive, ProgramType
    <3>4. HistoryType'
      BY <2>12, ScopesAssumption DEF Fork, Primitive, HistoryType
    <3>5. ThreadType' /\ SignalType' /\ AsyncType' /\ ExitType'
      BY <2>12, UnchangedTypes DEF Fork, Primitive, ThreadType, ExitType
    <3> QED
      BY TypeGroups, <3>1, <3>2, <3>3, <3>4, <3>5 DEF GroupTypes
  <2>13. ASSUME NEW f \in Fibers, NEW g \in Fibers, InterruptFiber(f, g)
        PROVE  TypeOK'
    <3>1. MailType'
      BY <2>13, TellType, MessageTypes DEF InterruptFiber, Primitive, MailType
    <3>2. EvalType'
      BY <2>13 DEF InterruptFiber, Primitive, EvalType
    <3>3. ProgramType'
      BY <2>13, EvaluatesType DEF InterruptFiber, Primitive, ProgramType
    <3>4. ThreadType' /\ SignalType' /\ AsyncType' /\ ExitType' /\ HistoryType'
      BY <2>13, UnchangedTypes DEF InterruptFiber, Primitive, ThreadType, ExitType
    <3> QED
      BY TypeGroups, <3>1, <3>2, <3>3, <3>4 DEF GroupTypes
  <2>14. ASSUME NEW f \in Fibers, Async(f)
        PROVE  TypeOK'
    <3>1. MailType'
      <4>1. CASE UNCHANGED mailVars
        BY <4>1, UnchangedTypes
      <4>2. CASE Tell(queue, {f}, Resume("ok"))
        BY <4>2, TellType, MessageTypes DEF MailType
      <4> QED
        BY <2>14, <4>1, <4>2 DEF Async, mailVars
    <3>2. EvalType'
      BY <2>14, FrameTypes DEF Async, Primitive, EvalType
    <3>3. AsyncType'
      BY <2>14 DEF Async, Primitive, AsyncType
    <3>4. ProgramType'
      BY <2>14, EvaluatesType DEF Async, Primitive, ProgramType
    <3>5. ThreadType' /\ SignalType' /\ ExitType' /\ HistoryType'
      BY <2>14, UnchangedTypes DEF Async, Primitive, ThreadType, ExitType
    <3> QED
      BY TypeGroups, <3>1, <3>2, <3>3, <3>4, <3>5 DEF GroupTypes
  <2>15. ASSUME NEW f \in Fibers, NEW g \in Fibers, Await(f, g)
        PROVE  TypeOK'
    <3>1. Append(stack[f], Then("next")) \in Seq(Frames)
      BY FrameTypes DEF EvalType
    <3>2. ProgramType'
      BY <2>15, EvaluatesType DEF Await, Primitive, ProgramType
    <3> QED
      BY TypeGroups, <2>15, <3>1, <3>2, SuspendTypes DEF Await, GroupTypes
  <2>16. ASSUME NEW f \in Fibers, Yield(f)
        PROVE  TypeOK'
    <3>1. MailType'
      BY <2>16, OfferedType, MessageTypes, WakeType DEF Yield, MailType
    <3>2. EvalType'
      <4>1. Then(cur[f]) \in Frames
        BY FrameTypes DEF EvalType
      <4> QED
        BY <2>16, <4>1 DEF Yield, EvalType
    <3>3. ProgramType'
      BY <2>16, EvaluatesType DEF Yield, ProgramType
    <3>4. ThreadType' /\ SignalType' /\ AsyncType' /\ ExitType' /\ HistoryType'
      BY <2>16, UnchangedTypes DEF Yield, ThreadType, ExitType
    <3> QED
      BY TypeGroups, <3>1, <3>2, <3>3, <3>4 DEF GroupTypes
  <2>17. ASSUME NEW f \in Fibers, NEW b \in BOOLEAN, Region(f, b)
        PROVE  TypeOK'
    <3>1. EvalType'
      <4>1. Then("next") \in Frames /\ Revert(flag[f]) \in Frames
        BY FrameTypes DEF EvalType
      <4>2. stack[f] \o <<Then("next"), Revert(flag[f])>> \in Seq(Frames)
        BY <4>1 DEF EvalType
      <4>3. cur' \in [Fibers -> {"next", "ok", "fail"}] /\ flag' \in [Fibers -> BOOLEAN]
        <5>1. cur' = cur \/ cur' = [cur EXCEPT ![f] = "fail"]
          BY <2>17 DEF Region
        <5>2. flag' = flag \/ flag' = [flag EXCEPT ![f] = b]
          BY <2>17 DEF Region
        <5> QED
          BY <5>1, <5>2 DEF EvalType
      <4>4. stack' \in [Fibers -> Seq(Frames)]
        <5>1. stack' = stack
              \/ stack' = [stack EXCEPT ![f] = @ \o <<Then("next"), Revert(flag[f])>>]
          BY <2>17 DEF Region
        <5> QED
          BY <4>2, <5>1 DEF EvalType
      <4>5. UNCHANGED <<loop, windDown>>
        BY <2>17 DEF Region
      <4> QED
        BY <4>3, <4>4, <4>5 DEF EvalType
    <3>2. ProgramType'
      BY <2>17, EvaluatesType DEF Region, Primitive, ProgramType
    <3>3. ThreadType' /\ MailType' /\ SignalType' /\ AsyncType' /\ ExitType' /\ HistoryType'
      BY <2>17, UnchangedTypes DEF Region, Primitive, ThreadType, ExitType
    <3> QED
      BY TypeGroups, <3>1, <3>2, <3>3 DEF GroupTypes
  <2>18. ASSUME NEW f \in Fibers, CatchAll(f)
        PROVE  TypeOK'
    <3>1. EvalType'
      BY <2>18, FrameTypes DEF CatchAll, Primitive, EvalType
    <3>2. ProgramType'
      BY <2>18, EvaluatesType DEF CatchAll, Primitive, ProgramType
    <3>3. ThreadType' /\ MailType' /\ SignalType' /\ AsyncType' /\ ExitType' /\ HistoryType'
      BY <2>18, UnchangedTypes DEF CatchAll, Primitive, ThreadType, ExitType
    <3> QED
      BY TypeGroups, <3>1, <3>2, <3>3 DEF GroupTypes
  <2>19. ASSUME NEW f \in Fibers, Fail(f)
        PROVE  TypeOK'
    <3>1. EvalType'
      BY <2>19 DEF Fail, Primitive, EvalType
    <3>2. ProgramType'
      BY <2>19, EvaluatesType DEF Fail, Primitive, ProgramType
    <3>3. ThreadType' /\ MailType' /\ SignalType' /\ AsyncType' /\ ExitType' /\ HistoryType'
      BY <2>19, UnchangedTypes DEF Fail, Primitive, ThreadType, ExitType
    <3> QED
      BY TypeGroups, <3>1, <3>2, <3>3 DEF GroupTypes
  <2>20. ASSUME NEW f \in Fibers, Return(f)
        PROVE  TypeOK'
    <3>1. EvalType'
      BY <2>20 DEF Return, EvalType
    <3>2. ThreadType' /\ MailType' /\ SignalType' /\ AsyncType'
          /\ ExitType' /\ ProgramType' /\ HistoryType'
      BY <2>20, UnchangedTypes DEF Return, ThreadType, ExitType, ProgramType
    <3> QED
      BY TypeGroups, <3>1, <3>2 DEF GroupTypes
  <2>21. ASSUME NEW f \in Fibers, OnSuccess(f)
        PROVE  TypeOK'
    <3>1. EvalType'
      BY <2>21, StackParts, FrameParts DEF OnSuccess, Unwinding, unwindFrame, EvalType
    <3>2. ThreadType' /\ MailType' /\ SignalType' /\ AsyncType'
          /\ ExitType' /\ ProgramType' /\ HistoryType'
      BY <2>21, UnchangedTypes
         DEF OnSuccess, Unwinding, unwindFrame, ThreadType, ExitType, ProgramType
    <3> QED
      BY TypeGroups, <3>1, <3>2 DEF GroupTypes
  <2>22. ASSUME NEW f \in Fibers, OnFailure(f)
        PROVE  TypeOK'
    <3>1. EvalType'
      BY <2>22, StackParts DEF OnFailure, Unwinding, unwindFrame, EvalType
    <3>2. ThreadType' /\ MailType' /\ SignalType' /\ AsyncType'
          /\ ExitType' /\ ProgramType' /\ HistoryType'
      BY <2>22, UnchangedTypes
         DEF OnFailure, Unwinding, unwindFrame, ThreadType, ExitType, ProgramType
    <3> QED
      BY TypeGroups, <3>1, <3>2 DEF GroupTypes
  <2>23. ASSUME NEW f \in Fibers, RevertFlags(f)
        PROVE  TypeOK'
    <3>1. EvalType'
      BY <2>23, StackParts, FrameParts
         DEF RevertFlags, Unwinding, unwindFrame, Reverted, EvalType
    <3>2. ThreadType' /\ MailType' /\ SignalType' /\ AsyncType'
          /\ ExitType' /\ ProgramType' /\ HistoryType'
      BY <2>23, UnchangedTypes
         DEF RevertFlags, Unwinding, unwindFrame, Reverted, ThreadType, ExitType, ProgramType
    <3> QED
      BY TypeGroups, <3>1, <3>2 DEF GroupTypes
  <2>24. ASSUME NEW f \in Fibers, AwaitExit(f)
        PROVE  TypeOK'
    <3>1. MailType'
      <4>1. CASE UNCHANGED mailVars
        BY <4>1, UnchangedTypes
      <4>2. CASE /\ Unwinding(f, "fail", "Await")
                 /\ Tell(queue, {Top(f).on}, RemoveObserver(f, Top(f).cb))
        <5>1. Top(f).on \in Fibers /\ Top(f).cb \in Nat
          BY <4>2, StackParts, FrameParts DEF Unwinding
        <5>2. RemoveObserver(f, Top(f).cb) \in Messages
          BY <5>1, MessageTypes
        <5> QED
          BY <4>2, <5>2, TellType DEF MailType
      <4> QED
        BY <2>24, <4>1, <4>2 DEF AwaitExit
    <3>2. EvalType'
      BY <2>24, StackParts, FrameParts
         DEF AwaitExit, Unwinding, unwindFrame, Reverted, EvalType
    <3>3. ThreadType' /\ SignalType' /\ AsyncType' /\ ExitType' /\ ProgramType' /\ HistoryType'
      BY <2>24, UnchangedTypes
         DEF AwaitExit, Unwinding, unwindFrame, Reverted, ThreadType, ExitType, ProgramType
    <3> QED
      BY TypeGroups, <3>1, <3>2, <3>3 DEF GroupTypes
  <2>25. ASSUME NEW f \in Fibers, ChildrenNext(f)
        PROVE  TypeOK'
    <3>1. Top(f) \in Frames /\ Top(f).k = "Children" /\ Pop(f) \in Seq(Frames)
      BY <2>25, StackParts DEF ChildrenNext, Unwinding
    <3>2. Top(f).rest \in SUBSET Fibers /\ Top(f).exit \in Results
      BY <3>1, FrameParts
    <3>3. PICK c \in Top(f).rest :
               SuspendOn(f, c, Append(Pop(f), Children(Top(f).rest \ {c}, Top(f).exit)))
      BY <2>25 DEF ChildrenNext
    <3>4. c \in Fibers /\ Top(f).rest \ {c} \in SUBSET Fibers
      BY <3>2
    <3>5. Children(Top(f).rest \ {c}, Top(f).exit) \in Frames
      BY <3>2, <3>4 DEF Frames, Children
    <3>6. Append(Pop(f), Children(Top(f).rest \ {c}, Top(f).exit)) \in Seq(Frames)
      BY <3>1, <3>5
    <3>7. ProgramType'
      BY <2>25 DEF ChildrenNext, ProgramType
    <3> QED
      BY TypeGroups, <3>3, <3>4, <3>6, <3>7, SuspendTypes DEF GroupTypes
  <2>26. ASSUME NEW f \in Fibers, ChildrenDone(f)
        PROVE  TypeOK'
    <3>1. EvalType'
      <4>1. Top(f) \in Frames /\ Top(f).k = "Children" /\ Pop(f) \in Seq(Frames)
        BY <2>26, StackParts DEF ChildrenDone, Unwinding
      <4>2. Top(f).exit \in {"next", "ok", "fail"}
        BY <4>1, FrameParts DEF Results
      <4> QED
        BY <2>26, <4>1, <4>2 DEF ChildrenDone, unwindFrame, EvalType
    <3>2. ThreadType' /\ MailType' /\ SignalType' /\ AsyncType'
          /\ ExitType' /\ ProgramType' /\ HistoryType'
      BY <2>26, UnchangedTypes
         DEF ChildrenDone, Unwinding, unwindFrame, ThreadType, ExitType, ProgramType
    <3> QED
      BY TypeGroups, <3>1, <3>2 DEF GroupTypes
  <2>27. ASSUME NEW f \in Fibers, WindDownChildren(f)
        PROVE  TypeOK'
    <3>1. MailType'
      BY <2>27, TellType, MessageTypes DEF WindDownChildren, LoopReturn, Results, MailType
    <3>2. EvalType'
      <4>1. Children(children[f], cur[f]) \in Frames
        BY <2>27, FrameTypes DEF WindDownChildren, LoopReturn, SignalType
      <4> QED
        BY <2>27, <4>1 DEF WindDownChildren, LoopReturn, EvalType
    <3>3. SignalType'
      BY <2>27 DEF WindDownChildren, LoopReturn, Results, SignalType
    <3>4. HistoryType'
      BY <2>27 DEF WindDownChildren, LoopReturn, Results, HistoryType
    <3>5. ThreadType' /\ AsyncType' /\ ExitType' /\ ProgramType'
      BY <2>27, UnchangedTypes
         DEF WindDownChildren, LoopReturn, Results, ThreadType, ExitType, ProgramType
    <3> QED
      BY TypeGroups, <3>1, <3>2, <3>3, <3>4, <3>5 DEF GroupTypes
  <2>28. ASSUME NEW f \in Fibers, WindDownMessages(f)
        PROVE  TypeOK'
    <3>1. MailType'
      BY <2>28, TellType, MessageTypes DEF WindDownMessages, LoopReturn, Results, MailType
    <3>2. EvalType'
      BY <2>28 DEF WindDownMessages, LoopReturn, Results, EvalType
    <3>3. HistoryType'
      BY <2>28 DEF WindDownMessages, LoopReturn, Results, HistoryType
    <3>4. ThreadType' /\ SignalType' /\ AsyncType' /\ ExitType' /\ ProgramType'
      BY <2>28, UnchangedTypes
         DEF WindDownMessages, LoopReturn, Results, ThreadType, ExitType, ProgramType
    <3> QED
      BY TypeGroups, <3>1, <3>2, <3>3, <3>4 DEF GroupTypes
  <2>29. ASSUME NEW f \in Fibers, SetExitValue(f)
        PROVE  TypeOK'
    <3>1. MailType'
      BY <2>29, TellType, MessageTypes DEF SetExitValue, LoopReturn, Results, MailType
    <3>2. EvalType'
      BY <2>29 DEF SetExitValue, LoopReturn, Results, EvalType
    <3>3. SignalType'
      BY <2>29 DEF SetExitValue, LoopReturn, Results, SignalType
    <3>4. AsyncType'
      BY <2>29, CalledType DEF SetExitValue, LoopReturn, Results, AsyncType
    <3>5. ExitType'
      BY <2>29 DEF SetExitValue, LoopReturn, Results, ExitType
    <3>6. HistoryType'
      BY <2>29 DEF SetExitValue, LoopReturn, Results, HistoryType
    <3>7. ThreadType' /\ ProgramType'
      BY <2>29, UnchangedTypes DEF SetExitValue, LoopReturn, Results, ThreadType, ProgramType
    <3> QED
      BY TypeGroups, <3>1, <3>2, <3>3, <3>4, <3>5, <3>6, <3>7 DEF GroupTypes
  <2>30. ASSUME NEW f \in Fibers, NEW n \in external[f], ExternalCall(f, n)
        PROVE  TypeOK'
    <3>1. MailType'
      BY <2>30, TellType, MessageTypes DEF ExternalCall, MailType
    <3>2. AsyncType'
      BY <2>30, CalledType DEF ExternalCall, AsyncType
    <3>3. ThreadType' /\ EvalType' /\ SignalType' /\ ExitType' /\ ProgramType' /\ HistoryType'
      BY <2>30, UnchangedTypes DEF ExternalCall, ThreadType, ExitType, ProgramType
    <3> QED
      BY TypeGroups, <3>1, <3>2, <3>3 DEF GroupTypes
  <2>31. CASE UNCHANGED vars
    <3>1. UNCHANGED <<thread, inStart, mailVars, evalVars, signalVars, exitValue, asyncVars,
                      program, historyVars>>
      BY <2>31 DEF vars
    <3> QED
      BY <3>1, UnchangedTypes, TypeGroups DEF ThreadType, ExitType, ProgramType, GroupTypes
  <2>32. ASSUME NEW f \in Fibers, Advance(f)
         PROVE  TypeOK'
    <3>1. CASE Handle(f)
      BY <3>1, <2>6, <2>7, <2>8, <2>9, <2>10, <2>11 DEF Handle
    <3>2. CASE Evaluate(f)
      BY <3>2, <2>12, <2>13, <2>14, <2>15, <2>16, <2>17, <2>18, <2>19, <2>20 DEF Evaluate
    <3>3. CASE Unwind(f)
      BY <3>3, <2>21, <2>22, <2>23, <2>24, <2>25, <2>26 DEF Unwind
    <3>4. CASE WindDown(f)
      BY <3>4, <2>27, <2>28, <2>29 DEF WindDown
    <3> QED
      BY <2>32, <2>2, <2>4, <2>5, <3>1, <3>2, <3>3, <3>4 DEF Advance
  <2> QED
    BY <2>1, <2>3, <2>30, <2>31, <2>32 DEF Next
<1> QED
  BY <1>1, <1>2, PTL DEF Spec

-----------------------------------------------------------------------------
(* No lost wake-up.                                                        *)

Attended(h) == thread = h \/ scheduled[h] > 0

(* The inductive invariant: _running is never left true without a drain,   *)
(* so that a tell that finds it true need not schedule one.                *)
Served == \A h \in Fibers : running[h] \/ queue[h] # <<>> => Attended(h)

(* The inboxes that filled up are those of to and of the fiber on the thread. *)
Fills(to) == \A h \in Fibers \ to : queue'[h] # <<>> => queue[h] # <<>> \/ thread = h

(* A step of the thread that tells the fibers of to leaves every fiber served. *)
LEMMA WakeServes ==
    ASSUME TypeOK, Served, NEW to, Wake(to), Fills(to), UNCHANGED thread
    PROVE  Served'
<1> SUFFICES ASSUME NEW h \in Fibers, running'[h] \/ queue'[h] # <<>>
             PROVE  thread' = h \/ scheduled'[h] > 0
  BY DEF Served, Attended
<1>1. scheduled[h] \in Nat /\ running[h] \in BOOLEAN
  BY DEF TypeOK
<1>2. /\ running'[h] <=> (h \in to \/ running[h])
      /\ scheduled'[h] = IF h \in to /\ ~running[h] THEN scheduled[h] + 1 ELSE scheduled[h]
  BY <1>1 DEF Wake
<1>3. CASE h \in to /\ ~running[h]
  BY <1>1, <1>2, <1>3
<1>4. CASE running[h]
  BY <1>1, <1>2, <1>4 DEF Served, Attended
<1>5. CASE h \notin to /\ ~running[h]
  <2>1. queue[h] # <<>> \/ thread = h
    BY <1>2, <1>5 DEF Fills
  <2> QED
    BY <1>2, <1>5, <2>1 DEF Served, Attended
<1> QED
  BY <1>3, <1>4, <1>5

(* A step that tells nobody leaves every fiber served. *)
LEMMA SilenceServes ==
    ASSUME Served, Fills({}), UNCHANGED <<thread, running, scheduled>>
    PROVE  Served'
  BY DEF Served, Attended, Fills

(* Offers fill the inboxes they go to, a poll none. *)
LEMMA OffersFill ==
    ASSUME TypeOK
    PROVE  /\ \A to, m : queue' = Offered(queue, to, m) => Fills(to)
           /\ \A f \in Fibers : \A to, m :
                 thread = f /\ queue' = Offered(Polled(f), to, m) => Fills(to)
           /\ \A f \in Fibers : \A to : thread = f /\ queue' = Polled(f) => Fills(to)
           /\ \A to : UNCHANGED queue => Fills(to)
  BY DEF Offered, Polled, Fills, TypeOK

(* A message in an inbox does not wait for another one: a fiber that has   *)
(* messages holds the thread or the scheduler holds a drain of it (the     *)
(* _running handshake of tell, start and drainQueueOnCurrentThread).       *)
THEOREM InboxesAreServed == Spec => []NoStrandedMessage
<1>1. Init => Served
  BY DEF Init, Served
<1>2. TypeOK /\ Served /\ [Next]_vars => Served'
  <2> SUFFICES ASSUME TypeOK, Served, [Next]_vars
               PROVE  Served'
    OBVIOUS
  <2>1. ASSUME Start
        PROVE  Served'
    BY <2>1, RootAssumption, NoFiberAssumption DEF Start, Served, Attended, TypeOK
  <2>2. ASSUME NEW f \in Fibers, StartReturn(f) \/ DrainDone(f) \/ DrainYield(f)
        PROVE  Served'
    <3> SUFFICES ASSUME NEW h \in Fibers, running'[h] \/ queue'[h] # <<>>
                 PROVE  scheduled'[h] > 0
      BY DEF Served, Attended
    <3>1. scheduled[h] \in Nat /\ thread = f
      BY <2>2 DEF TypeOK, StartReturn, DrainDone, DrainYield, Draining
    <3>2. CASE StartReturn(f)
      BY <3>1, <3>2 DEF StartReturn, Served, Attended, TypeOK
    <3>3. CASE DrainDone(f)
      BY <3>1, <3>3 DEF DrainDone, Served, Attended, TypeOK
    <3>4. CASE DrainYield(f)
      <4>1. queue[f] # <<>> /\ queue' = Polled(f)
        BY <3>4 DEF DrainYield, Receives
      <4>2. /\ h = f => queue'[h] = Tail(queue[f])
            /\ h # f => queue'[h] = queue[h]
        BY <4>1 DEF Polled, TypeOK
      <4>3. /\ h = f => (running'[h] <=> Tail(queue[f]) # <<>>)
            /\ h # f => (running'[h] <=> running[h])
        BY <3>4 DEF DrainYield, TypeOK
      <4>4. /\ h = f /\ Tail(queue[f]) # <<>> => scheduled'[h] = scheduled[h] + 1
            /\ h # f => scheduled'[h] = scheduled[h]
        BY <3>4 DEF DrainYield, TypeOK
      <4>5. CASE h = f
        <5>1. Tail(queue[f]) # <<>>
          BY <4>2, <4>3, <4>5
        <5> QED
          BY <3>1, <4>4, <4>5, <5>1
      <4>6. CASE h # f
        BY <3>1, <4>2, <4>3, <4>4, <4>6 DEF Served, Attended
      <4> QED
        BY <4>5, <4>6
    <3> QED
      BY <2>2, <3>2, <3>3, <3>4
  <2>3. ASSUME NEW f \in Fibers, Run(f)
        PROVE  Served'
    BY <2>3, NoFiberAssumption DEF Run, Served, Attended, TypeOK
  <2>4. ASSUME NEW f \in Fibers, Handle(f)
        PROVE  Served'
    <3>1. CASE HandleResume(f)
      BY <3>1, OffersFill, SilenceServes DEF HandleResume, Draining
    <3>2. CASE HandleInterrupt(f)
      <4> DEFINE cbs == Interruptor(f)
                 to == children[f] \cup Fresh(cbs)
      <4>1. thread = f /\ UNCHANGED thread /\ Wake(to)
            /\ queue' = Offered(Offered(Polled(f), children[f], Interrupt),
                                Fresh(cbs), Resume("fail"))
        BY <3>2 DEF HandleInterrupt, Draining
      <4>2. Fills(to)
        BY <4>1 DEF Fills, Offered, Polled, TypeOK
      <4> QED
        BY <4>1, <4>2, WakeServes
    <3>3. CASE RunInterrupt(f)
      BY <3>3, OffersFill, WakeServes DEF RunInterrupt, Tell
    <3>4. CASE HandleAddObserver(f)
      BY <3>4, OffersFill, WakeServes, SilenceServes DEF HandleAddObserver, Handling, Tell
    <3>5. CASE HandleRemoveObserver(f)
      BY <3>5, OffersFill, SilenceServes DEF HandleRemoveObserver, Handling
    <3>6. CASE HandleAddChild(f)
      BY <3>6, OffersFill, SilenceServes DEF HandleAddChild, Handling
    <3> QED
      BY <2>4, <3>1, <3>2, <3>3, <3>4, <3>5, <3>6 DEF Handle
  <2>5. ASSUME NEW f \in Fibers, Evaluate(f)
        PROVE  Served'
    <3>1. ASSUME NEW c \in Fibers, NEW p \in Scopes[f], Fork(f, c, p)
          PROVE  Served'
      <4> DEFINE to == ({p} \ {NoFiber}) \cup {c}
      <4>1. UNCHANGED thread /\ Wake(to)
            /\ queue' = Offered(Offered(queue, {p} \ {NoFiber}, AddChild(c)), {c}, Resume("next"))
        BY <3>1 DEF Fork
      <4>2. Fills(to)
        BY <4>1 DEF Fills, Offered, TypeOK
      <4> QED
        BY <4>1, <4>2, WakeServes
    <3>2. ASSUME NEW g \in Fibers, InterruptFiber(f, g)
          PROVE  Served'
      BY <3>2, OffersFill, WakeServes DEF InterruptFiber, Tell
    <3>3. ASSUME NEW g \in Fibers, Await(f, g)
          PROVE  Served'
      BY <3>3, OffersFill, WakeServes DEF Await, SuspendOn, Tell
    <3>4. CASE Async(f)
      BY <3>4, OffersFill, WakeServes, SilenceServes DEF Async, Tell, mailVars
    <3>5. CASE Yield(f)
      <4>1. UNCHANGED thread /\ Wake({f})
            /\ queue' = Offered(Offered(queue, {f}, YieldNow), {f}, Resume("ok"))
        BY <3>5 DEF Yield
      <4>2. Fills({f})
        BY <4>1 DEF Fills, Offered, TypeOK
      <4> QED
        BY <4>1, <4>2, WakeServes
    <3>6. CASE (\E b \in BOOLEAN : Region(f, b)) \/ CatchAll(f) \/ Fail(f) \/ Return(f)
      BY <3>6, OffersFill, SilenceServes DEF Region, CatchAll, Fail, Return, mailVars
    <3> QED
      BY <2>5, <3>1, <3>2, <3>3, <3>4, <3>5, <3>6 DEF Evaluate
  <2>6. ASSUME NEW f \in Fibers, Unwind(f)
        PROVE  Served'
    <3>1. CASE OnSuccess(f) \/ OnFailure(f) \/ RevertFlags(f) \/ ChildrenDone(f)
      BY <3>1, OffersFill, SilenceServes
         DEF OnSuccess, OnFailure, RevertFlags, Reverted, ChildrenDone, unwindFrame, mailVars
    <3>2. CASE AwaitExit(f)
      <4>1. UNCHANGED thread
        BY <3>2 DEF AwaitExit, Reverted, unwindFrame
      <4>2. CASE UNCHANGED mailVars
        BY <4>1, <4>2, OffersFill, SilenceServes DEF mailVars
      <4>3. CASE Tell(queue, {Top(f).on}, RemoveObserver(f, Top(f).cb))
        BY <4>1, <4>3, OffersFill, WakeServes DEF Tell
      <4> QED
        BY <3>2, <4>2, <4>3 DEF AwaitExit
    <3>3. CASE ChildrenNext(f)
      BY <3>3, OffersFill, WakeServes DEF ChildrenNext, SuspendOn, Tell
    <3> QED
      BY <2>6, <3>1, <3>2, <3>3 DEF Unwind
  <2>7. ASSUME NEW f \in Fibers, WindDown(f)
        PROVE  Served'
    BY <2>7, OffersFill, WakeServes
       DEF WindDown, WindDownChildren, WindDownMessages, SetExitValue, Tell
  <2>8. ASSUME NEW f \in Fibers, NEW n \in external[f], ExternalCall(f, n)
        PROVE  Served'
    BY <2>8, OffersFill, WakeServes DEF ExternalCall, Tell
  <2>9. CASE UNCHANGED vars
    BY <2>9 DEF vars, mailVars, Served, Attended
  <2> QED
    BY <2>1, <2>2, <2>3, <2>4, <2>5, <2>6, <2>7, <2>8, <2>9 DEF Next, Advance
<1>3. Served => NoStrandedMessage
  BY DEF Served, Attended, NoStrandedMessage
<1> QED
  BY <1>1, <1>2, <1>3, TypeCorrect, PTL DEF Spec

-----------------------------------------------------------------------------
(* Interruption comes first.                                               *)

(* The inductive invariant: who was never started was never interrupted.   *)
Halts(f) ==
    /\ loop[f] = "unborn" => ~interrupted[f]
    /\ loop[f] = "running" /\ Interrupting(f) => cur[f] = "fail"

InterruptsHalt == \A f \in Fibers : Halts(f)

(* A step of f leaves the other fibers as they are. *)
OthersStay(f) ==
    \A h \in Fibers \ {f} :
        /\ loop'[h] = loop[h] /\ cur'[h] = cur[h] /\ flag'[h] = flag[h]
        /\ windDown'[h] = windDown[h] /\ interrupted'[h] = interrupted[h]

(* So only f needs a look. *)
LEMMA OneHalts ==
    ASSUME InterruptsHalt, NEW f \in Fibers, OthersStay(f), Halts(f)'
    PROVE  InterruptsHalt'
  BY DEF InterruptsHalt, Halts, OthersStay, Interrupting, Interruptible

(* Suspending stops the evaluation. *)
LEMMA SuspendHalts ==
    ASSUME TypeOK, InterruptsHalt, NEW f \in Fibers, NEW g, NEW base, SuspendOn(f, g, base)
    PROVE  InterruptsHalt'
<1>1. OthersStay(f)
  BY DEF SuspendOn, OthersStay, signalVars, TypeOK
<1>2. Halts(f)'
  BY DEF SuspendOn, Halts, TypeOK
<1> QED
  BY <1>1, <1>2, OneHalts

(* When flags go back, the pending interrupt replaces a success. *)
LEMMA RevertedHalts ==
    ASSUME TypeOK, InterruptsHalt, NEW f \in Fibers, stack[f] # <<>>, loop[f] = "running",
           Top(f).to \in BOOLEAN, Reverted(f)
    PROVE  InterruptsHalt'
<1>1. OthersStay(f)
  BY DEF Reverted, unwindFrame, OthersStay, signalVars, TypeOK
<1>2. Halts(f)'
  BY DEF Reverted, unwindFrame, Halts, Interrupting, Interruptible, signalVars, TypeOK
<1> QED
  BY <1>1, <1>2, OneHalts

(* An interrupted fiber in an interruptible region evaluates nothing but   *)
(* the interruption, whatever runs inside its regions and however they end *)
(* (the checks of runLoop, OP_UPDATE_RUNTIME_FLAGS and RevertFlags).       *)
THEOREM InterruptionFirst == Spec => []InterruptedMakesNoProgress
<1>1. Init => InterruptsHalt
  BY DEF Init, InterruptsHalt, Halts
<1>2. TypeOK /\ InterruptsHalt /\ [Next]_vars => InterruptsHalt'
  <2> SUFFICES ASSUME TypeOK, InterruptsHalt, [Next]_vars
               PROVE  InterruptsHalt'
    OBVIOUS
  <2>1. ASSUME Start
        PROVE  InterruptsHalt'
    <3>1. OthersStay(Root)
      BY <2>1, RootAssumption DEF Start, OthersStay, signalVars, TypeOK
    <3>2. Halts(Root)'
      BY <2>1, RootAssumption
         DEF Start, Born, InterruptsHalt, Halts, Interrupting, Interruptible, signalVars, TypeOK
    <3> QED
      BY <3>1, <3>2, RootAssumption, OneHalts
  <2>2. ASSUME UNCHANGED <<evalVars, interrupted>>
        PROVE  InterruptsHalt'
    BY <2>2 DEF evalVars, InterruptsHalt, Halts, Interrupting, Interruptible
  <2>3. ASSUME NEW f \in Fibers, HandleResume(f)
        PROVE  InterruptsHalt'
    <3>1. OthersStay(f)
      BY <2>3 DEF HandleResume, OthersStay, signalVars, TypeOK
    <3>2. Halts(f)'
      BY <2>3 DEF HandleResume, Halts, Interrupting, Interruptible, signalVars, TypeOK
    <3> QED
      BY <3>1, <3>2, OneHalts
  <2>4. ASSUME NEW f \in Fibers, HandleInterrupt(f)
        PROVE  InterruptsHalt'
    <3>1. OthersStay(f)
      BY <2>4 DEF HandleInterrupt, OthersStay, evalVars, TypeOK
    <3>2. Halts(f)'
      BY <2>4 DEF HandleInterrupt, Draining, Halts, evalVars
    <3> QED
      BY <3>1, <3>2, OneHalts
  <2>5. ASSUME NEW f \in Fibers, RunInterrupt(f)
        PROVE  InterruptsHalt'
    <3>1. OthersStay(f)
      BY <2>5 DEF RunInterrupt, OthersStay, TypeOK
    <3>2. Halts(f)'
      BY <2>5 DEF RunInterrupt, Halts, Interrupting, Interruptible, TypeOK
    <3> QED
      BY <3>1, <3>2, OneHalts
  <2>6. ASSUME NEW f \in Fibers, NEW c \in Fibers, NEW p \in Scopes[f], Fork(f, c, p)
        PROVE  InterruptsHalt'
    <3>1. OthersStay(c)
      BY <2>6 DEF Fork, OthersStay, signalVars, TypeOK
    <3>2. Halts(c)'
      BY <2>6 DEF Fork, Halts, TypeOK
    <3> QED
      BY <3>1, <3>2, OneHalts
  <2>7. ASSUME NEW f \in Fibers,
               (\E g \in Fibers : InterruptFiber(f, g)) \/ (\E b \in BOOLEAN : Region(f, b))
               \/ Fail(f) \/ Return(f)
        PROVE  InterruptsHalt'
    <3>1. loop[f] = "running" /\ cur[f] = "next" /\ ~Interrupting(f)
      BY <2>7 DEF InterruptFiber, Region, Fail, Return, Primitive, Evaluates, Turn,
                  InterruptsHalt, Halts
    <3>2. OthersStay(f)
      BY <2>7 DEF InterruptFiber, Region, Fail, Return, OthersStay, signalVars, TypeOK
    <3>3. Halts(f)'
      BY <2>7, <3>1 DEF InterruptFiber, Region, Fail, Return, Halts, Interrupting,
                        Interruptible, signalVars, TypeOK
    <3> QED
      BY <3>2, <3>3, OneHalts
  <2>8. ASSUME NEW f \in Fibers, Async(f) \/ Yield(f) \/ WindDownMessages(f) \/ SetExitValue(f)
        PROVE  InterruptsHalt'
    <3>1. OthersStay(f)
      BY <2>8 DEF Async, Yield, WindDownMessages, SetExitValue, LoopReturn, OthersStay,
                  signalVars, TypeOK
    <3>2. Halts(f)'
      BY <2>8 DEF Async, Yield, WindDownMessages, SetExitValue, Halts, TypeOK
    <3> QED
      BY <3>1, <3>2, OneHalts
  <2>9. ASSUME NEW f \in Fibers, NEW g \in Fibers, Await(f, g)
        PROVE  InterruptsHalt'
    BY <2>9, SuspendHalts DEF Await
  <2>10. ASSUME NEW f \in Fibers, CatchAll(f)
         PROVE  InterruptsHalt'
    BY <2>10 DEF CatchAll, InterruptsHalt, Halts, Interrupting, Interruptible, signalVars
  <2>11. ASSUME NEW f \in Fibers, OnSuccess(f) \/ OnFailure(f) \/ ChildrenDone(f)
         PROVE  InterruptsHalt'
    <3>1. OthersStay(f)
      BY <2>11 DEF OnSuccess, OnFailure, ChildrenDone, unwindFrame, OthersStay, signalVars, TypeOK
    <3>2. Halts(f)'
      BY <2>11 DEF OnSuccess, OnFailure, ChildrenDone, Unwinding, Turn, unwindFrame,
                   InterruptsHalt, Halts, Interrupting, Interruptible, signalVars, TypeOK
    <3> QED
      BY <3>1, <3>2, OneHalts
  <2>12. ASSUME NEW f \in Fibers, RevertFlags(f) \/ AwaitExit(f)
         PROVE  InterruptsHalt'
    <3>1. /\ stack[f] # <<>> /\ loop[f] = "running" /\ Reverted(f)
          /\ Top(f).k \in {"Revert", "Await"}
      BY <2>12 DEF RevertFlags, AwaitExit, Unwinding, Turn
    <3>2. Top(f).to \in BOOLEAN
      BY <3>1, StackParts, FrameParts
    <3> QED
      BY <3>1, <3>2, RevertedHalts
  <2>13. ASSUME NEW f \in Fibers, ChildrenNext(f)
         PROVE  InterruptsHalt'
    BY <2>13, SuspendHalts DEF ChildrenNext
  <2>14. ASSUME NEW f \in Fibers, WindDownChildren(f)
         PROVE  InterruptsHalt'
    <3>1. OthersStay(f)
      BY <2>14 DEF WindDownChildren, LoopReturn, OthersStay, TypeOK
    <3>2. Halts(f)'
      BY <2>14 DEF WindDownChildren, LoopReturn, Halts, Interrupting, Interruptible, TypeOK
    <3> QED
      BY <3>1, <3>2, OneHalts
  <2>15. ASSUME NEW f \in Fibers, Advance(f)
         PROVE  InterruptsHalt'
    <3>1. CASE StartReturn(f) \/ DrainDone(f) \/ DrainYield(f)
      BY <2>2, <3>1 DEF StartReturn, DrainDone, DrainYield, signalVars
    <3>2. CASE HandleAddObserver(f) \/ HandleRemoveObserver(f) \/ HandleAddChild(f)
      BY <2>2, <3>2 DEF HandleAddObserver, HandleRemoveObserver, HandleAddChild
    <3>3. CASE Handle(f)
      BY <2>3, <2>4, <2>5, <3>2, <3>3 DEF Handle
    <3>4. CASE Evaluate(f)
      BY <2>6, <2>7, <2>8, <2>9, <2>10, <3>4 DEF Evaluate
    <3>5. CASE Unwind(f)
      BY <2>11, <2>12, <2>13, <3>5 DEF Unwind
    <3>6. CASE WindDown(f)
      BY <2>8, <2>14, <3>6 DEF WindDown
    <3> QED
      BY <2>15, <3>1, <3>3, <3>4, <3>5, <3>6 DEF Advance
  <2>16. ASSUME NEW f \in Fibers, Run(f) \/ \E n \in external[f] : ExternalCall(f, n)
         PROVE  InterruptsHalt'
    BY <2>2, <2>16 DEF Run, ExternalCall, signalVars
  <2>17. CASE UNCHANGED vars
    BY <2>2, <2>17 DEF vars, signalVars
  <2> QED
    BY <2>1, <2>15, <2>16, <2>17 DEF Next
<1>3. InterruptsHalt => InterruptedMakesNoProgress
  BY DEF InterruptsHalt, Halts, InterruptedMakesNoProgress
<1> QED
  BY <1>1, <1>2, <1>3, TypeCorrect, PTL DEF Spec

-----------------------------------------------------------------------------
(* Inboxes: which of them are silent and which are orderly.                *)

Quietly(m) == m \in Messages /\ m.tag \notin {"Resume", "YieldNow"}

(* Appending a message adds its index to the mail of its tag only. *)
LEMMA MailAppend ==
    ASSUME NEW s \in Seq(Messages), NEW m \in Messages, NEW tags
    PROVE  Mail(Append(s, m), tags) =
               Mail(s, tags) \cup (IF m.tag \in tags THEN {Len(s) + 1} ELSE {})
  BY DEF Mail

(* Polling a message moves every index of the rest down by one. *)
LEMMA MailTail ==
    ASSUME NEW s \in Seq(Messages), s # <<>>, NEW tags
    PROVE  /\ \A i \in Mail(Tail(s), tags) : i \in Nat \ {0} /\ i + 1 \in Mail(s, tags)
           /\ \A i \in Mail(s, tags) : i = 1 \/ (i \in Nat /\ i - 1 \in Mail(Tail(s), tags))
           /\ 1 \in Mail(s, tags) <=> Head(s).tag \in tags
  BY DEF Mail

(* A message that resumes nobody leaves an inbox as silent and orderly as it was. *)
LEMMA AppendQuiet ==
    ASSUME NEW s \in Seq(Messages), NEW m, Quietly(m)
    PROVE  /\ Silent(s) => Silent(Append(s, m))
           /\ Orderly(s) => Orderly(Append(s, m))
<1> USE DEF Quietly
<1>1. ASSUME NEW tags \in SUBSET {"Resume", "YieldNow"}
      PROVE  Mail(Append(s, m), tags) = Mail(s, tags)
  <2>1. m.tag \notin tags /\ m \in Messages
    OBVIOUS
  <2>2. Mail(Append(s, m), tags) = Mail(s, tags) \cup {}
    BY <2>1, MailAppend, Zenon
  <2> QED
    BY <2>2
<1> QED
  BY <1>1 DEF Silent, Orderly

(* A silent inbox has neither resumptions nor yields. *)
LEMMA SilentMail ==
    ASSUME NEW s \in Seq(Messages)
    PROVE  Silent(s) <=> Mail(s, {"Resume"}) = {} /\ Mail(s, {"YieldNow"}) = {}
  BY DEF Silent, Mail

(* A resumption appended to a silent inbox leaves it orderly. *)
LEMMA AppendResume ==
    ASSUME NEW s \in Seq(Messages), Silent(s), NEW e \in {"next", "ok", "fail"}
    PROVE  /\ Orderly(s) /\ Orderly(Append(s, Resume(e)))
           /\ Orderly(Append(Append(s, YieldNow), Resume(e)))
<1>1. Mail(s, {"Resume"}) = {} /\ Mail(s, {"YieldNow"}) = {}
  BY SilentMail
<1>2. Resume(e) \in Messages /\ Resume(e).tag = "Resume" /\ YieldNow \in Messages
      /\ YieldNow.tag = "YieldNow"
  BY MessageTypes DEF Resume, YieldNow
<1>3. Mail(Append(s, Resume(e)), {"Resume"}) = {Len(s) + 1}
      /\ Mail(Append(s, Resume(e)), {"YieldNow"}) = {}
  BY <1>1, <1>2, MailAppend
<1>4. DEFINE y == Append(s, YieldNow)
<1>5. y \in Seq(Messages) /\ Len(y) = Len(s) + 1
  BY <1>2
<1>6. Mail(y, {"Resume"}) = {} /\ Mail(y, {"YieldNow"}) = {Len(s) + 1}
  BY <1>1, <1>2, MailAppend
<1>7. Mail(Append(y, Resume(e)), {"Resume"}) = {Len(y) + 1}
      /\ Mail(Append(y, Resume(e)), {"YieldNow"}) = {Len(s) + 1}
  <2> HIDE DEF y
  <2> QED
    BY <1>2, <1>5, <1>6, MailAppend
<1>8. Len(s) + 1 < Len(y) + 1
  BY <1>5
<1> QED
  BY <1>1, <1>3, <1>7, <1>8 DEF Orderly

(* Polling keeps an inbox silent; behind its resumption an orderly one is silent. *)
LEMMA TailKeeps ==
    ASSUME NEW s \in Seq(Messages), s # <<>>
    PROVE  /\ Silent(s) => Silent(Tail(s))
           /\ Orderly(s) => Orderly(Tail(s)) \/ Head(s).tag = "Resume"
           /\ Orderly(s) /\ Head(s).tag = "Resume" => Silent(Tail(s))
<1>1. Silent(s) => Silent(Tail(s))
  BY MailTail DEF Silent
<1>2. ASSUME Orderly(s), Head(s).tag # "Resume"
      PROVE  Orderly(Tail(s))
  <2>1. ASSUME NEW i \in Mail(Tail(s), {"Resume"}), NEW j \in Mail(Tail(s), {"Resume"})
        PROVE  i = j
    <3>1. i \in Nat /\ j \in Nat /\ i + 1 = j + 1
      BY <1>2, <2>1, MailTail DEF Orderly
    <3> QED
      BY <3>1
  <2>2. ASSUME NEW i \in Mail(Tail(s), {"YieldNow"})
        PROVE  \E j \in Mail(Tail(s), {"Resume"}) : i < j
    <3>1. PICK j \in Mail(s, {"Resume"}) : i \in Nat /\ i + 1 < j
      BY <1>2, <2>2, MailTail DEF Orderly
    <3>2. j # 1
      BY <1>2, <3>1, MailTail
    <3>3. j \in Nat /\ j - 1 \in Mail(Tail(s), {"Resume"})
      BY <3>1, <3>2, MailTail
    <3> QED
      BY <3>1, <3>3
  <2> QED
    BY <2>1, <2>2 DEF Orderly
<1>3. ASSUME Orderly(s), Head(s).tag = "Resume"
      PROVE  Silent(Tail(s))
  <2>1. 1 \in Mail(s, {"Resume"})
    BY <1>3, MailTail
  <2>2. Mail(Tail(s), {"Resume"}) = {}
    <3> SUFFICES ASSUME NEW i \in Mail(Tail(s), {"Resume"})
                 PROVE  FALSE
      OBVIOUS
    <3>1. i \in Nat \ {0} /\ i + 1 \in Mail(s, {"Resume"})
      BY MailTail
    <3> QED
      BY <1>3, <2>1, <3>1 DEF Orderly
  <2>3. Mail(Tail(s), {"YieldNow"}) = {}
    <3> SUFFICES ASSUME NEW i \in Mail(Tail(s), {"YieldNow"})
                 PROVE  FALSE
      OBVIOUS
    <3>1. i \in Nat \ {0} /\ i + 1 \in Mail(s, {"YieldNow"})
      BY MailTail
    <3>2. PICK j \in Mail(s, {"Resume"}) : i + 1 < j
      BY <1>3, <3>1 DEF Orderly
    <3> QED
      BY <1>3, <2>1, <3>1, <3>2 DEF Orderly
  <2>4. Tail(s) \in Seq(Messages)
    OBVIOUS
  <2> QED
    BY <2>2, <2>3, <2>4, SilentMail
<1> QED
  BY <1>1, <1>2, <1>3

-----------------------------------------------------------------------------
(* What the helpers of the actions do to the inbox of fiber h.             *)

Keeps(q, r) == (Silent(q) => Silent(r)) /\ (Orderly(q) => Orderly(r))

(* Quiet messages offered to some fibers keep every inbox. *)
LEMMA OfferedKeeps ==
    ASSUME NEW q \in [Fibers -> Seq(Messages)], NEW to, NEW m, Quietly(m), NEW h \in Fibers
    PROVE  Keeps(q[h], Offered(q, to, m)[h])
  BY AppendQuiet DEF Offered, Keeps

(* Polling a message that is no resumption keeps every inbox. *)
LEMMA PolledKeeps ==
    ASSUME TypeOK, NEW f \in Fibers, queue[f] # <<>>, Head(queue[f]).tag # "Resume",
           NEW h \in Fibers
    PROVE  Keeps(queue[h], Polled(f)[h])
  BY TailKeeps DEF Polled, Keeps, TypeOK

(* Messages other than Resume and YieldNow are quiet. *)
LEMMA QuietMessages ==
    /\ Quietly(Interrupt)
    /\ \A f \in Fibers : Quietly(AddChild(f))
    /\ \A f \in Fibers, n \in Nat : Quietly(AddObserver(f, n)) /\ Quietly(RemoveObserver(f, n))
  BY MessageTypes DEF Quietly, Interrupt, AddChild, AddObserver, RemoveObserver

(* A fiber that gets no resumption and makes no callback. *)
LEMMA Untouched ==
    ASSUME NEW h \in Fibers, Continuation(h),
           asyncs'[h] = asyncs[h], called'[h] = called[h],
           loop'[h] # "idle" \/ exitValue'[h] # None => loop[h] # "idle" \/ Done(h),
           exitValue'[h] # None => loop'[h] = "idle",
           Keeps(queue[h], queue'[h])
    PROVE  Continuation(h)'
  BY DEF Continuation, Uncalled, Done, Keeps

(* A suspended fiber with an orderly inbox and no callback left. *)
LEMMA Resumed ==
    ASSUME NEW h \in Fibers, Uncalled(h)' = {},
           loop'[h] = "idle", exitValue'[h] = None, Orderly(queue'[h])
    PROVE  Continuation(h)'
  BY DEF Continuation, Uncalled, Done

(* Calling callbacks: whoever is resumed had one uncalled callback. *)
LEMMA CallbacksKeep ==
    ASSUME TypeOK, OneContinuation, NEW q \in [Fibers -> Seq(Messages)], NEW cbs,
           NEW e \in {"next", "ok", "fail"}, NEW h \in Fibers,
           queue' = Offered(q, Fresh(cbs), Resume(e)), called' = Called(cbs), asyncs' = asyncs,
           Keeps(queue[h], q[h]),
           loop'[h] # "idle" \/ exitValue'[h] # None => loop[h] # "idle" \/ Done(h),
           exitValue'[h] # None => loop'[h] = "idle"
    PROVE  Continuation(h)'
<1>1. Continuation(h)
  BY DEF OneContinuation
<1>2. called'[h] = called[h] \cup {n \in 1 .. asyncs[h] : <<h, n>> \in cbs}
  BY DEF Called
<1>3. CASE h \in Fresh(cbs)
  <2>1. PICK n \in Uncalled(h) : <<h, n>> \in cbs
    BY <1>3 DEF Fresh
  <2>2. Uncalled(h) = {n}
    BY <1>1, <2>1 DEF Continuation
  <2>3. Uncalled(h)' = {}
    BY <1>2, <2>1, <2>2 DEF Uncalled
  <2>4. Silent(q[h])
    BY <1>1, <2>1 DEF Continuation, Keeps
  <2>5. queue'[h] = Append(q[h], Resume(e))
    BY <1>3 DEF Offered
  <2>6. Orderly(queue'[h])
    BY <2>4, <2>5, AppendResume
  <2>7. loop'[h] = "idle" /\ exitValue'[h] = None
    BY <1>1, <2>1 DEF Continuation
  <2> QED
    BY <2>3, <2>6, <2>7, Resumed
<1>4. CASE h \notin Fresh(cbs)
  <2>1. queue'[h] = q[h]
    BY <1>4 DEF Offered
  <2>2. Uncalled(h)' = Uncalled(h)
    BY <1>2, <1>4 DEF Uncalled, Fresh
  <2> QED
    BY <1>1, <2>1, <2>2 DEF Continuation, Keeps, Done
<1> QED
  BY <1>3, <1>4

(* A fiber that only sees other messages than resumptions. *)
LEMMA OthersKeep ==
    ASSUME OneContinuation, UNCHANGED <<asyncs, called, loop, exitValue>>,
           \A h \in Fibers : Keeps(queue[h], queue'[h])
    PROVE  OneContinuation'
<1> SUFFICES ASSUME NEW h \in Fibers
             PROVE  Continuation(h)'
  BY DEF OneContinuation
<1>1. Continuation(h)
  BY DEF OneContinuation
<1> QED
  BY <1>1, Untouched DEF Continuation, Done

(* Inboxes kept by one change and then by another are kept by both. *)
LEMMA KeepsTransitive ==
    ASSUME NEW q, NEW r, NEW s, Keeps(q, r), Keeps(r, s)
    PROVE  Keeps(q, s)
  BY DEF Keeps

(* An await: its callback is the only one that was not called. *)
LEMMA SuspendKeeps ==
    ASSUME TypeOK, OneContinuation, NEW f \in Fibers, NEW g \in Fibers, NEW base,
           loop[f] = "running", SuspendOn(f, g, base)
    PROVE  OneContinuation'
<1> DEFINE n == asyncs[f] + 1
<1>a. n \in Nat
  <2>1. asyncs \in [Fibers -> Nat]
    BY DEF TypeOK
  <2> QED
    BY <2>1
<1>b. asyncs' = [asyncs EXCEPT ![f] = n] /\ UNCHANGED <<called, exitValue>>
      /\ loop' = [loop EXCEPT ![f] = "idle"] /\ queue' = Offered(queue, {g}, AddObserver(f, n))
  BY Zenon DEF SuspendOn, Tell
<1>1. n \in Nat /\ asyncs' = [asyncs EXCEPT ![f] = n] /\ UNCHANGED <<called, exitValue>>
      /\ loop' = [loop EXCEPT ![f] = "idle"] /\ queue' = Offered(queue, {g}, AddObserver(f, n))
  BY <1>a, <1>b
<1>2. \A h \in Fibers : Keeps(queue[h], queue'[h])
  BY <1>1, QuietMessages, OfferedKeeps DEF TypeOK
<1> HIDE DEF n
<1> SUFFICES ASSUME NEW h \in Fibers
             PROVE  Continuation(h)'
  BY DEF OneContinuation
<1>3. Continuation(h)
  BY DEF OneContinuation
<1>4. CASE h # f
  BY <1>1, <1>2, <1>3, <1>4, Untouched DEF Continuation, Done, TypeOK
<1>5. CASE h = f
  <2>1. Uncalled(f) = {} /\ Silent(queue[f]) /\ ~Done(f)
    BY <1>3, <1>5 DEF Continuation
  <2>2. Uncalled(f)' \subseteq {asyncs'[f]}
    <3>1. asyncs[f] \in Nat /\ n = asyncs[f] + 1 /\ asyncs'[f] = n /\ called'[f] = called[f]
      BY <1>1 DEF TypeOK, n
    <3>2. 1 .. n \subseteq (1 .. asyncs[f]) \cup {n}
      BY <3>1
    <3> QED
      BY <2>1, <3>1, <3>2 DEF Uncalled
  <2>3. Silent(queue'[f]) /\ Orderly(queue'[f]) /\ loop'[f] = "idle" /\ ~Done(f)'
    BY <1>1, <1>2, <1>3, <1>5, <2>1 DEF Keeps, Continuation, Done, TypeOK
  <2> QED
    BY <1>5, <2>2, <2>3 DEF Continuation
<1> QED
  BY <1>4, <1>5

-----------------------------------------------------------------------------
(* No fiber has two continuations. *)
THEOREM ContinuationIsUnique == Spec => []OneContinuation
<1>1. Init => OneContinuation
  BY DEF Init, OneContinuation, Continuation, Uncalled, Orderly, Silent, Mail, Done
<1>2. TypeOK /\ OneContinuation /\ [Next]_vars => OneContinuation'
  <2> SUFFICES ASSUME TypeOK, OneContinuation, [Next]_vars
               PROVE  OneContinuation'
    OBVIOUS
  <2> USE DEF TypeOK
  <2>a. \A h \in Fibers : Continuation(h)
    BY DEF OneContinuation
  <2>b. \A h \in Fibers : Keeps(queue[h], queue[h])
    BY DEF Keeps
  <2>c. ASSUME UNCHANGED <<queue, asyncs, called, loop, exitValue>>
        PROVE  OneContinuation'
    BY <2>b, <2>c, OthersKeep
  <2>d. ASSUME NEW q \in [Fibers -> Seq(Messages)], \A h \in Fibers : Keeps(queue[h], q[h]),
               NEW to, NEW m, Quietly(m), queue' = Offered(q, to, m),
               UNCHANGED <<asyncs, called, loop, exitValue>>
        PROVE  OneContinuation'
    BY <2>d, OfferedKeeps, KeepsTransitive, OthersKeep
  <2>e. ASSUME NEW f \in Fibers, queue[f] # <<>>, Head(queue[f]).tag # "Resume"
        PROVE  /\ Polled(f) \in [Fibers -> Seq(Messages)]
               /\ \A h \in Fibers : Keeps(queue[h], Polled(f)[h])
    BY <2>e, PolledType, PolledKeeps
  <2>f. ASSUME NEW q \in [Fibers -> Seq(Messages)], \A h \in Fibers : Keeps(queue[h], q[h]),
               NEW cbs, NEW e \in {"next", "ok", "fail"},
               queue' = Offered(q, Fresh(cbs), Resume(e)), called' = Called(cbs),
               UNCHANGED <<asyncs, loop, exitValue>>
        PROVE  OneContinuation'
    <3> SUFFICES ASSUME NEW h \in Fibers
                 PROVE  Continuation(h)'
      BY DEF OneContinuation
    <3>1. Continuation(h)
      BY <2>a
    <3> QED
      BY <2>f, <3>1, CallbacksKeep DEF Continuation, Done
  <2>g. ASSUME NEW f \in Fibers, loop[f] = "running"
        PROVE  Silent(queue[f]) /\ Uncalled(f) = {} /\ ~Done(f)
    BY <2>a, <2>g DEF Continuation
  <2>1. ASSUME Start
        PROVE  OneContinuation'
    <3> SUFFICES ASSUME NEW h \in Fibers
                 PROVE  Continuation(h)'
      BY DEF OneContinuation
    <3>1. Continuation(h)
      BY <2>a
    <3> QED
      BY <2>1, <3>1, <2>b, Untouched, RootAssumption
         DEF Start, Born, Continuation, Done, asyncVars
  <2>2. ASSUME NEW f \in Fibers,
               \/ StartReturn(f) \/ Run(f) \/ DrainDone(f)
               \/ (\E b \in BOOLEAN : Region(f, b)) \/ CatchAll(f) \/ Fail(f) \/ Return(f)
               \/ OnSuccess(f) \/ OnFailure(f) \/ RevertFlags(f) \/ ChildrenDone(f)
        PROVE  OneContinuation'
    <3>1. UNCHANGED <<queue, asyncs, called, loop, exitValue>>
      BY <2>2
         DEF StartReturn, Run, DrainDone, Region, CatchAll, Fail, Return, OnSuccess, OnFailure,
             RevertFlags, Reverted, ChildrenDone, unwindFrame, mailVars, evalVars, asyncVars
    <3> QED
      BY <2>c, <3>1
  <2>3. ASSUME NEW f \in Fibers, DrainYield(f)
        PROVE  OneContinuation'
    <3>1. queue' = Polled(f) /\ queue[f] # <<>> /\ Head(queue[f]).tag = "YieldNow"
          /\ UNCHANGED <<asyncs, called, loop, exitValue>>
      BY <2>3 DEF DrainYield, Receives, evalVars, asyncVars
    <3> QED
      BY <2>e, <3>1, OthersKeep
  <2>4. ASSUME NEW f \in Fibers, HandleResume(f)
        PROVE  OneContinuation'
    <3>1. /\ queue[f] # <<>> /\ Head(queue[f]).tag = "Resume" /\ queue' = Polled(f)
          /\ loop[f] = "idle" /\ loop' = [loop EXCEPT ![f] = "running"]
          /\ UNCHANGED <<asyncs, called, exitValue>>
      BY <2>4 DEF HandleResume, Draining, Receives
    <3> SUFFICES ASSUME NEW h \in Fibers
                 PROVE  Continuation(h)'
      BY DEF OneContinuation
    <3>2. CASE h # f
      BY <2>a, <2>b, <3>1, <3>2, Untouched DEF Polled, Continuation, Done
    <3>3. CASE h = f
      <4>1. ~Silent(queue[f])
        <5>1. queue[f] \in Seq(Messages) /\ Head(queue[f]).tag \in {"Resume", "YieldNow"}
          BY <3>1
        <5>2. 1 \in Mail(queue[f], {"Resume", "YieldNow"})
          BY <3>1, <5>1, MailTail
        <5> QED
          BY <5>2 DEF Silent
      <4>2. Uncalled(f) = {} /\ ~Done(f)
        BY <2>a, <4>1 DEF Continuation
      <4>3. queue'[f] = Tail(queue[f]) /\ Silent(Tail(queue[f]))
        BY <2>a, <3>1, TailKeeps DEF Polled, Continuation
      <4>4. Tail(queue[f]) \in Seq(Messages)
        BY <3>1
      <4>5. Orderly(Tail(queue[f]))
        BY <4>3, <4>4, AppendResume
      <4> QED
        BY <3>1, <3>3, <4>2, <4>3, <4>5 DEF Continuation, Uncalled, Done
    <3> QED
      BY <3>2, <3>3
  <2>5. ASSUME NEW f \in Fibers, HandleInterrupt(f)
        PROVE  OneContinuation'
    <3> DEFINE told == Offered(Polled(f), children[f], Interrupt)
    <3>1. /\ queue[f] # <<>> /\ Head(queue[f]).tag = "Interrupt"
          /\ queue' = Offered(told, Fresh(Interruptor(f)), Resume("fail"))
          /\ called' = Called(Interruptor(f))
          /\ UNCHANGED <<asyncs, loop, exitValue>>
      BY <2>5 DEF HandleInterrupt, Receives, evalVars
    <3>2. told \in [Fibers -> Seq(Messages)]
      BY <2>e, <3>1, OfferedType, MessageTypes
    <3>3. \A h \in Fibers : Keeps(queue[h], told[h])
      BY <2>e, <3>1, OfferedKeeps, QuietMessages, KeepsTransitive
    <3> HIDE DEF told
    <3> QED
      BY <2>f, <3>1, <3>2, <3>3
  <2>6. ASSUME NEW f \in Fibers, RunInterrupt(f)
        PROVE  OneContinuation'
    <3>1. /\ queue[f] # <<>> /\ Head(queue[f]).tag = "Interrupt"
          /\ queue' = Offered(Polled(f), children[f], Interrupt)
          /\ UNCHANGED <<asyncs, called, loop, exitValue>>
      BY <2>6 DEF RunInterrupt, Receives, Tell, asyncVars
    <3> QED
      BY <2>d, <2>e, <3>1, QuietMessages
  <2>7. ASSUME NEW f \in Fibers, HandleAddObserver(f)
        PROVE  OneContinuation'
    <3> DEFINE cbs == {<<Head(queue[f]).who, Head(queue[f]).cb>>}
    <3>1. /\ queue[f] # <<>> /\ Head(queue[f]).tag = "AddObserver"
          /\ UNCHANGED <<asyncs, loop, exitValue>>
      BY <2>7 DEF HandleAddObserver, Handling, Receives, evalVars
    <3>2. CASE Tell(Polled(f), Fresh(cbs), Resume("ok")) /\ called' = Called(cbs)
      BY <2>e, <2>f, <3>1, <3>2 DEF Tell
    <3>3. CASE queue' = Polled(f) /\ UNCHANGED called
      BY <2>e, <3>1, <3>3, OthersKeep
    <3> QED
      BY <2>7, <3>2, <3>3 DEF HandleAddObserver
  <2>8. ASSUME NEW f \in Fibers, HandleRemoveObserver(f) \/ HandleAddChild(f)
        PROVE  OneContinuation'
    <3>1. /\ queue[f] # <<>> /\ Head(queue[f]).tag # "Resume" /\ queue' = Polled(f)
          /\ UNCHANGED <<asyncs, called, loop, exitValue>>
      BY <2>8 DEF HandleRemoveObserver, HandleAddChild, Handling, Receives, evalVars, asyncVars
    <3> QED
      BY <2>e, <3>1, OthersKeep
  <2>9. ASSUME NEW f \in Fibers, NEW c \in Fibers, NEW p \in Scopes[f], Fork(f, c, p)
        PROVE  OneContinuation'
    <3> DEFINE owner == {p} \ {NoFiber}
               q == Offered(queue, owner, AddChild(c))
    <3>1. /\ queue' = Offered(q, {c}, Resume("next"))
          /\ loop[c] = "unborn" /\ loop' = [loop EXCEPT ![c] = "idle"]
          /\ UNCHANGED <<asyncs, called, exitValue>>
      BY <2>9 DEF Fork, Born, asyncVars
    <3>2. q \in [Fibers -> Seq(Messages)]
      BY OfferedType, MessageTypes
    <3>3. \A h \in Fibers : Keeps(queue[h], q[h])
      BY OfferedKeeps, QuietMessages
    <3> HIDE DEF q
    <3> SUFFICES ASSUME NEW h \in Fibers
                 PROVE  Continuation(h)'
      BY DEF OneContinuation
    <3>4. CASE h # c
      <4>1. queue'[h] = q[h] /\ loop'[h] = loop[h]
        BY <3>1, <3>4 DEF Offered
      <4> QED
        BY <2>a, <3>1, <3>3, <4>1, Untouched DEF Continuation, Done
    <3>5. CASE h = c
      <4>1. Silent(queue[c]) /\ Uncalled(c) = {} /\ ~Done(c)
        BY <2>a, <3>1 DEF Continuation
      <4>2. queue'[c] = Append(q[c], Resume("next")) /\ Silent(q[c]) /\ q[c] \in Seq(Messages)
        BY <3>1, <3>2, <3>3, <4>1 DEF Offered, Keeps
      <4>3. Orderly(queue'[c])
        BY <4>2, AppendResume
      <4> QED
        BY <3>1, <3>5, <4>1, <4>3, Resumed DEF Uncalled, Done
    <3> QED
      BY <3>4, <3>5
  <2>10. ASSUME NEW f \in Fibers, NEW g \in Fibers, InterruptFiber(f, g)
         PROVE  OneContinuation'
    <3>1. queue' = Offered(queue, {g}, Interrupt) /\ UNCHANGED <<asyncs, called, loop, exitValue>>
      BY <2>10 DEF InterruptFiber, Tell, asyncVars
    <3> QED
      BY <2>b, <2>d, <3>1, QuietMessages
  <2>11. ASSUME NEW f \in Fibers, Async(f)
         PROVE  OneContinuation'
    <3> DEFINE n == asyncs[f] + 1
    <3>1. /\ loop[f] = "running" /\ loop' = [loop EXCEPT ![f] = "idle"]
          /\ asyncs' = [asyncs EXCEPT ![f] = n] /\ UNCHANGED exitValue
          /\ \/ UNCHANGED <<called, queue>>
             \/ /\ called' = [called EXCEPT ![f] = @ \cup {n}]
                /\ queue' = Offered(queue, {f}, Resume("ok"))
      BY <2>11 DEF Async, Primitive, Evaluates, Turn, Tell, mailVars
    <3>2. Silent(queue[f]) /\ Uncalled(f) = {} /\ ~Done(f)
      BY <2>g, <3>1
    <3>3. Uncalled(f)' = {n} \ called'[f]
      <4>1. asyncs[f] \in Nat /\ asyncs'[f] = n /\ 1 .. n = (1 .. asyncs[f]) \cup {n}
        BY <3>1, SMTT(30)
      <4>2. called[f] \subseteq called'[f]
        BY <3>1
      <4> QED
        BY <3>2, <4>1, <4>2 DEF Uncalled
    <3> SUFFICES ASSUME NEW h \in Fibers
                 PROVE  Continuation(h)'
      BY DEF OneContinuation
    <3>4. CASE h # f
      <4>1. UNCHANGED <<queue[h], called[h], asyncs[h], loop[h], exitValue[h]>>
        BY <3>1, <3>4 DEF Offered
      <4> QED
        BY <2>a, <2>b, <4>1, Untouched DEF Continuation, Done
    <3>5. CASE h = f /\ UNCHANGED <<called, queue>>
      BY <2>a, <3>1, <3>2, <3>3, <3>5 DEF Continuation, Done
    <3>6. CASE /\ h = f /\ called' = [called EXCEPT ![f] = @ \cup {n}]
               /\ queue' = Offered(queue, {f}, Resume("ok"))
      <4>1. Uncalled(f)' = {} /\ queue'[f] = Append(queue[f], Resume("ok"))
        BY <3>3, <3>6 DEF Offered
      <4>2. Orderly(queue'[f])
        BY <3>2, <4>1, AppendResume
      <4> QED
        BY <3>1, <3>2, <3>6, <4>1, <4>2, Resumed DEF Done
    <3> QED
      BY <3>1, <3>4, <3>5, <3>6
  <2>12. ASSUME NEW f \in Fibers, NEW g \in Fibers, Await(f, g)
         PROVE  OneContinuation'
    BY <2>12, SuspendKeeps DEF Await, Primitive, Evaluates, Turn
  <2>13. ASSUME NEW f \in Fibers, Yield(f)
         PROVE  OneContinuation'
    <3>1. /\ loop[f] = "running" /\ loop' = [loop EXCEPT ![f] = "idle"]
          /\ queue' = Offered(Offered(queue, {f}, YieldNow), {f}, Resume("ok"))
          /\ UNCHANGED <<asyncs, called, exitValue>>
      BY <2>13 DEF Yield, Evaluates, Turn, asyncVars
    <3>2. Silent(queue[f]) /\ Uncalled(f) = {} /\ ~Done(f)
      BY <2>g, <3>1
    <3>3. \A h \in Fibers : queue'[h] =
              IF h = f THEN Append(Append(queue[h], YieldNow), Resume("ok")) ELSE queue[h]
      BY <3>1 DEF Offered
    <3> SUFFICES ASSUME NEW h \in Fibers
                 PROVE  Continuation(h)'
      BY DEF OneContinuation
    <3>4. CASE h # f
      BY <2>a, <2>b, <3>1, <3>3, <3>4, Untouched DEF Continuation, Done
    <3>5. CASE h = f
      <4>1. Orderly(queue'[f])
        BY <3>2, <3>3, AppendResume
      <4> QED
        BY <3>1, <3>2, <3>5, <4>1, Resumed DEF Uncalled, Done
    <3> QED
      BY <3>4, <3>5
  <2>14. ASSUME NEW f \in Fibers, AwaitExit(f)
         PROVE  OneContinuation'
    <3>1. UNCHANGED <<asyncs, called, loop, exitValue>>
      BY <2>14 DEF AwaitExit, Reverted, unwindFrame, asyncVars
    <3>2. CASE UNCHANGED mailVars
      BY <2>c, <3>1, <3>2 DEF mailVars
    <3>3. CASE /\ Unwinding(f, "fail", "Await")
               /\ Tell(queue, {Top(f).on}, RemoveObserver(f, Top(f).cb))
      <4>1. Top(f).on \in Fibers /\ Top(f).cb \in Nat
        BY <3>3, StackParts, FrameParts DEF Unwinding
      <4>2. Quietly(RemoveObserver(f, Top(f).cb))
        BY <4>1, QuietMessages
      <4> QED
        BY <2>b, <2>d, <3>1, <3>3, <4>2 DEF Tell
    <3> QED
      BY <2>14, <3>2, <3>3 DEF AwaitExit
  <2>15. ASSUME NEW f \in Fibers, ChildrenNext(f)
         PROVE  OneContinuation'
    <3>1. loop[f] = "running" /\ Top(f).rest \in SUBSET Fibers
      BY <2>15, StackParts, FrameParts DEF ChildrenNext, Unwinding, Turn
    <3>2. PICK c \in Top(f).rest :
               SuspendOn(f, c, Append(Pop(f), Children(Top(f).rest \ {c}, Top(f).exit)))
      BY <2>15 DEF ChildrenNext
    <3>3. c \in Fibers
      BY <3>1
    <3> QED
      BY <3>1, <3>2, <3>3, SuspendKeeps
  <2>16. ASSUME NEW f \in Fibers, WindDownChildren(f)
         PROVE  OneContinuation'
    <3>1. /\ queue' = Offered(queue, children[f], Interrupt)
          /\ UNCHANGED <<asyncs, called, loop, exitValue>>
      BY <2>16 DEF WindDownChildren, Tell, asyncVars
    <3> QED
      BY <2>b, <2>d, <3>1, QuietMessages
  <2>17. ASSUME NEW f \in Fibers, WindDownMessages(f)
         PROVE  OneContinuation'
    <3>1. /\ loop[f] = "running" /\ loop' = [loop EXCEPT ![f] = "idle"]
          /\ cur[f] \in {"next", "ok", "fail"}
          /\ queue' = Offered(queue, {f}, Resume(cur[f]))
          /\ UNCHANGED <<asyncs, called, exitValue>>
      BY <2>17 DEF WindDownMessages, LoopReturn, Tell, asyncVars
    <3>2. Silent(queue[f]) /\ Uncalled(f) = {} /\ ~Done(f)
      BY <2>g, <3>1
    <3> SUFFICES ASSUME NEW h \in Fibers
                 PROVE  Continuation(h)'
      BY DEF OneContinuation
    <3>4. CASE h # f
      <4>1. queue'[h] = queue[h] /\ loop'[h] = loop[h]
        BY <3>1, <3>4 DEF Offered
      <4> QED
        BY <2>a, <2>b, <3>1, <4>1, Untouched DEF Continuation, Done
    <3>5. CASE h = f
      <4>1. queue'[f] = Append(queue[f], Resume(cur[f]))
        BY <3>1 DEF Offered
      <4>2. Orderly(queue'[f])
        BY <3>1, <3>2, <4>1, AppendResume
      <4> QED
        BY <3>1, <3>2, <3>5, <4>2, Resumed DEF Uncalled, Done
    <3> QED
      BY <3>4, <3>5
  <2>18. ASSUME NEW f \in Fibers, SetExitValue(f)
         PROVE  OneContinuation'
    <3> DEFINE cbs == AwaitingCallbacks(f)
    <3>1. /\ loop[f] = "running" /\ loop' = [loop EXCEPT ![f] = "idle"]
          /\ exitValue' = [exitValue EXCEPT ![f] = cur[f]]
          /\ queue' = Offered(queue, Fresh(cbs), Resume("ok"))
          /\ called' = Called(cbs) /\ UNCHANGED asyncs
      BY <2>18 DEF SetExitValue, LoopReturn, Tell
    <3> HIDE DEF cbs
    <3> SUFFICES ASSUME NEW h \in Fibers
                 PROVE  Continuation(h)'
      BY DEF OneContinuation
    <3>2. loop'[h] # "idle" \/ exitValue'[h] # None => loop[h] # "idle" \/ Done(h)
      BY <3>1 DEF Done
    <3>3. exitValue'[h] # None => loop'[h] = "idle"
      BY <2>a, <3>1 DEF Continuation, Done
    <3> QED
      BY <2>b, <3>1, <3>2, <3>3, CallbacksKeep
  <2>19. ASSUME NEW f \in Fibers, NEW n \in external[f], ExternalCall(f, n)
         PROVE  OneContinuation'
    <3>1. /\ queue' = Offered(queue, Fresh({<<f, n>>}), Resume("ok"))
          /\ called' = Called({<<f, n>>}) /\ UNCHANGED <<asyncs, loop, exitValue>>
      BY <2>19 DEF ExternalCall, Tell, evalVars
    <3> QED
      BY <2>b, <2>f, <3>1
  <2>20. CASE UNCHANGED vars
    BY <2>c, <2>20 DEF vars, mailVars, evalVars, asyncVars
  <2>21. ASSUME NEW f \in Fibers, Advance(f)
         PROVE  OneContinuation'
    <3>1. CASE Handle(f)
      BY <3>1, <2>4, <2>5, <2>6, <2>7, <2>8 DEF Handle
    <3>2. CASE Evaluate(f)
      BY <3>2, <2>2, <2>9, <2>10, <2>11, <2>12, <2>13 DEF Evaluate
    <3>3. CASE Unwind(f)
      BY <3>3, <2>2, <2>14, <2>15 DEF Unwind
    <3>4. CASE WindDown(f)
      BY <3>4, <2>16, <2>17, <2>18 DEF WindDown
    <3> QED
      BY <2>21, <2>2, <2>3, <3>1, <3>2, <3>3, <3>4 DEF Advance
  <2> QED
    BY <2>1, <2>2, <2>19, <2>20, <2>21 DEF Next
<1> QED
  BY <1>1, <1>2, TypeCorrect, PTL DEF Spec

(* The run loop of a fiber never meets a resumption of that fiber, and a   *)
(* fiber that is done is never resumed. *)
THEOREM RunLoopIsSingle == Spec => []SingleRunLoop
<1>1. OneContinuation => SingleRunLoop
  BY DEF OneContinuation, Continuation, SingleRunLoop
<1> QED
  BY <1>1, ContinuationIsUnique, PTL
-----------------------------------------------------------------------------
(* What a step may do to the run loop, stack and exit of a fiber: nothing, *)
(* unless its loop runs, it is being born, or a resumption heads its inbox. *)
Settled(f) == exitValue'[f] = exitValue[f] /\ loop'[f] = loop[f] /\ stack'[f] = stack[f]

(* A step other than the resumption of f does not start the run loop of f. *)
LEMMA OnlyTheRunning ==
    ASSUME TypeOK, [Next]_vars, NEW h \in Fibers, loop[h] = "idle",
           queue[h] = <<>> \/ Head(queue[h]).tag # "Resume"
    PROVE  Settled(h)
<1> USE DEF TypeOK
<1>1. CASE Start
  BY <1>1, RootAssumption DEF Start, Born, Settled
<1>2. ASSUME NEW f \in Fibers,
             \/ StartReturn(f) \/ Run(f) \/ DrainDone(f) \/ DrainYield(f)
             \/ HandleInterrupt(f) \/ RunInterrupt(f) \/ HandleAddObserver(f)
             \/ HandleRemoveObserver(f) \/ HandleAddChild(f)
             \/ (\E g \in Fibers : InterruptFiber(f, g)) \/ Fail(f) \/ Return(f)
      PROVE  Settled(h)
  <2>1. UNCHANGED <<exitValue, loop, stack>>
    BY <1>2 DEF StartReturn, Run, DrainDone, DrainYield, HandleInterrupt, RunInterrupt,
                HandleAddObserver, HandleRemoveObserver, HandleAddChild, InterruptFiber, Fail,
                Return, evalVars
  <2> QED
    BY <2>1 DEF Settled
<1>3. ASSUME NEW f \in Fibers, HandleResume(f)
      PROVE  Settled(h)
  BY <1>3 DEF HandleResume, Receives, Settled
<1>4. ASSUME NEW f \in Fibers, NEW c \in Fibers, NEW p \in Scopes[f], Fork(f, c, p)
      PROVE  Settled(h)
  BY <1>4 DEF Fork, Born, Settled
<1>5. ASSUME NEW f \in Fibers, NEW g, NEW base, loop[f] = "running", SuspendOn(f, g, base)
      PROVE  Settled(h)
  BY <1>5 DEF SuspendOn, Settled
<1>6. ASSUME NEW f \in Fibers,
             (\E g \in Fibers : Await(f, g)) \/ ChildrenNext(f)
      PROVE  Settled(h)
  <2>1. loop[f] = "running"
    BY <1>6 DEF Await, Primitive, Evaluates, ChildrenNext, Unwinding, Turn
  <2> QED
    BY <1>5, <1>6, <2>1 DEF Await, ChildrenNext
<1>7. ASSUME NEW f \in Fibers,
             \/ Async(f) \/ Yield(f) \/ (\E b \in BOOLEAN : Region(f, b)) \/ CatchAll(f)
      PROVE  Settled(h)
  BY <1>7 DEF Async, Yield, Region, CatchAll, Primitive, Evaluates, Turn, Settled
<1>8. ASSUME NEW f \in Fibers,
             OnSuccess(f) \/ OnFailure(f) \/ RevertFlags(f) \/ AwaitExit(f) \/ ChildrenDone(f)
      PROVE  Settled(h)
  BY <1>8 DEF OnSuccess, OnFailure, RevertFlags, AwaitExit, ChildrenDone, Reverted, Unwinding,
              Turn, unwindFrame, Settled
<1>9. ASSUME NEW f \in Fibers, WindDown(f)
      PROVE  Settled(h)
  BY <1>9 DEF WindDown, WindDownChildren, WindDownMessages, SetExitValue, LoopReturn, Settled
<1>10. ASSUME NEW f \in Fibers, NEW n \in external[f], ExternalCall(f, n)
       PROVE  Settled(h)
  BY <1>10 DEF ExternalCall, evalVars, Settled
<1>11. CASE UNCHANGED vars
  BY <1>11 DEF vars, evalVars, Settled
<1> QED
  BY <1>1, <1>2, <1>3, <1>4, <1>6, <1>7, <1>8, <1>9, <1>10, <1>11
     DEF Next, Advance, Handle, Evaluate, Unwind

(* A fiber ends once: what comes later changes neither its exit nor its    *)
(* stack, and its run loop never starts again. *)
THEOREM DoneStays == Spec => DoneIsFinal
<1>1. TypeOK /\ OneContinuation /\ [Next]_vars =>
          [\A f \in Fibers : Done(f) =>
              exitValue'[f] = exitValue[f] /\ loop'[f] = "idle" /\ stack'[f] = stack[f]]_vars
  <2> SUFFICES ASSUME TypeOK, OneContinuation, [Next]_vars, NEW f \in Fibers, Done(f)
               PROVE  exitValue'[f] = exitValue[f] /\ loop'[f] = "idle" /\ stack'[f] = stack[f]
    OBVIOUS
  <2>1. loop[f] = "idle" /\ Silent(queue[f])
    BY DEF OneContinuation, Continuation
  <2>2. queue[f] = <<>> \/ Head(queue[f]).tag # "Resume"
    <3> SUFFICES ASSUME queue[f] # <<>>
                 PROVE  Head(queue[f]).tag # "Resume"
      OBVIOUS
    <3>1. queue[f] \in Seq(Messages)
      BY DEF TypeOK
    <3>2. 1 \notin Mail(queue[f], {"Resume", "YieldNow"})
      BY <2>1 DEF Silent
    <3> QED
      BY <3>1, <3>2, MailTail
  <2> QED
    BY <2>1, <2>2, OnlyTheRunning DEF Settled
<1> QED
  BY <1>1, TypeCorrect, ContinuationIsUnique, PTL DEF Spec, DoneIsFinal

-----------------------------------------------------------------------------
(* The messages in an inbox, whatever their order.                         *)

Contents(q) == {q[i] : i \in 1 .. Len(q)}
Resumes(f) == {m \in Contents(queue[f]) : m.tag = "Resume"}

(* A message that is appended joins the others. *)
LEMMA ContentsAppend ==
    ASSUME NEW s \in Seq(Messages), NEW m \in Messages
    PROVE  Contents(Append(s, m)) = Contents(s) \cup {m}
<1>1. ASSUME NEW x \in Contents(Append(s, m))
      PROVE  x \in Contents(s) \cup {m}
  BY <1>1 DEF Contents
<1>2. ASSUME NEW i \in 1 .. Len(s)
      PROVE  s[i] \in Contents(Append(s, m))
  BY DEF Contents
<1>3. m \in Contents(Append(s, m))
  <2>1. Append(s, m)[Len(s) + 1] = m /\ Len(s) + 1 \in 1 .. Len(Append(s, m))
    OBVIOUS
  <2> QED
    BY <2>1 DEF Contents
<1> QED
  BY <1>1, <1>2, <1>3 DEF Contents

(* Polling takes the first message away. *)
LEMMA ContentsTail ==
    ASSUME NEW s \in Seq(Messages), s # <<>>
    PROVE  Contents(s) = Contents(Tail(s)) \cup {Head(s)}
<1>1. ASSUME NEW i \in 1 .. Len(Tail(s))
      PROVE  Tail(s)[i] \in Contents(s)
  <2>1. Tail(s)[i] = s[i + 1] /\ i + 1 \in 1 .. Len(s)
    OBVIOUS
  <2> QED
    BY <2>1 DEF Contents
<1>2. ASSUME NEW i \in 1 .. Len(s)
      PROVE  s[i] \in Contents(Tail(s)) \cup {Head(s)}
  <2>1. CASE i = 1
    BY <2>1
  <2>2. CASE i # 1
    <3>1. s[i] = Tail(s)[i - 1] /\ i - 1 \in 1 .. Len(Tail(s))
      BY <2>2
    <3> QED
      BY <3>1 DEF Contents
  <2> QED
    BY <2>1, <2>2
<1>3. Head(s) = s[1] /\ 1 \in 1 .. Len(s)
  OBVIOUS
<1>4. Head(s) \in Contents(s)
  BY <1>3 DEF Contents
<1> QED
  BY <1>1, <1>2, <1>4 DEF Contents

(* What is in the inboxes after a message was offered to some fibers. *)
LEMMA OfferedContents ==
    ASSUME NEW q \in [Fibers -> Seq(Messages)], NEW to, NEW m \in Messages, NEW h \in Fibers
    PROVE  /\ h \in to => Contents(Offered(q, to, m)[h]) = Contents(q[h]) \cup {m}
           /\ h \notin to => Contents(Offered(q, to, m)[h]) = Contents(q[h])
  BY ContentsAppend DEF Offered

(* What is in the inboxes after one was polled. *)
LEMMA PolledContents ==
    ASSUME TypeOK, NEW f \in Fibers, queue[f] # <<>>, NEW h \in Fibers
    PROVE  /\ Contents(Polled(f)[h]) \subseteq Contents(queue[h])
           /\ Contents(queue[h]) \subseteq
                 Contents(Polled(f)[h]) \cup (IF h = f THEN {Head(queue[f])} ELSE {})
           /\ Head(queue[f]) \in Contents(queue[f])
  BY ContentsTail DEF Polled, TypeOK

(* An inbox without resumptions or yields has none. *)
LEMMA SilentContents ==
    ASSUME NEW q, Silent(q), NEW m \in Contents(q)
    PROVE  m.tag # "Resume"
  BY DEF Silent, Mail, Contents

-----------------------------------------------------------------------------
(* What a step may do to a fiber.                                          *)

(* It leaves the fiber alone, but for its inbox and its interruptor. *)
Resting(h) ==
    /\ UNCHANGED <<loop[h], cur[h], stack[h], verdict[h], windDown[h], exitValue[h],
                   asyncs[h], external[h]>>
    /\ asyncInterruptor'[h] \in {asyncInterruptor[h], 0}

(* Otherwise the fiber acts itself, or is born. *)
LEMMA StepsOfFibers ==
    ASSUME TypeOK, [Next]_vars, NEW h \in Fibers
    PROVE  \/ Resting(h)
           \/ HandleResume(h) \/ RunInterrupt(h) \/ Evaluate(h) \/ Unwind(h) \/ WindDown(h)
           \/ h = Root /\ Start
           \/ \E f \in Fibers : \E p \in Scopes[f] : Fork(f, h, p)
<1> USE DEF TypeOK
<1>1. ASSUME NEW f \in Fibers,
             \/ StartReturn(f) \/ Run(f) \/ DrainDone(f) \/ DrainYield(f)
             \/ HandleInterrupt(f) \/ HandleAddObserver(f) \/ HandleRemoveObserver(f)
             \/ HandleAddChild(f) \/ \E n \in external[f] : ExternalCall(f, n)
      PROVE  Resting(h)
  BY <1>1 DEF StartReturn, Run, DrainDone, DrainYield, HandleInterrupt, HandleAddObserver,
              HandleRemoveObserver, HandleAddChild, ExternalCall, evalVars, asyncVars,
              historyVars, Resting
<1>2. ASSUME NEW f \in Fibers, HandleResume(f) \/ RunInterrupt(f), f # h
      PROVE  Resting(h)
  BY <1>2 DEF HandleResume, RunInterrupt, evalVars, asyncVars, historyVars, Resting
<1>3. ASSUME NEW f \in Fibers, Evaluate(f), f # h,
             ~\E p \in Scopes[f] : Fork(f, h, p)
      PROVE  Resting(h)
  <2>1. ASSUME NEW c \in Fibers, c # h, NEW p \in Scopes[f], Fork(f, c, p)
        PROVE  Resting(h)
    BY <2>1 DEF Fork, asyncVars, Resting
  <2>2. ASSUME NEW g \in Fibers, Await(f, g)
        PROVE  Resting(h)
    BY <1>3, <2>2 DEF Await, SuspendOn, historyVars, Resting
  <2>3. ASSUME (\E g \in Fibers : InterruptFiber(f, g)) \/ (\E b \in BOOLEAN : Region(f, b))
               \/ CatchAll(f) \/ Fail(f) \/ Return(f)
        PROVE  Resting(h)
    BY <1>3, <2>3 DEF InterruptFiber, Region, CatchAll, Fail, Return, asyncVars, historyVars,
                      Resting
  <2>4. ASSUME Async(f) \/ Yield(f)
        PROVE  Resting(h)
    BY <1>3, <2>4 DEF Async, Yield, asyncVars, historyVars, Resting
  <2> QED
    BY <1>3, <2>1, <2>2, <2>3, <2>4 DEF Evaluate
<1>4. ASSUME NEW f \in Fibers, Unwind(f), f # h
      PROVE  Resting(h)
  <2>1. ASSUME ChildrenNext(f)
        PROVE  Resting(h)
    BY <1>4, <2>1 DEF ChildrenNext, SuspendOn, historyVars, Resting
  <2>2. ASSUME OnSuccess(f) \/ OnFailure(f) \/ RevertFlags(f) \/ AwaitExit(f) \/ ChildrenDone(f)
        PROVE  Resting(h)
    BY <1>4, <2>2 DEF OnSuccess, OnFailure, RevertFlags, AwaitExit, Reverted, ChildrenDone,
                      unwindFrame, asyncVars, historyVars, Resting
  <2> QED
    BY <1>4, <2>1, <2>2 DEF Unwind
<1>5. ASSUME NEW f \in Fibers, WindDown(f), f # h
      PROVE  Resting(h)
  BY <1>5 DEF WindDown, WindDownChildren, WindDownMessages, SetExitValue, LoopReturn, asyncVars,
              Resting
<1>6. ASSUME Start, h # Root
      PROVE  Resting(h)
  BY <1>6 DEF Start, asyncVars, historyVars, Resting
<1>7. CASE UNCHANGED vars
  BY <1>7 DEF vars, evalVars, asyncVars, historyVars, Resting
<1> QED
  BY <1>1, <1>2, <1>3, <1>4, <1>5, <1>6, <1>7 DEF Next, Advance, Handle

(* Which messages are which. *)
LEMMA Tags ==
    /\ Interrupt.tag = "Interrupt" /\ YieldNow.tag = "YieldNow"
    /\ \A e : Resume(e).tag = "Resume" /\ Resume(e).eff = e
    /\ \A f, n : AddObserver(f, n).tag = "AddObserver" /\ RemoveObserver(f, n).tag = "RemoveObserver"
    /\ \A c : AddChild(c).tag = "AddChild"
  BY DEF Interrupt, YieldNow, Resume, AddObserver, RemoveObserver, AddChild

(* Fiber h is registered as an observer of g with its callback n, or will  *)
(* be as soon as g handles the message.                                    *)
Registered(g, h, n) ==
    AwaitObserver(h, n) \in observers[g] \/ AddObserver(h, n) \in Contents(queue[g])

(* The effects of the resumptions that callbacks put into the inbox of h:  *)
(* the interrupt of a suspended operation, and its result.                 *)
Calls(h, e) ==
    \/ e = "fail" /\ asyncInterruptor[h] \in Uncalled(h)
    \/ e = "ok" /\ \E n \in Uncalled(h) :
          n \in external[h] \/ \E g \in Fibers : Registered(g, h, n) /\ Done(g)'

(* Calling callbacks brings resumptions to their fibers only. *)
LEMMA CallbackResumes ==
    ASSUME TypeOK, NEW q \in [Fibers -> Seq(Messages)], NEW cbs, NEW e \in {"next", "ok", "fail"},
           NEW h \in Fibers, queue' = Offered(q, Fresh(cbs), Resume(e)),
           Contents(q[h]) \subseteq Contents(queue[h]) \cup {Interrupt},
           NEW m, m \in Resumes(h)', m \notin Resumes(h)
    PROVE  m.eff = e /\ \E n \in Uncalled(h) : <<h, n>> \in cbs
<1>1. /\ h \in Fresh(cbs) => Contents(queue'[h]) = Contents(q[h]) \cup {Resume(e)}
      /\ h \notin Fresh(cbs) => Contents(queue'[h]) = Contents(q[h])
  BY ContentsAppend, MessageTypes DEF Offered
<1>2. h \in Fresh(cbs) /\ m = Resume(e)
  BY <1>1, Tags DEF Resumes
<1> QED
  BY <1>2, Tags DEF Fresh

(* Other messages are no resumptions. *)
LEMMA QuietResumes ==
    ASSUME NEW q \in [Fibers -> Seq(Messages)], NEW to, NEW m \in Messages, m.tag # "Resume",
           NEW h \in Fibers, queue' = Offered(q, to, m),
           Contents(q[h]) \subseteq Contents(queue[h])
    PROVE  Resumes(h)' \subseteq Resumes(h)
<1>1. Contents(queue'[h]) \subseteq Contents(q[h]) \cup {m}
  BY OfferedContents
<1> QED
  BY <1>1 DEF Resumes

(* Flags and numbers of callbacks. *)
LEMMA FlagTypes ==
    ASSUME TypeOK, NEW h \in Fibers
    PROVE  flag[h] \in BOOLEAN /\ asyncs[h] \in Nat /\ asyncs[h] + 1 \in Nat
<1>1. flag[h] \in BOOLEAN
  BY DEF TypeOK
<1>2. asyncs[h] \in Nat
  BY DEF TypeOK
<1> QED
  BY <1>1, <1>2

(* The top of a stack after a push. *)
LEMMA AppendLast ==
    ASSUME NEW s \in Seq(Frames), NEW k \in Frames
    PROVE  /\ Append(s, k) \in Seq(Frames) /\ Append(s, k) # <<>>
           /\ Len(Append(s, k)) = Len(s) + 1 /\ Append(s, k)[Len(Append(s, k))] = k
<1>1. Len(Append(s, k)) = Len(s) + 1 /\ Append(s, k)[Len(s) + 1] = k
  OBVIOUS
<1>2. Append(s, k) # <<>>
  BY <1>1
<1> QED
  BY <1>1, <1>2

(* A suspended fiber is resumed through its callbacks only. *)
LEMMA NewResumes ==
    ASSUME TypeOK, [Next]_vars, NEW h \in Fibers, loop[h] = "idle",
           NEW m, m \in Resumes(h)', m \notin Resumes(h)
    PROVE  Calls(h, m.eff)
<1> USE DEF TypeOK
<1>a. \A f \in Fibers : queue[f] # <<>> =>
          Polled(f) \in [Fibers -> Seq(Messages)] /\ Contents(Polled(f)[h]) \subseteq Contents(queue[h])
  BY PolledType, PolledContents
<1>b. ASSUME NEW f \in Fibers, NEW g \in Fibers, NEW base, SuspendOn(f, g, base)
      PROVE  FALSE
  <2>1. queue' = Offered(queue, {g}, AddObserver(f, asyncs[f] + 1))
    BY <1>b DEF SuspendOn, Tell
  <2>2. AddObserver(f, asyncs[f] + 1) \in Messages
    BY FlagTypes, MessageTypes
  <2> QED
    BY <2>1, <2>2, QuietResumes, Tags
<1>1. ASSUME NEW f \in Fibers, HandleInterrupt(f)
      PROVE  Calls(h, m.eff)
  <2> DEFINE told == Offered(Polled(f), children[f], Interrupt)
  <2>1. told \in [Fibers -> Seq(Messages)]
    BY <1>1, <1>a, OfferedType, MessageTypes DEF HandleInterrupt, Receives
  <2>2. Contents(told[h]) \subseteq Contents(queue[h]) \cup {Interrupt}
    <3>1. Contents(told[h]) \subseteq Contents(Polled(f)[h]) \cup {Interrupt}
      <4>1. Polled(f) \in [Fibers -> Seq(Messages)] /\ Interrupt \in Messages
        BY <1>1, <1>a, MessageTypes DEF HandleInterrupt, Receives
      <4> QED
        BY <4>1, ContentsAppend DEF Offered
    <3> QED
      BY <1>1, <1>a, <3>1 DEF HandleInterrupt, Receives
  <2>3. queue' = Offered(told, Fresh(Interruptor(f)), Resume("fail"))
    BY <1>1 DEF HandleInterrupt
  <2> HIDE DEF told
  <2>4. m.eff = "fail" /\ \E n \in Uncalled(h) : <<h, n>> \in Interruptor(f)
    BY <2>1, <2>2, <2>3, CallbackResumes
  <2> QED
    BY <2>4 DEF Interruptor, Calls
<1>2. ASSUME NEW f \in Fibers, HandleAddObserver(f)
      PROVE  Calls(h, m.eff)
  <2> DEFINE o == Head(queue[f])
             cbs == {<<o.who, o.cb>>}
  <2>1. queue[f] # <<>> /\ o.tag = "AddObserver"
    BY <1>2 DEF HandleAddObserver, Handling, Receives
  <2>2. CASE Done(f) /\ Tell(Polled(f), Fresh(cbs), Resume("ok"))
    <3>1. m.eff = "ok" /\ \E n \in Uncalled(h) : <<h, n>> \in cbs
      <4>1. /\ queue' = Offered(Polled(f), Fresh(cbs), Resume("ok"))
            /\ Polled(f) \in [Fibers -> Seq(Messages)]
            /\ Contents(Polled(f)[h]) \subseteq Contents(queue[h]) \cup {Interrupt}
        BY <1>a, <2>1, <2>2 DEF Tell
      <4> HIDE DEF TypeOK
      <4> QED
        BY <4>1, CallbackResumes
    <3>2. PICK n \in Uncalled(h) : o.who = h /\ o.cb = n
      BY <3>1
    <3>3. o = AddObserver(h, n) /\ o \in Contents(queue[f])
      <4>1. o \in Messages /\ o \in Contents(queue[f])
        BY <2>1, PolledType, PolledContents
      <4>2. o \in [tag: {"AddObserver", "RemoveObserver"}, who: Fibers, cb: Nat]
        BY <2>1, <4>1 DEF Messages, Interrupt, YieldNow
      <4> QED
        BY <2>1, <3>2, <4>1, <4>2 DEF AddObserver
    <3>4. Done(f)'
      BY <1>2, <2>2 DEF HandleAddObserver, Done
    <3> QED
      BY <3>1, <3>2, <3>3, <3>4 DEF Calls, Registered
  <2>3. CASE queue' = Polled(f)
    BY <1>a, <2>1, <2>3 DEF Resumes
  <2> QED
    BY <1>2, <2>2, <2>3 DEF HandleAddObserver
<1>3. ASSUME NEW f \in Fibers, SetExitValue(f)
      PROVE  Calls(h, m.eff)
  <2>1. m.eff = "ok" /\ \E n \in Uncalled(h) : <<h, n>> \in AwaitingCallbacks(f)
    BY <1>3, CallbackResumes DEF SetExitValue, Tell
  <2>2. PICK n \in Uncalled(h) : <<h, n>> \in AwaitingCallbacks(f)
    BY <2>1
  <2>3. AwaitObserver(h, n) \in observers[f]
    <3>1. PICK o \in observers[f] : o.kind = "await" /\ <<h, n>> = <<o.who, o.cb>>
      BY <2>2 DEF AwaitingCallbacks
    <3>2. o = [kind |-> "await", who |-> h, cb |-> n]
      BY <3>1
    <3> QED
      BY <3>1, <3>2 DEF AwaitObserver
  <2>4. Done(f)'
    BY <1>3 DEF SetExitValue, LoopReturn, Done, Results, None
  <2> QED
    BY <2>1, <2>2, <2>3, <2>4 DEF Calls, Registered
<1>4. ASSUME NEW f \in Fibers, NEW n \in external[f], ExternalCall(f, n)
      PROVE  Calls(h, m.eff)
  <2>1. m.eff = "ok" /\ \E k \in Uncalled(h) : <<h, k>> \in {<<f, n>>}
    BY <1>4, CallbackResumes DEF ExternalCall, Tell
  <2> QED
    BY <2>1 DEF Calls
<1>5. ASSUME NEW f \in Fibers,
             \/ DrainYield(f) \/ HandleResume(f) \/ HandleRemoveObserver(f) \/ HandleAddChild(f)
      PROVE  FALSE
  <2>1. queue[f] # <<>> /\ queue' = Polled(f)
    BY <1>5 DEF DrainYield, HandleResume, HandleRemoveObserver, HandleAddChild, Handling, Receives
  <2> QED
    BY <1>a, <2>1 DEF Resumes
<1>6. ASSUME NEW f \in Fibers, RunInterrupt(f)
      PROVE  FALSE
  BY <1>6, <1>a, QuietResumes, MessageTypes, Tags DEF RunInterrupt, Receives, Tell
<1>7. ASSUME NEW f \in Fibers,
             \/ WindDownChildren(f) \/ (\E g \in Fibers : InterruptFiber(f, g))
             \/ AwaitExit(f)
      PROVE  FALSE
  <2>1. CASE WindDownChildren(f) \/ \E g \in Fibers : InterruptFiber(f, g)
    <3>1. PICK to : queue' = Offered(queue, to, Interrupt)
      BY <2>1 DEF WindDownChildren, InterruptFiber, Tell
    <3> QED
      BY <3>1, QuietResumes, MessageTypes, Tags
  <2>2. CASE AwaitExit(f)
    <3>1. CASE UNCHANGED mailVars
      BY <3>1 DEF mailVars, Resumes
    <3>2. CASE Unwinding(f, "fail", "Await") /\ Tell(queue, {Top(f).on}, RemoveObserver(f, Top(f).cb))
      <4>1. RemoveObserver(f, Top(f).cb) \in Messages
        BY <3>2, StackParts, FrameParts, MessageTypes DEF Unwinding
      <4> QED
        BY <3>2, <4>1, QuietResumes, Tags DEF Tell
    <3> QED
      BY <2>2, <3>1, <3>2 DEF AwaitExit
  <2> QED
    BY <1>7, <2>1, <2>2
<1>8. ASSUME NEW f \in Fibers, NEW c \in Fibers, NEW p \in Scopes[f], Fork(f, c, p)
      PROVE  FALSE
  <2> DEFINE q == Offered(queue, {p} \ {NoFiber}, AddChild(c))
  <2>1. q \in [Fibers -> Seq(Messages)]
    BY OfferedType, MessageTypes
  <2>2. queue' = Offered(q, {c}, Resume("next")) /\ c # h
    BY <1>8 DEF Fork, Born
  <2>3. Contents(q[h]) \subseteq Contents(queue[h]) \cup {AddChild(c)}
    <3>1. AddChild(c) \in Messages
      BY MessageTypes
    <3> QED
      BY <3>1, ContentsAppend DEF Offered
  <2> HIDE DEF q
  <2>4. Contents(queue'[h]) = Contents(q[h])
    <3>1. Resume("next") \in Messages /\ h \notin {c}
      BY <2>2, MessageTypes
    <3> QED
      BY <2>1, <2>2, <3>1, ContentsAppend DEF Offered
  <2> QED
    BY <2>3, <2>4, Tags DEF Resumes
<1>9. ASSUME NEW f \in Fibers, Await(f, h) \/ \E g \in Fibers : Await(f, g)
      PROVE  FALSE
  BY <1>9, <1>b DEF Await
<1>10. ASSUME NEW f \in Fibers, ChildrenNext(f)
       PROVE  FALSE
  BY <1>10, <1>b, StackParts, FrameParts DEF ChildrenNext, Unwinding
<1>11. ASSUME NEW f \in Fibers, Async(f) \/ Yield(f) \/ WindDownMessages(f)
       PROVE  FALSE
  <2>1. f # h
    BY <1>11 DEF Async, Yield, WindDownMessages, Primitive, Evaluates, Turn, LoopReturn
  <2>2. queue'[h] = queue[h]
    BY <1>11, <2>1 DEF Async, Yield, WindDownMessages, Tell, Offered, mailVars
  <2> QED
    BY <2>2 DEF Resumes
<1>12. CASE UNCHANGED queue
  BY <1>12 DEF Resumes
<1>13. ASSUME NEW f \in Fibers,
              \/ StartReturn(f) \/ Run(f) \/ DrainDone(f)
              \/ (\E b \in BOOLEAN : Region(f, b)) \/ CatchAll(f) \/ Fail(f) \/ Return(f)
              \/ OnSuccess(f) \/ OnFailure(f) \/ RevertFlags(f) \/ ChildrenDone(f)
       PROVE  UNCHANGED queue
  BY <1>13 DEF StartReturn, Run, DrainDone, Region, CatchAll, Fail, Return, OnSuccess, OnFailure,
              RevertFlags, ChildrenDone, mailVars
<1>14. Start \/ UNCHANGED vars => UNCHANGED queue
  BY DEF Start, vars, mailVars
<1> QED
  BY <1>1, <1>2, <1>3, <1>4, <1>5, <1>6, <1>7, <1>8, <1>9, <1>10, <1>11, <1>12, <1>13, <1>14
     DEF Next, Advance, Handle, Evaluate, Unwind, WindDown

(* Callbacks that were called stay called. *)
LEMMA CalledStays ==
    ASSUME TypeOK, [Next]_vars, NEW h \in Fibers
    PROVE  called[h] \subseteq called'[h]
<1> USE DEF TypeOK
<1>1. ASSUME NEW cbs, called' = Called(cbs)
      PROVE  called[h] \subseteq called'[h]
  BY <1>1 DEF Called
<1>2. ASSUME NEW f \in Fibers, HandleInterrupt(f) \/ HandleAddObserver(f) \/ SetExitValue(f)
             \/ \E n \in external[f] : ExternalCall(f, n)
      PROVE  called[h] \subseteq called'[h]
  BY <1>1, <1>2 DEF HandleInterrupt, HandleAddObserver, SetExitValue, ExternalCall
<1>3. ASSUME NEW f \in Fibers, Async(f)
      PROVE  called[h] \subseteq called'[h]
  <2>1. CASE called' = [called EXCEPT ![f] = @ \cup {asyncs[f] + 1}]
    BY <2>1
  <2>2. CASE UNCHANGED called
    BY <2>2
  <2> QED
    BY <1>3, <2>1, <2>2 DEF Async
<1>4. ASSUME NEW f \in Fibers,
             \/ StartReturn(f) \/ Run(f) \/ DrainDone(f) \/ DrainYield(f)
             \/ HandleResume(f) \/ RunInterrupt(f) \/ HandleRemoveObserver(f) \/ HandleAddChild(f)
             \/ (\E c \in Fibers : \E p \in Scopes[f] : Fork(f, c, p))
             \/ (\E g \in Fibers : InterruptFiber(f, g)) \/ (\E g \in Fibers : Await(f, g))
             \/ (\E b \in BOOLEAN : Region(f, b)) \/ Yield(f) \/ CatchAll(f) \/ Fail(f)
      PROVE  UNCHANGED called
  BY <1>4 DEF StartReturn, Run, DrainDone, DrainYield, HandleResume, RunInterrupt,
              HandleRemoveObserver, HandleAddChild, Fork, InterruptFiber, Await, SuspendOn,
              Region, Yield, CatchAll, Fail, asyncVars
<1>5. ASSUME NEW f \in Fibers,
             \/ Return(f) \/ OnSuccess(f) \/ OnFailure(f) \/ RevertFlags(f) \/ AwaitExit(f)
             \/ ChildrenNext(f) \/ ChildrenDone(f) \/ WindDownChildren(f) \/ WindDownMessages(f)
      PROVE  UNCHANGED called
  BY <1>5 DEF Return, OnSuccess, OnFailure, RevertFlags, AwaitExit, Reverted, ChildrenNext,
              SuspendOn, ChildrenDone, WindDownChildren, WindDownMessages, unwindFrame, asyncVars
<1>6. Start \/ UNCHANGED vars => UNCHANGED called
  BY DEF Start, vars, asyncVars
<1> QED
  BY <1>2, <1>3, <1>4, <1>5, <1>6 DEF Next, Advance, Handle, Evaluate, Unwind, WindDown

-----------------------------------------------------------------------------
(* The exit of the first run loop is the exit of the fiber.                *)

(* What the fiber evaluates, or is resumed with, when it has its verdict:  *)
(* the verdict again, once its stack is empty.                             *)
Due(f) == IF stack[f] = <<>> THEN verdict[f] ELSE "ok"

(* The stack of a fiber that winds down: the children to await, the await  *)
(* of one, and what a yield is to go on with.                              *)
WindDownFrame(k, i, v) ==
    \/ k.k = "Then" /\ k.c = (IF i = 1 THEN v ELSE "ok")
    \/ k.k = "Await" /\ i > 1
    \/ k.k = "Children" /\ i = 1 /\ k.exit = v

WindDownStack(s, v) == \A i \in 1 .. Len(s) : WindDownFrame(s[i], i, v)

LEMMA WindDownAppend ==
    ASSUME NEW s \in Seq(Frames), NEW k \in Frames, NEW v,
           WindDownStack(s, v), WindDownFrame(k, Len(s) + 1, v)
    PROVE  WindDownStack(Append(s, k), v)
  BY DEF WindDownStack

LEMMA WindDownPop ==
    ASSUME TypeOK, NEW f \in Fibers, stack[f] # <<>>, NEW v, WindDownStack(stack[f], v)
    PROVE  /\ WindDownStack(Pop(f), v) /\ WindDownFrame(Top(f), Len(stack[f]), v)
           /\ Len(stack[f]) \in Nat \ {0} /\ Len(Pop(f)) = Len(stack[f]) - 1
           /\ (Pop(f) = <<>> <=> Len(stack[f]) = 1)
<1> DEFINE s == stack[f]
<1>1. s \in Seq(Frames) /\ s # <<>>
  BY DEF TypeOK
<1>2. WindDownStack(s, v) /\ Pop(f) = SubSeq(s, 1, Len(s) - 1) /\ Top(f) = s[Len(s)]
  BY DEF Pop, Top
<1> HIDE DEF s
<1>3. Len(s) \in Nat \ {0} /\ Len(SubSeq(s, 1, Len(s) - 1)) = Len(s) - 1
  <2>1. Len(s) \in Nat /\ Len(s) # 0
    BY <1>1
  <2>2. Len(s) - 1 \in Nat /\ Len(s) - 1 \leq Len(s)
    BY <2>1
  <2> DEFINE n == Len(s) - 1
  <2>3. n \in 0 .. Len(s)
    BY <2>1, <2>2
  <2> HIDE DEF n
  <2>4. Len(SubSeq(s, 1, n)) = n
    BY <1>1, <2>3
  <2> QED
    BY <2>1, <2>4 DEF n
<1>4. \A i \in 1 .. Len(s) - 1 : SubSeq(s, 1, Len(s) - 1)[i] = s[i]
  BY <1>1
<1>5. WindDownStack(Pop(f), v)
  BY <1>2, <1>3, <1>4 DEF WindDownStack
<1>6. WindDownFrame(Top(f), Len(s), v)
  BY <1>2, <1>3 DEF WindDownStack
<1>7. Pop(f) \in Seq(Frames)
  BY <1>1, <1>2
<1>8. Len(Pop(f)) = Len(s) - 1
  BY <1>2, <1>3
<1>9. Pop(f) = <<>> <=> Len(s) = 1
  <2>1. Pop(f) = <<>> <=> Len(Pop(f)) = 0
    BY <1>7
  <2> QED
    BY <1>3, <1>8, <2>1
<1> QED
  BY <1>3, <1>5, <1>6, <1>8, <1>9 DEF s

(* Callbacks interrupt suspended fibers only. *)
Calm(f) ==
    /\ loop[f] # "idle" => asyncInterruptor[f] = 0
    /\ loop[f] = "unborn" => stack[f] = <<>> /\ verdict[f] = None

(* Nothing interrupts a fiber that winds down, or resumes it with anything *)
(* but what is due.                                                        *)
Finishing(f) ==
    verdict[f] # None =>
        /\ windDown[f] /\ asyncInterruptor[f] = 0
        /\ WindDownStack(stack[f], verdict[f])
        /\ loop[f] = "running" => cur[f] = Due(f)
        /\ \A m \in Resumes(f) : m.eff = Due(f)
        /\ Uncalled(f) # {} => stack[f] # <<>>

Ended(f) == Done(f) => exitValue[f] = verdict[f] /\ stack[f] = <<>>

VerdictInv == \A f \in Fibers : Calm(f) /\ Finishing(f) /\ Ended(f)

(* While a fiber runs, it has neither resumptions nor callbacks left. *)
LEMMA RunningAlone ==
    ASSUME OneContinuation, NEW f \in Fibers, loop[f] # "idle" \/ Done(f)
    PROVE  Resumes(f) = {} /\ Uncalled(f) = {} /\ (loop[f] = "running" => ~Done(f))
  BY SilentContents DEF OneContinuation, Continuation, Resumes

(* Nobody else changes what a fiber winds down to. *)
LEMMA RestingVerdict ==
    ASSUME TypeOK, OneContinuation, OneContinuation', [Next]_vars, NEW h \in Fibers, Resting(h),
           Calm(h), Finishing(h), Ended(h)
    PROVE  Calm(h)' /\ Finishing(h)' /\ Ended(h)'
<1>1. Calm(h)' /\ Ended(h)'
  BY DEF Resting, Calm, Ended, Done
<1>2. ASSUME verdict[h] # None
      PROVE  Finishing(h)'
  <2>1. asyncInterruptor[h] \notin Uncalled(h)
    BY <1>2 DEF Finishing, Uncalled, TypeOK
  <2>2. ASSUME NEW m \in Resumes(h)'
        PROVE  m.eff = Due(h)
    <3>1. CASE m \in Resumes(h)
      BY <1>2, <3>1 DEF Finishing
    <3>2. CASE m \notin Resumes(h)
      <4>1. loop[h] = "idle"
        <5>1. loop'[h] = "idle" \/ Resumes(h)' = {}
          BY SilentContents DEF OneContinuation, Continuation, Resumes
        <5> QED
          BY <2>2, <5>1 DEF Resting
      <4>2. Calls(h, m.eff)
        BY <2>2, <3>2, <4>1, NewResumes
      <4> QED
        BY <1>2, <2>1, <4>2 DEF Calls, Finishing, Due
    <3> QED
      BY <3>1, <3>2
  <2>3. Uncalled(h)' \subseteq Uncalled(h)
    BY CalledStays DEF Uncalled, Resting
  <2> QED
    BY <1>2, <2>2, <2>3 DEF Finishing, Resting, Due
<1>3. ASSUME verdict[h] = None
      PROVE  Finishing(h)'
  <2>1. verdict'[h] = None
    BY <1>3 DEF Resting
  <2> QED
    BY <2>1 DEF Finishing
<1> QED
  BY <1>1, <1>2, <1>3

(* The steps of a fiber that winds down. *)
LEMMA ActingVerdict ==
    ASSUME TypeOK, OneContinuation, TypeOK', OneContinuation', NEW h \in Fibers,
           Calm(h), Finishing(h), Ended(h),
           HandleResume(h) \/ RunInterrupt(h) \/ Evaluate(h) \/ Unwind(h) \/ WindDown(h)
    PROVE  Calm(h)' /\ Finishing(h)' /\ Ended(h)'
<1> USE DEF TypeOK
<1>a. ASSUME loop'[h] = "running"
      PROVE  Resumes(h)' = {} /\ Uncalled(h)' = {} /\ ~Done(h)'
  <2>1. Silent(queue'[h]) /\ Uncalled(h)' = {} /\ ~Done(h)'
    BY <1>a DEF OneContinuation, Continuation
  <2>2. \A m \in Contents(queue'[h]) : m.tag # "Resume"
    BY <2>1, SilentContents
  <2> QED
    <3>1. Resumes(h)' = {m \in Contents(queue'[h]) : m.tag = "Resume"}
      BY DEF Resumes
    <3> HIDE DEF TypeOK
    <3> QED
      BY <2>1, <2>2, <3>1
<1>b. ASSUME loop[h] = "running"
      PROVE  /\ Resumes(h) = {} /\ Uncalled(h) = {} /\ ~Done(h) /\ asyncInterruptor[h] = 0
             /\ cur[h] = "next" => verdict[h] = None
  <2>1. Resumes(h) = {} /\ Uncalled(h) = {} /\ ~Done(h) /\ asyncInterruptor[h] = 0
    BY <1>b, RunningAlone DEF Calm
  <2>2. ASSUME verdict[h] # None
        PROVE  cur[h] # "next"
    <3>1. cur[h] = Due(h)
      BY <1>b, <2>2 DEF Finishing
    <3>2. verdict[h] \in {"ok", "fail"}
      BY <2>2 DEF Results
    <3> QED
      BY <3>1, <3>2 DEF Due
  <2> QED
    BY <2>1, <2>2
<1>1. CASE HandleResume(h)
  <2>1. loop'[h] = "running" /\ asyncInterruptor'[h] = 0 /\ loop[h] = "idle" /\ queue[h] # <<>>
        /\ Head(queue[h]).tag = "Resume"
        /\ cur'[h] = (IF Interrupting(h) THEN "fail" ELSE Head(queue[h]).eff)
        /\ UNCHANGED <<stack, windDown, verdict, exitValue>>
    BY <1>1 DEF HandleResume, Draining, Receives, historyVars
  <2>2. Head(queue[h]) \in Resumes(h)
    BY <2>1, PolledContents DEF Resumes
  <2>3. ~Done(h)
    BY <2>2, RunningAlone
  <2>4. verdict[h] # None => cur'[h] = Due(h)
    BY <2>1, <2>2 DEF Finishing, Interrupting, Interruptible
  <2> QED
    BY <1>a, <2>1, <2>3, <2>4 DEF Calm, Finishing, Ended, Done, Due
<1>2. CASE RunInterrupt(h)
  <2>1. loop[h] = "running" /\ cur'[h] = (IF Interruptible(h) THEN "fail" ELSE cur[h])
        /\ UNCHANGED <<loop, stack, windDown, asyncInterruptor, verdict, exitValue>>
    BY <1>2 DEF RunInterrupt, asyncVars, historyVars
  <2>2. verdict[h] # None => cur'[h] = Due(h)
    BY <2>1 DEF Finishing, Interruptible
  <2> QED
    BY <1>a, <1>b, <2>1, <2>2 DEF Calm, Finishing, Ended, Done, Due
<1>3. ASSUME loop[h] = "running", verdict'[h] = None, exitValue'[h] = exitValue[h],
             loop'[h] = "running" => asyncInterruptor'[h] = asyncInterruptor[h],
             loop'[h] # "unborn"
      PROVE  Calm(h)' /\ Finishing(h)' /\ Ended(h)'
  <2>1. ~Done(h)'
    BY <1>b, <1>3 DEF Done
  <2>2. loop'[h] # "idle" => asyncInterruptor'[h] = 0
    BY <1>b, <1>3
  <2>3. Finishing(h)'
    BY <1>3 DEF Finishing
  <2> QED
    BY <1>3, <2>1, <2>2, <2>3 DEF Calm, Ended
<1>4. ASSUME NEW c \in Fibers, NEW p \in Scopes[h], Fork(h, c, p)
      PROVE  Calm(h)' /\ Finishing(h)' /\ Ended(h)'
  <2>1. cur[h] = "next" /\ loop[h] = "running" /\ c # h
        /\ loop' = [loop EXCEPT ![c] = "idle"]
        /\ UNCHANGED <<asyncInterruptor, verdict, exitValue>>
    BY <1>4 DEF Fork, Primitive, Evaluates, Turn, Born, asyncVars
  <2> QED
    BY <1>b, <1>3, <2>1
<1>5. CASE (\E g \in Fibers : InterruptFiber(h, g)) \/ (\E b \in BOOLEAN : Region(h, b))
           \/ CatchAll(h) \/ Fail(h) \/ Return(h)
  <2>1. cur[h] = "next" /\ loop[h] = "running"
        /\ UNCHANGED <<loop, asyncInterruptor, verdict, exitValue>>
    BY <1>5 DEF InterruptFiber, Region, CatchAll, Fail, Return, Primitive, Evaluates, Turn,
                asyncVars, historyVars
  <2> QED
    BY <1>b, <1>3, <2>1
<1>6. CASE Async(h) \/ \E g \in Fibers : Await(h, g)
  <2>1. cur[h] = "next" /\ loop[h] = "running" /\ loop' = [loop EXCEPT ![h] = "idle"]
        /\ UNCHANGED <<verdict, exitValue>>
    BY <1>6 DEF Async, Await, SuspendOn, Primitive, Evaluates, Turn, historyVars
  <2> QED
    BY <1>b, <1>3, <2>1
<1>7. CASE Yield(h)
  <2>1. /\ loop[h] = "running" /\ queue[h] = <<>> /\ loop' = [loop EXCEPT ![h] = "idle"]
        /\ stack' = [stack EXCEPT ![h] = Append(@, Then(cur[h]))]
        /\ queue' = Offered(Offered(queue, {h}, YieldNow), {h}, Resume("ok"))
        /\ UNCHANGED <<cur, windDown, asyncs, called, asyncInterruptor, verdict, exitValue>>
    BY <1>7 DEF Yield, Evaluates, Turn, asyncVars, historyVars
  <2>2. CASE verdict[h] = None
    BY <1>3, <2>1, <2>2
  <2>3. CASE verdict[h] # None
    <3>1. cur[h] = Due(h) /\ windDown[h] /\ asyncInterruptor[h] = 0
          /\ WindDownStack(stack[h], verdict[h])
      BY <2>1, <2>3 DEF Finishing
    <3>2. queue'[h] = Append(Append(<<>>, YieldNow), Resume("ok"))
      BY <2>1 DEF Offered
    <3>3. \A m \in Resumes(h)' : m.eff = "ok"
      BY <3>2, Tags DEF Resumes, Contents
    <3>4. Uncalled(h)' = {}
      BY <1>b, <2>1 DEF Uncalled
    <3>5. WindDownFrame(Then(cur[h]), Len(stack[h]) + 1, verdict[h])
      BY <3>1 DEF WindDownFrame, Then, Due
    <3>7. stack'[h] = Append(stack[h], Then(cur[h])) /\ stack[h] \in Seq(Frames)
      BY <2>1
    <3>8. Then(cur[h]) \in Frames /\ stack'[h] # <<>>
      <4>1. cur[h] \in {"next", "ok", "fail"}
        OBVIOUS
      <4> HIDE DEF TypeOK
      <4>2. Then(cur[h]) \in Frames
        BY <4>1, FrameTypes
      <4>3. Append(stack[h], Then(cur[h])) # <<>>
        BY <3>7, <4>2, AppendLast
      <4> QED
        BY <3>7, <4>2, <4>3
    <3>6. WindDownStack(stack'[h], verdict[h])
      BY <3>1, <3>5, <3>7, <3>8, WindDownAppend
    <3> QED
      BY <1>b, <2>1, <3>1, <3>3, <3>4, <3>6, <3>8 DEF Calm, Finishing, Ended, Done, Due
  <2> QED
    BY <2>2, <2>3
<1>c. ASSUME verdict[h] # None, loop[h] = "running", stack[h] # <<>>
      PROVE  /\ cur[h] = "ok" /\ windDown[h] /\ asyncInterruptor[h] = 0
             /\ WindDownFrame(Top(h), Len(stack[h]), verdict[h])
             /\ WindDownStack(Pop(h), verdict[h])
             /\ Len(stack[h]) \in Nat \ {0} /\ (Pop(h) = <<>> <=> Len(stack[h]) = 1)
  BY <1>c, WindDownPop DEF Finishing, Due
<1>8. ASSUME loop[h] = "running", stack[h] # <<>>,
             stack' = [stack EXCEPT ![h] = Pop(h)],
             UNCHANGED <<loop, windDown, asyncInterruptor, verdict, exitValue>>,
             verdict[h] # None => cur'[h] = IF Len(stack[h]) = 1 THEN verdict[h] ELSE "ok"
      PROVE  Calm(h)' /\ Finishing(h)' /\ Ended(h)'
  <2>1. CASE verdict[h] = None
    BY <1>3, <1>8, <2>1
  <2>2. CASE verdict[h] # None
    <3>1. stack'[h] = Pop(h) /\ (stack'[h] = <<>> <=> Len(stack[h]) = 1)
      BY <1>8, <2>2, <1>c
    <3> QED
      BY <1>8, <1>a, <1>c, <2>2, <3>1 DEF Calm, Finishing, Ended, Done, Due
  <2> QED
    BY <2>1, <2>2
<1>9. CASE OnSuccess(h) \/ OnFailure(h) \/ RevertFlags(h) \/ AwaitExit(h) \/ ChildrenDone(h)
  <2>1. /\ loop[h] = "running" /\ stack[h] # <<>> /\ stack' = [stack EXCEPT ![h] = Pop(h)]
        /\ UNCHANGED <<loop, windDown, asyncInterruptor, verdict, exitValue>>
    BY <1>9 DEF OnSuccess, OnFailure, RevertFlags, AwaitExit, ChildrenDone, Reverted, Unwinding,
                Turn, unwindFrame, asyncVars, historyVars
  <2>2. ASSUME verdict[h] # None
        PROVE  cur'[h] = IF Len(stack[h]) = 1 THEN verdict[h] ELSE "ok"
    <3>1. cur[h] = "ok" /\ windDown[h] /\ WindDownFrame(Top(h), Len(stack[h]), verdict[h])
          /\ Len(stack[h]) \in Nat \ {0}
      BY <1>c, <2>1, <2>2
    <3>2. CASE OnSuccess(h)
      BY <3>1, <3>2 DEF OnSuccess, Unwinding, WindDownFrame
    <3>3. CASE ChildrenDone(h)
      BY <3>1, <3>3 DEF ChildrenDone, Unwinding, WindDownFrame
    <3>4. CASE AwaitExit(h)
      <4>1. Len(stack[h]) # 1
        <5> DEFINE n == Len(stack[h])
        <5>1. Top(h).k = "Await"
          BY <3>4 DEF AwaitExit, Unwinding
        <5>2. n \in Nat /\ n > 1
          BY <3>1, <5>1 DEF WindDownFrame
        <5> HIDE DEF n
        <5>3. n # 1
          BY <5>2
        <5> QED
          BY <5>3 DEF n
      <4>2. cur'[h] = cur[h]
        BY <3>1, <3>4 DEF AwaitExit, Reverted
      <4> QED
        BY <3>1, <4>1, <4>2
    <3>5. ~OnFailure(h) /\ ~RevertFlags(h)
      BY <3>1 DEF OnFailure, RevertFlags, Unwinding, WindDownFrame
    <3> QED
      BY <1>9, <3>2, <3>3, <3>4, <3>5
  <2> QED
    BY <1>8, <2>1, <2>2
<1>10. CASE ChildrenNext(h)
  <2>1. /\ Unwinding(h, "ok", "Children") /\ loop[h] = "running" /\ stack[h] # <<>>
        /\ Top(h).k = "Children" /\ Top(h) \in Frames /\ Pop(h) \in Seq(Frames)
    BY <1>10, StackParts DEF ChildrenNext, Unwinding, Turn
  <2>2. PICK c \in Top(h).rest :
             SuspendOn(h, c, Append(Pop(h), Children(Top(h).rest \ {c}, Top(h).exit)))
    BY <1>10 DEF ChildrenNext
  <2>3. c \in Fibers
    BY <2>1, <2>2, FrameParts
  <2> DEFINE n == asyncs[h] + 1
             left == Children(Top(h).rest \ {c}, Top(h).exit)
             wait == Awaiting(flag[h], c, n)
  <2>4. /\ stack' = [stack EXCEPT ![h] = Append(Append(Pop(h), left), wait)]
        /\ loop' = [loop EXCEPT ![h] = "idle"]
        /\ queue' = Offered(queue, {c}, AddObserver(h, n))
        /\ asyncInterruptor' = [asyncInterruptor EXCEPT ![h] = IF Interruptible(h) THEN n ELSE @]
        /\ UNCHANGED <<windDown, exitValue, verdict>>
    BY <2>2 DEF SuspendOn, Tell, historyVars
  <2>5. CASE verdict[h] = None
    BY <1>3, <2>1, <2>4, <2>5
  <2>6. CASE verdict[h] # None
    <3>1. windDown[h] /\ asyncInterruptor[h] = 0
          /\ WindDownFrame(Top(h), Len(stack[h]), verdict[h])
          /\ (Pop(h) = <<>> <=> Len(stack[h]) = 1)
      BY <1>c, <2>1, <2>6
    <3>2. Pop(h) = <<>> /\ Top(h).exit = verdict[h]
      BY <2>1, <3>1 DEF WindDownFrame
    <3>3. WindDownFrame(left, 1, verdict[h]) /\ WindDownFrame(wait, 2, verdict[h])
      BY <3>2 DEF WindDownFrame, Children, Awaiting
    <3>4. stack'[h] = Append(Append(<<>>, left), wait)
      <4> HIDE DEF left, wait
      <4>1. stack'[h] = Append(Append(Pop(h), left), wait)
        BY <2>4
      <4> QED
        BY <3>2, <4>1
    <3>9. left \in Frames /\ wait \in Frames
      <4>1. Top(h).rest \ {c} \in SUBSET Fibers /\ Top(h).exit \in Results
        BY <2>1, FrameParts
      <4>2. flag[h] \in BOOLEAN
        BY FlagTypes
      <4>3. n \in Nat
        BY FlagTypes
      <4> QED
        BY <2>3, <4>1, <4>2, <4>3, FrameTypes
    <3> HIDE DEF left, wait, n
    <3>5. WindDownStack(stack'[h], verdict[h])
      <4>1. WindDownStack(<<>>, verdict[h]) /\ <<>> \in Seq(Frames) /\ Len(<<>>) + 1 = 1
        BY DEF WindDownStack
      <4>2. /\ Append(<<>>, left) \in Seq(Frames)
            /\ Len(Append(<<>>, left)) + 1 = 2
        BY <3>9
      <4>3. WindDownStack(Append(<<>>, left), verdict[h])
        <5>1. WindDownFrame(left, Len(<<>>) + 1, verdict[h])
          BY <3>3, <4>1
        <5> QED
          BY <3>9, <4>1, <5>1, WindDownAppend
      <4>4. WindDownFrame(wait, Len(Append(<<>>, left)) + 1, verdict[h])
        BY <3>3, <4>2
      <4>5. WindDownStack(Append(Append(<<>>, left), wait), verdict[h])
        BY <3>9, <4>2, <4>3, <4>4, WindDownAppend
      <4> QED
        BY <3>4, <4>5
    <3>6. stack'[h] # <<>>
      BY <3>4
    <3>7. Resumes(h)' = {}
      <4>1. AddObserver(h, n) \in Messages
        BY MessageTypes DEF n
      <4>2. Resumes(h)' \subseteq Resumes(h)
        BY <2>3, <2>4, <4>1, QuietResumes, Tags
      <4> QED
        BY <1>b, <2>1, <4>2
    <3>8. asyncInterruptor'[h] = 0
      BY <2>4, <3>1 DEF Interruptible
    <3> QED
      BY <1>b, <2>1, <2>4, <3>1, <3>5, <3>6, <3>7, <3>8, SMTT(30) DEF Calm, Finishing, Ended, Done
  <2> QED
    BY <2>5, <2>6
<1>d. ASSUME LoopReturn(h)
      PROVE  loop[h] = "running" /\ windDown'[h] /\ verdict'[h] = cur[h] /\ stack[h] = <<>>
             /\ cur[h] # None
  BY <1>d DEF LoopReturn, Finishing, Due, Results, None
<1>11. CASE WindDownChildren(h)
  <2> DEFINE left == Children(children[h], cur[h])
  <2>1. /\ LoopReturn(h) /\ stack' = [stack EXCEPT ![h] = <<left>>] /\ cur'[h] = "ok"
        /\ UNCHANGED <<loop, asyncInterruptor, exitValue>>
    BY <1>11 DEF WindDownChildren, asyncVars
  <2>2. WindDownFrame(left, 1, verdict'[h])
    BY <1>d, <2>1 DEF WindDownFrame, Children
  <2> HIDE DEF left
  <2>3. WindDownStack(stack'[h], verdict'[h])
    BY <2>1, <2>2 DEF WindDownStack
  <2>4. stack'[h] # <<>>
    BY <2>1
  <2> QED
    <3>1. /\ loop[h] = "running" /\ loop'[h] = "running" /\ cur'[h] = "ok"
          /\ verdict'[h] # None /\ windDown'[h]
      BY <1>d, <2>1
    <3>2. Resumes(h)' = {} /\ Uncalled(h)' = {} /\ ~Done(h)' /\ asyncInterruptor'[h] = 0
      BY <1>a, <1>b, <2>1, <3>1
    <3>3. Finishing(h)'
      BY <2>3, <2>4, <3>1, <3>2 DEF Finishing, Due
    <3> QED
      BY <3>1, <3>2, <3>3 DEF Calm, Ended
<1>12. CASE WindDownMessages(h)
  <2>1. /\ LoopReturn(h) /\ queue' = Offered(queue, {h}, Resume(cur[h]))
        /\ loop' = [loop EXCEPT ![h] = "idle"]
        /\ UNCHANGED <<stack, asyncInterruptor, asyncs, called, exitValue>>
    BY <1>12 DEF WindDownMessages, Tell, asyncVars
  <2>2. Contents(queue'[h]) = Contents(queue[h]) \cup {Resume(cur[h])}
    BY <2>1, ContentsAppend, MessageTypes DEF Offered
  <2>3. \A m \in Resumes(h)' : m.eff = cur[h]
    <3>1. Resumes(h) = {}
      BY <1>b, <1>d, <2>1
    <3> QED
      BY <2>2, <3>1, Tags DEF Resumes
  <2>4. Uncalled(h)' = {}
    BY <1>b, <1>d, <2>1 DEF Uncalled
  <2> QED
    <3>1. /\ loop'[h] = "idle" /\ stack'[h] = <<>> /\ verdict'[h] = cur[h] /\ windDown'[h]
          /\ asyncInterruptor'[h] = 0 /\ exitValue'[h] = None
      BY <1>b, <1>d, <2>1 DEF Done
    <3>2. Finishing(h)'
      BY <2>3, <2>4, <3>1 DEF Finishing, WindDownStack, Due
    <3> QED
      BY <3>1, <3>2 DEF Calm, Ended, Done
<1>13. CASE SetExitValue(h)
  <2>1. /\ LoopReturn(h) /\ exitValue' = [exitValue EXCEPT ![h] = cur[h]]
        /\ loop' = [loop EXCEPT ![h] = "idle"]
        /\ UNCHANGED <<stack, asyncInterruptor>>
    BY <1>13 DEF SetExitValue
  <2>2. Done(h)'
    BY <1>d, <2>1 DEF Done
  <2>3. Resumes(h)' = {} /\ Uncalled(h)' = {}
    <3>1. Silent(queue'[h]) /\ Uncalled(h)' = {}
      BY <2>2 DEF OneContinuation, Continuation
    <3>2. \A m \in Contents(queue'[h]) : m.tag # "Resume"
      BY <3>1, SilentContents
    <3>3. Resumes(h)' = {m \in Contents(queue'[h]) : m.tag = "Resume"}
      BY DEF Resumes
    <3> HIDE DEF TypeOK
    <3> QED
      BY <3>1, <3>2, <3>3
  <2>4. /\ loop[h] = "running" /\ windDown'[h] /\ verdict'[h] = cur[h] /\ stack'[h] = <<>>
        /\ exitValue'[h] = cur[h] /\ asyncInterruptor'[h] = 0 /\ loop'[h] = "idle"
    BY <1>b, <1>d, <2>1
  <2>5. Finishing(h)'
    BY <2>3, <2>4 DEF Finishing, WindDownStack
  <2> QED
    BY <2>4, <2>5 DEF Calm, Ended
<1> QED
  BY <1>1, <1>2, <1>4, <1>5, <1>6, <1>7, <1>9, <1>10, <1>11, <1>12, <1>13
     DEF Evaluate, Unwind, WindDown

LEMMA VerdictInvariant == Spec => []VerdictInv
<1>1. Init => VerdictInv
  BY DEF Init, VerdictInv, Calm, Finishing, Ended, Done
<1>2. TypeOK /\ TypeOK' /\ OneContinuation /\ OneContinuation' /\ VerdictInv /\ [Next]_vars
          => VerdictInv'
  <2> SUFFICES ASSUME TypeOK, TypeOK', OneContinuation, OneContinuation', VerdictInv, [Next]_vars,
                      NEW h \in Fibers
               PROVE  Calm(h)' /\ Finishing(h)' /\ Ended(h)'
    BY DEF VerdictInv
  <2>1. Calm(h) /\ Finishing(h) /\ Ended(h)
    BY DEF VerdictInv
  <2>2. CASE Resting(h)
    BY <2>1, <2>2, RestingVerdict
  <2>3. CASE HandleResume(h) \/ RunInterrupt(h) \/ Evaluate(h) \/ Unwind(h) \/ WindDown(h)
    BY <2>1, <2>3, ActingVerdict
  <2>4. ASSUME loop[h] = "unborn", UNCHANGED <<asyncInterruptor, verdict, exitValue>>,
               loop'[h] \in {"idle", "running"}
        PROVE  Calm(h)' /\ Finishing(h)' /\ Ended(h)'
    <3>1. ~Done(h)
      BY <2>4, RunningAlone DEF OneContinuation, Continuation
    <3>2. verdict'[h] = None /\ asyncInterruptor'[h] = 0 /\ ~Done(h)'
      BY <2>1, <2>4, <3>1 DEF Calm, Done
    <3>3. Finishing(h)'
      BY <3>2 DEF Finishing
    <3> QED
      BY <2>4, <3>2, <3>3 DEF Calm, Ended
  <2>5. CASE h = Root /\ Start
    BY <2>4, <2>5 DEF Start, Born, asyncVars, historyVars, TypeOK
  <2>6. ASSUME NEW f \in Fibers, NEW p \in Scopes[f], Fork(f, h, p)
        PROVE  Calm(h)' /\ Finishing(h)' /\ Ended(h)'
    BY <2>4, <2>6 DEF Fork, Born, asyncVars, TypeOK
  <2> QED
    BY <2>2, <2>3, <2>5, <2>6, StepsOfFibers
<1> QED
  BY <1>1, <1>2, TypeCorrect, ContinuationIsUnique, PTL DEF Spec

-----------------------------------------------------------------------------
(* An await returns when there is an exit.                                 *)

DoneFibers == {g \in Fibers : Done(g)}

(* What an await of g may return when the fibers of D are done. *)
Returns(r, g, D) == r = "fail" \/ (r = "ok" /\ g \in D)

(* The continuation above an await goes on with what the await returned. *)
Follows(k, l, D) == k.k = "Await" => l.k = "Then" /\ Returns(l.c, k.on, D)

Buried(s, D) == \A i \in 1 .. Len(s) - 1 : Follows(s[i], s[i + 1], D)

(* c can be what comes to the continuations of s. *)
Comes(c, s, D) == s # <<>> /\ s[Len(s)].k = "Await" => Returns(c, s[Len(s)].on, D)

LEMMA BuriedAppend ==
    ASSUME NEW s \in Seq(Frames), NEW k \in Frames, NEW D, Buried(s, D),
           s # <<>> => Follows(s[Len(s)], k, D)
    PROVE  Buried(Append(s, k), D)
<1> SUFFICES ASSUME NEW i \in 1 .. Len(s)
             PROVE  Follows(Append(s, k)[i], Append(s, k)[i + 1], D)
  BY DEF Buried
<1>1. CASE i = Len(s)
  <2>1. Append(s, k)[i] = s[Len(s)] /\ Append(s, k)[i + 1] = k /\ s # <<>>
    BY <1>1
  <2> QED
    BY <2>1
<1>2. CASE i # Len(s)
  <2>1. Append(s, k)[i] = s[i] /\ Append(s, k)[i + 1] = s[i + 1] /\ i \in 1 .. Len(s) - 1
    BY <1>2
  <2> QED
    BY <2>1 DEF Buried
<1> QED
  BY <1>1, <1>2

LEMMA BuriedMore ==
    ASSUME NEW s, NEW D, NEW E, D \subseteq E, Buried(s, D)
    PROVE  Buried(s, E)
  BY DEF Buried, Follows, Returns

(* Popping a continuation with what comes to it leaves what may come to    *)
(* the next one.                                                           *)
LEMMA BuriedPop ==
    ASSUME TypeOK, NEW f \in Fibers, stack[f] # <<>>, NEW D, Buried(stack[f], D), NEW c,
           Top(f).k = "Then" => c \in {"fail", Top(f).c}
    PROVE  Buried(Pop(f), D) /\ Comes(c, Pop(f), D)
<1> DEFINE s == stack[f]
           n == Len(s) - 1
           t == SubSeq(s, 1, n)
<1>1. s \in Seq(Frames) /\ s # <<>>
  BY DEF TypeOK
<1>2. Buried(s, D) /\ Pop(f) = t /\ Top(f) = s[Len(s)]
  BY DEF Pop, Top
<1> HIDE DEF s
<1>3. Len(s) \in Nat /\ n \in 0 .. Len(s) /\ n + 1 = Len(s)
  BY <1>1
<1> HIDE DEF n
<1>4. Len(t) = n /\ t \in Seq(Frames)
  BY <1>1, <1>3
<1>5. \A i \in 1 .. n : t[i] = s[i]
  BY <1>1, <1>3
<1> HIDE DEF t
<1>6. Buried(t, D)
  BY <1>2, <1>3, <1>4, <1>5 DEF Buried
<1>7. Comes(c, t, D)
  <2> SUFFICES ASSUME t # <<>>, t[Len(t)].k = "Await"
               PROVE  Returns(c, t[Len(t)].on, D)
    BY DEF Comes
  <2>1. n \in 1 .. n /\ n \in 1 .. Len(s) - 1
    BY <1>3, <1>4
  <2>2. Follows(s[n], s[n + 1], D) /\ t[Len(t)] = s[n]
    BY <1>2, <1>4, <1>5, <2>1 DEF Buried
  <2>3. Top(f).k = "Then" /\ Returns(Top(f).c, s[n].on, D)
    BY <1>2, <1>3, <2>2 DEF Follows
  <2> QED
    BY <2>2, <2>3 DEF Returns
<1> QED
  BY <1>2, <1>6, <1>7

OnAwait(f) == stack[f] # <<>> /\ Top(f).k = "Await"

Awaits(f) ==
    /\ Buried(stack[f], DoneFibers)
    /\ loop[f] = "running" => Comes(cur[f], stack[f], DoneFibers)
    /\ OnAwait(f) /\ loop[f] = "idle" =>
          /\ Top(f).cb = asyncs[f] /\ Top(f).cb \notin external[f]
          /\ \A m \in Resumes(f) : Returns(m.eff, Top(f).on, DoneFibers)

(* A callback belongs to one operation: one await, of one fiber, or one    *)
(* operation outside the fibers.                                           *)
Observes(f) ==
    /\ external[f] \subseteq 1 .. asyncs[f]
    /\ \A g \in Fibers, n \in Nat :
          Registered(g, f, n) =>
              /\ n \in 1 .. asyncs[f] /\ n \notin external[f]
              /\ OnAwait(f) /\ loop[f] = "idle" /\ Top(f).cb = n => Top(f).on = g

AwaitInv == \A f \in Fibers : Awaits(f) /\ Observes(f)

(* Exits are set by setExitValue, scopes by fork. *)
LEMMA ExitsAndScopes ==
    ASSUME [Next]_vars
    PROVE  /\ UNCHANGED exitValue \/ \E f \in Fibers : SetExitValue(f)
           /\ UNCHANGED scope \/ \E f, c \in Fibers : \E p \in Scopes[f] : Fork(f, c, p)
<1>1. ASSUME NEW f \in Fibers,
             \/ StartReturn(f) \/ Run(f) \/ DrainDone(f) \/ DrainYield(f)
             \/ Handle(f) \/ \E n \in external[f] : ExternalCall(f, n)
      PROVE  UNCHANGED <<exitValue, scope>>
  BY <1>1 DEF StartReturn, Run, DrainDone, DrainYield, Handle, HandleResume, HandleInterrupt,
              RunInterrupt, HandleAddObserver, HandleRemoveObserver, HandleAddChild, ExternalCall,
              historyVars
<1>2. ASSUME NEW f \in Fibers, Evaluate(f)
      PROVE  /\ UNCHANGED exitValue
             /\ UNCHANGED scope \/ \E c \in Fibers : \E p \in Scopes[f] : Fork(f, c, p)
  BY <1>2 DEF Evaluate, Fork, InterruptFiber, Await, SuspendOn, Region, Async, Yield, CatchAll,
              Fail, Return, historyVars
<1>3. ASSUME NEW f \in Fibers, Unwind(f) \/ WindDownChildren(f) \/ WindDownMessages(f)
      PROVE  UNCHANGED <<exitValue, scope>>
  BY <1>3 DEF Unwind, OnSuccess, OnFailure, RevertFlags, AwaitExit, Reverted, ChildrenNext,
              SuspendOn, ChildrenDone, WindDownChildren, WindDownMessages, unwindFrame, historyVars
<1>4. Start \/ UNCHANGED vars => UNCHANGED <<exitValue, scope>>
  BY DEF Start, vars, historyVars
<1>5. ASSUME NEW f \in Fibers, SetExitValue(f)
      PROVE  UNCHANGED scope
  BY <1>5 DEF SetExitValue
<1> QED
  BY <1>1, <1>2, <1>3, <1>4, <1>5 DEF Next, Advance, WindDown

(* A fiber that is done stays done, and setExitValue makes it done. *)
LEMMA DoneKept ==
    ASSUME TypeOK, [Next]_vars
    PROVE  /\ DoneFibers \subseteq DoneFibers'
           /\ \A f \in Fibers : Done(f)' => Done(f) \/ SetExitValue(f)
<1>1. ASSUME NEW f \in Fibers, SetExitValue(f)
      PROVE  /\ DoneFibers \subseteq DoneFibers'
             /\ \A h \in Fibers : Done(h)' => Done(h) \/ h = f
  <2>1. exitValue' = [exitValue EXCEPT ![f] = cur[f]] /\ cur[f] # None
    BY <1>1 DEF SetExitValue, LoopReturn, Results, None
  <2> QED
    BY <2>1 DEF DoneFibers, Done, TypeOK
<1>2. CASE UNCHANGED exitValue
  BY <1>2 DEF DoneFibers, Done
<1> QED
  BY <1>1, <1>2, ExitsAndScopes

(* Fibers are registered as observers when they suspend on an await. *)
LEMMA NewRegistrations ==
    ASSUME TypeOK, [Next]_vars, NEW g \in Fibers, NEW h \in Fibers, NEW n \in Nat,
           Registered(g, h, n)', ~Registered(g, h, n)
    PROVE  n = asyncs[h] + 1 /\ \E base : SuspendOn(h, g, base)
<1> USE DEF TypeOK
<1> DEFINE o == AwaitObserver(h, n)
           a == AddObserver(h, n)
<1>a. o.kind = "await" /\ a.tag = "AddObserver"
  BY DEF AwaitObserver, AddObserver
<1>b. a \in Messages
  BY MessageTypes
<1>c. o \notin observers[g] /\ a \notin Contents(queue[g])
  BY DEF Registered
<1>d. o \in observers'[g] \/ a \in Contents(queue'[g])
  BY DEF Registered
<1> HIDE DEF o, a
<1>e. ASSUME NEW q \in [Fibers -> Seq(Messages)], NEW to, NEW m \in Messages,
             a \in Contents(Offered(q, to, m)[g]), a \notin Contents(q[g])
      PROVE  g \in to /\ m = a
  <2>1. g \in to
    BY <1>e DEF Offered
  <2>2. Contents(Append(q[g], m)) = Contents(q[g]) \cup {m}
    BY ContentsAppend
  <2> QED
    BY <1>e, <2>1, <2>2 DEF Offered
<1>f. \A f \in Fibers : queue[f] # <<>> =>
          Polled(f) \in [Fibers -> Seq(Messages)] /\ a \notin Contents(Polled(f)[g])
  BY <1>c, PolledType, PolledContents
<1>1. ASSUME NEW f \in Fibers, NEW k \in Fibers, NEW base, SuspendOn(f, k, base)
      PROVE  n = asyncs[h] + 1 /\ SuspendOn(h, g, base)
  <2>1. queue' = Offered(queue, {k}, AddObserver(f, asyncs[f] + 1)) /\ UNCHANGED observers
    BY <1>1 DEF SuspendOn, Tell, signalVars
  <2>2. AddObserver(f, asyncs[f] + 1) \in Messages
    BY FlagTypes, MessageTypes
  <2>3. g \in {k} /\ a = AddObserver(f, asyncs[f] + 1)
    BY <1>c, <1>d, <1>e, <2>1, <2>2
  <2>4. f = h /\ n = asyncs[f] + 1
    BY <2>3 DEF a, AddObserver
  <2> QED
    BY <1>1, <2>3, <2>4
<1>2. ASSUME NEW f \in Fibers, HandleAddObserver(f)
      PROVE  FALSE
  <2> DEFINE m == Head(queue[f])
  <2>1. queue[f] # <<>> /\ m.tag = "AddObserver"
    BY <1>2 DEF HandleAddObserver, Handling, Receives
  <2>2. CASE ~Done(f) /\ queue' = Polled(f)
             /\ observers' = [observers EXCEPT ![f] = @ \cup {AwaitObserver(m.who, m.cb)}]
    <3>1. o \in observers'[g] /\ g = f /\ o = AwaitObserver(m.who, m.cb)
      BY <1>c, <1>d, <1>f, <2>1, <2>2
    <3>2. m.who = h /\ m.cb = n
      BY <3>1 DEF o, AwaitObserver
    <3>3. m \in Messages /\ m \in Contents(queue[f])
      BY <2>1, PolledType, PolledContents
    <3>4. m \in [tag: {"AddObserver", "RemoveObserver"}, who: Fibers, cb: Nat]
      <4> HIDE DEF TypeOK, m
      <4> QED
        BY <2>1, <3>3 DEF Messages, Interrupt, YieldNow
    <3>5. m = a
      BY <2>1, <3>2, <3>4 DEF AddObserver, a
    <3> QED
      BY <1>c, <3>1, <3>3, <3>5
  <2>3. CASE Tell(Polled(f), Fresh({<<m.who, m.cb>>}), Resume("ok")) /\ UNCHANGED observers
    <3>1. Resume("ok") \in Messages /\ Resume("ok") # a
      BY <1>a, MessageTypes, Tags
    <3> QED
      BY <1>c, <1>d, <1>e, <1>f, <2>1, <2>3, <3>1 DEF Tell
  <2> QED
    BY <1>2, <2>2, <2>3 DEF HandleAddObserver
<1>3. ASSUME NEW f \in Fibers, HandleAddChild(f)
      PROVE  FALSE
  <2>1. queue[f] # <<>> /\ queue' = Polled(f)
    BY <1>3 DEF HandleAddChild, Handling, Receives
  <2>2. ASSUME observers' = [observers EXCEPT ![Head(queue[f]).child] = @ \cup {ChildObserver(f)}]
        PROVE  o \notin observers'[g]
    <3>1. o # ChildObserver(f)
      <4>1. ChildObserver(f).kind = "child"
        BY DEF ChildObserver
      <4> QED
        BY <1>a, <4>1
    <3>2. observers'[g] \subseteq observers[g] \cup {ChildObserver(f)}
      BY <2>2
    <3> QED
      BY <1>c, <3>1, <3>2
  <2> QED
    BY <1>3, <1>c, <1>d, <1>f, <2>1, <2>2 DEF HandleAddChild
<1>4. ASSUME NEW f \in Fibers, HandleInterrupt(f)
      PROVE  FALSE
  <2> DEFINE told == Offered(Polled(f), children[f], Interrupt)
  <2>1. queue[f] # <<>> /\ queue' = Offered(told, Fresh(Interruptor(f)), Resume("fail"))
        /\ UNCHANGED observers
    BY <1>4 DEF HandleInterrupt, Receives
  <2>2. told \in [Fibers -> Seq(Messages)] /\ Interrupt \in Messages /\ Interrupt # a
        /\ Resume("fail") \in Messages /\ Resume("fail") # a
    BY <1>a, <1>f, <2>1, OfferedType, MessageTypes, Tags
  <2>3. a \notin Contents(told[g])
    BY <1>e, <1>f, <2>1, <2>2
  <2> HIDE DEF told
  <2> QED
    BY <1>c, <1>d, <1>e, <2>1, <2>2, <2>3
<1>5. ASSUME NEW f \in Fibers, DrainYield(f) \/ HandleResume(f) \/ HandleRemoveObserver(f)
      PROVE  FALSE
  <2>1. queue[f] # <<>> /\ queue' = Polled(f)
    BY <1>5 DEF DrainYield, HandleResume, HandleRemoveObserver, Handling, Receives
  <2>2. UNCHANGED observers
        \/ \E x : observers' = [observers EXCEPT ![f] = @ \ {x}]
    BY <1>5 DEF DrainYield, HandleResume, HandleRemoveObserver, signalVars
  <2>3. CASE UNCHANGED observers
    BY <1>c, <1>d, <1>f, <2>1, <2>3
  <2>4. CASE \E x : observers' = [observers EXCEPT ![f] = @ \ {x}]
    <3>1. observers'[g] \subseteq observers[g]
      BY <2>4
    <3> QED
      BY <1>c, <1>d, <1>f, <2>1, <3>1
  <2> QED
    BY <2>2, <2>3, <2>4
<1>6. ASSUME NEW to, NEW m \in Messages, m.tag # "AddObserver", Tell(queue, to, m),
             UNCHANGED observers
      PROVE  FALSE
  BY <1>6, <1>a, <1>c, <1>d, <1>e DEF Tell
<1>7. ASSUME UNCHANGED <<queue, observers>>
      PROVE  FALSE
  BY <1>7, <1>c, <1>d
<1>8. ASSUME NEW f \in Fibers,
             RunInterrupt(f) \/ SetExitValue(f) \/ \E k \in external[f] : ExternalCall(f, k)
      PROVE  FALSE
  <2>1. CASE RunInterrupt(f)
    <3>1. queue[f] # <<>> /\ queue' = Offered(Polled(f), children[f], Interrupt)
          /\ UNCHANGED observers /\ Interrupt \in Messages /\ Interrupt # a
      BY <2>1, <1>a, MessageTypes, Tags DEF RunInterrupt, Receives, Tell
    <3> QED
      BY <1>c, <1>d, <1>e, <1>f, <3>1
  <2>2. CASE SetExitValue(f)
    BY <1>6, <2>2, MessageTypes, Tags DEF SetExitValue
  <2>3. CASE \E k \in external[f] : ExternalCall(f, k)
    BY <1>6, <2>3, MessageTypes, Tags DEF ExternalCall, signalVars
  <2> QED
    BY <1>8, <2>1, <2>2, <2>3
<1>9. ASSUME NEW f \in Fibers, NEW c \in Fibers, NEW p \in Scopes[f], Fork(f, c, p)
      PROVE  FALSE
  <2> DEFINE q == Offered(queue, {p} \ {NoFiber}, AddChild(c))
  <2>1. queue' = Offered(q, {c}, Resume("next")) /\ UNCHANGED observers
    BY <1>9 DEF Fork, signalVars
  <2>2. q \in [Fibers -> Seq(Messages)] /\ AddChild(c) \in Messages /\ AddChild(c) # a
        /\ Resume("next") \in Messages /\ Resume("next") # a
    BY <1>a, OfferedType, MessageTypes, Tags
  <2>3. a \notin Contents(q[g])
    BY <1>c, <1>e, <2>2
  <2> HIDE DEF q
  <2> QED
    BY <1>c, <1>d, <1>e, <2>1, <2>2, <2>3
<1>10. ASSUME NEW f \in Fibers,
              \/ WindDownChildren(f) \/ WindDownMessages(f) \/ Async(f)
              \/ (\E k \in Fibers : InterruptFiber(f, k))
       PROVE  FALSE
  <2>1. UNCHANGED observers
    BY <1>10 DEF WindDownChildren, WindDownMessages, Async, InterruptFiber, signalVars
  <2>2. \/ \E to : Tell(queue, to, Interrupt)
        \/ \E e \in {"ok", "fail"} : Tell(queue, {f}, Resume(e))
        \/ UNCHANGED queue
    BY <1>10 DEF WindDownChildren, WindDownMessages, Async, InterruptFiber, LoopReturn, Results,
                 mailVars
  <2> QED
    BY <1>6, <1>7, <2>1, <2>2, MessageTypes, Tags
<1>11. ASSUME NEW f \in Fibers, Yield(f)
       PROVE  FALSE
  <2> DEFINE q == Offered(queue, {f}, YieldNow)
  <2>1. queue' = Offered(q, {f}, Resume("ok")) /\ UNCHANGED observers
    BY <1>11 DEF Yield, signalVars
  <2>2. q \in [Fibers -> Seq(Messages)] /\ YieldNow \in Messages /\ YieldNow # a
        /\ Resume("ok") \in Messages /\ Resume("ok") # a
    BY <1>a, OfferedType, MessageTypes, Tags
  <2>3. a \notin Contents(q[g])
    BY <1>c, <1>e, <2>2
  <2> HIDE DEF q
  <2> QED
    BY <1>c, <1>d, <1>e, <2>1, <2>2, <2>3
<1>12. ASSUME NEW f \in Fibers, AwaitExit(f)
       PROVE  FALSE
  <2>1. UNCHANGED observers
    BY <1>12 DEF AwaitExit, Reverted, unwindFrame, signalVars
  <2>2. CASE UNCHANGED mailVars
    BY <1>7, <2>1, <2>2 DEF mailVars
  <2>3. CASE Unwinding(f, "fail", "Await") /\ Tell(queue, {Top(f).on}, RemoveObserver(f, Top(f).cb))
    <3>1. RemoveObserver(f, Top(f).cb) \in Messages
      BY <2>3, StackParts, FrameParts, MessageTypes DEF Unwinding
    <3> QED
      BY <1>6, <2>1, <2>3, <3>1, Tags
  <2> QED
    BY <1>12, <2>2, <2>3 DEF AwaitExit
<1>13. ASSUME NEW f \in Fibers,
              \/ StartReturn(f) \/ Run(f) \/ DrainDone(f)
              \/ (\E b \in BOOLEAN : Region(f, b)) \/ CatchAll(f) \/ Fail(f) \/ Return(f)
              \/ OnSuccess(f) \/ OnFailure(f) \/ RevertFlags(f) \/ ChildrenDone(f)
       PROVE  FALSE
  BY <1>7, <1>13 DEF StartReturn, Run, DrainDone, Region, CatchAll, Fail, Return, OnSuccess,
              OnFailure, RevertFlags, Reverted, ChildrenDone, mailVars, signalVars, unwindFrame
<1>14. Start \/ UNCHANGED vars => FALSE
  BY <1>7 DEF Start, vars, mailVars, signalVars
<1>15. ASSUME NEW f \in Fibers, ChildrenNext(f) \/ \E k \in Fibers : Await(f, k)
       PROVE  n = asyncs[h] + 1 /\ \E base : SuspendOn(h, g, base)
  <2>1. CASE ChildrenNext(f)
    <3>1. PICK k \in Top(f).rest : \E base : SuspendOn(f, k, base)
      BY <2>1 DEF ChildrenNext
    <3>2. k \in Fibers
      BY <2>1, <3>1, StackParts, FrameParts DEF ChildrenNext, Unwinding
    <3> QED
      BY <1>1, <3>1, <3>2
  <2>2. CASE \E k \in Fibers : Await(f, k)
    BY <1>1, <2>2 DEF Await
  <2> QED
    BY <1>15, <2>1, <2>2
<1> QED
  BY <1>2, <1>3, <1>4, <1>5, <1>8, <1>9, <1>10, <1>11, <1>12, <1>13, <1>14, <1>15
     DEF Next, Advance, Handle, Evaluate, Unwind, WindDown

(* Without a new callback, registrations stay what they are. *)
LEMMA RegistrationsStay ==
    ASSUME TypeOK, [Next]_vars, NEW h \in Fibers, Observes(h),
           asyncs'[h] = asyncs[h], external'[h] = external[h],
           OnAwait(h)' /\ loop'[h] = "idle" => loop[h] = "idle" /\ stack'[h] = stack[h]
    PROVE  Observes(h)'
<1>1. external'[h] \subseteq 1 .. asyncs'[h]
  BY DEF Observes
<1>2. ASSUME NEW g \in Fibers, NEW n \in Nat, Registered(g, h, n)'
      PROVE  /\ n \in 1 .. asyncs'[h] /\ n \notin external'[h]
             /\ OnAwait(h)' /\ loop'[h] = "idle" /\ Top(h)'.cb = n => Top(h)'.on = g
  <2>1. Registered(g, h, n)
    <3> SUFFICES ASSUME ~Registered(g, h, n)
                 PROVE  FALSE
      OBVIOUS
    <3>1. PICK base : SuspendOn(h, g, base)
      BY <1>2, NewRegistrations
    <3>2. asyncs'[h] = asyncs[h] + 1
      BY <3>1 DEF SuspendOn, TypeOK
    <3>3. asyncs[h] \in Nat
      BY FlagTypes
    <3> QED
      BY <3>2, <3>3
  <2> QED
    BY <2>1 DEF Observes, OnAwait, Top
<1> QED
  BY <1>1, <1>2 DEF Observes

(* What others do to a suspended await is to resume it with the exit. *)
LEMMA RestingAwaits ==
    ASSUME TypeOK, OneContinuation, OneContinuation', [Next]_vars, NEW h \in Fibers, Resting(h),
           Awaits(h), Observes(h)
    PROVE  Awaits(h)' /\ Observes(h)'
<1>1. Observes(h)'
  BY RegistrationsStay DEF Resting
<1>2. DoneFibers \subseteq DoneFibers'
  BY DoneKept
<1>3. Buried(stack[h], DoneFibers')
  BY <1>2, BuriedMore DEF Awaits
<1>4. loop[h] = "running" => Comes(cur[h], stack[h], DoneFibers')
  BY <1>2 DEF Awaits, Comes, Returns
<1>5. ASSUME OnAwait(h), loop[h] = "idle"
      PROVE  /\ Top(h).cb = asyncs[h] /\ Top(h).cb \notin external[h]
             /\ \A m \in Resumes(h)' : Returns(m.eff, Top(h).on, DoneFibers')
  <2>1. Top(h).cb = asyncs[h] /\ Top(h).cb \notin external[h]
    BY <1>5 DEF Awaits
  <2>2. ASSUME NEW m \in Resumes(h)'
        PROVE  Returns(m.eff, Top(h).on, DoneFibers')
    <3>1. CASE m \in Resumes(h)
      BY <1>2, <1>5, <3>1 DEF Awaits, Returns
    <3>2. CASE m \notin Resumes(h)
      <4>1. Calls(h, m.eff)
        BY <1>5, <2>2, <3>2, NewResumes
      <4>2. CASE m.eff = "fail"
        BY <4>2 DEF Returns
      <4>3. CASE m.eff # "fail"
        <5>1. PICK n \in Uncalled(h) :
                  n \in external[h] \/ \E g \in Fibers : Registered(g, h, n) /\ Done(g)'
          BY <4>1, <4>3 DEF Calls
        <5>2. n = asyncs[h] /\ m.eff = "ok"
          BY <4>1, <4>3, <5>1 DEF Calls, OneContinuation, Continuation
        <5>3. PICK g \in Fibers : Registered(g, h, n) /\ Done(g)'
          BY <2>1, <5>1, <5>2
        <5>4. Top(h).on = g
          BY <1>5, <2>1, <5>2, <5>3, FlagTypes DEF Observes
        <5> QED
          BY <5>2, <5>3, <5>4 DEF Returns, DoneFibers
      <4> QED
        BY <4>2, <4>3
    <3> QED
      BY <3>1, <3>2
  <2> QED
    BY <2>1, <2>2
<1>6. /\ loop'[h] = loop[h] /\ stack'[h] = stack[h] /\ cur'[h] = cur[h] /\ asyncs'[h] = asyncs[h]
      /\ external'[h] = external[h]
  BY DEF Resting
<1>7. Awaits(h)'
  BY <1>3, <1>4, <1>5, <1>6 DEF Awaits, OnAwait, Top
<1> QED
  BY <1>1, <1>7

(* Suspending on an await: the callback is new. *)
LEMMA SuspendAwaits ==
    ASSUME TypeOK, OneContinuation, [Next]_vars, NEW h \in Fibers, NEW g \in Fibers,
           NEW base \in Seq(Frames), SuspendOn(h, g, base), loop[h] = "running",
           Observes(h), Buried(base, DoneFibers),
           base # <<>> => base[Len(base)].k # "Await"
    PROVE  Awaits(h)' /\ Observes(h)'
<1> DEFINE n == asyncs[h] + 1
           k == Awaiting(flag[h], g, n)
<1>1. /\ stack'[h] = Append(base, k) /\ asyncs'[h] = n /\ external'[h] = external[h]
      /\ loop'[h] = "idle" /\ queue' = Offered(queue, {g}, AddObserver(h, n))
  BY DEF SuspendOn, Tell, TypeOK
<1>2. n \in Nat /\ asyncs[h] \in Nat /\ flag[h] \in BOOLEAN
  BY FlagTypes
<1>3. k \in Frames /\ k.k = "Await" /\ k.on = g /\ k.cb = n /\ AddObserver(h, n) \in Messages
  <2>1. k \in Frames
    BY <1>2, FrameTypes
  <2> QED
    BY <1>2, <2>1, MessageTypes DEF Awaiting
<1>4. n \notin external[h]
  <2>1. n \notin 1 .. asyncs[h]
    BY <1>2
  <2> QED
    BY <2>1 DEF Observes
<1> HIDE DEF k
<1>5. OnAwait(h)' /\ Top(h)' = k
  <2>1. Append(base, k) # <<>> /\ Append(base, k)[Len(Append(base, k))] = k
    BY <1>3, AppendLast
  <2> QED
    BY <1>1, <1>3, <2>1 DEF OnAwait, Top
<1>6. Buried(stack'[h], DoneFibers')
  <2>1. Buried(Append(base, k), DoneFibers)
    <3>1. base # <<>> => Follows(base[Len(base)], k, DoneFibers)
      BY DEF Follows
    <3> QED
      BY <1>3, <3>1, BuriedAppend
  <2> QED
    BY <1>1, <2>1, DoneKept, BuriedMore
<1> HIDE DEF n
<1>7. Resumes(h)' = {}
  <2>1. Resumes(h) = {}
    BY RunningAlone
  <2>2. Resumes(h)' \subseteq Resumes(h)
    BY <1>1, <1>3, QuietResumes, Tags DEF TypeOK
  <2> QED
    BY <2>1, <2>2
<1>8. Awaits(h)'
  BY <1>1, <1>3, <1>4, <1>5, <1>6, <1>7 DEF Awaits
<1>9. Observes(h)'
  <2>1. external'[h] \subseteq 1 .. asyncs'[h] /\ 1 .. asyncs[h] \subseteq 1 .. n
    <3>1. 1 .. asyncs[h] \subseteq 1 .. n
      BY <1>2 DEF n
    <3> QED
      BY <1>1, <3>1 DEF Observes
  <2>2. ASSUME NEW f \in Fibers, NEW i \in Nat, Registered(f, h, i)'
        PROVE  /\ i \in 1 .. asyncs'[h] /\ i \notin external'[h]
               /\ Top(h)'.cb = i => Top(h)'.on = f
    <3>1. CASE Registered(f, h, i)
      <4>1. i \in 1 .. asyncs[h] /\ i \notin external[h]
        BY <3>1 DEF Observes
      <4>2. i # n
        BY <1>2, <4>1 DEF n
      <4> QED
        BY <1>1, <1>3, <1>5, <2>1, <4>1, <4>2
    <3>2. CASE ~Registered(f, h, i)
      <4>1. i = n /\ \E b : SuspendOn(h, f, b)
        BY <2>2, <3>2, NewRegistrations DEF n
      <4>2. PICK b : SuspendOn(h, f, b)
        BY <4>1
      <4>3. stack'[h] = Append(b, Awaiting(flag[h], f, n))
        BY <4>2 DEF SuspendOn, TypeOK, n
      <4>4. f = g
        <5>1. Tell(queue, {f}, AddObserver(h, n)) /\ Tell(queue, {g}, AddObserver(h, n))
          BY <4>2 DEF SuspendOn, n
        <5>2. ASSUME f # g
              PROVE  FALSE
          <6>1. queue'[f] = queue[f] /\ queue'[f] = Append(queue[f], AddObserver(h, n))
            BY <5>1, <5>2 DEF Tell, Offered
          <6> QED
            BY <6>1 DEF TypeOK
        <5> QED
          BY <5>2
      <4>5. n \in 1 .. n
        BY <1>2 DEF n
      <4> QED
        BY <1>1, <1>3, <1>4, <1>5, <4>1, <4>4, <4>5
    <3> QED
      BY <3>1, <3>2
  <2> QED
    BY <2>1, <2>2 DEF Observes
<1> QED
  BY <1>8, <1>9

(* The steps of a fiber that awaits. *)
LEMMA ActingAwaits ==
    ASSUME TypeOK, TypeOK', OneContinuation, OneContinuation', [Next]_vars, NEW h \in Fibers,
           Awaits(h), Observes(h),
           HandleResume(h) \/ RunInterrupt(h) \/ Evaluate(h) \/ Unwind(h) \/ WindDown(h)
    PROVE  Awaits(h)' /\ Observes(h)'
<1> DEFINE D == DoneFibers
           s == stack[h]
<1>a. D \subseteq D'
  BY DoneKept
<1>b. s \in Seq(Frames) /\ Buried(s, D) /\ Buried(s, D')
  BY <1>a, BuriedMore DEF Awaits, TypeOK
<1>c. \A c, t : Comes(c, t, D) => Comes(c, t, D')
  BY <1>a DEF Comes, Returns
<1>d. OnAwait(h) <=> s # <<>> /\ s[Len(s)].k = "Await"
  BY DEF OnAwait, Top
<1>e. ASSUME asyncs'[h] = asyncs[h], external'[h] = external[h], stack'[h] \in Seq(Frames),
             Buried(stack'[h], D),
             \/ loop'[h] = "running" /\ (Comes(cur'[h], stack'[h], D) \/ Comes(cur'[h], stack'[h], D'))
             \/ stack'[h] = <<>> \/ stack'[h][Len(stack'[h])].k # "Await"
      PROVE  Awaits(h)' /\ Observes(h)'
  <2>1. OnAwait(h)' <=> stack'[h] # <<>> /\ stack'[h][Len(stack'[h])].k = "Await"
    BY DEF OnAwait, Top
  <2>2. OnAwait(h)' => loop'[h] = "running"
    BY <1>e, <2>1
  <2>3. Observes(h)'
    BY <1>e, <2>2, RegistrationsStay
  <2>4. Buried(stack'[h], D')
    BY <1>a, <1>e, BuriedMore
  <2>5. loop'[h] = "running" => Comes(cur'[h], stack'[h], D')
    BY <1>c, <1>e DEF Comes
  <2>6. Awaits(h)'
    BY <2>2, <2>4, <2>5 DEF Awaits
  <2> QED
    BY <2>3, <2>6
<1> HIDE DEF D, s
<1>f. loop[h] = "running" => Comes(cur[h], s, D)
  BY DEF Awaits, D, s
<1>g. \A t : Comes("fail", t, D)
  BY DEF Comes, Returns
<1>h. ASSUME loop[h] = "running", cur[h] = "next"
      PROVE  s # <<>> => s[Len(s)].k # "Await"
  BY <1>f, <1>h DEF Comes, Returns
<1>1. CASE HandleResume(h)
  <2>1. loop'[h] = "running" /\ loop[h] = "idle" /\ queue[h] # <<>>
        /\ Head(queue[h]).tag = "Resume"
        /\ cur'[h] = (IF Interrupting(h) THEN "fail" ELSE Head(queue[h]).eff)
        /\ stack'[h] = stack[h] /\ asyncs'[h] = asyncs[h] /\ external'[h] = external[h]
    BY <1>1 DEF HandleResume, Draining, Receives, TypeOK
  <2>2. Head(queue[h]) \in Resumes(h)
    BY <2>1, PolledContents DEF Resumes
  <2>3. Comes(cur'[h], s, D)
    <3>1. CASE Interrupting(h)
      BY <1>g, <2>1, <3>1
    <3>2. CASE ~Interrupting(h)
      <4>1. cur'[h] = Head(queue[h]).eff
        BY <2>1, <3>2
      <4>2. OnAwait(h) => Returns(cur'[h], Top(h).on, D)
        BY <2>1, <2>2, <4>1 DEF Awaits, D
      <4> QED
        BY <1>d, <4>2 DEF Comes, Top, s
    <3> QED
      BY <3>1, <3>2
  <2> QED
    BY <1>b, <1>e, <2>1, <2>3 DEF s
<1>2. CASE RunInterrupt(h)
  <2>1. /\ loop[h] = "running" /\ loop'[h] = "running" /\ cur'[h] \in {"fail", cur[h]}
        /\ stack'[h] = stack[h] /\ asyncs'[h] = asyncs[h] /\ external'[h] = external[h]
    BY <1>2 DEF RunInterrupt, asyncVars, TypeOK
  <2>2. Comes(cur'[h], s, D)
    BY <1>f, <1>g, <2>1
  <2> QED
    BY <1>b, <1>e, <2>1, <2>2 DEF s
<1>i. ASSUME NEW k \in Frames, NEW l \in Frames, loop[h] = "running", cur[h] = "next"
      PROVE  /\ Append(s, k) \in Seq(Frames) /\ Buried(Append(s, k), D)
             /\ s \o <<k, l>> \in Seq(Frames)
             /\ k.k # "Await" => Buried(s \o <<k, l>>, D)
             /\ Append(s, k) # <<>> /\ Append(s, k)[Len(Append(s, k))] = k
             /\ s \o <<k, l>> # <<>> /\ (s \o <<k, l>>)[Len(s \o <<k, l>>)] = l
  <2>1. s # <<>> => Follows(s[Len(s)], k, D)
    BY <1>h, <1>i DEF Follows
  <2>2. Append(s, k) \in Seq(Frames) /\ Buried(Append(s, k), D)
    BY <1>b, <2>1, BuriedAppend
  <2>3. /\ Append(s, k) # <<>> /\ Append(s, k)[Len(Append(s, k))] = k
    BY <1>b
  <2>4. s \o <<k, l>> = Append(Append(s, k), l)
    BY <1>b
  <2>5. k.k # "Await" => Buried(Append(Append(s, k), l), D)
    BY <2>2, <2>3, BuriedAppend DEF Follows
  <2>6. Append(Append(s, k), l) \in Seq(Frames) /\ Append(Append(s, k), l) # <<>>
        /\ Append(Append(s, k), l)[Len(Append(Append(s, k), l))] = l
    BY <2>2, AppendLast
  <2> QED
    BY <2>2, <2>3, <2>4, <2>5, <2>6
<1>3. ASSUME NEW c \in Fibers, NEW p \in Scopes[h], Fork(h, c, p)
      PROVE  Awaits(h)' /\ Observes(h)'
  <2>1. cur[h] = "next" /\ loop[h] = "running" /\ loop'[h] = "running" /\ cur'[h] = cur[h]
        /\ stack'[h] = stack[h] /\ asyncs'[h] = asyncs[h] /\ external'[h] = external[h]
    BY <1>3 DEF Fork, Primitive, Evaluates, Turn, Born, asyncVars, TypeOK
  <2> QED
    BY <1>b, <1>e, <1>f, <2>1 DEF s
<1>4. CASE (\E g \in Fibers : InterruptFiber(h, g)) \/ Fail(h) \/ Return(h)
  <2>1. cur[h] = "next" /\ loop[h] = "running" /\ loop'[h] = "running"
        /\ stack'[h] = stack[h] /\ asyncs'[h] = asyncs[h] /\ external'[h] = external[h]
    BY <1>4 DEF InterruptFiber, Fail, Return, Primitive, Evaluates, Turn, asyncVars, TypeOK
  <2>2. stack'[h] = <<>> \/ stack'[h][Len(stack'[h])].k # "Await"
    BY <1>h, <2>1 DEF s
  <2> QED
    BY <1>b, <1>e, <2>1, <2>2 DEF s
<1>5. ASSUME NEW b \in BOOLEAN, Region(h, b)
      PROVE  Awaits(h)' /\ Observes(h)'
  <2>1. cur[h] = "next" /\ loop[h] = "running" /\ asyncs'[h] = asyncs[h]
        /\ external'[h] = external[h]
        /\ stack'[h] \in {stack[h], stack[h] \o <<Then("next"), Revert(flag[h])>>}
    BY <1>5 DEF Region, Primitive, Evaluates, Turn, asyncVars, TypeOK
  <2>2. CASE stack'[h] = stack[h]
    <3>1. stack'[h] = <<>> \/ stack'[h][Len(stack'[h])].k # "Await"
      BY <1>h, <2>1, <2>2 DEF s
    <3> QED
      BY <1>b, <1>e, <2>1, <2>2, <3>1 DEF s
  <2>3. CASE stack'[h] = stack[h] \o <<Then("next"), Revert(flag[h])>>
    <3>1. Then("next") \in Frames /\ Revert(flag[h]) \in Frames
          /\ Then("next").k # "Await" /\ Revert(flag[h]).k # "Await"
      BY FrameTypes, FlagTypes DEF Then, Revert
    <3>2. stack'[h] \in Seq(Frames) /\ Buried(stack'[h], D)
          /\ stack'[h][Len(stack'[h])] = Revert(flag[h])
      BY <1>i, <2>1, <2>3, <3>1 DEF s
    <3> QED
      BY <1>e, <2>1, <3>1, <3>2
  <2> QED
    BY <2>1, <2>2, <2>3
<1>6. CASE CatchAll(h)
  <2>1. cur[h] = "next" /\ loop[h] = "running" /\ asyncs'[h] = asyncs[h]
        /\ external'[h] = external[h]
        /\ stack'[h] = stack[h] \o <<Then("next"), Catch>>
    BY <1>6 DEF CatchAll, Primitive, Evaluates, Turn, asyncVars, TypeOK
  <2>2. Then("next") \in Frames /\ Catch \in Frames
        /\ Then("next").k # "Await" /\ Catch.k # "Await"
    BY FrameTypes DEF Then, Catch
  <2>3. stack'[h] \in Seq(Frames) /\ Buried(stack'[h], D)
        /\ stack'[h][Len(stack'[h])] = Catch
    BY <1>i, <2>1, <2>2 DEF s
  <2> QED
    BY <1>e, <2>1, <2>2, <2>3
<1>7. CASE Async(h)
  <2> DEFINE n == asyncs[h] + 1
  <2>1. /\ cur[h] = "next" /\ loop[h] = "running" /\ loop'[h] = "idle" /\ asyncs'[h] = n
        /\ external'[h] = external[h] \cup {n} /\ stack'[h] = Append(stack[h], Then("next"))
    BY <1>7 DEF Async, Primitive, Evaluates, Turn, TypeOK
  <2>2. Then("next") \in Frames /\ Then("next").k # "Await"
    BY FrameTypes DEF Then
  <2>3. Buried(stack'[h], D) /\ ~OnAwait(h)'
    BY <1>i, <2>1, <2>2 DEF s, OnAwait, Top
  <2>4. Awaits(h)'
    <3>1. Buried(stack'[h], D')
      BY <1>a, <2>3, BuriedMore
    <3> QED
      BY <2>1, <2>3, <3>1 DEF Awaits, D
  <2>5. n \in Nat /\ asyncs[h] \in Nat
    BY FlagTypes
  <2>6. n \in 1 .. n /\ n \notin 1 .. asyncs[h] /\ 1 .. asyncs[h] \subseteq 1 .. n
    BY <2>5
  <2> HIDE DEF n
  <2>7. external'[h] \subseteq 1 .. asyncs'[h]
    BY <2>1, <2>6 DEF Observes
  <2>8. ASSUME NEW g \in Fibers, NEW i \in Nat, Registered(g, h, i)'
        PROVE  i \in 1 .. asyncs'[h] /\ i \notin external'[h]
    <3>1. Registered(g, h, i)
      <4> SUFFICES ASSUME ~Registered(g, h, i)
                   PROVE  FALSE
        OBVIOUS
      <4>1. PICK base : SuspendOn(h, g, base)
        BY <2>8, NewRegistrations
      <4>2. external'[h] = external[h] /\ n \notin external[h]
        BY <2>6, <4>1 DEF SuspendOn, Observes
      <4> QED
        BY <2>1, <4>2
    <3>2. i \in 1 .. asyncs[h] /\ i \notin external[h]
      BY <3>1 DEF Observes
    <3> QED
      BY <2>1, <2>6, <3>2
  <2>9. Observes(h)'
    BY <2>3, <2>7, <2>8 DEF Observes
  <2> QED
    BY <2>4, <2>9
<1>8. ASSUME NEW g \in Fibers, Await(h, g)
      PROVE  Awaits(h)' /\ Observes(h)'
  <2>1. cur[h] = "next" /\ loop[h] = "running" /\ SuspendOn(h, g, Append(stack[h], Then("next")))
    BY <1>8 DEF Await, Primitive, Evaluates, Turn
  <2>2. Then("next") \in Frames /\ Then("next").k # "Await"
    BY FrameTypes DEF Then
  <2> DEFINE base == Append(stack[h], Then("next"))
  <2>3. base \in Seq(Frames) /\ Buried(base, D) /\ base[Len(base)] = Then("next")
    BY <1>i, <2>1, <2>2 DEF s
  <2>4. SuspendOn(h, g, base) /\ (base # <<>> => base[Len(base)].k # "Await")
    BY <2>1, <2>2, <2>3
  <2> HIDE DEF base
  <2> QED
    BY <2>1, <2>3, <2>4, SuspendAwaits DEF D
<1>9. CASE Yield(h)
  <2>1. /\ loop[h] = "running" /\ asyncs'[h] = asyncs[h] /\ external'[h] = external[h]
        /\ stack'[h] = Append(stack[h], Then(cur[h])) /\ cur[h] \in {"next", "ok", "fail"}
    BY <1>9 DEF Yield, Evaluates, Turn, asyncVars, TypeOK
  <2> DEFINE k == Then(cur[h])
  <2>2. k \in Frames /\ k.k = "Then" /\ k.c = cur[h]
    BY <2>1, FrameTypes DEF Then
  <2> HIDE DEF k
  <2>3. s # <<>> => Follows(s[Len(s)], k, D)
    BY <1>f, <2>1, <2>2 DEF Follows, Comes
  <2>4. Buried(Append(s, k), D)
    BY <1>b, <2>2, <2>3, BuriedAppend
  <2>5. Append(s, k) \in Seq(Frames) /\ Append(s, k)[Len(Append(s, k))] = k
    BY <1>b, <2>2
  <2>6. stack'[h] = Append(s, k)
    BY <2>1 DEF s, k
  <2> QED
    BY <1>e, <2>1, <2>2, <2>4, <2>5, <2>6
<1>j. ASSUME loop[h] = "running", loop'[h] = "running", stack[h] # <<>>, stack'[h] = Pop(h),
             Top(h).k = "Then" => cur'[h] \in {"fail", Top(h).c},
             asyncs'[h] = asyncs[h], external'[h] = external[h]
      PROVE  Awaits(h)' /\ Observes(h)'
  <2>1. Buried(Pop(h), D) /\ Comes(cur'[h], Pop(h), D)
    BY <1>b, <1>j, BuriedPop DEF s
  <2>2. Pop(h) \in Seq(Frames)
    BY <1>j, StackParts
  <2> QED
    BY <1>e, <1>j, <2>1, <2>2
<1>10. CASE OnSuccess(h) \/ OnFailure(h) \/ RevertFlags(h) \/ AwaitExit(h) \/ ChildrenDone(h)
  <2>1. /\ loop[h] = "running" /\ loop'[h] = "running" /\ stack[h] # <<>> /\ stack'[h] = Pop(h)
        /\ asyncs'[h] = asyncs[h] /\ external'[h] = external[h]
    BY <1>10 DEF OnSuccess, OnFailure, RevertFlags, AwaitExit, ChildrenDone, Reverted, Unwinding,
                 Turn, unwindFrame, asyncVars, TypeOK
  <2>2. Top(h).k = "Then" => cur'[h] \in {"fail", Top(h).c}
    BY <1>10 DEF OnSuccess, OnFailure, RevertFlags, AwaitExit, ChildrenDone, Unwinding, TypeOK
  <2> QED
    BY <1>j, <2>1, <2>2
<1>11. CASE ChildrenNext(h)
  <2>1. loop[h] = "running" /\ stack[h] # <<>> /\ Top(h).k = "Children"
        /\ Top(h) \in Frames /\ Pop(h) \in Seq(Frames)
    BY <1>11, StackParts DEF ChildrenNext, Unwinding, Turn
  <2>2. PICK c \in Top(h).rest :
             SuspendOn(h, c, Append(Pop(h), Children(Top(h).rest \ {c}, Top(h).exit)))
    BY <1>11 DEF ChildrenNext
  <2> DEFINE k == Children(Top(h).rest \ {c}, Top(h).exit)
             base == Append(Pop(h), k)
  <2>3. c \in Fibers /\ k \in Frames /\ k.k = "Children"
    <3>1. Top(h).rest \in SUBSET Fibers /\ Top(h).exit \in Results
      BY <2>1, FrameParts
    <3>2. Top(h).rest \ {c} \in SUBSET Fibers
      BY <3>1
    <3> QED
      BY <2>2, <3>1, <3>2, FrameTypes DEF Children
  <2>4. SuspendOn(h, c, base)
    BY <2>2
  <2> HIDE DEF k
  <2>5. Buried(Pop(h), D) /\ Comes("next", Pop(h), D)
    BY <1>b, <2>1, BuriedPop DEF s
  <2>6. Pop(h) # <<>> => Pop(h)[Len(Pop(h))].k # "Await"
    BY <2>5 DEF Comes, Returns
  <2>7. Buried(base, D)
    <3>1. Pop(h) # <<>> => Follows(Pop(h)[Len(Pop(h))], k, D)
      BY <2>6 DEF Follows
    <3> QED
      BY <2>1, <2>3, <2>5, <3>1, BuriedAppend
  <2>8. base \in Seq(Frames) /\ base[Len(base)] = k
    BY <2>1, <2>3
  <2>9. base # <<>> => base[Len(base)].k # "Await"
    BY <2>3, <2>8
  <2> HIDE DEF base
  <2> QED
    BY <2>1, <2>3, <2>4, <2>7, <2>8, <2>9, SuspendAwaits DEF D
<1>12. CASE WindDownChildren(h)
  <2> DEFINE k == Children(children[h], cur[h])
  <2>1. /\ loop[h] = "running" /\ asyncs'[h] = asyncs[h] /\ external'[h] = external[h]
        /\ stack'[h] = <<k>> /\ cur[h] \in Results /\ children[h] \in SUBSET Fibers
    BY <1>12 DEF WindDownChildren, LoopReturn, asyncVars, TypeOK
  <2>2. k \in Frames /\ k.k # "Await"
    BY <2>1, FrameTypes DEF Children
  <2> HIDE DEF k
  <2>3. <<k>> \in Seq(Frames) /\ Len(<<k>>) = 1 /\ <<k>>[1] = k
    BY <2>2
  <2>4. Buried(<<k>>, D)
    <3>1. 1 .. Len(<<k>>) - 1 = {}
      BY <2>3
    <3> QED
      BY <3>1 DEF Buried
  <2> QED
    BY <1>e, <2>1, <2>2, <2>3, <2>4
<1>13. CASE WindDownMessages(h) \/ SetExitValue(h)
  <2>1. /\ asyncs'[h] = asyncs[h] /\ external'[h] = external[h] /\ stack'[h] = stack[h]
        /\ stack[h] = <<>>
    BY <1>13 DEF WindDownMessages, SetExitValue, LoopReturn, asyncVars
  <2> QED
    BY <1>b, <1>e, <2>1 DEF s
<1> QED
  BY <1>1, <1>2, <1>3, <1>4, <1>5, <1>6, <1>7, <1>8, <1>9, <1>10, <1>11, <1>12, <1>13
     DEF Evaluate, Unwind, WindDown

LEMMA AwaitInvariant == Spec => []AwaitInv
<1>1. Init => AwaitInv
  <2> SUFFICES ASSUME Init, NEW f \in Fibers
               PROVE  Awaits(f) /\ Observes(f)
    BY DEF AwaitInv
  <2>1. stack[f] = <<>> /\ queue[f] = <<>> /\ external[f] = {} /\ loop[f] = "unborn"
        /\ \A g \in Fibers : queue[g] = <<>> /\ observers[g] = {}
    BY DEF Init
  <2>2. \A g \in Fibers, n \in Nat : ~Registered(g, f, n)
    BY <2>1 DEF Registered, Contents
  <2> QED
    BY <2>1, <2>2 DEF Awaits, Observes, OnAwait, Buried
<1>2. TypeOK /\ TypeOK' /\ OneContinuation /\ OneContinuation' /\ VerdictInv /\ AwaitInv
          /\ [Next]_vars
      => AwaitInv'
  <2> SUFFICES ASSUME TypeOK, TypeOK', OneContinuation, OneContinuation', VerdictInv, AwaitInv,
                      [Next]_vars, NEW h \in Fibers
               PROVE  Awaits(h)' /\ Observes(h)'
    BY DEF AwaitInv
  <2>1. Awaits(h) /\ Observes(h) /\ Calm(h)
    BY DEF AwaitInv, VerdictInv
  <2>2. CASE Resting(h)
    BY <2>1, <2>2, RestingAwaits
  <2>3. CASE HandleResume(h) \/ RunInterrupt(h) \/ Evaluate(h) \/ Unwind(h) \/ WindDown(h)
    BY <2>1, <2>3, ActingAwaits
  <2>4. ASSUME loop[h] = "unborn", UNCHANGED <<stack, asyncs, external>>
        PROVE  Awaits(h)' /\ Observes(h)'
    <3>1. stack'[h] = <<>>
      BY <2>1, <2>4 DEF Calm
    <3>2. Observes(h)'
      BY <2>1, <2>4, <3>1, RegistrationsStay DEF OnAwait
    <3>3. Awaits(h)'
      BY <3>1 DEF Awaits, Buried, Comes, OnAwait
    <3> QED
      BY <3>2, <3>3
  <2>5. CASE h = Root /\ Start
    BY <2>4, <2>5 DEF Start, Born, asyncVars, TypeOK
  <2>6. ASSUME NEW f \in Fibers, NEW p \in Scopes[f], Fork(f, h, p)
        PROVE  Awaits(h)' /\ Observes(h)'
    BY <2>4, <2>6 DEF Fork, Born, asyncVars, TypeOK
  <2> QED
    BY <2>2, <2>3, <2>5, <2>6, StepsOfFibers
<1> QED
  BY <1>1, <1>2, TypeCorrect, ContinuationIsUnique, VerdictInvariant, PTL DEF Spec

(* A fiber ends with the exit its run loop came to first, whatever arrives *)
(* while it winds down, and an await goes on with a value only when the    *)
(* fiber it is about is done: evaluateEffect and setExitValue, await and   *)
(* the callbacks of initiateAsync, at any number of fibers.                *)
THEOREM ExitsAndAwaits == Spec => []ExitsAreRight
<1>1. VerdictInv => ExitIsVerdict
  BY DEF VerdictInv, Ended, ExitIsVerdict
<1>2. AwaitInv => AwaitReturnsExit
  BY DEF AwaitInv, Awaits, Comes, Returns, DoneFibers, AwaitReturnsExit, Top
<1> QED
  BY <1>1, <1>2, VerdictInvariant, AwaitInvariant, PTL DEF ExitsAreRight

-----------------------------------------------------------------------------
(* A fiber ends after the fibers in its scope.                             *)

(* Only the fiber itself forks into its scope: nobody provides another     *)
(* forkScopeOverride than its own scope or the global one.                 *)
OwnScopesOnly == \A f \in Fibers : Scopes[f] \subseteq {f, NoFiber}

(* The frame k of a fiber that winds down awaits c, or is to await it. *)
ToAwait(k, c) == (k.k = "Children" /\ c \in k.rest) \/ (k.k = "Await" /\ k.on = c)

Frame(s, c) == \E i \in 1 .. Len(s) : ToAwait(s[i], c)

(* f will know c as its child, knows it, or winds down and awaits it. *)
Kept(f, c) ==
    \/ AddChild(c) \in Contents(queue[f])
    \/ c \in children[f]
    \/ verdict[f] # None /\ Frame(stack[f], c)

(* A fiber keeps the fibers in its scope until they are done. *)
KeepsChildren ==
    /\ \A f \in Fibers : ~Born(f) => scope[f] = NoFiber
    /\ \A f, c \in Fibers :
          Born(c) /\ scope[c] = f /\ ~Done(c) => ~Done(f) /\ Kept(f, c)

LEMMA FrameAppend ==
    ASSUME NEW s \in Seq(Frames), NEW k \in Frames, NEW c, Frame(s, c) \/ ToAwait(k, c)
    PROVE  Frame(Append(s, k), c)
<1>1. ASSUME NEW i \in 1 .. Len(s), ToAwait(s[i], c)
      PROVE  Frame(Append(s, k), c)
  <2>1. Append(s, k)[i] = s[i] /\ i \in 1 .. Len(Append(s, k))
    OBVIOUS
  <2> QED
    BY <1>1, <2>1 DEF Frame
<1>2. ASSUME ToAwait(k, c)
      PROVE  Frame(Append(s, k), c)
  <2>1. Append(s, k)[Len(s) + 1] = k /\ Len(s) + 1 \in 1 .. Len(Append(s, k))
    OBVIOUS
  <2> QED
    BY <1>2, <2>1 DEF Frame
<1> QED
  BY <1>1, <1>2 DEF Frame

LEMMA FramePop ==
    ASSUME TypeOK, NEW f \in Fibers, stack[f] # <<>>, NEW c, Frame(stack[f], c),
           ~ToAwait(Top(f), c)
    PROVE  Frame(Pop(f), c)
<1> DEFINE s == stack[f]
           n == Len(s) - 1
           t == SubSeq(s, 1, n)
<1>1. s \in Seq(Frames) /\ s # <<>>
  BY DEF TypeOK
<1>2. Frame(s, c) /\ Pop(f) = t /\ Top(f) = s[Len(s)]
  BY DEF Pop, Top
<1> HIDE DEF s
<1>3. Len(s) \in Nat /\ n \in 0 .. Len(s) /\ n + 1 = Len(s)
  BY <1>1
<1> HIDE DEF n
<1>4. Len(t) = n /\ \A i \in 1 .. n : t[i] = s[i]
  BY <1>1, <1>3
<1> HIDE DEF t
<1>5. PICK i \in 1 .. Len(s) : ToAwait(s[i], c)
  BY <1>2 DEF Frame
<1>6. i # Len(s)
  BY <1>2, <1>5
<1>7. i \in 1 .. n
  BY <1>3, <1>5, <1>6
<1> QED
  BY <1>2, <1>4, <1>5, <1>7 DEF Frame

(* The message that announces a child stays until the fiber handles it. *)
LEMMA AddChildStays ==
    ASSUME TypeOK, [Next]_vars, NEW f \in Fibers, NEW c \in Fibers,
           AddChild(c) \in Contents(queue[f])
    PROVE  \/ AddChild(c) \in Contents(queue'[f])
           \/ HandleAddChild(f) /\ Head(queue[f]).child = c
<1> USE DEF TypeOK
<1> DEFINE a == AddChild(c)
<1>a. a.tag = "AddChild" /\ a.child = c
  BY DEF AddChild
<1>b. a \in Contents(queue[f])
  OBVIOUS
<1> HIDE DEF a
<1>e. ASSUME NEW q \in [Fibers -> Seq(Messages)], NEW to, NEW m \in Messages,
             a \in Contents(q[f])
      PROVE  a \in Contents(Offered(q, to, m)[f])
  <2>1. Contents(Append(q[f], m)) = Contents(q[f]) \cup {m}
    BY ContentsAppend
  <2> QED
    BY <1>e, <2>1 DEF Offered
<1>f. ASSUME NEW h \in Fibers, queue[h] # <<>>, Head(queue[h]).tag # "AddChild"
      PROVE  Polled(h) \in [Fibers -> Seq(Messages)] /\ a \in Contents(Polled(h)[f])
  BY <1>a, <1>f, PolledType, PolledContents DEF a
<1>1. ASSUME NEW h \in Fibers, HandleAddChild(h)
      PROVE  \/ a \in Contents(queue'[f])
             \/ HandleAddChild(f) /\ Head(queue[f]).child = c
  <2>1. queue[h] # <<>> /\ queue' = Polled(h)
    BY <1>1 DEF HandleAddChild, Handling, Receives
  <2>2. CASE h # f
    <3>1. queue'[f] = queue[f]
      BY <2>1, <2>2 DEF Polled
    <3> QED
      BY <1>b, <3>1
  <2>3. CASE h = f
    <3>1. Contents(queue[f]) \subseteq Contents(queue'[f]) \cup {Head(queue[f])}
      BY <2>1, <2>3, PolledContents
    <3>2. a \in Contents(queue'[f]) \/ a = Head(queue[f])
      BY <1>b, <3>1
    <3>3. HandleAddChild(f)
      BY <1>1, <2>3
    <3>4. a = Head(queue[f]) => Head(queue[f]).child = c
      BY <1>a
    <3> QED
      BY <3>2, <3>3, <3>4
  <2> QED
    BY <2>2, <2>3
<1>2. ASSUME NEW h \in Fibers, HandleAddObserver(h)
      PROVE  a \in Contents(queue'[f])
  <2>1. queue[h] # <<>> /\ Head(queue[h]).tag # "AddChild"
    BY <1>2 DEF HandleAddObserver, Handling, Receives
  <2>2. \/ queue' = Polled(h)
        \/ \E to : queue' = Offered(Polled(h), to, Resume("ok"))
    BY <1>2 DEF HandleAddObserver, Tell
  <2> QED
    BY <1>e, <1>f, <2>1, <2>2, MessageTypes
<1>3. ASSUME NEW h \in Fibers, HandleInterrupt(h)
      PROVE  a \in Contents(queue'[f])
  <2> DEFINE told == Offered(Polled(h), children[h], Interrupt)
  <2>1. /\ queue[h] # <<>> /\ Head(queue[h]).tag # "AddChild"
        /\ queue' = Offered(told, Fresh(Interruptor(h)), Resume("fail"))
    BY <1>3 DEF HandleInterrupt, Receives
  <2>2. told \in [Fibers -> Seq(Messages)] /\ a \in Contents(told[f])
    BY <1>e, <1>f, <2>1, OfferedType, MessageTypes
  <2> HIDE DEF told
  <2> QED
    BY <1>e, <2>1, <2>2, MessageTypes
<1>4. ASSUME NEW h \in Fibers, DrainYield(h) \/ HandleResume(h) \/ HandleRemoveObserver(h)
      PROVE  a \in Contents(queue'[f])
  <2>1. queue[h] # <<>> /\ Head(queue[h]).tag # "AddChild" /\ queue' = Polled(h)
    BY <1>4 DEF DrainYield, HandleResume, HandleRemoveObserver, Handling, Receives
  <2> QED
    BY <1>f, <2>1
<1>5. ASSUME NEW h \in Fibers, RunInterrupt(h)
      PROVE  a \in Contents(queue'[f])
  <2>1. /\ queue[h] # <<>> /\ Head(queue[h]).tag # "AddChild"
        /\ queue' = Offered(Polled(h), children[h], Interrupt)
    BY <1>5 DEF RunInterrupt, Receives, Tell
  <2> QED
    BY <1>e, <1>f, <2>1, MessageTypes
<1>6. ASSUME NEW to, NEW m \in Messages, queue' = Offered(queue, to, m)
      PROVE  a \in Contents(queue'[f])
  BY <1>6, <1>e DEF a
<1>7. ASSUME UNCHANGED queue
      PROVE  a \in Contents(queue'[f])
  BY <1>7 DEF a
<1>8. ASSUME NEW h \in Fibers, SetExitValue(h) \/ \E n \in external[h] : ExternalCall(h, n)
      PROVE  a \in Contents(queue'[f])
  <2>1. \E to : queue' = Offered(queue, to, Resume("ok"))
    BY <1>8 DEF SetExitValue, ExternalCall, Tell
  <2> QED
    BY <1>6, <2>1, MessageTypes
<1>9. ASSUME NEW h \in Fibers, NEW d \in Fibers, NEW p \in Scopes[h], Fork(h, d, p)
      PROVE  a \in Contents(queue'[f])
  <2> DEFINE q == Offered(queue, {p} \ {NoFiber}, AddChild(d))
  <2>1. queue' = Offered(q, {d}, Resume("next"))
    BY <1>9 DEF Fork
  <2>2. AddChild(d) \in Messages
    BY MessageTypes
  <2>3. q \in [Fibers -> Seq(Messages)] /\ a \in Contents(q[f])
    BY <1>e, <2>2, OfferedType DEF a
  <2> HIDE DEF q
  <2> QED
    BY <1>e, <2>1, <2>3, MessageTypes
<1>10. ASSUME NEW h \in Fibers,
              \/ WindDownChildren(h) \/ WindDownMessages(h) \/ Async(h)
              \/ (\E k \in Fibers : InterruptFiber(h, k))
       PROVE  a \in Contents(queue'[f])
  <2>1. \/ \E to : queue' = Offered(queue, to, Interrupt)
        \/ \E e \in {"ok", "fail"} : queue' = Offered(queue, {h}, Resume(e))
        \/ UNCHANGED queue
    BY <1>10 DEF WindDownChildren, WindDownMessages, Async, InterruptFiber, LoopReturn, Results,
                 mailVars, Tell
  <2> QED
    BY <1>6, <1>7, <2>1, MessageTypes
<1>11. ASSUME NEW h \in Fibers, Yield(h)
       PROVE  a \in Contents(queue'[f])
  <2> DEFINE q == Offered(queue, {h}, YieldNow)
  <2>1. queue' = Offered(q, {h}, Resume("ok"))
    BY <1>11 DEF Yield
  <2>2. q \in [Fibers -> Seq(Messages)] /\ a \in Contents(q[f])
    BY <1>e, OfferedType, MessageTypes DEF a
  <2> HIDE DEF q
  <2> QED
    BY <1>e, <2>1, <2>2, MessageTypes
<1>12. ASSUME NEW h \in Fibers, AwaitExit(h)
       PROVE  a \in Contents(queue'[f])
  <2>1. CASE UNCHANGED mailVars
    BY <1>7, <2>1 DEF mailVars
  <2>2. CASE Unwinding(h, "fail", "Await") /\ Tell(queue, {Top(h).on}, RemoveObserver(h, Top(h).cb))
    <3>1. RemoveObserver(h, Top(h).cb) \in Messages
      BY <2>2, StackParts, FrameParts, MessageTypes DEF Unwinding
    <3> QED
      BY <1>6, <2>2, <3>1 DEF Tell
  <2> QED
    BY <1>12, <2>1, <2>2 DEF AwaitExit
<1>13. ASSUME NEW h \in Fibers,
              \/ StartReturn(h) \/ Run(h) \/ DrainDone(h)
              \/ (\E b \in BOOLEAN : Region(h, b)) \/ CatchAll(h) \/ Fail(h) \/ Return(h)
              \/ OnSuccess(h) \/ OnFailure(h) \/ RevertFlags(h) \/ ChildrenDone(h)
       PROVE  UNCHANGED queue
  BY <1>13 DEF StartReturn, Run, DrainDone, Region, CatchAll, Fail, Return, OnSuccess,
              OnFailure, RevertFlags, ChildrenDone, mailVars
<1>14. Start \/ UNCHANGED vars => UNCHANGED queue
  BY DEF Start, vars, mailVars
<1>15. ASSUME NEW h \in Fibers, ChildrenNext(h) \/ \E k \in Fibers : Await(h, k)
       PROVE  a \in Contents(queue'[f])
  <2>1. \E to : queue' = Offered(queue, to, AddObserver(h, asyncs[h] + 1))
    BY <1>15 DEF ChildrenNext, Await, SuspendOn, Tell
  <2>2. AddObserver(h, asyncs[h] + 1) \in Messages
    BY FlagTypes, MessageTypes
  <2> QED
    BY <1>6, <2>1, <2>2
<1> QED
  BY <1>1, <1>2, <1>3, <1>4, <1>5, <1>7, <1>8, <1>9, <1>10, <1>11, <1>12, <1>13, <1>14, <1>15
     DEF Next, Advance, Handle, Evaluate, Unwind, WindDown, a

(* A child that is not done leaves the children of a fiber only when the   *)
(* fiber winds down.                                                       *)
LEMMA ChildrenStay ==
    ASSUME TypeOK, [Next]_vars, NEW f \in Fibers, NEW c \in children[f], ~Done(c)'
    PROVE  c \in children'[f] \/ WindDownChildren(f)
<1> USE DEF TypeOK
<1>1. ASSUME NEW h \in Fibers, HandleAddChild(h)
      PROVE  c \in children'[f]
  <2> DEFINE d == Head(queue[h]).child
  <2>1. \/ Done(d) /\ children' = [children EXCEPT ![h] = @ \ {d}]
        \/ children' = [children EXCEPT ![h] = @ \cup {d}]
    BY <1>1 DEF HandleAddChild
  <2>2. UNCHANGED exitValue
    BY <1>1 DEF HandleAddChild
  <2> HIDE DEF d
  <2> QED
    <3>1. ~Done(c)
      BY <2>2 DEF Done
    <3>2. CASE children' = [children EXCEPT ![h] = @ \cup {d}]
      BY <3>2
    <3>3. CASE Done(d) /\ children' = [children EXCEPT ![h] = @ \ {d}]
      BY <3>1, <3>3
    <3> QED
      BY <2>1, <3>2, <3>3
<1>2. ASSUME NEW h \in Fibers, SetExitValue(h)
      PROVE  c \in children'[f]
  <2>1. Done(h)'
    BY <1>2 DEF SetExitValue, LoopReturn, Done, Results, None
  <2> QED
    BY <1>2, <2>1 DEF SetExitValue
<1>3. ASSUME NEW h \in Fibers, WindDownChildren(h)
      PROVE  c \in children'[f] \/ WindDownChildren(f)
  BY <1>3 DEF WindDownChildren
<1>4. ASSUME NEW h \in Fibers,
             \/ StartReturn(h) \/ Run(h) \/ DrainDone(h) \/ DrainYield(h)
             \/ HandleResume(h) \/ HandleInterrupt(h) \/ RunInterrupt(h)
             \/ HandleAddObserver(h) \/ HandleRemoveObserver(h)
             \/ \E n \in external[h] : ExternalCall(h, n)
      PROVE  UNCHANGED children
  BY <1>4 DEF StartReturn, Run, DrainDone, DrainYield, HandleResume, HandleInterrupt, RunInterrupt,
              HandleAddObserver, HandleRemoveObserver, ExternalCall, signalVars
<1>5. ASSUME NEW h \in Fibers, Evaluate(h)
      PROVE  UNCHANGED children
  BY <1>5 DEF Evaluate, Fork, InterruptFiber, Await, SuspendOn, Region, Async, Yield, CatchAll,
              Fail, Return, signalVars
<1>6. ASSUME NEW h \in Fibers, Unwind(h) \/ WindDownMessages(h)
      PROVE  UNCHANGED children
  BY <1>6 DEF Unwind, OnSuccess, OnFailure, RevertFlags, AwaitExit, Reverted, ChildrenNext,
              SuspendOn, ChildrenDone, WindDownMessages, unwindFrame, signalVars
<1>7. Start \/ UNCHANGED vars => UNCHANGED children
  BY DEF Start, vars, signalVars
<1> QED
  BY <1>1, <1>2, <1>3, <1>4, <1>5, <1>6, <1>7 DEF Next, Advance, Handle, WindDown

(* The continuations that await a child stay until the child is done. *)
LEMMA FramesStay ==
    ASSUME TypeOK, TypeOK', OneContinuation, VerdictInv, AwaitInv, [Next]_vars,
           NEW f \in Fibers, NEW c \in Fibers,
           verdict[f] # None, Frame(stack[f], c), ~Done(c)
    PROVE  verdict'[f] # None /\ Frame(stack'[f], c)
<1> USE DEF TypeOK
<1>a. Calm(f) /\ Finishing(f) /\ Awaits(f)
  BY DEF VerdictInv, AwaitInv
<1>b. stack[f] # <<>>
  BY DEF Frame
<1>c. loop[f] = "running" => cur[f] = "ok"
  BY <1>a, <1>b DEF Finishing, Due
<1>1. CASE Resting(f)
  BY <1>1 DEF Resting
<1>2. CASE HandleResume(f) \/ RunInterrupt(f)
  BY <1>2 DEF HandleResume, RunInterrupt, historyVars
<1>3. CASE Evaluate(f)
  <2>1. Yield(f)
    BY <1>3, <1>c DEF Evaluate, Fork, InterruptFiber, Await, Region, Async, CatchAll, Fail, Return,
                      Primitive, Evaluates, Turn
  <2>2. stack' = [stack EXCEPT ![f] = Append(@, Then(cur[f]))] /\ verdict' = verdict
    BY <2>1 DEF Yield, historyVars
  <2>3. stack'[f] = Append(stack[f], Then(cur[f])) /\ Then(cur[f]) \in Frames
        /\ stack[f] \in Seq(Frames)
    BY <2>2, FrameTypes
  <2>4. Frame(stack'[f], c)
    BY <2>3, FrameAppend
  <2> QED
    BY <2>2, <2>4
<1>4. CASE OnSuccess(f) \/ OnFailure(f) \/ RevertFlags(f) \/ AwaitExit(f) \/ ChildrenDone(f)
  <2>1. loop[f] = "running" /\ stack'[f] = Pop(f) /\ verdict'[f] = verdict[f]
    BY <1>4 DEF OnSuccess, OnFailure, RevertFlags, AwaitExit, ChildrenDone, Reverted, Unwinding,
                Turn, unwindFrame, historyVars
  <2>2. ~ToAwait(Top(f), c)
    <3>1. CASE OnSuccess(f) \/ OnFailure(f) \/ RevertFlags(f)
      BY <3>1 DEF OnSuccess, OnFailure, RevertFlags, Unwinding, ToAwait
    <3>2. CASE ChildrenDone(f)
      BY <3>2 DEF ChildrenDone, Unwinding, ToAwait
    <3>3. CASE AwaitExit(f)
      <4>1. Top(f).k = "Await" /\ Comes("ok", stack[f], DoneFibers)
        BY <1>a, <1>c, <2>1, <3>3 DEF AwaitExit, Unwinding, Awaits
      <4>2. Top(f).on \in DoneFibers
        BY <1>b, <4>1 DEF Comes, Returns, Top
      <4> QED
        BY <4>1, <4>2 DEF DoneFibers, ToAwait
    <3> QED
      BY <1>4, <3>1, <3>2, <3>3
  <2> QED
    BY <1>b, <2>1, <2>2, FramePop
<1>5. CASE ChildrenNext(f)
  <2>1. /\ Top(f).k = "Children" /\ Top(f) \in Frames /\ Pop(f) \in Seq(Frames)
    BY <1>5, <1>b, StackParts DEF ChildrenNext, Unwinding
  <2>2. PICK d \in Top(f).rest :
             SuspendOn(f, d, Append(Pop(f), Children(Top(f).rest \ {d}, Top(f).exit)))
    BY <1>5 DEF ChildrenNext
  <2> DEFINE n == asyncs[f] + 1
             left == Children(Top(f).rest \ {d}, Top(f).exit)
             wait == Awaiting(flag[f], d, n)
  <2>3. stack'[f] = Append(Append(Pop(f), left), wait) /\ verdict'[f] = verdict[f]
    <3>1. stack' = [stack EXCEPT ![f] = Append(Append(Pop(f), left), wait)] /\ UNCHANGED verdict
      BY <2>2 DEF SuspendOn, historyVars
    <3> QED
      BY <3>1
  <2>4. left \in Frames /\ wait \in Frames
    <3>1. Top(f).rest \in SUBSET Fibers /\ Top(f).exit \in Results
      BY <2>1, FrameParts
    <3>2. Top(f).rest \ {d} \in SUBSET Fibers /\ d \in Fibers
      BY <2>2, <3>1
    <3>3. flag[f] \in BOOLEAN /\ n \in Nat
      BY FlagTypes
    <3> QED
      BY <3>1, <3>2, <3>3, FrameTypes
  <2>5. left.k = "Children" /\ left.rest = Top(f).rest \ {d} /\ wait.k = "Await" /\ wait.on = d
    BY DEF Children, Awaiting
  <2> HIDE DEF left, wait, n
  <2>6. Append(Pop(f), left) \in Seq(Frames)
    BY <2>1, <2>4
  <2>7. CASE ToAwait(Top(f), c)
    <3>1. ToAwait(left, c) \/ ToAwait(wait, c)
      BY <2>1, <2>5, <2>7 DEF ToAwait
    <3>2. Frame(Append(Pop(f), left), c) \/ ToAwait(wait, c)
      BY <2>1, <2>4, <3>1, FrameAppend
    <3> QED
      BY <2>3, <2>4, <2>6, <3>2, FrameAppend
  <2>8. CASE ~ToAwait(Top(f), c)
    <3>1. Frame(Pop(f), c)
      BY <1>b, <2>8, FramePop
    <3>2. Frame(Append(Pop(f), left), c)
      BY <2>1, <2>4, <3>1, FrameAppend
    <3> QED
      BY <2>3, <2>4, <2>6, <3>2, FrameAppend
  <2> QED
    BY <2>7, <2>8
<1>6. ~WindDown(f)
  BY <1>b DEF WindDown, WindDownChildren, WindDownMessages, SetExitValue, LoopReturn
<1>7. ~(f = Root /\ Start) /\ ~\E h \in Fibers : \E p \in Scopes[h] : Fork(h, f, p)
  BY <1>a, <1>b DEF Calm, Start, Fork, Born
<1> QED
  BY <1>1, <1>2, <1>3, <1>4, <1>5, <1>6, <1>7, StepsOfFibers DEF Unwind

(* A fiber is born into the scope of a fiber that is not done, which gets  *)
(* the message about it.                                                   *)
LEMMA BornKept ==
    ASSUME TypeOK, TypeOK', OneContinuation, OwnScopesOnly, NEW h \in Fibers, NEW f \in Fibers,
           NEW c \in Fibers, NEW p \in Scopes[h], Fork(h, c, p), scope'[c] = f
    PROVE  ~Done(f)' /\ AddChild(c) \in Contents(queue'[f])
<1> USE DEF TypeOK
<1>1. p = f /\ h = f /\ f # NoFiber
  <2>1. scope'[c] = p
    BY DEF Fork
  <2>2. p \in {h, NoFiber}
    BY DEF OwnScopesOnly
  <2> QED
    BY <2>1, <2>2, NoFiberAssumption
<1>2. loop[f] = "running" /\ UNCHANGED exitValue /\ c # f
  BY <1>1 DEF Fork, Primitive, Evaluates, Turn, Born
<1>3. ~Done(f)'
  BY <1>2, RunningAlone DEF Done
<1> DEFINE q == Offered(queue, {p} \ {NoFiber}, AddChild(c))
<1>4. queue' = Offered(q, {c}, Resume("next"))
  BY DEF Fork
<1>5. q[f] = Append(queue[f], AddChild(c)) /\ q \in [Fibers -> Seq(Messages)]
  <2>1. AddChild(c) \in Messages
    BY MessageTypes
  <2>2. f \in {p} \ {NoFiber}
    BY <1>1
  <2>3. q[f] = Append(queue[f], AddChild(c))
    BY <2>2 DEF Offered
  <2> QED
    BY <2>1, <2>2, <2>3, OfferedType
<1>6. AddChild(c) \in Contents(q[f])
  <2>1. AddChild(c) \in Messages
    BY MessageTypes
  <2>2. Contents(Append(queue[f], AddChild(c))) = Contents(queue[f]) \cup {AddChild(c)}
    BY <2>1, ContentsAppend
  <2> QED
    BY <1>5, <2>2
<1> HIDE DEF q
<1>7. queue'[f] = q[f]
  BY <1>2, <1>4 DEF Offered
<1> QED
  BY <1>3, <1>6, <1>7

(* Fibers are born with their scope, and keep it. *)
LEMMA ScopesStay ==
    ASSUME TypeOK, [Next]_vars, NEW c \in Fibers, ~Born(c) => scope[c] = NoFiber
    PROVE  /\ ~Born(c)' => scope'[c] = NoFiber
           /\ \/ scope'[c] = scope[c] /\ (Born(c)' => Born(c) \/ scope[c] = NoFiber)
              \/ \E h \in Fibers : \E p \in Scopes[h] : Fork(h, c, p)
<1>1. CASE \E h \in Fibers : \E p \in Scopes[h] : Fork(h, c, p)
  BY <1>1 DEF Fork, Born, TypeOK
<1>2. CASE ~\E h \in Fibers : \E p \in Scopes[h] : Fork(h, c, p)
  <2>1. scope'[c] = scope[c]
    <3>1. ASSUME NEW h \in Fibers, NEW d \in Fibers, NEW p \in Scopes[h], Fork(h, d, p)
          PROVE  scope'[c] = scope[c]
      BY <1>2, <3>1 DEF Fork, TypeOK
    <3> QED
      BY <3>1, ExitsAndScopes
  <2>2. Born(c) => Born(c)'
    <3>1. ASSUME HandleResume(c) \/ RunInterrupt(c) \/ Evaluate(c) \/ Unwind(c) \/ WindDown(c),
                 Born(c)
          PROVE  Born(c)'
      <4>1. CASE HandleResume(c) \/ RunInterrupt(c)
        BY <3>1, <4>1 DEF HandleResume, RunInterrupt, Born, TypeOK
      <4>2. CASE Evaluate(c)
        BY <1>2, <3>1, <4>2 DEF Evaluate, Fork, InterruptFiber, Await, SuspendOn, Region, Async,
                  Yield, CatchAll, Fail, Return, Born, TypeOK
      <4>3. CASE Unwind(c)
        BY <3>1, <4>3 DEF Unwind, OnSuccess, OnFailure, RevertFlags, AwaitExit, Reverted,
                  ChildrenNext, SuspendOn, ChildrenDone, unwindFrame, Born, TypeOK
      <4>4. CASE WindDown(c)
        BY <3>1, <4>4 DEF WindDown, WindDownChildren, WindDownMessages, SetExitValue, Born, TypeOK
      <4> QED
        BY <3>1, <4>1, <4>2, <4>3, <4>4
    <3>2. Resting(c) => loop'[c] = loop[c]
      BY DEF Resting
    <3>3. c = Root /\ Start => Born(c)'
      BY DEF Start, Born, TypeOK
    <3> QED
      BY <1>2, <3>1, <3>2, <3>3, StepsOfFibers DEF Born
  <2> QED
    BY <1>2, <2>1, <2>2
<1> QED
  BY <1>1, <1>2

LEMMA ChildrenKept ==
    ASSUME OwnScopesOnly
    PROVE  Spec => []KeepsChildren
<1>1. Init => KeepsChildren
  BY DEF Init, KeepsChildren, Born
<1>2. TypeOK /\ TypeOK' /\ OneContinuation /\ OneContinuation' /\ VerdictInv /\ AwaitInv
          /\ KeepsChildren /\ [Next]_vars
      => KeepsChildren'
  <2> SUFFICES ASSUME TypeOK, TypeOK', OneContinuation, OneContinuation', VerdictInv, AwaitInv,
                      KeepsChildren, [Next]_vars
               PROVE  KeepsChildren'
    OBVIOUS
  <2>1. \A f \in Fibers : ~Born(f)' => scope'[f] = NoFiber
    BY ScopesStay DEF KeepsChildren
  <2> SUFFICES ASSUME NEW f \in Fibers, NEW c \in Fibers, Born(c)', scope'[c] = f, ~Done(c)'
               PROVE  ~Done(f)' /\ Kept(f, c)'
    BY <2>1 DEF KeepsChildren
  <2>2. ASSUME NEW h \in Fibers, NEW p \in Scopes[h], Fork(h, c, p)
        PROVE  ~Done(f)' /\ Kept(f, c)'
    BY <2>2, BornKept DEF Kept
  <2>3. (Born(c) /\ scope[c] = f) \/ \E h \in Fibers : \E p \in Scopes[h] : Fork(h, c, p)
    BY ScopesStay, NoFiberAssumption DEF KeepsChildren
  <2>4. ASSUME Born(c), scope[c] = f
        PROVE  ~Done(f)' /\ Kept(f, c)'
    <3>1. ~Done(c)
      BY DoneKept DEF DoneFibers
    <3>2. ~Done(f) /\ Kept(f, c)
      BY <2>4, <3>1 DEF KeepsChildren
    <3>3. ~Done(f)'
      <4>1. ASSUME Done(f)'
            PROVE  SetExitValue(f)
        BY <3>2, <4>1, DoneKept
      <4>2. SetExitValue(f) => ~Kept(f, c)
        BY DEF SetExitValue, LoopReturn, Kept, Contents, Frame
      <4> QED
        BY <3>2, <4>1, <4>2
    <3>4. CASE AddChild(c) \in Contents(queue[f])
      <4>1. CASE HandleAddChild(f) /\ Head(queue[f]).child = c
        <5>1. children' = [children EXCEPT ![f] = @ \cup {c}]
          BY <3>1, <4>1 DEF HandleAddChild
        <5>2. children \in [Fibers -> SUBSET Fibers]
          BY DEF TypeOK
        <5>3. c \in children'[f]
          BY <5>1, <5>2
        <5> QED
          BY <3>3, <5>3 DEF Kept
      <4> QED
        BY <3>3, <3>4, <4>1, AddChildStays DEF Kept
    <3>5. CASE c \in children[f]
      <4>1. CASE WindDownChildren(f)
        <5> DEFINE k == Children(children[f], cur[f])
        <5>1. stack'[f] = <<k>> /\ verdict'[f] # None
          BY <4>1 DEF WindDownChildren, LoopReturn, Results, None, TypeOK
        <5>2. ToAwait(k, c)
          BY <3>5 DEF ToAwait, Children
        <5> HIDE DEF k
        <5>3. <<k>>[1] = k /\ 1 \in 1 .. Len(<<k>>)
          OBVIOUS
        <5> QED
          BY <3>3, <5>1, <5>2, <5>3 DEF Kept, Frame
      <4> QED
        BY <3>3, <3>5, <4>1, ChildrenStay DEF Kept
    <3>6. CASE verdict[f] # None /\ Frame(stack[f], c)
      BY <3>1, <3>3, <3>6, FramesStay DEF Kept
    <3> QED
      BY <3>2, <3>3, <3>4, <3>5, <3>6 DEF Kept
  <2> QED
    BY <2>2, <2>3, <2>4
<1> QED
  BY <1>1, <1>2, TypeCorrect, ContinuationIsUnique, VerdictInvariant, AwaitInvariant, PTL DEF Spec

(* Structured concurrency: when nobody forks into the scope of another     *)
(* fiber, a fiber ends after the fibers forked into its scope, at any      *)
(* depth and whatever happens while it winds down (interruptAllChildren).  *)
THEOREM ChildrenEndFirst ==
    ASSUME OwnScopesOnly
    PROVE  Spec => []ChildrenExitFirst
<1>1. KeepsChildren => ChildrenExitFirst
  BY DEF KeepsChildren, ChildrenExitFirst
<1> QED
  BY <1>1, ChildrenKept, PTL

-----------------------------------------------------------------------------
(* What fibers wait for: once no message is on its way, every fiber that   *)
(* is not done waits for something that did not happen yet, and for        *)
(* something that will tell it; and the awaits that ended left no          *)
(* observers behind.                                                       *)

-----------------------------------------------------------------------------
(* What a step does to an inbox: it may poll it, then offer messages.      *)

(* The fiber polls its inbox. *)
Polls(g) ==
    \/ DrainYield(g) \/ HandleResume(g) \/ HandleInterrupt(g) \/ RunInterrupt(g)
    \/ HandleAddObserver(g) \/ HandleRemoveObserver(g) \/ HandleAddChild(g)

(* Messages about observers come from fibers that await, or leave an await. *)
Sent(g, m) ==
    \/ m.tag \in {"Interrupt", "YieldNow", "Resume", "AddChild"}
    \/ \E f \in Fibers : \E base :
          SuspendOn(f, g, base) /\ m = AddObserver(f, asyncs[f] + 1)
    \/ \E f \in Fibers :
          /\ AwaitExit(f) /\ Unwinding(f, "fail", "Await") /\ g = Top(f).on
          /\ m = RemoveObserver(f, Top(f).cb)

OneMore(g, q, r) == r = q \/ \E m \in Messages : Sent(g, m) /\ r = Append(q, m)
Grows(g, q, r) == \E p \in Seq(Messages) : OneMore(g, q, p) /\ OneMore(g, p, r)

LEMMA OfferedOne ==
    ASSUME NEW q \in [Fibers -> Seq(Messages)], NEW to, NEW m \in Messages, NEW g \in Fibers,
           g \in to => Sent(g, m)
    PROVE  /\ OneMore(g, q[g], Offered(q, to, m)[g]) /\ Grows(g, q[g], Offered(q, to, m)[g])
           /\ Grows(g, q[g], q[g])
<1>1. OneMore(g, q[g], Offered(q, to, m)[g])
  BY DEF OneMore, Offered
<1>2. OneMore(g, q[g], q[g])
  BY DEF OneMore
<1>3. q[g] \in Seq(Messages)
  OBVIOUS
<1>4. Grows(g, q[g], Offered(q, to, m)[g])
  BY <1>1, <1>2, <1>3 DEF Grows
<1>5. Grows(g, q[g], q[g])
  BY <1>2, <1>3 DEF Grows
<1> QED
  BY <1>1, <1>4, <1>5

LEMMA OfferedTwice ==
    ASSUME NEW q \in [Fibers -> Seq(Messages)], NEW to, NEW m \in Messages, NEW g \in Fibers,
           g \in to => Sent(g, m), NEW over, NEW l \in Messages, g \in over => Sent(g, l)
    PROVE  Grows(g, q[g], Offered(Offered(q, to, m), over, l)[g])
<1> DEFINE p == Offered(q, to, m)
<1>1. p \in [Fibers -> Seq(Messages)] /\ OneMore(g, q[g], p[g])
  BY OfferedType, OfferedOne
<1>2. p[g] \in Seq(Messages)
  BY <1>1
<1> HIDE DEF p
<1>3. OneMore(g, p[g], Offered(p, over, l)[g])
  BY <1>1, OfferedOne
<1>4. Grows(g, q[g], Offered(p, over, l)[g])
  BY <1>1, <1>2, <1>3 DEF Grows
<1> QED
  BY <1>4 DEF p

LEMMA InboxSteps ==
    ASSUME TypeOK, [Next]_vars, NEW g \in Fibers
    PROVE  \/ Grows(g, queue[g], queue'[g])
           \/ Polls(g) /\ queue[g] # <<>> /\ Grows(g, Tail(queue[g]), queue'[g])
<1> USE DEF TypeOK
<1> DEFINE Goal == \/ Grows(g, queue[g], queue'[g])
                   \/ Polls(g) /\ queue[g] # <<>> /\ Grows(g, Tail(queue[g]), queue'[g])
<1>a. \A f \in Fibers : queue[f] # <<>> =>
          /\ Polled(f) \in [Fibers -> Seq(Messages)]
          /\ Polled(f)[g] = (IF g = f THEN Tail(queue[g]) ELSE queue[g])
  BY PolledType DEF Polled
<1>b. \A m : m.tag \in {"Interrupt", "YieldNow", "Resume", "AddChild"} => Sent(g, m)
  BY DEF Sent
<1>c. ASSUME NEW f \in Fibers, queue[f] # <<>>, f = g => Polls(g),
             Grows(g, Polled(f)[g], queue'[g])
      PROVE  Goal
  <2>1. CASE f = g
    BY <1>a, <1>c, <2>1
  <2>2. CASE f # g
    BY <1>a, <1>c, <2>2
  <2> QED
    BY <2>1, <2>2
<1>d. ASSUME NEW m \in Messages, Sent(g, m), NEW to, queue' = Offered(queue, to, m)
      PROVE  Goal
  BY <1>d, OfferedOne
<1>e. Grows(g, queue[g], queue[g])
  <2>1. queue[g] \in Seq(Messages) /\ OneMore(g, queue[g], queue[g])
    BY DEF OneMore
  <2> QED
    BY <2>1 DEF Grows
<1>f. \A e \in {"next", "ok", "fail"} : Resume(e) \in Messages /\ Sent(g, Resume(e))
  <2>1. \A e : Resume(e).tag \in {"Interrupt", "YieldNow", "Resume", "AddChild"}
    BY Tags
  <2>2. \A e : Sent(g, Resume(e))
    BY <1>b, <2>1
  <2> QED
    BY <2>2, MessageTypes
<1>g. /\ Interrupt \in Messages /\ Sent(g, Interrupt)
      /\ YieldNow \in Messages /\ Sent(g, YieldNow)
  BY <1>b, MessageTypes, Tags
<1>1. ASSUME NEW f \in Fibers, HandleInterrupt(f)
      PROVE  Goal
  <2>1. /\ queue[f] # <<>> /\ (f = g => Polls(g))
        /\ queue' = Offered(Offered(Polled(f), children[f], Interrupt),
                            Fresh(Interruptor(f)), Resume("fail"))
    BY <1>1 DEF HandleInterrupt, Receives, Polls
  <2>2. Grows(g, Polled(f)[g], queue'[g])
    BY <1>a, <1>f, <1>g, <2>1, OfferedTwice
  <2> QED
    BY <1>c, <2>1, <2>2
<1>2. ASSUME NEW f \in Fibers,
             \/ HandleAddObserver(f) \/ RunInterrupt(f) \/ DrainYield(f)
             \/ HandleResume(f) \/ HandleRemoveObserver(f) \/ HandleAddChild(f)
      PROVE  Goal
  <2>1. queue[f] # <<>> /\ (f = g => Polls(g))
    <3>1. queue[f] # <<>>
      BY <1>2 DEF HandleAddObserver, RunInterrupt, DrainYield, HandleResume, HandleRemoveObserver,
                  HandleAddChild, Handling, Receives
    <3>2. f = g => Polls(g)
      BY <1>2 DEF Polls
    <3> QED
      BY <3>1, <3>2
  <2>2. CASE queue' = Polled(f)
    <3>1. Polled(f)[g] \in Seq(Messages) /\ OneMore(g, Polled(f)[g], Polled(f)[g])
      BY <1>a, <2>1 DEF OneMore
    <3> QED
      BY <1>c, <2>1, <2>2, <3>1 DEF Grows
  <2>3. ASSUME NEW to, queue' = Offered(Polled(f), to, Resume("ok"))
        PROVE  Goal
    BY <1>a, <1>c, <1>f, <2>1, <2>3, OfferedOne
  <2>4. ASSUME NEW to, queue' = Offered(Polled(f), to, Interrupt)
        PROVE  Goal
    BY <1>a, <1>c, <1>g, <2>1, <2>4, OfferedOne
  <2>5. CASE HandleAddObserver(f)
    BY <2>2, <2>3, <2>5 DEF HandleAddObserver, Tell
  <2>6. CASE RunInterrupt(f)
    BY <2>4, <2>6 DEF RunInterrupt, Tell
  <2>7. CASE DrainYield(f) \/ HandleResume(f) \/ HandleRemoveObserver(f) \/ HandleAddChild(f)
    BY <2>2, <2>7 DEF DrainYield, HandleResume, HandleRemoveObserver, HandleAddChild
  <2> QED
    BY <1>2, <2>5, <2>6, <2>7
<1>3. ASSUME NEW f \in Fibers,
             \/ SetExitValue(f) \/ WindDownChildren(f) \/ WindDownMessages(f) \/ Async(f)
             \/ (\E n \in external[f] : ExternalCall(f, n)) \/ \E k \in Fibers : InterruptFiber(f, k)
      PROVE  Goal
  <2>1. \/ \E to : queue' = Offered(queue, to, Interrupt)
        \/ \E to : \E e \in {"ok", "fail"} : queue' = Offered(queue, to, Resume(e))
        \/ UNCHANGED queue
    BY <1>3 DEF SetExitValue, WindDownChildren, WindDownMessages, Async, ExternalCall,
                InterruptFiber, LoopReturn, Results, mailVars, Tell
  <2> QED
    BY <1>d, <1>e, <1>f, <1>g, <2>1
<1>4. ASSUME NEW f \in Fibers, NEW c \in Fibers, NEW p \in Scopes[f], Fork(f, c, p)
      PROVE  Goal
  <2>1. AddChild(c).tag = "AddChild"
    BY Tags
  <2>2. AddChild(c) \in Messages
    BY MessageTypes
  <2>3. Sent(g, AddChild(c))
    BY <2>1 DEF Sent
  <2>4. queue' = Offered(Offered(queue, {p} \ {NoFiber}, AddChild(c)), {c}, Resume("next"))
    BY <1>4 DEF Fork
  <2> QED
    BY <1>f, <2>2, <2>3, <2>4, OfferedTwice
<1>5. ASSUME NEW f \in Fibers, Yield(f)
      PROVE  Goal
  <2>1. queue' = Offered(Offered(queue, {f}, YieldNow), {f}, Resume("ok"))
    BY <1>5 DEF Yield
  <2> QED
    BY <1>f, <1>g, <2>1, OfferedTwice
<1>6. ASSUME NEW f \in Fibers, NEW k, NEW base, SuspendOn(f, k, base)
      PROVE  Goal
  <2>1. queue' = Offered(queue, {k}, AddObserver(f, asyncs[f] + 1))
    BY <1>6 DEF SuspendOn, Tell
  <2>2. AddObserver(f, asyncs[f] + 1) \in Messages
    BY FlagTypes, MessageTypes
  <2>3. g \in {k} => Sent(g, AddObserver(f, asyncs[f] + 1))
    BY <1>6 DEF Sent
  <2>4. Grows(g, queue[g], Offered(queue, {k}, AddObserver(f, asyncs[f] + 1))[g])
    BY <2>2, <2>3, OfferedOne
  <2> QED
    BY <2>1, <2>4
<1>7. ASSUME NEW f \in Fibers, AwaitExit(f)
      PROVE  Goal
  <2>1. CASE UNCHANGED mailVars
    BY <1>e, <2>1 DEF mailVars
  <2>2. CASE Unwinding(f, "fail", "Await") /\ Tell(queue, {Top(f).on}, RemoveObserver(f, Top(f).cb))
    <3> DEFINE m == RemoveObserver(f, Top(f).cb)
    <3>1. m \in Messages
      BY <2>2, StackParts, FrameParts, MessageTypes DEF Unwinding
    <3>2. g \in {Top(f).on} => Sent(g, m)
      BY <1>7, <2>2 DEF Sent
    <3>3. queue' = Offered(queue, {Top(f).on}, m)
      BY <2>2 DEF Tell
    <3> HIDE DEF m
    <3>4. Grows(g, queue[g], Offered(queue, {Top(f).on}, m)[g])
      BY <3>1, <3>2, OfferedOne
    <3> QED
      BY <3>3, <3>4
  <2> QED
    BY <1>7, <2>1, <2>2 DEF AwaitExit
<1>8. ASSUME NEW f \in Fibers,
             \/ StartReturn(f) \/ Run(f) \/ DrainDone(f)
             \/ (\E b \in BOOLEAN : Region(f, b)) \/ CatchAll(f) \/ Fail(f) \/ Return(f)
             \/ OnSuccess(f) \/ OnFailure(f) \/ RevertFlags(f) \/ ChildrenDone(f)
      PROVE  UNCHANGED queue
  BY <1>8 DEF StartReturn, Run, DrainDone, Region, CatchAll, Fail, Return, OnSuccess, OnFailure,
              RevertFlags, ChildrenDone, mailVars
<1>9. Start \/ UNCHANGED vars => UNCHANGED queue
  BY DEF Start, vars, mailVars
<1>10. ASSUME NEW f \in Fibers, ChildrenNext(f) \/ \E k \in Fibers : Await(f, k)
       PROVE  Goal
  BY <1>6, <1>10 DEF ChildrenNext, Await
<1> HIDE DEF Goal
<1>11. UNCHANGED queue => Goal
  BY <1>e DEF Goal
<1>12. Goal
  BY <1>1, <1>2, <1>3, <1>4, <1>5, <1>7, <1>8, <1>9, <1>10, <1>11
     DEF Next, Advance, Handle, Evaluate, Unwind, WindDown
<1> QED
  BY <1>12 DEF Goal

(* A message stays in an inbox until it is the first and is polled. *)
LEMMA MessageStays ==
    ASSUME TypeOK, [Next]_vars, NEW g \in Fibers, NEW m \in Contents(queue[g])
    PROVE  \/ m \in Contents(queue'[g])
           \/ Polls(g) /\ queue[g] # <<>> /\ Head(queue[g]) = m
<1>1. ASSUME NEW q \in Seq(Messages), NEW r, Grows(g, q, r), m \in Contents(q)
      PROVE  m \in Contents(r)
  <2>1. PICK p \in Seq(Messages) : OneMore(g, q, p) /\ OneMore(g, p, r)
    BY <1>1 DEF Grows
  <2>2. m \in Contents(p)
    BY <1>1, <2>1, ContentsAppend DEF OneMore
  <2> QED
    BY <2>1, <2>2, ContentsAppend DEF OneMore
<1>2. queue[g] \in Seq(Messages)
  BY DEF TypeOK
<1>3. CASE Grows(g, queue[g], queue'[g])
  BY <1>1, <1>2, <1>3
<1>4. CASE Polls(g) /\ queue[g] # <<>> /\ Grows(g, Tail(queue[g]), queue'[g])
  <2>1. m \in Contents(Tail(queue[g])) \/ m = Head(queue[g])
    BY <1>2, <1>4, ContentsTail
  <2>2. Tail(queue[g]) \in Seq(Messages)
    BY <1>2, <1>4
  <2> QED
    BY <1>1, <1>4, <2>1, <2>2
<1> QED
  BY <1>3, <1>4, InboxSteps

(* A message that is new was sent by the step. *)
LEMMA NewMessages ==
    ASSUME TypeOK, [Next]_vars, NEW g \in Fibers, NEW m \in Contents(queue'[g]),
           m \notin Contents(queue[g])
    PROVE  Sent(g, m)
<1>1. ASSUME NEW q \in Seq(Messages), NEW r, Grows(g, q, r), m \in Contents(r), m \notin Contents(q)
      PROVE  Sent(g, m)
  <2>1. PICK p \in Seq(Messages) : OneMore(g, q, p) /\ OneMore(g, p, r)
    BY <1>1 DEF Grows
  <2>2. ASSUME NEW a \in Seq(Messages), NEW b, OneMore(g, a, b), m \in Contents(b), m \notin Contents(a)
        PROVE  Sent(g, m)
    <3>1. PICK l \in Messages : Sent(g, l) /\ b = Append(a, l)
      BY <2>2 DEF OneMore
    <3>2. Contents(b) = Contents(a) \cup {l}
      BY <3>1, ContentsAppend
    <3> QED
      BY <2>2, <3>1, <3>2
  <2> QED
    BY <1>1, <2>1, <2>2
<1>2. queue[g] \in Seq(Messages)
  BY DEF TypeOK
<1>3. CASE Grows(g, queue[g], queue'[g])
  BY <1>1, <1>2, <1>3
<1>4. CASE Polls(g) /\ queue[g] # <<>> /\ Grows(g, Tail(queue[g]), queue'[g])
  <2>1. m \notin Contents(Tail(queue[g]))
    BY <1>2, <1>4, ContentsTail
  <2>2. Tail(queue[g]) \in Seq(Messages)
    BY <1>2, <1>4
  <2> QED
    BY <1>1, <1>4, <2>1, <2>2
<1> QED
  BY <1>3, <1>4, InboxSteps

-----------------------------------------------------------------------------
(* A removal after every registration.                                     *)

Order(q, a, x) ==
    \A i \in 1 .. Len(q) : q[i] = a => \E j \in 1 .. Len(q) : j > i /\ q[j] = x

LEMMA OrderAppend ==
    ASSUME NEW q \in Seq(Messages), NEW a, NEW x, NEW m \in Messages, m # a,
           Order(q, a, x) \/ m = x
    PROVE  Order(Append(q, m), a, x)
<1> SUFFICES ASSUME NEW i \in 1 .. Len(Append(q, m)), Append(q, m)[i] = a
             PROVE  \E j \in 1 .. Len(Append(q, m)) : j > i /\ Append(q, m)[j] = x
  BY DEF Order
<1>1. Len(Append(q, m)) = Len(q) + 1 /\ Append(q, m)[Len(q) + 1] = m /\ Len(q) \in Nat
  OBVIOUS
<1>2. i \in 1 .. Len(q) /\ Append(q, m)[i] = q[i]
  BY <1>1
<1>3. CASE m = x
  BY <1>1, <1>2, <1>3
<1>4. CASE Order(q, a, x)
  <2>1. PICK j \in 1 .. Len(q) : j > i /\ q[j] = x
    BY <1>2, <1>4 DEF Order
  <2>2. Append(q, m)[j] = q[j] /\ j \in 1 .. Len(Append(q, m))
    BY <1>1, <2>1
  <2> QED
    BY <2>1, <2>2
<1> QED
  BY <1>3, <1>4

LEMMA OrderTail ==
    ASSUME NEW q \in Seq(Messages), q # <<>>, NEW a, NEW x, Order(q, a, x)
    PROVE  /\ Order(Tail(q), a, x)
           /\ Head(q) = a => x \in Contents(Tail(q))
<1> DEFINE t == Tail(q)
<1>1. Len(q) \in Nat \ {0} /\ Len(t) = Len(q) - 1 /\ Head(q) = q[1]
  OBVIOUS
<1>2. \A i \in 1 .. Len(t) : t[i] = q[i + 1] /\ i + 1 \in 1 .. Len(q)
  OBVIOUS
<1>3. \A j \in 1 .. Len(q) : j > 1 => j - 1 \in 1 .. Len(t) /\ t[j - 1] = q[j]
  OBVIOUS
<1> HIDE DEF t
<1>4. ASSUME NEW i \in 1 .. Len(t), t[i] = a
      PROVE  \E j \in 1 .. Len(t) : j > i /\ t[j] = x
  <2>1. PICK j \in 1 .. Len(q) : j > i + 1 /\ q[j] = x
    BY <1>2, <1>4 DEF Order
  <2>2. j > 1 /\ j - 1 > i
    BY <1>1, <2>1
  <2> QED
    BY <1>3, <2>1, <2>2
<1>5. ASSUME Head(q) = a
      PROVE  x \in Contents(t)
  <2>1. 1 \in 1 .. Len(q)
    BY <1>1
  <2>2. PICK j \in 1 .. Len(q) : j > 1 /\ q[j] = x
    BY <1>1, <1>5, <2>1 DEF Order
  <2>3. j - 1 \in 1 .. Len(t) /\ t[j - 1] = x
    BY <1>3, <2>2
  <2> QED
    BY <2>3 DEF Contents
<1> QED
  BY <1>4, <1>5 DEF Order, t

(* The order stays as long as the step sends no such registration. *)
LEMMA OrderStays ==
    ASSUME TypeOK, [Next]_vars, NEW g \in Fibers, NEW a, NEW x, Order(queue[g], a, x), ~Sent(g, a)
    PROVE  Order(queue'[g], a, x)
<1>1. ASSUME NEW q \in Seq(Messages), NEW r, Grows(g, q, r), Order(q, a, x)
      PROVE  Order(r, a, x)
  <2>1. PICK p \in Seq(Messages) : OneMore(g, q, p) /\ OneMore(g, p, r)
    BY <1>1 DEF Grows
  <2>2. Order(p, a, x)
    BY <1>1, <2>1, OrderAppend DEF OneMore
  <2> QED
    BY <2>1, <2>2, OrderAppend DEF OneMore
<1>2. queue[g] \in Seq(Messages)
  BY DEF TypeOK
<1>3. CASE Grows(g, queue[g], queue'[g])
  BY <1>1, <1>2, <1>3
<1>4. CASE Polls(g) /\ queue[g] # <<>> /\ Grows(g, Tail(queue[g]), queue'[g])
  <2>1. Order(Tail(queue[g]), a, x)
    BY <1>2, <1>4, OrderTail
  <2>2. Tail(queue[g]) \in Seq(Messages)
    BY <1>2, <1>4
  <2> QED
    BY <1>1, <1>4, <2>1, <2>2
<1> QED
  BY <1>3, <1>4, InboxSteps
-----------------------------------------------------------------------------
(* What a step does to callbacks, observers and signals.                   *)

(* The callbacks of h are called by h itself, while it registers them, or  *)
(* by somebody who resumes h if it was the first call.                     *)
LEMMA CalledSteps ==
    ASSUME TypeOK, [Next]_vars, NEW h \in Fibers
    PROVE  \/ called'[h] = called[h]
           \/ Async(h) /\ called'[h] = called[h] \cup {asyncs[h] + 1}
           \/ \E q \in [Fibers -> Seq(Messages)] : \E cbs : \E e \in {"ok", "fail"} :
                 queue' = Offered(q, Fresh(cbs), Resume(e)) /\ called' = Called(cbs)
<1> USE DEF TypeOK
<1> DEFINE Calling == \E q \in [Fibers -> Seq(Messages)] : \E cbs : \E e \in {"ok", "fail"} :
                          queue' = Offered(q, Fresh(cbs), Resume(e)) /\ called' = Called(cbs)
<1>1. ASSUME NEW f \in Fibers, HandleInterrupt(f)
      PROVE  Calling
  <2> DEFINE q == Offered(Polled(f), children[f], Interrupt)
  <2>1. queue[f] # <<>> /\ queue' = Offered(q, Fresh(Interruptor(f)), Resume("fail"))
        /\ called' = Called(Interruptor(f))
    BY <1>1 DEF HandleInterrupt, Receives
  <2>2. q \in [Fibers -> Seq(Messages)]
    BY <2>1, OfferedType, PolledType, MessageTypes
  <2> HIDE DEF q
  <2> QED
    BY <2>1, <2>2
<1>2. ASSUME NEW f \in Fibers, HandleAddObserver(f)
      PROVE  Calling \/ UNCHANGED called
  <2> DEFINE cbs == {<<Head(queue[f]).who, Head(queue[f]).cb>>}
  <2>1. /\ queue[f] # <<>>
        /\ \/ queue' = Offered(Polled(f), Fresh(cbs), Resume("ok")) /\ called' = Called(cbs)
           \/ UNCHANGED called
    BY <1>2 DEF HandleAddObserver, Handling, Receives, Tell
  <2>2. Polled(f) \in [Fibers -> Seq(Messages)]
    BY <2>1, PolledType
  <2> HIDE DEF cbs
  <2> QED
    BY <2>1, <2>2
<1>3. ASSUME NEW f \in Fibers, SetExitValue(f) \/ \E n \in external[f] : ExternalCall(f, n)
      PROVE  Calling
  <2>1. \E cbs : queue' = Offered(queue, Fresh(cbs), Resume("ok")) /\ called' = Called(cbs)
    BY <1>3 DEF SetExitValue, ExternalCall, Tell
  <2> QED
    BY <2>1
<1>4. ASSUME NEW f \in Fibers, Async(f)
      PROVE  called'[h] = called[h] \/ (f = h /\ called'[h] = called[h] \cup {asyncs[h] + 1})
  <2>1. CASE called' = [called EXCEPT ![f] = @ \cup {asyncs[f] + 1}]
    BY <2>1
  <2>2. CASE UNCHANGED called
    BY <2>2
  <2> QED
    BY <1>4, <2>1, <2>2 DEF Async
<1>5. ASSUME NEW f \in Fibers,
             \/ StartReturn(f) \/ Run(f) \/ DrainDone(f) \/ DrainYield(f)
             \/ HandleResume(f) \/ RunInterrupt(f) \/ HandleRemoveObserver(f) \/ HandleAddChild(f)
             \/ (\E c \in Fibers : \E p \in Scopes[f] : Fork(f, c, p))
             \/ (\E g \in Fibers : InterruptFiber(f, g)) \/ (\E g \in Fibers : Await(f, g))
             \/ (\E b \in BOOLEAN : Region(f, b)) \/ Yield(f) \/ CatchAll(f) \/ Fail(f)
      PROVE  UNCHANGED called
  BY <1>5 DEF StartReturn, Run, DrainDone, DrainYield, HandleResume, RunInterrupt,
              HandleRemoveObserver, HandleAddChild, Fork, InterruptFiber, Await, SuspendOn,
              Region, Yield, CatchAll, Fail, asyncVars
<1>6. ASSUME NEW f \in Fibers,
             \/ Return(f) \/ OnSuccess(f) \/ OnFailure(f) \/ RevertFlags(f) \/ AwaitExit(f)
             \/ ChildrenNext(f) \/ ChildrenDone(f) \/ WindDownChildren(f) \/ WindDownMessages(f)
      PROVE  UNCHANGED called
  BY <1>6 DEF Return, OnSuccess, OnFailure, RevertFlags, AwaitExit, Reverted, ChildrenNext,
              SuspendOn, ChildrenDone, WindDownChildren, WindDownMessages, unwindFrame, asyncVars
<1>7. Start \/ UNCHANGED vars => UNCHANGED called
  BY DEF Start, vars, asyncVars
<1> HIDE DEF Calling
<1>8. \/ UNCHANGED called \/ Calling
      \/ \E f \in Fibers : Async(f)
  BY <1>1, <1>2, <1>3, <1>5, <1>6, <1>7 DEF Next, Advance, Handle, Evaluate, Unwind, WindDown
<1>9. CASE UNCHANGED called
  BY <1>9
<1>10. CASE \E f \in Fibers : Async(f)
  BY <1>4, <1>10
<1> QED
  BY <1>8, <1>9, <1>10 DEF Calling

(* A suspended fiber that had a callback to be called still has it, or has *)
(* a resumption in its inbox.                                              *)
LEMMA CallsResume ==
    ASSUME TypeOK, [Next]_vars, NEW h \in Fibers, asyncs'[h] = asyncs[h], Uncalled(h) # {},
           \A i, j \in Uncalled(h) : i = j
    PROVE  Uncalled(h)' = Uncalled(h) \/ Resumes(h)' # {}
<1>1. CASE called'[h] = called[h]
  BY <1>1 DEF Uncalled
<1>2. CASE Async(h)
  <2>1. asyncs'[h] = asyncs[h] + 1
    BY <1>2 DEF Async, TypeOK
  <2> QED
    BY <2>1, FlagTypes
<1>3. ASSUME NEW q \in [Fibers -> Seq(Messages)], NEW cbs, NEW e \in {"ok", "fail"},
             queue' = Offered(q, Fresh(cbs), Resume(e)), called' = Called(cbs)
      PROVE  Uncalled(h)' = Uncalled(h) \/ Resumes(h)' # {}
  <2>1. Uncalled(h)' = Uncalled(h) \ {n \in 1 .. asyncs[h] : <<h, n>> \in cbs}
    BY <1>3 DEF Uncalled, Called
  <2>2. CASE h \in Fresh(cbs)
    <3>1. Resume(e) \in Messages /\ Resume(e).tag = "Resume"
      BY MessageTypes, Tags
    <3>2. queue'[h] = Append(q[h], Resume(e)) /\ q[h] \in Seq(Messages)
      BY <1>3, <2>2 DEF Offered
    <3>3. Resume(e) \in Contents(queue'[h])
      BY <3>1, <3>2, ContentsAppend
    <3>4. Resume(e) \in Resumes(h)'
      BY <3>1, <3>3 DEF Resumes
    <3> QED
      BY <3>4
  <2>3. CASE h \notin Fresh(cbs)
    <3>1. \A n \in Uncalled(h) : <<h, n>> \notin cbs
      BY <2>3 DEF Fresh
    <3> QED
      BY <2>1, <3>1
  <2> QED
    BY <2>2, <2>3
<1> QED
  BY <1>1, <1>2, <1>3, CalledSteps

(* Callbacks are called after they are made. *)
LEMMA CalledBound ==
    ASSUME TypeOK, [Next]_vars, NEW h \in Fibers, called[h] \subseteq 1 .. asyncs[h],
           asyncs'[h] \in {asyncs[h], asyncs[h] + 1}
    PROVE  /\ called'[h] \subseteq 1 .. asyncs'[h]
           /\ Async(h) \/ called'[h] \subseteq 1 .. asyncs[h]
<1> DEFINE n == asyncs[h]
<1>1. n \in Nat
  BY FlagTypes
<1> HIDE DEF n
<1>2. 1 .. n \subseteq 1 .. n + 1 /\ n + 1 \in 1 .. n + 1
  BY <1>1
<1>3. 1 .. n \subseteq 1 .. asyncs'[h]
  BY <1>2 DEF n
<1>4. CASE called'[h] = called[h]
  BY <1>3, <1>4 DEF n
<1>5. CASE Async(h) /\ called'[h] = called[h] \cup {n + 1}
  <2>1. asyncs'[h] = n + 1
    BY <1>5 DEF Async, TypeOK, n
  <2> QED
    BY <1>2, <1>5, <2>1 DEF n
<1>6. ASSUME NEW cbs, called' = Called(cbs)
      PROVE  called'[h] \subseteq 1 .. n
  BY <1>6 DEF Called, n
<1> QED
  BY <1>3, <1>4, <1>5, <1>6, CalledSteps DEF n
(* Fibers that await are added to, and removed from, the observers by the  *)
(* messages that say so.                                                   *)
LEMMA ObserverSteps ==
    ASSUME TypeOK, [Next]_vars, NEW g \in Fibers, NEW o, o.kind = "await"
    PROVE  \/ o \in observers[g] <=> o \in observers'[g]
           \/ /\ HandleAddObserver(g) /\ ~Done(g) /\ queue' = Polled(g) /\ o \in observers'[g]
              /\ o = AwaitObserver(Head(queue[g]).who, Head(queue[g]).cb)
           \/ /\ HandleRemoveObserver(g) /\ o \notin observers'[g]
              /\ o = AwaitObserver(Head(queue[g]).who, Head(queue[g]).cb)
<1> USE DEF TypeOK
<1> DEFINE Same == o \in observers[g] <=> o \in observers'[g]
           Added == /\ HandleAddObserver(g) /\ ~Done(g) /\ queue' = Polled(g) /\ o \in observers'[g]
                    /\ o = AwaitObserver(Head(queue[g]).who, Head(queue[g]).cb)
           Removed == /\ HandleRemoveObserver(g) /\ o \notin observers'[g]
                      /\ o = AwaitObserver(Head(queue[g]).who, Head(queue[g]).cb)
<1>1. ASSUME NEW f \in Fibers, HandleAddObserver(f)
      PROVE  Same \/ Added
  <2> DEFINE a == AwaitObserver(Head(queue[f]).who, Head(queue[f]).cb)
  <2>1. CASE UNCHANGED observers
    BY <2>1
  <2>2. CASE ~Done(f) /\ queue' = Polled(f) /\ observers' = [observers EXCEPT ![f] = @ \cup {a}]
    <3>1. CASE f = g /\ o = a
      <4>1. a \in observers'[f]
        BY <2>2
      <4> QED
        BY <1>1, <2>2, <3>1, <4>1
    <3>2. CASE ~(f = g /\ o = a)
      <4> HIDE DEF a
      <4>1. Same
        BY <2>2, <3>2
      <4> QED
        BY <4>1
    <3> QED
      BY <3>1, <3>2
  <2> QED
    BY <1>1, <2>1, <2>2 DEF HandleAddObserver
<1>2. ASSUME NEW f \in Fibers, HandleRemoveObserver(f)
      PROVE  Same \/ Removed
  <2> DEFINE a == AwaitObserver(Head(queue[f]).who, Head(queue[f]).cb)
  <2>1. observers' = [observers EXCEPT ![f] = @ \ {a}]
    BY <1>2 DEF HandleRemoveObserver
  <2>2. CASE f = g /\ o = a
    <3>1. observers'[g] = observers[g] \ {a}
      BY <2>1, <2>2
    <3> QED
      BY <1>2, <2>2, <3>1
  <2>3. CASE ~(f = g /\ o = a)
    <3> HIDE DEF a
    <3>1. Same
      BY <2>1, <2>3
    <3> QED
      BY <3>1
  <2> QED
    BY <2>2, <2>3
<1>3. ASSUME NEW f \in Fibers, HandleAddChild(f)
      PROVE  Same
  <2> DEFINE a == ChildObserver(f)
             c == Head(queue[f]).child
  <2>1. a.kind = "child"
    BY DEF ChildObserver
  <2>2. UNCHANGED observers \/ observers' = [observers EXCEPT ![c] = @ \cup {a}]
    BY <1>3 DEF HandleAddChild
  <2> HIDE DEF a, c
  <2>3. o # a
    BY <2>1
  <2>4. CASE observers' = [observers EXCEPT ![c] = @ \cup {a}]
    BY <2>3, <2>4
  <2> QED
    BY <2>2, <2>4
<1>4. ASSUME NEW f \in Fibers,
             \/ StartReturn(f) \/ Run(f) \/ DrainDone(f) \/ DrainYield(f)
             \/ HandleResume(f) \/ HandleInterrupt(f) \/ RunInterrupt(f)
             \/ (\E c \in Fibers : \E p \in Scopes[f] : Fork(f, c, p))
             \/ (\E k \in Fibers : InterruptFiber(f, k)) \/ (\E k \in Fibers : Await(f, k))
             \/ (\E n \in external[f] : ExternalCall(f, n))
      PROVE  UNCHANGED observers
  BY <1>4 DEF StartReturn, Run, DrainDone, DrainYield, HandleResume, HandleInterrupt, RunInterrupt,
              Fork, InterruptFiber, Await, SuspendOn, ExternalCall, signalVars
<1>5. ASSUME NEW f \in Fibers,
             \/ Async(f) \/ Yield(f) \/ CatchAll(f) \/ Fail(f) \/ Return(f)
             \/ (\E b \in BOOLEAN : Region(f, b))
             \/ OnSuccess(f) \/ OnFailure(f) \/ RevertFlags(f) \/ AwaitExit(f)
             \/ ChildrenNext(f) \/ ChildrenDone(f) \/ WindDown(f)
      PROVE  UNCHANGED observers
  BY <1>5 DEF Async, Yield, CatchAll, Fail, Return, Region, OnSuccess, OnFailure, RevertFlags,
              AwaitExit, Reverted, ChildrenNext, SuspendOn, ChildrenDone, WindDown,
              WindDownChildren, WindDownMessages, SetExitValue, unwindFrame, signalVars
<1>6. Start \/ UNCHANGED vars => UNCHANGED observers
  BY DEF Start, vars, signalVars
<1>7. UNCHANGED observers => Same
  OBVIOUS
<1> HIDE DEF Same, Added, Removed
<1>8. Same \/ Added \/ Removed
  BY <1>1, <1>2, <1>3, <1>4, <1>5, <1>6, <1>7 DEF Next, Advance, Handle, Evaluate, Unwind
<1> QED
  BY <1>8 DEF Same, Added, Removed

(* A suspended fiber learns that it is interrupted, and loses its          *)
(* asyncInterruptor, by the message.                                       *)
LEMMA SignalSteps ==
    ASSUME TypeOK, [Next]_vars, NEW h \in Fibers, loop[h] = "idle", Resting(h)
    PROVE  /\ flag'[h] = flag[h] /\ windDown'[h] = windDown[h]
           /\ \/ interrupted'[h] = interrupted[h] /\ asyncInterruptor'[h] = asyncInterruptor[h]
              \/ HandleInterrupt(h)
<1> USE DEF TypeOK
<1> DEFINE Same == /\ flag'[h] = flag[h]
                   /\ interrupted'[h] = interrupted[h]
                   /\ asyncInterruptor'[h] = asyncInterruptor[h]
<1>1. ASSUME NEW f \in Fibers, HandleInterrupt(f), f # h
      PROVE  Same
  BY <1>1 DEF HandleInterrupt, evalVars
<1>2. ASSUME NEW f \in Fibers, HandleResume(f)
      PROVE  Same
  <2>1. f # h
    BY <1>2 DEF HandleResume, Resting
  <2> QED
    BY <1>2, <2>1 DEF HandleResume, signalVars
<1>3. ASSUME NEW f \in Fibers, RunInterrupt(f) \/ Evaluate(f) \/ Unwind(f) \/ WindDown(f)
      PROVE  loop[f] = "running" /\ f # h
  BY <1>3 DEF RunInterrupt, Evaluate, Fork, InterruptFiber, Await, Async, Yield, Region, CatchAll,
              Fail, Return, Unwind, OnSuccess, OnFailure, RevertFlags, AwaitExit, ChildrenNext,
              ChildrenDone, Unwinding, WindDown, WindDownChildren, WindDownMessages,
              SetExitValue, LoopReturn, Primitive, Evaluates, Turn
<1>4. ASSUME NEW f \in Fibers, RunInterrupt(f)
      PROVE  Same
  BY <1>3, <1>4 DEF RunInterrupt, asyncVars
<1>5. ASSUME NEW f \in Fibers, Evaluate(f)
      PROVE  Same
  <2>1. f # h
    BY <1>3, <1>5
  <2>2. ASSUME NEW c \in Fibers, NEW p \in Scopes[f], Fork(f, c, p)
        PROVE  Same
    <3>1. c # h
      BY <2>2 DEF Fork, Born
    <3> QED
      BY <2>2, <3>1 DEF Fork, signalVars, asyncVars
  <2>3. ASSUME NEW g \in Fibers, Await(f, g)
        PROVE  Same
    BY <2>1, <2>3 DEF Await, SuspendOn, signalVars
  <2>4. ASSUME NEW b \in BOOLEAN, Region(f, b)
        PROVE  Same
    BY <2>1, <2>4 DEF Region, signalVars, asyncVars
  <2>5. CASE Async(f)
    BY <2>1, <2>5 DEF Async, signalVars
  <2>6. CASE (\E g \in Fibers : InterruptFiber(f, g)) \/ Yield(f) \/ CatchAll(f) \/ Fail(f)
             \/ Return(f)
    BY <2>6 DEF InterruptFiber, Yield, CatchAll, Fail, Return, signalVars, asyncVars
  <2> QED
    BY <1>5, <2>2, <2>3, <2>4, <2>5, <2>6 DEF Evaluate
<1>6. ASSUME NEW f \in Fibers, Unwind(f)
      PROVE  Same
  <2>1. f # h
    BY <1>3, <1>6
  <2>2. CASE ChildrenNext(f)
    BY <2>1, <2>2 DEF ChildrenNext, SuspendOn, signalVars
  <2>3. CASE OnSuccess(f) \/ OnFailure(f) \/ ChildrenDone(f)
    BY <2>3 DEF OnSuccess, OnFailure, ChildrenDone, unwindFrame, signalVars, asyncVars
  <2>4. CASE RevertFlags(f) \/ AwaitExit(f)
    BY <2>1, <2>4 DEF RevertFlags, AwaitExit, Reverted, unwindFrame, signalVars, asyncVars
  <2> QED
    BY <1>6, <2>2, <2>3, <2>4 DEF Unwind
<1>7. ASSUME NEW f \in Fibers, WindDown(f)
      PROVE  Same
  BY <1>7 DEF WindDown, WindDownChildren, WindDownMessages, SetExitValue, signalVars, asyncVars
<1>8. ASSUME NEW f \in Fibers,
             \/ StartReturn(f) \/ Run(f) \/ DrainDone(f) \/ DrainYield(f)
             \/ HandleAddObserver(f) \/ HandleRemoveObserver(f)
             \/ HandleAddChild(f) \/ \E n \in external[f] : ExternalCall(f, n)
      PROVE  Same
  BY <1>8 DEF StartReturn, Run, DrainDone, DrainYield, HandleAddObserver, HandleRemoveObserver,
              HandleAddChild, ExternalCall, evalVars, signalVars, asyncVars
<1>9. Start \/ UNCHANGED vars => Same
  BY DEF Start, vars, evalVars, signalVars, asyncVars
<1>10. windDown'[h] = windDown[h]
  BY DEF Resting
<1> HIDE DEF Same
<1>11. Same \/ HandleInterrupt(h)
  BY <1>1, <1>2, <1>4, <1>5, <1>6, <1>7, <1>8, <1>9 DEF Next, Advance, Handle
<1>12. HandleInterrupt(h) => flag'[h] = flag[h]
  BY DEF HandleInterrupt, evalVars
<1> QED
  BY <1>10, <1>11, <1>12 DEF Same

(* A run loop has the thread. *)
OnThread == \A f \in Fibers : loop[f] = "running" => thread = f

LEMMA RunLoopOnThread == Spec => []OnThread
<1>1. Init => OnThread
  BY DEF Init, OnThread
<1>2. TypeOK /\ OnThread /\ [Next]_vars => OnThread'
  <2> SUFFICES ASSUME TypeOK, OnThread, [Next]_vars
               PROVE  OnThread'
    OBVIOUS
  <2> USE DEF TypeOK
  <2>1. ASSUME UNCHANGED thread,
               \A h \in Fibers : loop'[h] = "running" => loop[h] = "running" \/ thread = h
        PROVE  OnThread'
    BY <2>1 DEF OnThread
  <2>2. ASSUME NEW f \in Fibers, Run(f)
        PROVE  OnThread'
    BY <2>2, NoFiberAssumption DEF OnThread, Run, evalVars
  <2>3. CASE Start
    <3>1. \A h \in Fibers : loop[h] # "running"
      BY <2>3, NoFiberAssumption DEF OnThread, Start
    <3>2. thread' = Root /\ loop' = [loop EXCEPT ![Root] = "running"]
      BY <2>3 DEF Start
    <3> QED
      BY <3>1, <3>2, RootAssumption DEF OnThread
  <2>4. ASSUME NEW f \in Fibers, StartReturn(f) \/ DrainDone(f) \/ DrainYield(f)
        PROVE  OnThread'
    <3>1. thread = f /\ loop[f] = "idle" /\ UNCHANGED loop
      BY <2>4 DEF StartReturn, DrainDone, DrainYield, Draining, evalVars
    <3>2. \A h \in Fibers : loop[h] # "running"
      BY <3>1 DEF OnThread
    <3> QED
      BY <3>1, <3>2 DEF OnThread
  <2>5. ASSUME NEW f \in Fibers, HandleResume(f)
        PROVE  OnThread'
    <3>1. thread = f /\ UNCHANGED thread /\ loop' = [loop EXCEPT ![f] = "running"]
      BY <2>5 DEF HandleResume, Draining
    <3> QED
      BY <2>1, <3>1
  <2>6. ASSUME NEW f \in Fibers,
               \/ HandleInterrupt(f) \/ RunInterrupt(f) \/ HandleAddObserver(f)
               \/ HandleRemoveObserver(f) \/ HandleAddChild(f)
               \/ (\E n \in external[f] : ExternalCall(f, n))
        PROVE  UNCHANGED <<thread, loop>>
    BY <2>6 DEF HandleInterrupt, RunInterrupt, HandleAddObserver, HandleRemoveObserver,
                HandleAddChild, ExternalCall, evalVars
  <2>7. ASSUME NEW f \in Fibers, Evaluate(f) \/ Unwind(f) \/ WindDown(f)
        PROVE  UNCHANGED thread /\ (UNCHANGED loop \/ \E h \in Fibers : loop' = [loop EXCEPT ![h] = "idle"])
    <3>1. CASE Evaluate(f)
      BY <3>1 DEF Evaluate, Fork, InterruptFiber, Await, SuspendOn, Async, Yield, Region, CatchAll,
                  Fail, Return
    <3>2. CASE Unwind(f)
      BY <3>2 DEF Unwind, OnSuccess, OnFailure, RevertFlags, AwaitExit, Reverted, ChildrenNext,
                  SuspendOn, ChildrenDone, unwindFrame
    <3>3. CASE WindDown(f)
      BY <3>3 DEF WindDown, WindDownChildren, WindDownMessages, SetExitValue
    <3> QED
      BY <2>7, <3>1, <3>2, <3>3
  <2>8. UNCHANGED vars => UNCHANGED <<thread, loop>>
    BY DEF vars, evalVars
  <2>9. UNCHANGED <<thread, loop>> => OnThread'
    BY DEF OnThread
  <2>10. ASSUME UNCHANGED thread, NEW h \in Fibers, loop' = [loop EXCEPT ![h] = "idle"]
         PROVE  OnThread'
    BY <2>1, <2>10
  <2> QED
    BY <2>2, <2>3, <2>4, <2>5, <2>6, <2>7, <2>8, <2>9, <2>10 DEF Next, Advance, Handle
<1> QED
  BY <1>1, <1>2, TypeCorrect, PTL DEF Spec
-----------------------------------------------------------------------------
(* The awaits on a stack.                                                  *)

AwaitFree(s) == \A i \in 1 .. Len(s) : s[i].k # "Await"

(* Above an await there is only what yields left there. *)
Passing(k) == k.k = "Then" /\ k.c # "next"
Above(s) == \A i, j \in 1 .. Len(s) : i < j /\ s[i].k = "Await" => Passing(s[j])

Numbered(s, n) == \A i \in 1 .. Len(s) : s[i].k = "Await" => s[i].cb \in 1 .. n

IsAwait(k, g, n) == k.k = "Await" /\ k.on = g /\ k.cb = n
Holds(s, g, n) == \E i \in 1 .. Len(s) : IsAwait(s[i], g, n)

LEMMA AboveAppend ==
    ASSUME NEW s \in Seq(Frames), NEW k \in Frames, Above(s), Passing(k) \/ AwaitFree(s)
    PROVE  /\ Above(Append(s, k))
           /\ AwaitFree(s) /\ k.k # "Await" => AwaitFree(Append(s, k))
<1> DEFINE t == Append(s, k)
           n == Len(s)
<1>1. /\ n \in Nat /\ Len(t) = n + 1 /\ t[n + 1] = k
      /\ \A i \in 1 .. n : t[i] = s[i]
  OBVIOUS
<1> HIDE DEF t, n
<1>2. \A i \in 1 .. Len(t) : i \in 1 .. n \/ i = n + 1
  BY <1>1
<1>3. \A i, j \in 1 .. Len(t) : i < j => i \in 1 .. n
  BY <1>1
<1>4. ASSUME NEW i \in 1 .. Len(t), NEW j \in 1 .. Len(t), i < j, t[i].k = "Await"
      PROVE  Passing(t[j])
  <2>1. i \in 1 .. n /\ t[i] = s[i]
    BY <1>1, <1>3, <1>4
  <2>2. CASE j \in 1 .. n
    BY <1>1, <1>4, <2>1, <2>2 DEF Above, n
  <2>3. CASE j = n + 1
    BY <1>1, <1>4, <2>1, <2>3 DEF AwaitFree, n
  <2> QED
    BY <1>2, <2>2, <2>3
<1>5. AwaitFree(s) /\ k.k # "Await" => AwaitFree(t)
  BY <1>1, <1>2 DEF AwaitFree, n
<1> QED
  BY <1>4, <1>5 DEF Above, t

(* Going down one continuation. *)
LEMMA PopParts ==
    ASSUME TypeOK, NEW f \in Fibers, stack[f] # <<>>
    PROVE  /\ Len(stack[f]) \in Nat \ {0} /\ Len(Pop(f)) = Len(stack[f]) - 1
           /\ Len(stack[f]) \in 1 .. Len(stack[f])
           /\ Top(f) = stack[f][Len(stack[f])]
           /\ \A i \in 1 .. Len(Pop(f)) :
                 Pop(f)[i] = stack[f][i] /\ i \in 1 .. Len(stack[f]) /\ i < Len(stack[f])
           /\ \A i \in 1 .. Len(stack[f]) : i \in 1 .. Len(Pop(f)) \/ i = Len(stack[f])
<1> DEFINE s == stack[f]
           n == Len(s) - 1
           t == SubSeq(s, 1, n)
<1>1. s \in Seq(Frames) /\ s # <<>>
  BY DEF TypeOK
<1>2. Pop(f) = t /\ Top(f) = s[Len(s)]
  BY DEF Pop, Top
<1> HIDE DEF s
<1>3. Len(s) \in Nat \ {0} /\ n \in 0 .. Len(s) /\ n + 1 = Len(s) /\ n \in Nat
  BY <1>1
<1> HIDE DEF n
<1>4. Len(t) = n
  BY <1>1, <1>3
<1>5. \A i \in 1 .. n : t[i] = s[i]
  BY <1>1, <1>3
<1> HIDE DEF t
<1>6. /\ \A i \in 1 .. n : i \in 1 .. Len(s) /\ i < Len(s)
      /\ \A i \in 1 .. Len(s) : i \in 1 .. n \/ i = Len(s)
      /\ Len(s) \in 1 .. Len(s) /\ n = Len(s) - 1
  BY <1>3
<1> QED
  BY <1>2, <1>3, <1>4, <1>5, <1>6 DEF s

LEMMA AbovePop ==
    ASSUME TypeOK, NEW f \in Fibers, stack[f] # <<>>, Above(stack[f])
    PROVE  /\ Above(Pop(f))
           /\ Passing(Top(f)) \/ AwaitFree(Pop(f))
           /\ AwaitFree(stack[f]) => AwaitFree(Pop(f))
<1>1. Above(Pop(f))
  BY PopParts DEF Above
<1>2. Passing(Top(f)) \/ AwaitFree(Pop(f))
  BY PopParts DEF Above, AwaitFree
<1>3. AwaitFree(stack[f]) => AwaitFree(Pop(f))
  BY PopParts DEF AwaitFree
<1> QED
  BY <1>1, <1>2, <1>3

LEMMA NumberedAppend ==
    ASSUME NEW s \in Seq(Frames), NEW k \in Frames, NEW n, Numbered(s, n),
           k.k = "Await" => k.cb \in 1 .. n
    PROVE  Numbered(Append(s, k), n)
<1> SUFFICES ASSUME NEW i \in 1 .. Len(Append(s, k)), Append(s, k)[i].k = "Await"
             PROVE  Append(s, k)[i].cb \in 1 .. n
  BY DEF Numbered
<1>1. CASE i \in 1 .. Len(s) /\ Append(s, k)[i] = s[i]
  BY <1>1 DEF Numbered
<1>2. CASE Append(s, k)[i] = k
  BY <1>2
<1>3. (i \in 1 .. Len(s) /\ Append(s, k)[i] = s[i]) \/ Append(s, k)[i] = k
  OBVIOUS
<1> QED
  BY <1>1, <1>2, <1>3

LEMMA NumberedPop ==
    ASSUME TypeOK, NEW f \in Fibers, stack[f] # <<>>, NEW n, Numbered(stack[f], n)
    PROVE  Numbered(Pop(f), n)
  BY PopParts DEF Numbered

LEMMA HoldsAppend ==
    ASSUME NEW s \in Seq(Frames), NEW k \in Frames, NEW g, NEW n, Holds(s, g, n) \/ IsAwait(k, g, n)
    PROVE  Holds(Append(s, k), g, n)
<1>1. CASE IsAwait(k, g, n)
  <2>1. Len(s) + 1 \in 1 .. Len(Append(s, k)) /\ Append(s, k)[Len(s) + 1] = k
    OBVIOUS
  <2> QED
    BY <1>1, <2>1 DEF Holds
<1>2. CASE Holds(s, g, n)
  <2>1. PICK i \in 1 .. Len(s) : IsAwait(s[i], g, n)
    BY <1>2 DEF Holds
  <2>2. Append(s, k)[i] = s[i] /\ i \in 1 .. Len(Append(s, k))
    OBVIOUS
  <2> QED
    BY <2>1, <2>2 DEF Holds
<1> QED
  BY <1>1, <1>2

LEMMA HoldsPop ==
    ASSUME TypeOK, NEW f \in Fibers, stack[f] # <<>>, NEW g, NEW n, Holds(stack[f], g, n)
    PROVE  Holds(Pop(f), g, n) \/ IsAwait(Top(f), g, n)
<1>1. PICK i \in 1 .. Len(stack[f]) : IsAwait(stack[f][i], g, n)
  BY DEF Holds
<1> QED
  BY <1>1, PopParts DEF Holds

-----------------------------------------------------------------------------
(* The stack of a fiber that awaits, and the numbers of its callbacks.     *)

Shape(f) ==
    /\ Above(stack[f])
    /\ Numbered(stack[f], asyncs[f])
    /\ called[f] \subseteq 1 .. asyncs[f]
    /\ loop[f] = "running" /\ cur[f] = "next" => AwaitFree(stack[f])
    /\ \A m \in Resumes(f) : m.eff = "next" => stack[f] = <<>>

ShapeInv == \A f \in Fibers : Shape(f)

LEMMA RestingShape ==
    ASSUME TypeOK, OneContinuation', [Next]_vars, NEW h \in Fibers, Resting(h),
           Calm(h), Shape(h)
    PROVE  Shape(h)'
<1>1. called'[h] \subseteq 1 .. asyncs'[h]
  BY CalledBound DEF Shape, Resting
<1>2. ASSUME NEW m \in Resumes(h)', m.eff = "next"
      PROVE  stack'[h] = <<>>
  <2>1. CASE m \in Resumes(h)
    BY <1>2, <2>1 DEF Shape, Resting
  <2>2. CASE m \notin Resumes(h) /\ loop[h] = "idle"
    BY <1>2, <2>2, NewResumes DEF Calls
  <2>3. CASE loop[h] = "unborn"
    BY <2>3 DEF Calm, Resting
  <2>4. CASE loop[h] = "running"
    <3>1. Silent(queue'[h])
      BY <2>4 DEF Resting, OneContinuation, Continuation
    <3>2. \A l \in Contents(queue'[h]) : l.tag # "Resume"
      BY <3>1, SilentContents
    <3> QED
      BY <1>2, <3>2 DEF Resumes
  <2>5. loop[h] \in {"unborn", "idle", "running"}
    BY DEF TypeOK
  <2> QED
    BY <2>1, <2>2, <2>3, <2>4, <2>5
<1> QED
  BY <1>1, <1>2 DEF Shape, Resting

LEMMA ActingShape ==
    ASSUME TypeOK, TypeOK', OneContinuation, OneContinuation', [Next]_vars, NEW h \in Fibers,
           Shape(h),
           HandleResume(h) \/ RunInterrupt(h) \/ Evaluate(h) \/ Unwind(h) \/ WindDown(h)
    PROVE  Shape(h)'
<1> DEFINE s == stack[h]
           n == asyncs[h]
<1>a. s \in Seq(Frames) /\ Above(s) /\ Numbered(s, n) /\ called[h] \subseteq 1 .. n
  BY DEF Shape, TypeOK
<1>b. n \in Nat /\ 1 .. n \subseteq 1 .. n + 1 /\ n + 1 \in 1 .. n + 1
  <2>1. n \in Nat
    BY FlagTypes
  <2> HIDE DEF n
  <2> QED
    BY <2>1
<1>c. ASSUME loop'[h] = "running"
      PROVE  Resumes(h)' = {}
  <2>1. Silent(queue'[h])
    BY <1>c DEF OneContinuation, Continuation
  <2>2. \A l \in Contents(queue'[h]) : l.tag # "Resume"
    BY <2>1, SilentContents
  <2> QED
    BY <2>2 DEF Resumes
<1>d. ASSUME asyncs'[h] \in {n, n + 1}, Above(stack'[h]), Numbered(stack'[h], asyncs'[h]),
             \/ loop'[h] = "running" /\ (cur'[h] = "next" => AwaitFree(stack'[h]))
             \/ loop'[h] = "idle" /\ \A m \in Resumes(h)' : m.eff = "next" => stack'[h] = <<>>
      PROVE  Shape(h)'
  <2>1. called'[h] \subseteq 1 .. asyncs'[h]
    BY <1>a, <1>d, CalledBound
  <2> QED
    BY <1>c, <1>d, <2>1 DEF Shape
<1>e. ASSUME NEW t \in Seq(Frames), NEW k \in Frames, AwaitFree(t), Numbered(t, n),
             k.k = "Await" => k.cb = n + 1
      PROVE  Above(Append(t, k)) /\ Numbered(Append(t, k), n + 1)
  <2>1. Above(t)
    BY <1>e DEF Above, AwaitFree
  <2>2. Numbered(t, n + 1)
    BY <1>b, <1>e DEF Numbered
  <2>3. k.k = "Await" => k.cb \in 1 .. n + 1
    BY <1>b, <1>e
  <2> HIDE DEF n
  <2>4. Above(Append(t, k))
    BY <1>e, <2>1, AboveAppend
  <2> QED
    BY <2>2, <2>3, <2>4, NumberedAppend
<1>f. ASSUME NEW t \in Seq(Frames), AwaitFree(t), NEW k \in Frames, k.k # "Await"
      PROVE  AwaitFree(Append(t, k)) /\ Append(t, k) \in Seq(Frames) /\ Above(Append(t, k))
             /\ (Numbered(t, n) => Numbered(Append(t, k), n))
  <2>1. Above(t)
    BY <1>f DEF Above, AwaitFree
  <2>2. Append(t, k) \in Seq(Frames)
    BY AppendLast
  <2> HIDE DEF n
  <2> QED
    BY <1>f, <2>1, <2>2, AboveAppend, NumberedAppend
<1>g. loop[h] = "running" /\ cur[h] = "next" => AwaitFree(s)
  BY DEF Shape
<1> HIDE DEF s
<1>1. CASE HandleResume(h)
  <2>1. loop'[h] = "running" /\ loop[h] = "idle" /\ queue[h] # <<>>
        /\ Head(queue[h]).tag = "Resume"
        /\ cur'[h] \in {"fail", Head(queue[h]).eff}
        /\ stack'[h] = s /\ asyncs'[h] = n
    BY <1>1 DEF HandleResume, Draining, Receives, TypeOK, s
  <2>2. Head(queue[h]) \in Resumes(h)
    BY <2>1, PolledContents DEF Resumes
  <2>3. cur'[h] = "next" => s = <<>>
    BY <2>1, <2>2 DEF Shape, s
  <2>4. AwaitFree(<<>>)
    BY DEF AwaitFree
  <2> QED
    BY <1>a, <1>d, <2>1, <2>3, <2>4
<1>2. CASE RunInterrupt(h)
  <2>1. /\ loop[h] = "running" /\ loop'[h] = "running" /\ cur'[h] \in {"fail", cur[h]}
        /\ stack'[h] = s /\ asyncs'[h] = n
    BY <1>2 DEF RunInterrupt, asyncVars, TypeOK, s
  <2> QED
    BY <1>a, <1>d, <1>g, <2>1
<1>3. CASE \/ \E c \in Fibers : \E p \in Scopes[h] : Fork(h, c, p)
           \/ (\E g \in Fibers : InterruptFiber(h, g)) \/ Fail(h) \/ Return(h)
  <2> DEFINE P == /\ cur[h] = "next" /\ loop[h] = "running" /\ loop'[h] = "running"
                  /\ stack'[h] = s /\ asyncs'[h] = n
  <2>1. ASSUME NEW c \in Fibers, NEW p \in Scopes[h], Fork(h, c, p)
        PROVE  P
    <3>1. cur[h] = "next" /\ loop[h] = "running" /\ c # h
      BY <2>1 DEF Fork, Primitive, Evaluates, Turn, Born
    <3>2. loop'[h] = "running" /\ stack'[h] = s
      BY <2>1, <3>1 DEF Fork, Born, Turn, TypeOK, s
    <3>3. asyncs'[h] = n
      BY <2>1 DEF Fork, asyncVars
    <3> QED
      BY <3>1, <3>2, <3>3
  <2>2. ASSUME NEW g \in Fibers, InterruptFiber(h, g)
        PROVE  P
    BY <2>2 DEF InterruptFiber, Primitive, Evaluates, Turn, asyncVars, s
  <2>3. Fail(h) => P
    BY DEF Fail, Primitive, Evaluates, Turn, asyncVars, s
  <2>4. Return(h) => P
    BY DEF Return, Turn, asyncVars, s
  <2>5. P
    <3> HIDE DEF P
    <3> QED
      BY <1>3, <2>1, <2>2, <2>3, <2>4
  <2> QED
    BY <1>a, <1>d, <1>g, <2>5
<1>4. ASSUME NEW b \in BOOLEAN, Region(h, b) \/ CatchAll(h)
      PROVE  Shape(h)'
  <2> DEFINE k == Then("next")
  <2>1. cur[h] = "next" /\ loop[h] = "running" /\ loop'[h] = "running" /\ asyncs'[h] = n
        /\ stack'[h] \in {s, s \o <<k, Revert(flag[h])>>, s \o <<k, Catch>>}
    BY <1>4 DEF Region, CatchAll, Primitive, Evaluates, Turn, asyncVars, TypeOK, s
  <2>2. k \in Frames /\ Revert(flag[h]) \in Frames /\ Catch \in Frames
        /\ k.k # "Await" /\ Revert(flag[h]).k # "Await" /\ Catch.k # "Await"
    BY FrameTypes, FlagTypes DEF Then, Revert, Catch
  <2> HIDE DEF k
  <2>3. AwaitFree(s)
    BY <1>g, <2>1
  <2>4. ASSUME NEW l \in Frames, l.k # "Await", stack'[h] = s \o <<k, l>>
        PROVE  Shape(h)'
    <3>1. s \o <<k, l>> = Append(Append(s, k), l)
      BY <1>a, <2>2
    <3>2. AwaitFree(Append(s, k)) /\ Append(s, k) \in Seq(Frames) /\ Numbered(Append(s, k), n)
      BY <1>a, <1>f, <2>2, <2>3
    <3>3. /\ AwaitFree(Append(Append(s, k), l)) /\ Above(Append(Append(s, k), l))
          /\ Numbered(Append(Append(s, k), l), n)
      BY <1>f, <2>4, <3>2
    <3> QED
      BY <1>d, <2>1, <2>4, <3>1, <3>3
  <2>5. CASE stack'[h] = s
    BY <1>a, <1>d, <2>1, <2>3, <2>5
  <2> QED
    BY <2>1, <2>2, <2>4, <2>5
<1>5. CASE Async(h)
  <2> DEFINE k == Then("next")
  <2>1. /\ cur[h] = "next" /\ loop[h] = "running" /\ loop'[h] = "idle" /\ asyncs'[h] = n + 1
        /\ stack'[h] = Append(s, k) /\ queue[h] = <<>>
    BY <1>5 DEF Async, Primitive, Evaluates, Turn, TypeOK, s
  <2>2. k \in Frames /\ k.k # "Await"
    BY FrameTypes DEF Then
  <2> HIDE DEF k
  <2>3. AwaitFree(s) /\ Above(Append(s, k)) /\ Numbered(Append(s, k), n + 1)
    BY <1>a, <1>e, <1>g, <2>1, <2>2
  <2>4. queue'[h] = <<>> \/ queue'[h] = Append(<<>>, Resume("ok"))
    BY <1>5, <2>1 DEF Async, mailVars, Tell, Offered
  <2>5. \A m \in Resumes(h)' : m.eff = "ok"
    BY <2>4, Tags DEF Resumes, Contents
  <2> QED
    BY <1>d, <2>1, <2>3, <2>5
<1>6. ASSUME NEW g \in Fibers, NEW base \in Seq(Frames), SuspendOn(h, g, base),
             AwaitFree(base), Numbered(base, n), loop[h] = "running"
      PROVE  Shape(h)'
  <2> DEFINE k == Awaiting(flag[h], g, n + 1)
  <2>1. /\ loop'[h] = "idle" /\ asyncs'[h] = n + 1 /\ stack'[h] = Append(base, k)
        /\ queue' = Offered(queue, {g}, AddObserver(h, n + 1))
    BY <1>6 DEF SuspendOn, Tell, TypeOK
  <2>2. k \in Frames /\ k.cb = n + 1 /\ AddObserver(h, n + 1) \in Messages
    <3>1. k \in Frames
      BY FlagTypes, FrameTypes
    <3>2. AddObserver(h, n + 1) \in Messages
      BY FlagTypes, MessageTypes
    <3> QED
      BY <3>1, <3>2 DEF Awaiting
  <2> HIDE DEF k
  <2>3. Above(Append(base, k)) /\ Numbered(Append(base, k), n + 1)
    BY <1>e, <1>6, <2>2
  <2>4. Resumes(h)' = {}
    <3>1. Resumes(h) = {}
      BY <1>6, RunningAlone
    <3>2. Resumes(h)' \subseteq Resumes(h)
      BY <2>1, <2>2, QuietResumes, Tags DEF TypeOK
    <3> QED
      BY <3>1, <3>2
  <2> QED
    BY <1>d, <2>1, <2>3, <2>4
<1>7. ASSUME NEW g \in Fibers, Await(h, g)
      PROVE  Shape(h)'
  <2> DEFINE k == Then("next")
  <2>1. cur[h] = "next" /\ loop[h] = "running" /\ SuspendOn(h, g, Append(s, k))
    BY <1>7 DEF Await, Primitive, Evaluates, Turn, s
  <2>2. k \in Frames /\ k.k # "Await"
    BY FrameTypes DEF Then
  <2> HIDE DEF k
  <2>3. AwaitFree(Append(s, k)) /\ Append(s, k) \in Seq(Frames) /\ Numbered(Append(s, k), n)
    BY <1>a, <1>f, <1>g, <2>1, <2>2
  <2> QED
    BY <1>6, <2>1, <2>3
<1>8. CASE Yield(h)
  <2> DEFINE k == Then(cur[h])
  <2>1. /\ loop[h] = "running" /\ loop'[h] = "idle" /\ asyncs'[h] = n /\ stack'[h] = Append(s, k)
        /\ cur[h] \in {"next", "ok", "fail"} /\ queue[h] = <<>>
    BY <1>8 DEF Yield, Evaluates, Turn, asyncVars, TypeOK, s
  <2>2. k \in Frames /\ k.k = "Then" /\ k.c = cur[h]
    BY <2>1, FrameTypes DEF Then
  <2> HIDE DEF k
  <2>3. Passing(k) \/ AwaitFree(s)
    BY <1>g, <2>1, <2>2 DEF Passing
  <2>4. Above(Append(s, k)) /\ Numbered(Append(s, k), n)
    BY <1>a, <2>2, <2>3, AboveAppend, NumberedAppend
  <2>5. queue'[h] = Append(Append(<<>>, YieldNow), Resume("ok"))
    BY <1>8, <2>1 DEF Yield, Offered
  <2>6. \A m \in Resumes(h)' : m.eff = "ok"
    BY <2>5, Tags DEF Resumes, Contents
  <2> QED
    BY <1>d, <2>1, <2>4, <2>6
<1>9. CASE OnSuccess(h) \/ OnFailure(h) \/ RevertFlags(h) \/ AwaitExit(h) \/ ChildrenDone(h)
  <2>1. /\ loop[h] = "running" /\ loop'[h] = "running" /\ stack[h] # <<>> /\ stack'[h] = Pop(h)
        /\ asyncs'[h] = n
    BY <1>9 DEF OnSuccess, OnFailure, RevertFlags, AwaitExit, ChildrenDone, Reverted, Unwinding,
                Turn, unwindFrame, asyncVars, TypeOK
  <2>2. Above(Pop(h)) /\ (Passing(Top(h)) \/ AwaitFree(Pop(h)))
    BY <1>a, <2>1, AbovePop DEF s
  <2>3. Numbered(Pop(h), n)
    BY <1>a, <2>1, NumberedPop DEF s
  <2>4. Passing(Top(h)) => cur'[h] # "next"
    BY <1>9, <2>1 DEF Passing, OnSuccess, OnFailure, RevertFlags, AwaitExit, ChildrenDone,
                      Unwinding, TypeOK
  <2> QED
    BY <1>d, <2>1, <2>2, <2>3, <2>4
<1>10. CASE ChildrenNext(h)
  <2>1. loop[h] = "running" /\ stack[h] # <<>> /\ Top(h).k = "Children"
        /\ Top(h) \in Frames /\ Pop(h) \in Seq(Frames)
    BY <1>10, StackParts DEF ChildrenNext, Unwinding, Turn
  <2>2. PICK c \in Top(h).rest :
             SuspendOn(h, c, Append(Pop(h), Children(Top(h).rest \ {c}, Top(h).exit)))
    BY <1>10 DEF ChildrenNext
  <2> DEFINE k == Children(Top(h).rest \ {c}, Top(h).exit)
  <2>3. c \in Fibers /\ k \in Frames /\ k.k = "Children"
    <3>1. Top(h).rest \in SUBSET Fibers /\ Top(h).exit \in Results
      BY <2>1, FrameParts
    <3>2. Top(h).rest \ {c} \in SUBSET Fibers
      BY <3>1
    <3> QED
      BY <2>2, <3>1, <3>2, FrameTypes DEF Children
  <2>4. SuspendOn(h, c, Append(Pop(h), k))
    BY <2>2
  <2> HIDE DEF k
  <2>5. AwaitFree(Pop(h)) /\ Numbered(Pop(h), n)
    BY <1>a, <2>1, AbovePop, NumberedPop DEF s, Passing
  <2>6. AwaitFree(Append(Pop(h), k)) /\ Append(Pop(h), k) \in Seq(Frames)
        /\ Numbered(Append(Pop(h), k), n)
    BY <1>f, <2>1, <2>3, <2>5
  <2> QED
    BY <1>6, <2>1, <2>3, <2>4, <2>6
<1>11. CASE WindDownChildren(h)
  <2> DEFINE k == Children(children[h], cur[h])
  <2>1. loop[h] = "running" /\ loop'[h] = "running" /\ asyncs'[h] = n /\ stack'[h] = <<k>>
        /\ cur'[h] = "ok"
    BY <1>11 DEF WindDownChildren, LoopReturn, asyncVars, TypeOK
  <2>2. k.k = "Children" /\ \A i \in 1 .. Len(<<k>>) : <<k>>[i] = k
    BY DEF Children
  <2>3. AwaitFree(<<k>>)
    BY <2>2 DEF AwaitFree
  <2>4. Above(<<k>>) /\ Numbered(<<k>>, n)
    BY <2>3 DEF Above, Numbered, AwaitFree
  <2> QED
    BY <1>d, <2>1, <2>4
<1>12. CASE WindDownMessages(h) \/ SetExitValue(h)
  <2>1. loop'[h] = "idle" /\ asyncs'[h] = n /\ stack'[h] = s /\ s = <<>>
    BY <1>12 DEF WindDownMessages, SetExitValue, LoopReturn, asyncVars, TypeOK, s
  <2> QED
    BY <1>a, <1>d, <2>1
<1> QED
  BY <1>1, <1>2, <1>3, <1>4, <1>5, <1>7, <1>8, <1>9, <1>10, <1>11, <1>12
     DEF Evaluate, Unwind, WindDown

LEMMA ShapeInvariant == Spec => []ShapeInv
<1>1. Init => ShapeInv
  BY DEF Init, ShapeInv, Shape, Above, Numbered, Resumes, Contents
<1>2. TypeOK /\ TypeOK' /\ OneContinuation /\ OneContinuation' /\ VerdictInv /\ ShapeInv
          /\ [Next]_vars
      => ShapeInv'
  <2> SUFFICES ASSUME TypeOK, TypeOK', OneContinuation, OneContinuation', VerdictInv, ShapeInv,
                      [Next]_vars, NEW h \in Fibers
               PROVE  Shape(h)'
    BY DEF ShapeInv
  <2>1. Shape(h) /\ Calm(h)
    BY DEF ShapeInv, VerdictInv
  <2>2. CASE Resting(h)
    BY <2>1, <2>2, RestingShape
  <2>3. CASE HandleResume(h) \/ RunInterrupt(h) \/ Evaluate(h) \/ Unwind(h) \/ WindDown(h)
    BY <2>1, <2>3, ActingShape
  <2>4. ASSUME loop[h] = "unborn", UNCHANGED <<stack, asyncs, called>>
        PROVE  Shape(h)'
    <3>1. stack'[h] = <<>> /\ called'[h] \subseteq 1 .. asyncs'[h]
      BY <2>1, <2>4 DEF Calm, Shape
    <3> QED
      BY <3>1 DEF Shape, Above, Numbered, AwaitFree
  <2>5. CASE h = Root /\ Start
    BY <2>4, <2>5 DEF Start, Born, asyncVars
  <2>6. ASSUME NEW f \in Fibers, NEW p \in Scopes[f], Fork(f, h, p)
        PROVE  Shape(h)'
    BY <2>4, <2>6 DEF Fork, Born, asyncVars
  <2> QED
    BY <2>2, <2>3, <2>5, <2>6, StepsOfFibers
<1> QED
  BY <1>1, <1>2, TypeCorrect, ContinuationIsUnique, VerdictInvariant, PTL DEF Spec
-----------------------------------------------------------------------------
(* Registrations and removals: who sent them.                              *)

LEMMA SentRegistration ==
    ASSUME NEW f \in Fibers, NEW g \in Fibers, NEW n \in Nat, Sent(g, AddObserver(f, n))
    PROVE  n = asyncs[f] + 1 /\ \E base : SuspendOn(f, g, base)
<1>1. AddObserver(f, n).tag = "AddObserver" /\ \A h, i : RemoveObserver(h, i).tag = "RemoveObserver"
  BY Tags
<1>2. PICK h \in Fibers : \E base : SuspendOn(h, g, base) /\ AddObserver(f, n) = AddObserver(h, asyncs[h] + 1)
  BY <1>1 DEF Sent
<1>3. h = f /\ n = asyncs[h] + 1
  BY <1>2 DEF AddObserver
<1> QED
  BY <1>2, <1>3

LEMMA SentRemoval ==
    ASSUME NEW f \in Fibers, NEW g \in Fibers, NEW n \in Nat, Sent(g, RemoveObserver(f, n))
    PROVE  AwaitExit(f) /\ Unwinding(f, "fail", "Await") /\ IsAwait(Top(f), g, n)
<1>1. RemoveObserver(f, n).tag = "RemoveObserver" /\ \A h, i : AddObserver(h, i).tag = "AddObserver"
  BY Tags
<1>2. PICK h \in Fibers :
          /\ AwaitExit(h) /\ Unwinding(h, "fail", "Await") /\ g = Top(h).on
          /\ RemoveObserver(f, n) = RemoveObserver(h, Top(h).cb)
  BY <1>1 DEF Sent
<1>3. h = f /\ n = Top(h).cb
  BY <1>2 DEF RemoveObserver
<1> QED
  BY <1>2, <1>3 DEF Unwinding, IsAwait

(* The first message of an inbox, when it is polled. *)
LEMMA PolledFirst ==
    ASSUME NEW g \in Fibers, Polls(g), queue[g] # <<>>
    PROVE  /\ Head(queue[g]).tag = "Resume" => HandleResume(g)
           /\ Head(queue[g]).tag = "AddObserver" => HandleAddObserver(g)
           /\ Head(queue[g]).tag = "RemoveObserver" => HandleRemoveObserver(g)
  BY DEF Polls, DrainYield, HandleResume, HandleInterrupt, RunInterrupt, HandleAddObserver,
         HandleRemoveObserver, HandleAddChild, Handling, Receives

(* Only awaits whose callback was called are removed. *)
Cancels(f) ==
    \A g \in Fibers, n \in Nat : RemoveObserver(f, n) \in Contents(queue[g]) => n \in called[f]

CancelInv == \A f \in Fibers : Cancels(f)

LEMMA CancelInvariant == Spec => []CancelInv
<1>1. Init => CancelInv
  BY DEF Init, CancelInv, Cancels, Contents
<1>2. TypeOK /\ OneContinuation /\ ShapeInv /\ CancelInv /\ [Next]_vars => CancelInv'
  <2> SUFFICES ASSUME TypeOK, OneContinuation, ShapeInv, CancelInv, [Next]_vars,
                      NEW f \in Fibers, NEW g \in Fibers, NEW n \in Nat,
                      RemoveObserver(f, n) \in Contents(queue'[g])
               PROVE  n \in called'[f]
    BY DEF CancelInv, Cancels
  <2>1. CASE RemoveObserver(f, n) \in Contents(queue[g])
    BY <2>1, CalledStays DEF CancelInv, Cancels
  <2>2. CASE RemoveObserver(f, n) \notin Contents(queue[g])
    <3>1. Sent(g, RemoveObserver(f, n))
      BY <2>2, NewMessages
    <3>2. Unwinding(f, "fail", "Await") /\ IsAwait(Top(f), g, n)
      BY <3>1, SentRemoval
    <3>3. stack[f] # <<>> /\ loop[f] = "running"
      BY <3>2 DEF Unwinding, Turn
    <3>4. Top(f).k = "Await" /\ Top(f).cb = n
      BY <3>2 DEF IsAwait
    <3>5. n \in 1 .. asyncs[f]
      BY <3>3, <3>4, PopParts DEF ShapeInv, Shape, Numbered
    <3>6. Uncalled(f) = {}
      BY <3>3, RunningAlone
    <3> QED
      BY <3>5, <3>6, CalledStays DEF Uncalled
  <2> QED
    BY <2>1, <2>2
<1> QED
  BY <1>1, <1>2, TypeCorrect, ContinuationIsUnique, ShapeInvariant, PTL DEF Spec

-----------------------------------------------------------------------------
(* A suspended fiber has something to wait for.                            *)

Suspended(f) == loop[f] = "idle" /\ ~Done(f) => Uncalled(f) # {} \/ Resumes(f) # {}

SuspendedInv == \A f \in Fibers : Suspended(f)

LEMMA RestingSuspended ==
    ASSUME TypeOK, OneContinuation, [Next]_vars, NEW h \in Fibers, Resting(h), Suspended(h)
    PROVE  Suspended(h)'
<1> SUFFICES ASSUME loop'[h] = "idle", ~Done(h)'
             PROVE  Uncalled(h)' # {} \/ Resumes(h)' # {}
  BY DEF Suspended
<1>1. loop[h] = "idle" /\ ~Done(h) /\ asyncs'[h] = asyncs[h]
  BY DEF Resting, Done
<1>2. ASSUME NEW m \in Resumes(h)
      PROVE  m \in Resumes(h)'
  <2>1. m \in Contents(queue[h]) /\ m.tag = "Resume"
    BY <1>2 DEF Resumes
  <2>2. CASE m \in Contents(queue'[h])
    BY <2>1, <2>2 DEF Resumes
  <2>3. CASE Polls(h) /\ queue[h] # <<>> /\ Head(queue[h]) = m
    <3>1. HandleResume(h)
      BY <2>1, <2>3, PolledFirst
    <3>2. loop'[h] = "running"
      BY <3>1 DEF HandleResume, TypeOK
    <3> QED
      BY <3>2
  <2> QED
    BY <2>1, <2>2, <2>3, MessageStays
<1>3. CASE Uncalled(h) # {}
  <2>1. \A i, j \in Uncalled(h) : i = j
    BY DEF OneContinuation, Continuation
  <2> QED
    BY <1>1, <1>3, <2>1, CallsResume
<1> QED
  BY <1>1, <1>2, <1>3 DEF Suspended

(* A resumption appended to an inbox is there. *)
LEMMA ResumeSent ==
    ASSUME NEW q \in [Fibers -> Seq(Messages)], NEW h \in Fibers, NEW e \in {"next", "ok", "fail"},
           NEW to, h \in to, queue' = Offered(q, to, Resume(e))
    PROVE  Resumes(h)' # {}
<1>1. queue'[h] = Append(q[h], Resume(e)) /\ q[h] \in Seq(Messages)
  BY DEF Offered
<1>2. Resume(e) \in Messages /\ Resume(e).tag = "Resume"
  BY MessageTypes, Tags
<1>3. Resume(e) \in Contents(queue'[h])
  BY <1>1, <1>2, ContentsAppend
<1>4. Resume(e) \in Resumes(h)'
  BY <1>2, <1>3 DEF Resumes
<1> QED
  BY <1>4

LEMMA ActingSuspended ==
    ASSUME TypeOK, TypeOK', OneContinuation, OneContinuation', [Next]_vars, NEW h \in Fibers,
           Shape(h),
           HandleResume(h) \/ RunInterrupt(h) \/ Evaluate(h) \/ Unwind(h) \/ WindDown(h)
    PROVE  Suspended(h)'
<1> DEFINE n == asyncs[h]
<1>a. n \in Nat /\ called[h] \subseteq 1 .. n
  BY FlagTypes DEF Shape
<1>b. ASSUME asyncs'[h] = n + 1, called'[h] = called[h]
      PROVE  Uncalled(h)' # {}
  <2> HIDE DEF n
  <2>1. n + 1 \in 1 .. n + 1 /\ n + 1 \notin 1 .. n
    BY <1>a
  <2>2. n + 1 \in Uncalled(h)'
    BY <1>a, <1>b, <2>1 DEF Uncalled
  <2> QED
    BY <2>2
<1>c. queue \in [Fibers -> Seq(Messages)]
  BY DEF TypeOK
<1>1. ASSUME loop'[h] = "running" \/ Resumes(h)' # {} \/ Uncalled(h)' # {} \/ Done(h)'
      PROVE  Suspended(h)'
  BY <1>1 DEF Suspended
<1>2. CASE HandleResume(h)
  BY <1>1, <1>2 DEF HandleResume, TypeOK
<1>3. CASE RunInterrupt(h) \/ WindDownChildren(h)
  BY <1>1, <1>3 DEF RunInterrupt, WindDownChildren, LoopReturn
<1>4. CASE \/ (\E c \in Fibers : \E p \in Scopes[h] : Fork(h, c, p))
           \/ (\E g \in Fibers : InterruptFiber(h, g)) \/ (\E b \in BOOLEAN : Region(h, b))
           \/ CatchAll(h) \/ Fail(h) \/ Return(h)
  <2>1. ASSUME NEW c \in Fibers, NEW p \in Scopes[h], Fork(h, c, p)
        PROVE  loop'[h] = "running"
    BY <2>1 DEF Fork, Primitive, Evaluates, Born, Turn, TypeOK
  <2>2. ASSUME NEW g \in Fibers, InterruptFiber(h, g)
        PROVE  loop'[h] = "running"
    BY <2>2 DEF InterruptFiber, Primitive, Evaluates, Turn
  <2>3. ASSUME NEW b \in BOOLEAN, Region(h, b)
        PROVE  loop'[h] = "running"
    BY <2>3 DEF Region, Primitive, Evaluates, Turn
  <2>4. CatchAll(h) \/ Fail(h) \/ Return(h) => loop'[h] = "running"
    BY DEF CatchAll, Fail, Return, Primitive, Evaluates, Turn
  <2> QED
    BY <1>1, <1>4, <2>1, <2>2, <2>3, <2>4
<1>5. CASE OnSuccess(h) \/ OnFailure(h) \/ RevertFlags(h) \/ AwaitExit(h) \/ ChildrenDone(h)
  <2>1. loop'[h] = "running"
    BY <1>5 DEF OnSuccess, OnFailure, RevertFlags, AwaitExit, ChildrenDone, Reverted, Unwinding,
                Turn, unwindFrame
  <2> QED
    BY <1>1, <2>1
<1>6. CASE Async(h)
  <2>1. asyncs'[h] = n + 1
    BY <1>6 DEF Async, TypeOK
  <2>2. called'[h] = called[h] \/ queue' = Offered(queue, {h}, Resume("ok"))
    BY <1>6 DEF Async, Tell
  <2> QED
    BY <1>1, <1>b, <1>c, <2>1, <2>2, ResumeSent
<1>7. ASSUME NEW g, NEW base, SuspendOn(h, g, base)
      PROVE  Suspended(h)'
  <2>1. asyncs'[h] = n + 1 /\ called'[h] = called[h]
    BY <1>7 DEF SuspendOn, TypeOK
  <2> QED
    BY <1>1, <1>b, <2>1
<1>8. CASE (\E g \in Fibers : Await(h, g)) \/ ChildrenNext(h)
  BY <1>7, <1>8 DEF Await, ChildrenNext
<1>9. CASE Yield(h)
  <2> DEFINE q == Offered(queue, {h}, YieldNow)
  <2>1. queue' = Offered(q, {h}, Resume("ok"))
    BY <1>9 DEF Yield
  <2>2. q \in [Fibers -> Seq(Messages)]
    BY <1>c, OfferedType, MessageTypes
  <2> HIDE DEF q
  <2> QED
    BY <1>1, <2>1, <2>2, ResumeSent
<1>10. CASE WindDownMessages(h)
  <2>1. queue' = Offered(queue, {h}, Resume(cur[h])) /\ cur[h] \in {"next", "ok", "fail"}
    BY <1>10 DEF WindDownMessages, Tell, TypeOK
  <2> QED
    BY <1>1, <1>c, <2>1, ResumeSent
<1>11. CASE SetExitValue(h)
  <2>1. exitValue' = [exitValue EXCEPT ![h] = cur[h]] /\ cur[h] # None
    BY <1>11 DEF SetExitValue, LoopReturn, Results, None
  <2>2. Done(h)'
    BY <2>1 DEF Done, TypeOK
  <2> QED
    BY <1>1, <2>2
<1> QED
  BY <1>2, <1>3, <1>4, <1>5, <1>6, <1>8, <1>9, <1>10, <1>11 DEF Evaluate, Unwind, WindDown

LEMMA SuspendedInvariant == Spec => []SuspendedInv
<1>1. Init => SuspendedInv
  BY DEF Init, SuspendedInv, Suspended
<1>2. TypeOK /\ TypeOK' /\ OneContinuation /\ OneContinuation' /\ ShapeInv /\ SuspendedInv
          /\ [Next]_vars
      => SuspendedInv'
  <2> SUFFICES ASSUME TypeOK, TypeOK', OneContinuation, OneContinuation', ShapeInv, SuspendedInv,
                      [Next]_vars, NEW h \in Fibers
               PROVE  Suspended(h)'
    BY DEF SuspendedInv
  <2>1. Shape(h) /\ Suspended(h)
    BY DEF ShapeInv, SuspendedInv
  <2>2. CASE Resting(h)
    BY <2>1, <2>2, RestingSuspended
  <2>3. CASE HandleResume(h) \/ RunInterrupt(h) \/ Evaluate(h) \/ Unwind(h) \/ WindDown(h)
    BY <2>1, <2>3, ActingSuspended
  <2>4. CASE h = Root /\ Start
    BY <2>4 DEF Start, Suspended, TypeOK
  <2>5. ASSUME NEW f \in Fibers, NEW p \in Scopes[f], Fork(f, h, p)
        PROVE  Suspended(h)'
    <3> DEFINE q == Offered(queue, {p} \ {NoFiber}, AddChild(h))
    <3>1. queue' = Offered(q, {h}, Resume("next"))
      BY <2>5 DEF Fork
    <3>2. q \in [Fibers -> Seq(Messages)]
      BY OfferedType, MessageTypes DEF TypeOK
    <3> HIDE DEF q
    <3>3. Resumes(h)' # {}
      BY <3>1, <3>2, ResumeSent
    <3> QED
      BY <3>3 DEF Suspended
  <2> QED
    BY <2>2, <2>3, <2>4, <2>5, StepsOfFibers
<1> QED
  BY <1>1, <1>2, TypeCorrect, ContinuationIsUnique, ShapeInvariant, PTL DEF Spec
-----------------------------------------------------------------------------
(* What a suspended fiber waits for will call its callback.                *)

(* g will call callback n of f when it is done. *)
Observing(g, f, n) ==
    \/ AddObserver(f, n) \in Contents(queue[g])
    \/ AwaitObserver(f, n) \in observers[g] /\ ~Done(g)

Expected(f) ==
    \/ asyncs[f] \in external[f] /\ AwaitFree(stack[f])
    \/ OnAwait(f) /\ Top(f).cb = asyncs[f] /\ Observing(Top(f).on, f, asyncs[f])

(* An interrupt will call it, too, where the fiber is interruptible. *)
Alert(f) == Interruptible(f) => ~interrupted[f] /\ asyncInterruptor[f] = asyncs[f]

Pends(f) == loop[f] = "idle" /\ Uncalled(f) # {} => Expected(f) /\ Alert(f)

PendsInv == \A f \in Fibers : Pends(f)

LEMMA ObservingStays ==
    ASSUME TypeOK, [Next]_vars, NEW f \in Fibers, NEW g \in Fibers, NEW n \in Uncalled(f),
           Cancels(f), Observing(g, f, n)
    PROVE  Observing(g, f, n)' \/ n \in called'[f]
<1> DEFINE a == AddObserver(f, n)
           o == AwaitObserver(f, n)
<1>a. n \in 1 .. asyncs[f] /\ n \notin called[f] /\ n \in Nat
  BY FlagTypes DEF Uncalled
<1>b. a.tag = "AddObserver" /\ a.who = f /\ a.cb = n /\ o.kind = "await" /\ o.who = f /\ o.cb = n
  BY DEF AddObserver, AwaitObserver
<1>c. ASSUME NEW cbs, <<f, n>> \in cbs, called' = Called(cbs)
      PROVE  n \in called'[f]
  BY <1>a, <1>c DEF Called
<1>1. CASE a \in Contents(queue[g])
  <2>1. CASE a \in Contents(queue'[g])
    BY <2>1 DEF Observing
  <2>2. CASE Polls(g) /\ queue[g] # <<>> /\ Head(queue[g]) = a
    <3>1. HandleAddObserver(g)
      BY <1>b, <2>2, PolledFirst
    <3>2. CASE called' = Called({<<Head(queue[g]).who, Head(queue[g]).cb>>})
      BY <1>b, <1>c, <2>2, <3>2
    <3>3. CASE ~Done(g) /\ observers' = [observers EXCEPT ![g] =
                                  @ \cup {AwaitObserver(Head(queue[g]).who, Head(queue[g]).cb)}]
      <4>1. o \in observers'[g]
        BY <1>b, <2>2, <3>3 DEF TypeOK
      <4>2. ~Done(g)'
        BY <3>1, <3>3 DEF HandleAddObserver, Done
      <4> QED
        BY <4>1, <4>2 DEF Observing
    <3> QED
      BY <3>1, <3>2, <3>3 DEF HandleAddObserver
  <2> QED
    BY <1>1, <2>1, <2>2, MessageStays
<1>2. CASE o \in observers[g] /\ ~Done(g)
  <2>1. ASSUME HandleRemoveObserver(g), o = AwaitObserver(Head(queue[g]).who, Head(queue[g]).cb)
        PROVE  FALSE
    <3> DEFINE m == Head(queue[g])
    <3>1. queue[g] # <<>> /\ m.tag = "RemoveObserver"
      BY <2>1 DEF HandleRemoveObserver, Handling, Receives
    <3>2. m \in Messages /\ m \in Contents(queue[g])
      BY <3>1, PolledType, PolledContents
    <3>3. m.who = f /\ m.cb = n
      BY <1>b, <2>1 DEF AwaitObserver
    <3> HIDE DEF m
    <3>4. m \in [tag: {"AddObserver", "RemoveObserver"}, who: Fibers, cb: Nat]
      BY <3>1, <3>2 DEF Messages, Interrupt, YieldNow
    <3>5. m = RemoveObserver(f, n)
      BY <3>1, <3>3, <3>4 DEF RemoveObserver
    <3> QED
      BY <1>a, <3>2, <3>5 DEF Cancels
  <2> HIDE DEF o
  <2>2. o \in observers'[g]
    BY <1>2, <1>b, <2>1, ObserverSteps
  <2>3. CASE Done(g)'
    <3>1. SetExitValue(g)
      BY <1>2, <2>3, DoneKept
    <3>2. called' = Called(AwaitingCallbacks(g))
      BY <3>1 DEF SetExitValue
    <3>3. <<f, n>> \in AwaitingCallbacks(g)
      BY <1>2, <1>b DEF AwaitingCallbacks
    <3> QED
      BY <1>c, <3>2, <3>3
  <2> QED
    BY <2>2, <2>3 DEF Observing, o
<1> QED
  BY <1>1, <1>2 DEF Observing

LEMMA RestingPends ==
    ASSUME TypeOK, OneContinuation, [Next]_vars, NEW h \in Fibers, Resting(h),
           Cancels(h), Pends(h)
    PROVE  Pends(h)'
<1> DEFINE n == asyncs[h]
<1> SUFFICES ASSUME loop'[h] = "idle", Uncalled(h)' # {}
             PROVE  Expected(h)' /\ Alert(h)'
  BY DEF Pends
<1>1. /\ loop[h] = "idle" /\ asyncs'[h] = n /\ stack'[h] = stack[h]
      /\ external'[h] = external[h]
  BY DEF Resting
<1>2. Uncalled(h)' \subseteq Uncalled(h) /\ Uncalled(h) \subseteq {n}
  BY <1>1, CalledStays DEF Uncalled, OneContinuation, Continuation
<1>3. n \in Uncalled(h) /\ n \in Uncalled(h)'
  BY <1>2
<1>4. n \notin called'[h]
  BY <1>1, <1>3 DEF Uncalled
<1>5. Expected(h) /\ Alert(h)
  BY <1>1, <1>3 DEF Pends
<1>6. Expected(h)'
  <2>1. CASE n \in external[h] /\ AwaitFree(stack[h])
    BY <1>1, <2>1 DEF Expected
  <2>2. CASE OnAwait(h) /\ Top(h).cb = n /\ Observing(Top(h).on, h, n)
    <3>1. OnAwait(h)' /\ Top(h)' = Top(h)
      BY <1>1, <2>2 DEF OnAwait, Top
    <3>2. Top(h).on \in Fibers
      BY <2>2, StackParts, FrameParts DEF OnAwait
    <3>3. ASSUME NEW g \in Fibers, g = Top(h).on, NEW i, i = n
          PROVE  Observing(g, h, i)'
      <4>1. Observing(g, h, i) /\ i \in Uncalled(h) /\ i \notin called'[h]
        BY <1>3, <1>4, <2>2, <3>3
      <4> HIDE DEF n
      <4> QED
        BY <4>1, ObservingStays
    <3>4. AddObserver(h, n) \in Contents(queue'[Top(h).on])
          \/ (AwaitObserver(h, n) \in observers'[Top(h).on] /\ exitValue'[Top(h).on] = None)
      BY <3>2, <3>3 DEF Observing, Done
    <3> QED
      BY <1>1, <2>2, <3>1, <3>4 DEF Expected, Observing, Done
  <2> QED
    BY <1>5, <2>1, <2>2 DEF Expected
<1>7. Alert(h)'
  <2>1. flag'[h] = flag[h] /\ windDown'[h] = windDown[h]
    BY <1>1, SignalSteps
  <2>2. CASE interrupted'[h] = interrupted[h] /\ asyncInterruptor'[h] = asyncInterruptor[h]
    BY <1>1, <1>5, <2>1, <2>2 DEF Alert, Interruptible
  <2>3. CASE HandleInterrupt(h)
    <3>1. called' = Called({<<h, asyncInterruptor[h]>>})
      BY <2>3 DEF HandleInterrupt, Interruptor
    <3>2. asyncInterruptor[h] # n
      BY <1>3, <1>4, <3>1 DEF Called, Uncalled
    <3>3. ~Interruptible(h)
      BY <1>5, <3>2 DEF Alert
    <3> QED
      BY <2>1, <3>3 DEF Alert, Interruptible
  <2> QED
    BY <1>1, <2>2, <2>3, SignalSteps
<1> QED
  BY <1>6, <1>7

LEMMA ActingPends ==
    ASSUME TypeOK, OneContinuation, InterruptedMakesNoProgress, [Next]_vars, NEW h \in Fibers,
           Shape(h),
           HandleResume(h) \/ RunInterrupt(h) \/ Evaluate(h) \/ Unwind(h) \/ WindDown(h)
    PROVE  Pends(h)'
<1> DEFINE n == asyncs[h]
<1>a. loop[h] = "running" /\ cur[h] # "fail" /\ Interruptible(h) => ~interrupted[h]
  <2>1. loop[h] = "running" /\ Interrupting(h) => cur[h] = "fail"
    BY DEF InterruptedMakesNoProgress
  <2> QED
    BY <2>1 DEF Interrupting
<1>b. ASSUME asyncs'[h] = n, loop[h] # "idle"
      PROVE  Pends(h)'
  <2>1. Uncalled(h) = {}
    BY <1>b, RunningAlone
  <2>2. Uncalled(h)' = {}
    BY <1>b, <2>1, CalledStays DEF Uncalled
  <2> QED
    BY <2>2 DEF Pends
<1>c. ASSUME asyncInterruptor'[h] = (IF Interruptible(h) THEN n + 1 ELSE asyncInterruptor[h]),
             asyncs'[h] = n + 1, UNCHANGED <<flag, windDown, interrupted>>,
             loop[h] = "running", cur[h] # "fail"
      PROVE  Alert(h)'
  BY <1>a, <1>c DEF Alert, Interruptible
<1>1. CASE HandleResume(h)
  <2>1. loop'[h] = "running"
    BY <1>1 DEF HandleResume, TypeOK
  <2> QED
    BY <2>1 DEF Pends
<1>2. CASE RunInterrupt(h) \/ WindDown(h)
  <2>1. asyncs'[h] = n /\ loop[h] = "running"
    BY <1>2 DEF RunInterrupt, WindDown, WindDownChildren, WindDownMessages, SetExitValue,
                LoopReturn, asyncVars
  <2> QED
    BY <1>b, <2>1
<1>3. CASE \/ \E c \in Fibers : \E p \in Scopes[h] : Fork(h, c, p)
           \/ (\E g \in Fibers : InterruptFiber(h, g)) \/ (\E b \in BOOLEAN : Region(h, b))
           \/ Yield(h) \/ CatchAll(h) \/ Fail(h) \/ Return(h)
  <2>1. asyncs'[h] = n /\ loop[h] = "running"
    BY <1>3 DEF Fork, InterruptFiber, Region, Yield, CatchAll, Fail, Return, Primitive, Evaluates,
                Turn, asyncVars
  <2> QED
    BY <1>b, <2>1
<1>4. CASE OnSuccess(h) \/ OnFailure(h) \/ RevertFlags(h) \/ AwaitExit(h) \/ ChildrenDone(h)
  <2>1. asyncs'[h] = n /\ loop[h] = "running"
    BY <1>4 DEF OnSuccess, OnFailure, RevertFlags, AwaitExit, ChildrenDone, Reverted, Unwinding,
                Turn, unwindFrame, asyncVars
  <2> QED
    BY <1>b, <2>1
<1>5. CASE Async(h)
  <2> DEFINE k == Then("next")
  <2>1. /\ cur[h] = "next" /\ loop[h] = "running" /\ asyncs'[h] = n + 1
        /\ stack'[h] = Append(stack[h], k) /\ external'[h] = external[h] \cup {n + 1}
    BY <1>5 DEF Async, Primitive, Evaluates, Turn, TypeOK
  <2>2. k \in Frames /\ k.k # "Await"
    BY FrameTypes DEF Then
  <2>3. AwaitFree(stack[h]) /\ Above(stack[h]) /\ stack[h] \in Seq(Frames)
    BY <2>1 DEF Shape, TypeOK
  <2> HIDE DEF k
  <2>4. AwaitFree(stack'[h])
    BY <2>1, <2>2, <2>3, AboveAppend
  <2>5. Expected(h)'
    BY <2>1, <2>4 DEF Expected
  <2>6. /\ asyncInterruptor'[h] = (IF Interruptible(h) THEN n + 1 ELSE asyncInterruptor[h])
        /\ UNCHANGED <<flag, windDown, interrupted>>
    BY <1>5 DEF Async, signalVars, TypeOK
  <2>7. Alert(h)'
    BY <1>c, <2>1, <2>6
  <2> QED
    BY <2>5, <2>7 DEF Pends
<1>6. ASSUME NEW g \in Fibers, NEW base \in Seq(Frames), SuspendOn(h, g, base),
             loop[h] = "running", cur[h] # "fail"
      PROVE  Pends(h)'
  <2> DEFINE k == Awaiting(flag[h], g, n + 1)
             a == AddObserver(h, n + 1)
  <2>1. /\ asyncs'[h] = n + 1 /\ stack'[h] = Append(base, k)
        /\ queue' = Offered(queue, {g}, a)
    BY <1>6 DEF SuspendOn, Tell, TypeOK
  <2>2. k \in Frames /\ k.k = "Await" /\ k.on = g /\ k.cb = n + 1 /\ a \in Messages
    <3>1. k \in Frames
      BY FlagTypes, FrameTypes
    <3>2. a \in Messages
      BY FlagTypes, MessageTypes
    <3> QED
      BY <3>1, <3>2 DEF Awaiting
  <2>3. queue[g] \in Seq(Messages) /\ g \in {g}
    BY DEF TypeOK
  <2> HIDE DEF k, a
  <2>4. queue'[g] = Append(queue[g], a)
    BY <2>1, <2>3 DEF Offered
  <2>5. a \in Contents(queue'[g])
    BY <2>2, <2>3, <2>4, ContentsAppend
  <2>6. OnAwait(h)' /\ Top(h)' = k
    <3>1. Append(base, k) # <<>> /\ Append(base, k)[Len(Append(base, k))] = k
      BY <2>2, AppendLast
    <3> QED
      BY <2>1, <2>2, <3>1 DEF OnAwait, Top
  <2>7. Expected(h)'
    BY <2>1, <2>2, <2>5, <2>6 DEF Expected, Observing, a
  <2>8. /\ asyncInterruptor'[h] = (IF Interruptible(h) THEN n + 1 ELSE asyncInterruptor[h])
        /\ UNCHANGED <<flag, windDown, interrupted>>
    BY <1>6 DEF SuspendOn, signalVars, TypeOK
  <2>9. Alert(h)'
    BY <1>6, <1>c, <2>1, <2>8
  <2> QED
    BY <2>7, <2>9 DEF Pends
<1>7. ASSUME NEW g \in Fibers, Await(h, g)
      PROVE  Pends(h)'
  <2>1. /\ cur[h] = "next" /\ loop[h] = "running"
        /\ SuspendOn(h, g, Append(stack[h], Then("next")))
    BY <1>7 DEF Await, Primitive, Evaluates, Turn
  <2>2. Then("next") \in Frames /\ stack[h] \in Seq(Frames)
    BY FrameTypes DEF TypeOK
  <2>3. Append(stack[h], Then("next")) \in Seq(Frames)
    BY <2>2, AppendLast
  <2> QED
    BY <1>6, <2>1, <2>3
<1>8. CASE ChildrenNext(h)
  <2>1. loop[h] = "running" /\ cur[h] = "ok" /\ stack[h] # <<>> /\ Top(h).k = "Children"
        /\ Top(h) \in Frames /\ Pop(h) \in Seq(Frames)
    BY <1>8, StackParts DEF ChildrenNext, Unwinding, Turn
  <2>2. PICK c \in Top(h).rest :
             SuspendOn(h, c, Append(Pop(h), Children(Top(h).rest \ {c}, Top(h).exit)))
    BY <1>8 DEF ChildrenNext
  <2> DEFINE k == Children(Top(h).rest \ {c}, Top(h).exit)
  <2>3. c \in Fibers /\ k \in Frames
    <3>1. Top(h).rest \in SUBSET Fibers /\ Top(h).exit \in Results
      BY <2>1, FrameParts
    <3>2. Top(h).rest \ {c} \in SUBSET Fibers
      BY <3>1
    <3> QED
      BY <2>2, <3>1, <3>2, FrameTypes
  <2>4. SuspendOn(h, c, Append(Pop(h), k))
    BY <2>2
  <2> HIDE DEF k
  <2>5. Append(Pop(h), k) \in Seq(Frames)
    BY <2>1, <2>3, AppendLast
  <2> QED
    BY <1>6, <2>1, <2>3, <2>4, <2>5
<1> QED
  BY <1>1, <1>2, <1>3, <1>4, <1>5, <1>7, <1>8 DEF Evaluate, Unwind

LEMMA PendsInvariant == Spec => []PendsInv
<1>1. Init => PendsInv
  BY DEF Init, PendsInv, Pends
<1>2. TypeOK /\ OneContinuation /\ InterruptedMakesNoProgress /\ ShapeInv /\ CancelInv /\ PendsInv
          /\ [Next]_vars
      => PendsInv'
  <2> SUFFICES ASSUME TypeOK, OneContinuation, InterruptedMakesNoProgress, ShapeInv, CancelInv,
                      PendsInv, [Next]_vars, NEW h \in Fibers
               PROVE  Pends(h)'
    BY DEF PendsInv
  <2>1. Shape(h) /\ Cancels(h) /\ Pends(h)
    BY DEF ShapeInv, CancelInv, PendsInv
  <2>2. CASE Resting(h)
    BY <2>1, <2>2, RestingPends
  <2>3. CASE HandleResume(h) \/ RunInterrupt(h) \/ Evaluate(h) \/ Unwind(h) \/ WindDown(h)
    BY <2>1, <2>3, ActingPends
  <2>4. CASE h = Root /\ Start
    BY <2>4 DEF Start, Pends, TypeOK
  <2>5. ASSUME NEW f \in Fibers, NEW p \in Scopes[f], Fork(f, h, p)
        PROVE  Pends(h)'
    <3>1. Uncalled(h) = {} /\ UNCHANGED <<asyncs, called>>
      BY <2>5, RunningAlone DEF Fork, Born, asyncVars
    <3>2. Uncalled(h)' = {}
      BY <3>1 DEF Uncalled
    <3> QED
      BY <3>2 DEF Pends
  <2> QED
    BY <2>2, <2>3, <2>4, <2>5, StepsOfFibers
<1> QED
  BY <1>1, <1>2, TypeCorrect, ContinuationIsUnique, InterruptionFirst, ShapeInvariant,
     CancelInvariant, PTL DEF Spec
-----------------------------------------------------------------------------
(* Awaits that ended leave no observers.                                   *)

(* Whatever registers callback n of f with g comes before what removes it. *)
Withdrawn(f, g, n) ==
    /\ AwaitObserver(f, n) \in observers[g] => RemoveObserver(f, n) \in Contents(queue[g])
    /\ Order(queue[g], AddObserver(f, n), RemoveObserver(f, n))

Stale(f, g, n) == Done(g) \/ Holds(stack[f], g, n) \/ Withdrawn(f, g, n)

StaleInv == \A f, g \in Fibers, n \in Nat : Stale(f, g, n)

(* The await is on the stack until it returns. *)
LEMMA HoldsStays ==
    ASSUME TypeOK, [Next]_vars, NEW h \in Fibers, NEW g, NEW n, Holds(stack[h], g, n)
    PROVE  Holds(stack'[h], g, n) \/ (AwaitExit(h) /\ IsAwait(Top(h), g, n))
<1> DEFINE s == stack[h]
<1>a. s \in Seq(Frames) /\ s # <<>>
  BY DEF Holds, TypeOK
<1>b. ASSUME NEW k \in Frames, stack'[h] = Append(s, k)
      PROVE  Holds(stack'[h], g, n)
  <2> HIDE DEF s
  <2>1. Holds(s, g, n)
    BY DEF s
  <2> QED
    BY <1>a, <1>b, <2>1, HoldsAppend
<1>1. CASE stack'[h] = s
  BY <1>1
<1>2. CASE HandleResume(h) \/ RunInterrupt(h)
  BY <1>1, <1>2 DEF HandleResume, RunInterrupt
<1>3. CASE \/ \E c \in Fibers : \E p \in Scopes[h] : Fork(h, c, p)
           \/ (\E k \in Fibers : InterruptFiber(h, k)) \/ Fail(h) \/ Return(h)
  BY <1>1, <1>3 DEF Fork, InterruptFiber, Fail, Return
<1>4. ASSUME NEW b \in BOOLEAN, Region(h, b) \/ CatchAll(h)
      PROVE  Holds(stack'[h], g, n)
  <2> DEFINE k == Then("next")
  <2>1. stack'[h] \in {s, s \o <<k, Revert(flag[h])>>, s \o <<k, Catch>>}
    BY <1>4 DEF Region, CatchAll, TypeOK
  <2>2. k \in Frames /\ Revert(flag[h]) \in Frames /\ Catch \in Frames
    BY FrameTypes, FlagTypes
  <2> HIDE DEF k, s
  <2>3. ASSUME NEW l \in Frames, stack'[h] = s \o <<k, l>>
        PROVE  Holds(stack'[h], g, n)
    <3>1. s \o <<k, l>> = Append(Append(s, k), l) /\ Append(s, k) \in Seq(Frames)
      BY <1>a, <2>2
    <3>2. Holds(Append(s, k), g, n)
      BY <1>a, <2>2, HoldsAppend DEF s
    <3>3. Holds(Append(Append(s, k), l), g, n)
      BY <2>3, <3>1, <3>2, HoldsAppend
    <3> QED
      BY <2>3, <3>1, <3>3
  <2>4. CASE stack'[h] = s
    BY <2>4 DEF s
  <2> QED
    BY <2>1, <2>2, <2>3, <2>4
<1>5. CASE Async(h) \/ Yield(h)
  <2>1. stack'[h] = Append(s, Then("next")) \/ stack'[h] = Append(s, Then(cur[h]))
    <3>1. CASE Async(h)
      BY <3>1 DEF Async, TypeOK
    <3>2. CASE Yield(h)
      BY <3>2 DEF Yield, TypeOK
    <3> QED
      BY <1>5, <3>1, <3>2
  <2>2. cur[h] \in {"next", "ok", "fail"}
    BY DEF TypeOK
  <2>3. Then("next") \in Frames /\ Then(cur[h]) \in Frames
    BY <2>2, FrameTypes
  <2> QED
    BY <1>b, <2>1, <2>3
<1>6. ASSUME NEW k \in Fibers, NEW base \in Seq(Frames), SuspendOn(h, k, base), Holds(base, g, n)
      PROVE  Holds(stack'[h], g, n)
  <2> DEFINE l == Awaiting(flag[h], k, asyncs[h] + 1)
  <2>1. l \in Frames /\ stack'[h] = Append(base, l)
    BY <1>6, FlagTypes, FrameTypes DEF SuspendOn, TypeOK
  <2> HIDE DEF l
  <2> QED
    BY <1>6, <2>1, HoldsAppend
<1>7. ASSUME NEW k \in Fibers, Await(h, k)
      PROVE  Holds(stack'[h], g, n)
  <2>1. Then("next") \in Frames /\ SuspendOn(h, k, Append(s, Then("next")))
    BY <1>7, FrameTypes DEF Await
  <2> HIDE DEF s
  <2>2. Append(s, Then("next")) \in Seq(Frames) /\ Holds(Append(s, Then("next")), g, n)
    BY <1>a, <2>1, HoldsAppend DEF s
  <2> QED
    BY <1>6, <2>1, <2>2
<1>8. CASE OnSuccess(h) \/ OnFailure(h) \/ RevertFlags(h) \/ AwaitExit(h) \/ ChildrenDone(h)
  <2>1. stack'[h] = Pop(h) /\ (Top(h).k = "Await" => AwaitExit(h))
    BY <1>8 DEF OnSuccess, OnFailure, RevertFlags, AwaitExit, ChildrenDone, Reverted, Unwinding,
                TypeOK
  <2> QED
    BY <1>a, <2>1, HoldsPop DEF IsAwait
<1>9. CASE ChildrenNext(h)
  <2>1. stack[h] # <<>> /\ Top(h).k = "Children" /\ Top(h) \in Frames /\ Pop(h) \in Seq(Frames)
    BY <1>9, StackParts DEF ChildrenNext, Unwinding, Turn
  <2>2. PICK c \in Top(h).rest :
             SuspendOn(h, c, Append(Pop(h), Children(Top(h).rest \ {c}, Top(h).exit)))
    BY <1>9 DEF ChildrenNext
  <2> DEFINE k == Children(Top(h).rest \ {c}, Top(h).exit)
  <2>3. c \in Fibers /\ k \in Frames
    <3>1. Top(h).rest \in SUBSET Fibers /\ Top(h).exit \in Results
      BY <2>1, FrameParts
    <3>2. Top(h).rest \ {c} \in SUBSET Fibers
      BY <3>1
    <3> QED
      BY <2>2, <3>1, <3>2, FrameTypes
  <2>4. SuspendOn(h, c, Append(Pop(h), k))
    BY <2>2
  <2> HIDE DEF k
  <2>5. Holds(Pop(h), g, n)
    BY <2>1, HoldsPop DEF IsAwait
  <2>6. Append(Pop(h), k) \in Seq(Frames) /\ Holds(Append(Pop(h), k), g, n)
    BY <2>1, <2>3, <2>5, HoldsAppend
  <2> QED
    BY <1>6, <2>3, <2>4, <2>6
<1>10. CASE WindDown(h)
  <2>1. stack[h] = <<>>
    BY <1>10 DEF WindDown, WindDownChildren, WindDownMessages, SetExitValue, LoopReturn
  <2> QED
    BY <1>a, <2>1
<1>11. CASE Resting(h)
  BY <1>1, <1>11 DEF Resting
<1>12. CASE Start
  BY <1>1, <1>12 DEF Start
<1>13. ASSUME NEW f \in Fibers, NEW p \in Scopes[f], Fork(f, h, p)
       PROVE  Holds(stack'[h], g, n)
  BY <1>1, <1>13 DEF Fork
<1> QED
  BY <1>2, <1>3, <1>4, <1>5, <1>7, <1>8, <1>9, <1>10, <1>11, <1>12, <1>13, StepsOfFibers
     DEF Evaluate, Unwind

(* An await that is interrupted removes its observer. *)
LEMMA AwaitLeaves ==
    ASSUME TypeOK, AwaitInv, NEW f \in Fibers, NEW g \in Fibers, NEW n \in Nat,
           AwaitExit(f), IsAwait(Top(f), g, n)
    PROVE  Done(g) \/ Withdrawn(f, g, n)'
<1> DEFINE x == RemoveObserver(f, n)
           a == AddObserver(f, n)
<1>1. CASE Unwinding(f, "ok", "Await")
  <2>1. loop[f] = "running" /\ cur[f] = "ok" /\ stack[f] # <<>> /\ Top(f).k = "Await" /\ Top(f).on = g
    BY <1>1 DEF Unwinding, Turn, IsAwait
  <2> QED
    BY <2>1 DEF AwaitInv, Awaits, Comes, Returns, DoneFibers, Top
<1>2. CASE Unwinding(f, "fail", "Await") /\ Tell(queue, {Top(f).on}, RemoveObserver(f, Top(f).cb))
  <2>1. queue' = Offered(queue, {g}, x)
    BY <1>2 DEF Tell, IsAwait
  <2>2. x \in Messages /\ a \in Messages /\ x # a
    BY MessageTypes DEF AddObserver, RemoveObserver
  <2>3. queue[g] \in Seq(Messages) /\ g \in {g}
    BY DEF TypeOK
  <2> HIDE DEF x, a
  <2>4. queue'[g] = Append(queue[g], x)
    BY <2>1, <2>3 DEF Offered
  <2>5. x \in Contents(queue'[g])
    BY <2>2, <2>3, <2>4, ContentsAppend
  <2>6. Order(queue'[g], a, x)
    BY <2>2, <2>3, <2>4, OrderAppend
  <2> QED
    BY <2>5, <2>6 DEF Withdrawn, x, a
<1> QED
  BY <1>1, <1>2 DEF AwaitExit

LEMMA WithdrawnStays ==
    ASSUME TypeOK, TypeOK', [Next]_vars, NEW f \in Fibers, NEW g \in Fibers, NEW n \in Nat,
           Withdrawn(f, g, n)
    PROVE  Withdrawn(f, g, n)' \/ Holds(stack'[f], g, n)
<1> DEFINE x == RemoveObserver(f, n)
           a == AddObserver(f, n)
           o == AwaitObserver(f, n)
<1>a. /\ x.tag = "RemoveObserver" /\ x.who = f /\ x.cb = n
      /\ a.tag = "AddObserver" /\ o.kind = "await" /\ o.who = f /\ o.cb = n
  BY DEF AddObserver, RemoveObserver, AwaitObserver
<1>1. CASE Sent(g, a)
  <2>1. PICK base : SuspendOn(f, g, base)
    BY <1>1, SentRegistration
  <2>2. n = asyncs[f] + 1
    BY <1>1, SentRegistration
  <2> DEFINE k == Awaiting(flag[f], g, n)
  <2>3. stack'[f] = Append(base, k) /\ IsAwait(k, g, n)
    BY <2>1, <2>2 DEF SuspendOn, TypeOK, IsAwait, Awaiting
  <2> HIDE DEF k
  <2>4. Len(stack'[f]) \in 1 .. Len(stack'[f]) /\ stack'[f][Len(stack'[f])] = k
    <3>1. Len(Append(base, k)) = Len(base) + 1 /\ Append(base, k)[Len(base) + 1] = k
      OBVIOUS
    <3> QED
      BY <2>3, <3>1 DEF TypeOK
  <2> QED
    BY <2>3, <2>4 DEF Holds
<1>2. CASE ~Sent(g, a)
  <2>1. Order(queue'[g], a, x)
    BY <1>2, OrderStays DEF Withdrawn
  <2>2. ASSUME o \in observers'[g]
        PROVE  x \in Contents(queue'[g])
    <3>1. CASE o \in observers[g]
      <4>1. x \in Contents(queue[g])
        BY <3>1 DEF Withdrawn
      <4>2. CASE Polls(g) /\ queue[g] # <<>> /\ Head(queue[g]) = x
        <5>1. HandleRemoveObserver(g)
          BY <1>a, <4>2, PolledFirst
        <5>2. observers'[g] = observers[g] \ {AwaitObserver(f, n)}
          BY <1>a, <4>2, <5>1 DEF HandleRemoveObserver, TypeOK
        <5> QED
          BY <2>2, <5>2
      <4> HIDE DEF x
      <4> QED
        BY <4>1, <4>2, MessageStays
    <3>2. CASE o \notin observers[g]
      <4> DEFINE m == Head(queue[g])
      <4> HIDE DEF o
      <4>1. HandleAddObserver(g) /\ queue' = Polled(g) /\ o = AwaitObserver(m.who, m.cb)
        BY <1>a, <2>2, <3>2, ObserverSteps
      <4>2. queue[g] # <<>> /\ m.tag = "AddObserver"
        BY <4>1 DEF HandleAddObserver, Handling, Receives
      <4>3. m.who = f /\ m.cb = n
        BY <4>1 DEF AwaitObserver, o
      <4>4. m \in Messages
        BY <4>2, PolledType
      <4> HIDE DEF m
      <4>5. m \in [tag: {"AddObserver", "RemoveObserver"}, who: Fibers, cb: Nat]
        BY <4>2, <4>4 DEF Messages, Interrupt, YieldNow
      <4>6. m = a
        BY <4>2, <4>3, <4>5 DEF AddObserver
      <4>7. queue[g] \in Seq(Messages) /\ queue'[g] = Tail(queue[g])
        BY <4>1 DEF Polled, TypeOK
      <4>8. Order(queue[g], a, x)
        BY DEF Withdrawn
      <4> HIDE DEF a, x
      <4> QED
        BY <4>2, <4>6, <4>7, <4>8, OrderTail DEF m
    <3> QED
      BY <3>1, <3>2
  <2> QED
    BY <2>1, <2>2 DEF Withdrawn
<1> QED
  BY <1>1, <1>2

LEMMA StaleInvariant == Spec => []StaleInv
<1>1. Init => StaleInv
  BY DEF Init, StaleInv, Stale, Withdrawn, Order
<1>2. TypeOK /\ TypeOK' /\ AwaitInv /\ StaleInv /\ [Next]_vars => StaleInv'
  <2> SUFFICES ASSUME TypeOK, TypeOK', AwaitInv, StaleInv, [Next]_vars,
                      NEW f \in Fibers, NEW g \in Fibers, NEW n \in Nat
               PROVE  Stale(f, g, n)'
    BY DEF StaleInv
  <2>1. Done(g) => Done(g)'
    BY DoneKept DEF DoneFibers
  <2>2. CASE Holds(stack[f], g, n)
    BY <2>1, <2>2, HoldsStays, AwaitLeaves DEF Stale
  <2>3. CASE Withdrawn(f, g, n)
    BY <2>3, WithdrawnStays DEF Stale
  <2> QED
    BY <2>1, <2>2, <2>3 DEF StaleInv, Stale
<1> QED
  BY <1>1, <1>2, TypeCorrect, AwaitInvariant, PTL DEF Spec

-----------------------------------------------------------------------------
(* Once no message is on its way, every fiber that is not done is          *)
(* suspended on an operation that did not complete or on a fiber that is   *)
(* not done, no interrupt it could react to was lost, and every observer   *)
(* of a live fiber is a suspended await: tell, start and                   *)
(* drainQueueOnCurrentThread, initiateAsync, await and setExitValue, at    *)
(* any number of fibers.                                                   *)
THEOREM NobodyLeftBehind == Spec => []NothingLeftBehind
<1> DEFINE Inv == /\ TypeOK /\ OneContinuation /\ OnThread /\ VerdictInv /\ ShapeInv
                  /\ SuspendedInv /\ PendsInv /\ StaleInv
<1>1. Inv /\ Quiet => FibersWait /\ ObserversArePending
  <2> SUFFICES ASSUME Inv, Quiet
               PROVE  FibersWait /\ ObserversArePending
    OBVIOUS
  <2>1. ASSUME NEW f \in Fibers, loop[f] # "unborn", ~Done(f)
        PROVE  loop[f] = "idle" /\ asyncs[f] \in Uncalled(f) /\ Expected(f) /\ Alert(f)
    <3>1. loop[f] = "idle"
      BY <2>1, NoFiberAssumption DEF OnThread, Quiet, TypeOK
    <3>2. Resumes(f) = {}
      BY DEF Quiet, Resumes, Contents
    <3>3. Uncalled(f) # {} /\ Uncalled(f) \subseteq {asyncs[f]}
      BY <2>1, <3>1, <3>2 DEF SuspendedInv, Suspended, OneContinuation, Continuation
    <3> QED
      BY <3>1, <3>3 DEF PendsInv, Pends
  <2>2. \A g : Contents(<<>>) = {} /\ (g \in Fibers => queue[g] = <<>>)
    BY DEF Quiet, Contents
  <2>3. ASSUME NEW f \in Fibers, Born(f), ~Done(f)
        PROVE  loop[f] = "idle" /\ WaitsFor(f) /\ ~Interrupting(f)
    <3>1. loop[f] = "idle" /\ asyncs[f] \in Uncalled(f) /\ Expected(f) /\ Alert(f)
      BY <2>1, <2>3 DEF Born
    <3>2. ~Interrupting(f)
      BY <3>1 DEF Alert, Interrupting
    <3>3. CASE asyncs[f] \in external[f]
      BY <3>1, <3>2, <3>3 DEF WaitsFor, Uncalled
    <3>4. CASE OnAwait(f) /\ Top(f).cb = asyncs[f] /\ Observing(Top(f).on, f, asyncs[f])
      <4>1. Top(f).on \in Fibers
        BY <3>4, StackParts, FrameParts DEF OnAwait
      <4>2. ~Done(Top(f).on)
        BY <2>2, <3>4, <4>1 DEF Observing
      <4> QED
        BY <3>1, <3>2, <3>4, <4>2 DEF WaitsFor, OnAwait
    <3> QED
      BY <3>1, <3>3, <3>4 DEF Expected
  <2>4. ASSUME NEW g \in Fibers, ~Done(g), NEW o \in observers[g], o.kind = "await"
        PROVE  /\ loop[o.who] = "idle" /\ stack[o.who] # <<>>
               /\ Top(o.who).k = "Await" /\ Top(o.who).cb = o.cb
    <3> DEFINE f == o.who
               n == o.cb
    <3>1. o \in [kind: {"await", "child"}, who: Fibers, cb: Nat]
      BY DEF TypeOK
    <3>2. f \in Fibers /\ n \in Nat /\ o = AwaitObserver(f, n)
      BY <2>4, <3>1 DEF AwaitObserver
    <3> HIDE DEF f, n
    <3>3. ~Withdrawn(f, g, n)
      BY <2>2, <3>2 DEF Withdrawn
    <3>4. Holds(stack[f], g, n)
      BY <2>4, <3>2, <3>3 DEF StaleInv, Stale
    <3>5. PICK i \in 1 .. Len(stack[f]) : IsAwait(stack[f][i], g, n)
      BY <3>4 DEF Holds
    <3>6. stack[f] # <<>> /\ ~AwaitFree(stack[f])
      BY <3>5 DEF IsAwait, AwaitFree
    <3>7. ~Done(f) /\ loop[f] # "unborn"
      BY <3>2, <3>6 DEF VerdictInv, Ended, Calm
    <3>8. loop[f] = "idle" /\ OnAwait(f)
      BY <2>1, <3>2, <3>6, <3>7 DEF Expected
    <3>9. i = Len(stack[f])
      <4>1. i < Len(stack[f]) => Passing(stack[f][Len(stack[f])])
        BY <3>2, <3>5, <3>6, PopParts DEF ShapeInv, Shape, Above, IsAwait
      <4>2. ~Passing(stack[f][Len(stack[f])])
        BY <3>8 DEF OnAwait, Top, Passing
      <4>3. Len(stack[f]) \in Nat
        BY <3>2, <3>6, PopParts
      <4> QED
        BY <4>1, <4>2, <4>3
    <3>10. Top(f).k = "Await" /\ Top(f).cb = n
      BY <3>5, <3>9 DEF IsAwait, Top
    <3> QED
      BY <3>6, <3>8, <3>10 DEF f, n
  <2> QED
    BY <2>3, <2>4 DEF FibersWait, ObserversArePending
<1>2. Spec => []Inv
  BY TypeCorrect, ContinuationIsUnique, RunLoopOnThread, VerdictInvariant, ShapeInvariant,
     SuspendedInvariant, PendsInvariant, StaleInvariant, PTL
<1>3. Inv => NothingLeftBehind
  BY <1>1 DEF NothingLeftBehind
<1> QED
  BY <1>2, <1>3, PTL
===============================================================================
