-------------------------------- MODULE Fibers --------------------------------
(* What hangs on fibers (src/src/internal): their ids (fiberId.ts), the     *)
(* fiber refs they carry (fiberRefs.ts, fiberRefs/patch.ts), supervisors    *)
(* (supervisor.ts, supervisor/patch.ts) and the fibers that are made of     *)
(* other fibers (fiber.ts, effect/circular.ts, fiberRuntime.ts).            *)
EXTENDS Exits, Integers, FiniteSets, FiniteSetsExt

CONSTANTS Bits, Interruption, WindDown

LOCAL F == INSTANCE Flags

-----------------------------------------------------------------------------
(* Fiber ids. *)

NoId == [tag |-> "None"]
RuntimeId(id, start) == [tag |-> "Runtime", id |-> id, start |-> start]
CompositeId(left, right) == [tag |-> "Composite", left |-> left, right |-> right]

RECURSIVE ToSetOfIds(_)
ToSetOfIds(self) ==
    CASE self.tag = "None" -> {}
      [] self.tag = "Runtime" -> {self}
      [] self.tag = "Composite" -> ToSetOfIds(self.left) \cup ToSetOfIds(self.right)
Ids(self) == {id.id : id \in ToSetOfIds(self)}

CombineIds(self, that) ==
    IF self = NoId THEN that ELSE IF that = NoId THEN self ELSE CompositeId(self, that)
(* The order of a hash set is not known. *)
CombineAllIds(ids) ==
    {FoldLeft(CombineIds, NoId, order) : order \in SetToSeqs(ids)}
IdToOption(self) ==
    IF ToSetOfIds(self) = {} THEN {None}
    ELSE {Some(FoldLeft(CombineIds, order[1], Tail(order))) :
              order \in SetToSeqs(ToSetOfIds(self))}

(* isNone asks itself about every runtime id in the id, a runtime id       *)
(* included: the answers it can give, none where it never returns.         *)
IsNoneAnswers(self) == IF self = NoId \/ ToSetOfIds(self) = {} THEN {TRUE} ELSE {}
IdGetOrElse(self, that) == {that : answer \in IsNoneAnswers(self)}

(* The order of the fibers in a sorted set (fiber.ts, Order). *)
FiberBefore(a, b) == a.start < b.start \/ (a.start = b.start /\ a.id < b.id)

-----------------------------------------------------------------------------
(* Fiber refs: how their values differ, and what forking and joining make  *)
(* of them (core.ts, fiberRefUnsafeMake and its kin).  A fork is a patch.  *)

MakeRefPatch(name, kind, initial, fork, join) ==
    [name |-> name, kind |-> kind, initial |-> initial, fork |-> fork, join |-> join]
MakeRef(name, initial) == MakeRefPatch(name, "value", initial, <<>>, "new")
MakeHashSetRef(name, initial) ==
    MakeRefPatch(name, "set", initial, [added |-> {}, removed |-> {}], "new")
MakeFlagsRef(name, initial) == MakeRefPatch(name, "flags", initial, F!EmptyPatch, "new")
(* A child does not have it, and a parent does not take it from a child. *)
MakeOwnRef(name, none) == MakeRefPatch(name, "value", none, <<none>>, "old")

RefDiff(ref, old, new) ==
    CASE ref.kind = "value" -> IF old = new THEN <<>> ELSE <<new>>
      [] ref.kind = "set" -> [added |-> new \ old, removed |-> old \ new]
      [] ref.kind = "flags" -> F!Diff(old, new)
RefPatch(ref, patch, old) ==
    CASE ref.kind = "value" -> IF patch = <<>> THEN old ELSE patch[1]
      [] ref.kind = "set" -> (old \cup patch.added) \ patch.removed
      [] ref.kind = "flags" -> F!Apply(patch, old)
RefJoin(ref, old, new) == IF ref.join = "old" THEN old ELSE new

-----------------------------------------------------------------------------
(* The refs of a fiber: for each ref a stack of who set it to what, the    *)
(* latest first.                                                           *)

Entry(fiber, value) == [fiber |-> fiber, value |-> value]
Locals(refs) == DOMAIN refs
GetOption(self, ref) == IF ref \in Locals(self) THEN Some(self[ref][1].value) ELSE None
GetOrDefault(self, ref) == IF ref \in Locals(self) THEN self[ref][1].value ELSE ref.initial
DeleteRef(self, ref) == [r \in Locals(self) \ {ref} |-> self[r]]

(* A fiber has at most one entry on top: its own is replaced. *)
Pushed(stack, fiber, value) ==
    <<Entry(fiber, value)>> \o
        (IF stack # <<>> /\ stack[1].fiber = fiber THEN Tail(stack) ELSE stack)
UpdatedAs(self, fiber, ref, value) ==
    LET old == IF ref \in Locals(self) THEN self[ref] ELSE <<>> IN
    [r \in Locals(self) \cup {ref} |-> IF r = ref THEN Pushed(old, fiber, value) ELSE self[r]]
SetAll(self, fiber, current) ==
    FoldSet(LAMBDA ref, refs : UpdatedAs(refs, fiber, ref, GetOrDefault(self, ref)),
            current, Locals(self))

ForkAs(self, child) ==
    [ref \in Locals(self) |->
        LET old == self[ref][1].value
            new == RefPatch(ref, ref.fork, old)
        IN  IF old = new THEN self[ref] ELSE <<Entry(child, new)>> \o self[ref]]

Younger(a, b) == FiberBefore(b, a)

(* The value that the two stacks have in common: the younger fiber's entry *)
(* is dropped until both tops are the same fiber's.                        *)
RECURSIVE FindAncestor(_, _, _, _)
FindAncestor(ref, parent, child, modified) ==
    IF parent = <<>> \/ child = <<>> THEN <<ref.initial, TRUE>>
    ELSE IF Younger(child[1].fiber, parent[1].fiber)
    THEN FindAncestor(ref, parent, Tail(child), TRUE)
    ELSE IF Younger(parent[1].fiber, child[1].fiber)
    THEN FindAncestor(ref, Tail(parent), child, modified)
    ELSE <<child[1].value, modified>>

Merged(ref, ancestor, old, value) ==
    RefJoin(ref, old, RefPatch(ref, RefDiff(ref, ancestor, value), old))

(* joinAs: what the child did to a ref since it was forked is done to the  *)
(* ref of the fiber that joins it.  The stack it gets, empty for no ref.   *)
JoinedStack(self, fiber, that, ref) ==
    LET mine == IF ref \in Locals(self) THEN self[ref] ELSE <<>> IN
    IF ref \notin Locals(that) \/ that[ref][1].fiber = fiber THEN mine
    ELSE LET value == that[ref][1].value IN
         IF mine = <<>>
         THEN IF value = ref.initial THEN <<>>
              ELSE <<Entry(fiber, RefJoin(ref, ref.initial, value))>>
         ELSE LET found == FindAncestor(ref, mine, that[ref], FALSE)
                  new == Merged(ref, found[1], mine[1].value, value)
              IN  IF found[2] /\ new # mine[1].value THEN Pushed(mine, fiber, new) ELSE mine
JoinAs(self, fiber, that) ==
    LET stacks == [ref \in Locals(self) \cup Locals(that) |-> JoinedStack(self, fiber, that, ref)]
    IN  [ref \in {r \in DOMAIN stacks : stacks[r] # <<>>} |-> stacks[ref]]

(* inheritAll of a fiber (fiberRuntime.ts): the refs of the fiber that     *)
(* inherits and its flags, of which two are not inherited.                 *)
InheritAll(parent, fiber, flags, child, flagsRef) ==
    LET refs == JoinAs(parent, fiber, child)
        patch == F!Exclude(WindDown, F!Exclude(Interruption,
                     F!Diff(flags, GetOrDefault(refs, flagsRef))))
    IN  [refs |-> refs, flags |-> F!Apply(patch, flags)]

-----------------------------------------------------------------------------
(* Patches of a fiber's refs. *)

EmptyPatch == [tag |-> "Empty"]
AddRef(ref, value) == [tag |-> "Add", ref |-> ref, value |-> value]
RemoveRef(ref) == [tag |-> "Remove", ref |-> ref]
UpdateRef(ref, patch) == [tag |-> "Update", ref |-> ref, patch |-> patch]
ThenPatch(self, that) == [tag |-> "AndThen", first |-> self, second |-> that]

RefsDiff(old, new) ==
    LET Note(ref, patch) ==
            LET value == new[ref][1].value IN
            IF ref \notin Locals(old) THEN ThenPatch(patch, AddRef(ref, value))
            ELSE IF old[ref][1].value = value THEN patch
            ELSE ThenPatch(patch, UpdateRef(ref, RefDiff(ref, old[ref][1].value, value)))
    IN  FoldSet(LAMBDA ref, patch : ThenPatch(patch, RemoveRef(ref)),
                FoldSet(Note, EmptyPatch, Locals(new)), Locals(old) \ Locals(new))

RECURSIVE RefsPatch(_, _, _)
RefsPatch(patch, fiber, refs) ==
    CASE patch.tag = "Empty" -> refs
      [] patch.tag = "Add" -> UpdatedAs(refs, fiber, patch.ref, patch.value)
      [] patch.tag = "Remove" -> DeleteRef(refs, patch.ref)
      [] patch.tag = "Update" ->
            UpdatedAs(refs, fiber, patch.ref,
                      RefPatch(patch.ref, patch.patch, GetOrDefault(refs, patch.ref)))
      [] patch.tag = "AndThen" -> RefsPatch(patch.second, fiber, RefsPatch(patch.first, fiber, refs))

-----------------------------------------------------------------------------
(* Supervisors.  What the tracking ones hold is a function of their names. *)

Const(name) == [tag |-> "Const", name |-> name]
NoSupervisor == Const("none")
Track(name) == [tag |-> "Track", name |-> name]
FibersIn(name) == [tag |-> "FibersIn", name |-> name]
Proxy(underlying, name) == [tag |-> "Proxy", underlying |-> underlying, name |-> name]
ZipSupervisors(left, right) == [tag |-> "Zip", left |-> left, right |-> right]

RECURSIVE Notified(_)
Notified(self) ==
    CASE self.tag = "Const" -> {}
      [] self.tag \in {"Track", "FibersIn"} -> {self.name}
      [] self.tag = "Proxy" -> Notified(self.underlying)
      [] self.tag = "Zip" -> Notified(self.left) \cup Notified(self.right)
OnStart(self, fiber, tracked) ==
    [t \in DOMAIN tracked |-> IF t \in Notified(self) THEN tracked[t] \cup {fiber} ELSE tracked[t]]
OnEnd(self, fiber, tracked) ==
    [t \in DOMAIN tracked |-> IF t \in Notified(self) THEN tracked[t] \ {fiber} ELSE tracked[t]]

(* value: a proxy's is f of the underlying one's. *)
RECURSIVE SupervisorValue(_, _, _, _)
SupervisorValue(self, tracked, constant, f) ==
    CASE self.tag = "Const" -> constant[self.name]
      [] self.tag \in {"Track", "FibersIn"} -> tracked[self.name]
      [] self.tag = "Proxy" -> f[self.name, SupervisorValue(self.underlying, tracked, constant, f)]
      [] self.tag = "Zip" -> <<SupervisorValue(self.left, tracked, constant, f),
                               SupervisorValue(self.right, tracked, constant, f)>>

AddSupervisor(s) == [tag |-> "AddSupervisor", supervisor |-> s]
RemoveSupervisorOp(s) == [tag |-> "RemoveSupervisor", supervisor |-> s]

RECURSIVE RemoveSupervisor(_, _)
RemoveSupervisor(self, that) ==
    IF self = that THEN NoSupervisor
    ELSE IF self.tag = "Zip"
    THEN ZipSupervisors(RemoveSupervisor(self.left, that), RemoveSupervisor(self.right, that))
    ELSE self

RECURSIVE SupervisorPatch(_, _)
SupervisorPatch(patch, self) ==
    CASE patch.tag = "Empty" -> self
      [] patch.tag = "AddSupervisor" -> ZipSupervisors(self, patch.supervisor)
      [] patch.tag = "RemoveSupervisor" -> RemoveSupervisor(self, patch.supervisor)
      [] patch.tag = "AndThen" -> SupervisorPatch(patch.second, SupervisorPatch(patch.first, self))

RECURSIVE ToSupervisors(_)
ToSupervisors(self) ==
    IF self = NoSupervisor THEN {}
    ELSE IF self.tag = "Zip" THEN ToSupervisors(self.left) \cup ToSupervisors(self.right)
    ELSE {self}

SupervisorDiff(old, new) ==
    LET before == ToSupervisors(old)
        after == ToSupervisors(new)
        Each(Op(_), supervisors) ==
            FoldSet(LAMBDA s, patch : ThenPatch(patch, Op(s)), EmptyPatch, supervisors)
    IN  IF old = new THEN EmptyPatch
        ELSE ThenPatch(Each(AddSupervisor, after \ before),
                       Each(RemoveSupervisorOp, before \ after))

-----------------------------------------------------------------------------
(* Fibers by what their operations give at a moment: await the exits it    *)
(* can give, none where it still waits; inheritAll and interruptAsFork     *)
(* whose refs are inherited and who is told, in this order, and whether    *)
(* the operation returns.                                                  *)

Said(list, returns) == [list |-> list, returns |-> returns]
AndSaid(a, b) == IF a.returns THEN Said(a.list \o b.list, b.returns) ELSE a
SaidByAll(operations) == FoldLeft(AndSaid, Said(<<>>, TRUE), operations)

DoneFiber(exit) ==
    [ids |-> {NoId}, await |-> {exit}, children |-> Said(<<>>, TRUE),
     inheritAll |-> Said(<<>>, TRUE), poll |-> Some(exit), interruptAsFork |-> Said(<<>>, TRUE)]
NeverFiber ==
    [ids |-> {NoId}, await |-> {}, children |-> Said(<<>>, TRUE),
     inheritAll |-> Said(<<>>, FALSE), poll |-> None, interruptAsFork |-> Said(<<>>, FALSE)]
FailFiber(error) == DoneFiber(ExitFail(error))
FailCauseFiber(cause) == DoneFiber(Failure(cause))
InterruptedFiber(id) == DoneFiber(ExitInterrupt(id))
SucceedFiber(value) == DoneFiber(Success(value))

(* f gives the exit of its effect, which mapEffect runs at every call. *)
MapEffectFiber(self, f) ==
    [self EXCEPT !.await = {ExitFlatMap(exit, f) : exit \in @},
                 !.poll = IF @ = None THEN None ELSE Some(ExitFlatMap(@.value, f))]
MapFiberValue(self, f) == MapEffectFiber(self, [a \in DOMAIN f |-> Success(f[a])])
(* mapFiber waits for the fiber and goes on as another. *)
MapFiber(self, f) ==
    {IF IsSuccess(exit) THEN f[exit.value] ELSE FailCauseFiber(exit.cause) : exit \in self.await}

(* interruptAsFiber: tells a fiber to end and waits for it. *)
InterruptAs(self) ==
    AndSaid(self.interruptAsFork, Said(<<>>, self.await # {}))

OrElseFiber(self, that) ==
    [ids |-> UNION {IdGetOrElse(a, b) : a \in self.ids, b \in that.ids},
     await |-> {IF IsSuccess(a) THEN a ELSE b : a \in self.await, b \in that.await},
     children |-> self.children,
     inheritAll |-> AndSaid(that.inheritAll, self.inheritAll),
     poll |-> IF self.poll = None THEN None
              ELSE IF IsSuccess(self.poll.value) THEN self.poll ELSE that.poll,
     interruptAsFork |-> AndSaid(InterruptAs(self), InterruptAs(that))]
OrElseEitherFiber(self, that, left, right) ==
    OrElseFiber(MapFiberValue(self, left), MapFiberValue(that, right))

(* Awaiting in parallel ends with the first failure: who still waits then, *)
(* or has just ended, may be interrupted.                                  *)
Stopped == ExitInterrupt("awaiter")
AwaitPar(awaits) ==
    LET ends == [i \in DOMAIN awaits |-> awaits[i] \cup {Stopped}]
        all == {s \in [DOMAIN awaits -> UNION {ends[i] : i \in DOMAIN awaits}] :
                    \A i \in DOMAIN awaits : s[i] \in ends[i]}
        failed == {s \in all : \E i \in DOMAIN awaits : s[i] \in awaits[i] /\ ~IsSuccess(s[i])}
    IN  failed \cup {s \in all : \A i \in DOMAIN awaits : s[i] \in awaits[i] /\ IsSuccess(s[i])}
(* What the awaiting fibers' signal leaves of its own cause is empty. *)
ParFailure(exit, empty) == Failure(Parallel(empty, exit.cause))

ZipWithFiber(self, that, f, empty) ==
    [ids |-> UNION {IdGetOrElse(a, b) : a \in self.ids, b \in that.ids},
     await |-> {LET exit == ExitZipWith(s[1], s[2], f, AtOnce) IN
                IF IsSuccess(exit) THEN exit ELSE ParFailure(exit, empty) :
                    s \in AwaitPar(<<self.await, that.await>>)},
     children |-> self.children,
     inheritAll |-> AndSaid(that.inheritAll, self.inheritAll),
     poll |-> IF self.poll = None \/ that.poll = None THEN None
              ELSE Some(ExitZipWith(self.poll.value, that.poll.value, f, AtOnce)),
     interruptAsFork |-> AndSaid(self.interruptAsFork, that.interruptAsFork)]
ZipFiber(self, that, empty) == ZipWithFiber(self, that, PairOf, empty)
ZipLeftFiber(self, that, empty) == ZipWithFiber(self, that, First, empty)
ZipRightFiber(self, that, empty) == ZipWithFiber(self, that, Second, empty)

CollectAllFibers(fibers, empty) ==
    LET polls == [i \in DOMAIN fibers |-> fibers[i].poll] IN
    [ids |-> {FoldLeft(CombineIds, NoId, ids) :
                  ids \in {s \in [DOMAIN fibers -> UNION {fibers[i].ids : i \in DOMAIN fibers}] :
                               \A i \in DOMAIN fibers : s[i] \in fibers[i].ids}},
     await |-> {IF s = <<>> THEN Success(<<>>)
                ELSE LET exit == CollectExits(s, AtOnce) IN
                     IF IsSuccess(exit) THEN exit ELSE ParFailure(exit, empty) :
                         s \in AwaitPar([i \in DOMAIN fibers |-> fibers[i].await])},
     children |-> SaidByAll([i \in DOMAIN fibers |-> fibers[i].children]),
     inheritAll |-> SaidByAll([i \in DOMAIN fibers |-> fibers[i].inheritAll]),
     poll |-> IF None \in ToSet(polls) THEN None
              ELSE Some(FoldRight(LAMBDA option, rest :
                                      ExitZipWith(option.value, rest,
                                                  [a \in Values, list \in Values |-> <<a>> \o list], AtOnce),
                                  polls, Success(<<>>))),
     interruptAsFork |-> SaidByAll([i \in DOMAIN fibers |-> fibers[i].interruptAsFork])]

AwaitAllFibers(fibers, empty) == CollectAllFibers(fibers, empty).await # {}
(* join: the exit, and whose refs are inherited after a success. *)
JoinFiber(self) ==
    {<<exit, IF IsSuccess(exit) THEN self.inheritAll ELSE Said(<<>>, TRUE)>> : exit \in self.await}
JoinAllFibers(fibers, empty) == JoinFiber(CollectAllFibers(fibers, empty))
InterruptAllFibers(fibers) ==
    AndSaid(SaidByAll([i \in DOMAIN fibers |-> fibers[i].interruptAsFork]),
            Said(<<>>, \A i \in DOMAIN fibers : fibers[i].await # {}))
=============================================================================
