---------------------------- MODULE MCFiberRuntime ----------------------------
(* Instances of FiberRuntime for TLC: three fibers and what they run. *)
EXTENDS FiberRuntime, TLC

CONSTANTS root, a, b

(* Every fiber has a handle to every other one. *)
AllKnow == [f \in Fibers |-> Fibers \ {f}]

(* A fiber has a handle to the fibers it forks only: awaits are acyclic. *)
Acyclic == root :> {a, b} @@ a :> {b} @@ b :> {}

(* fork and forkDaemon. *)
OwnScopes == [f \in Fibers |-> {f, NoFiber}]

ABC(r, x, y) == root :> r @@ a :> x @@ b :> y

(* Any two primitives on each of two fibers, any one on a third. *)
Broad == ABC(<<Primitives, Primitives>>, <<Primitives, Primitives>>, <<Primitives>>)

(* The root is interrupted in an interruptible await inside a mask, and    *)
(* goes on to another operation while its canceler is on its way.          *)
Recovering ==
    ABC(<<{"fork"}, {"mask"}, {"catch"}, {"unmask"}, {"await", "async"}, {"await", "async"}>>,
        <<{"interrupt", "fork"}, {"async", "yield", "interrupt"}>>, <<{"async"}>>)

(* Three generations: the child is masked while its own child is alive. *)
Generations ==
    ABC(<<{"fork"}, {"await", "interrupt", "yield"}>>,
        <<{"mask", "fork"}, {"fork", "async"}, {"async", "yield", "await"}>>,
        <<{"mask", "unmask", "yield"}, {"async", "interrupt"}>>)

SafetyPrograms == {Broad, Recovering, Generations}
LivePrograms ==
    {ABC(<<{"fork"}, {"await", "interrupt"}>>,
         <<{"mask", "fork"}, {"fork", "yield"}, {"await"}>>,
         <<{"mask"}, {"async"}>>)}
===============================================================================
