--------------------------------- MODULE Scope ---------------------------------
(***************************************************************************)
(* Scopes (internal/core.ts, internal/fiberRuntime.ts): a scope keeps a    *)
(* release map of finalizers; closing it runs them, in the reverse order   *)
(* of their addition or in parallel.  A forked scope is closed with its    *)
(* parent, and detaches itself when it is closed before.                   *)
(*                                                                         *)
(* The module has the operations as functions from release maps to release *)
(* maps, since one step of a client may use several of them, and the steps *)
(* of releaseAll.  Every finalizer runs on behalf of somebody: the scope   *)
(* whose releaseAll runs it, or the fiber that closed a scope or added the *)
(* finalizer to one that was closed already.  The keys of the map are left *)
(* out: finalizers are kept in their order.  Scopes are closed in          *)
(* uninterruptible regions here, as scopeUse and provideLayer do; the exit *)
(* of a finalizer only contributes to the exit of the close.               *)
(***************************************************************************)
EXTENDS Integers, Sequences, SequencesExt

CONSTANTS
    Scopes,     \* the scopes
    Parallel,   \* those made with the strategy parallel
    Resources   \* what finalizers release

ASSUME ParallelAssumption == Parallel \subseteq Scopes

VARIABLES
    state,       \* "none" before scopeMake, then the _tag: "Running", "Exited"
    finalizers,  \* the map; once exited, what releaseAll has still to start
    running,     \* the finalizers under way: [fin, by]
    acquired,    \* how often a resource was acquired
    released     \* how often its finalizer was started

scopeVars == <<state, finalizers, running, acquired, released>>

(* Finalizers: <<"free", r>> releases a resource, <<"close", s>> closes a  *)
(* scope, <<"detach", c, p>> removes the closing of c from p.              *)
Free(r) == <<"free", r>>
Close(s) == <<"close", s>>
Detach(c, p) == <<"detach", c, p>>

Maps == [state |-> state, finalizers |-> finalizers, running |-> running,
         released |-> released]

Become(m) ==
    /\ state' = m.state
    /\ finalizers' = m.finalizers
    /\ running' = m.running
    /\ released' = m.released

ScopeInit ==
    /\ state = [s \in Scopes |-> "none"]
    /\ finalizers = [s \in Scopes |-> <<>>]
    /\ running = {}
    /\ acquired = [r \in Resources |-> 0]
    /\ released = [r \in Resources |-> 0]

-----------------------------------------------------------------------------

Has(m, s, fin) == Contains(m.finalizers[s], fin)

Make(m, s) == [m EXCEPT !.state = [m.state EXCEPT ![s] = "Running"]]

(* releaseMapRemove of the one entry with the key of fin, and the          *)
(* releaseMapRelease of a finalizer that closes an exited scope, which is  *)
(* nothing.                                                                *)
Unregister(m, s, fin) ==
    IF m.state[s] = "Running"
    THEN [m EXCEPT !.finalizers =
             [m.finalizers EXCEPT ![s] = RemoveFirst(m.finalizers[s], fin)]]
    ELSE m

(* releaseAll: the first to close a running scope runs its finalizers and  *)
(* ends after them; for everybody else it is over at once.                 *)
BeginClose(m, s, by) ==
    IF m.state[s] # "Running" THEN m
    ELSE [m EXCEPT !.state = [m.state EXCEPT ![s] = "Exited"],
                   !.finalizers = [m.finalizers EXCEPT ![s] = Reverse(m.finalizers[s])],
                   !.running = m.running \cup {[fin |-> Close(s), by |-> by]}]

(* A finalizer starts on behalf of by. *)
Begin(m, fin, by) ==
    CASE fin[1] = "close" -> BeginClose(m, fin[2], by)
      [] fin[1] = "detach" -> Unregister(m, fin[3], Close(fin[2]))
      [] fin[1] = "free" ->
            [m EXCEPT !.released = [m.released EXCEPT ![fin[2]] = m.released[fin[2]] + 1],
                      !.running = m.running \cup {[fin |-> fin, by |-> by]}]

(* releaseMapAdd: a finalizer that comes too late runs at once. *)
Add(m, s, fin, by) ==
    IF m.state[s] = "Running"
    THEN [m EXCEPT !.finalizers =
             [m.finalizers EXCEPT ![s] = Append(m.finalizers[s], fin)]]
    ELSE Begin(m, fin, by)

(* fork: the parent gets to close the child, and the child, as its first   *)
(* finalizer, to detach from the parent.  A child of an exited scope is    *)
(* closed at once; what releaseMapAdd returned is then a finalizer that    *)
(* does nothing.                                                           *)
Fork(m, p, c, by) ==
    LET made == Add(Make(m, c), p, Close(c), by) IN
    IF m.state[p] = "Running" THEN Add(made, c, Detach(c, p), by) ELSE made

-----------------------------------------------------------------------------
(* releaseAll runs.                                                        *)

RunsFor(x) == {r \in running : r.by = x}

Closed(s) == state[s] = "Exited" /\ finalizers[s] = <<>> /\ RunsFor(s) = {}

(* Mutant: the first finalizer is the first to run. *)
ReadyInOrder(s) ==
    IF state[s] # "Exited" \/ (s \notin Parallel /\ RunsFor(s) # {}) THEN {}
    ELSE IF s \in Parallel THEN DOMAIN finalizers[s] ELSE DOMAIN finalizers[s] \ (1 .. Len(finalizers[s]) - 1)

(* Which of the remaining finalizers may start next: the last one that was *)
(* added, when the one before has ended, or any, with the strategy         *)
(* parallel.                                                               *)
Ready(s) ==
    IF state[s] # "Exited" \/ (s \notin Parallel /\ RunsFor(s) # {}) THEN {}
    ELSE IF s \in Parallel THEN DOMAIN finalizers[s] ELSE DOMAIN finalizers[s] \cap {1}

Taken(s, i) ==
    [Maps EXCEPT !.finalizers =
        [finalizers EXCEPT ![s] = RemoveAt(finalizers[s], i)]]

(* A finalizer ends, with whatever exit: releasing a resource takes its    *)
(* time, and closing a scope ends with the last finalizer of that scope.   *)
Finish ==
    \E r \in running :
        /\ r.fin[1] = "close" => Closed(r.fin[2])
        /\ running' = running \ {r}
        /\ UNCHANGED <<state, finalizers, acquired, released>>

-----------------------------------------------------------------------------

Finalizers ==
    {Free(r) : r \in Resources} \cup {Close(s) : s \in Scopes}
    \cup {Detach(c, p) : c, p \in Scopes}

(* Everything is released: acquired resources, once each, completely.      *)
Freed(r) == released[r] = acquired[r] /\ ~\E x \in running : x.fin = Free(r)

Held(r) == acquired[r] > released[r]
===============================================================================
