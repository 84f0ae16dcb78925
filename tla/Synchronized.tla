----------------------------- MODULE Synchronized -----------------------------
(***************************************************************************)
(* Synchronized refs (internal/effect/circular.ts): modifyEffect reads the *)
(* ref, evaluates an effect, and sets the ref, all under withPermits(1) of *)
(* a semaphore of one permit.  The effect takes time, may fail, and may be *)
(* interrupted unless the caller is in an uninterruptible region.          *)
(***************************************************************************)
EXTENDS Semaphore

ASSUME LockAssumption == Permits = 1 /\ \A c \in Clients : Want[c] = 1

VARIABLES
    value,  \* the value of the ref, the sequence of updates it contains
    seen,   \* the value the client's modifyEffect got
    step    \* what its modifyEffect does next: "get", "effect", "set" or "end"

refVars == <<value, seen, step>>
syncVars == <<vars, refVars>>

Steps == {"get", "effect", "set", "end"}

SyncInit ==
    /\ Init
    /\ value = <<>>
    /\ seen = [c \in Clients |-> <<>>]
    /\ step = [c \in Clients |-> "end"]

Inside(c, s) == Idle /\ phase[c] = "holding" /\ step[c] = s

(* withLock of a new modifyEffect. *)
Lock(c) ==
    /\ Take(c)
    /\ step' = [step EXCEPT ![c] = "get"]
    /\ UNCHANGED <<value, seen>>

Get(c) ==
    /\ Inside(c, "get")
    /\ seen' = [seen EXCEPT ![c] = value]
    /\ step' = [step EXCEPT ![c] = "effect"]
    /\ UNCHANGED <<vars, value>>

(* The effect succeeds with the new value, or fails. *)
Effect(c) ==
    /\ Inside(c, "effect")
    /\ \E s \in {"set", "end"} : step' = [step EXCEPT ![c] = s]
    /\ UNCHANGED <<vars, value, seen>>

Set(c) ==
    /\ Inside(c, "set")
    /\ value' = Append(seen[c], c)
    /\ step' = [step EXCEPT ![c] = "end"]
    /\ UNCHANGED <<vars, seen>>

(* An interrupt ends modifyEffect before any of its steps. *)
Abort(c) ==
    /\ phase[c] = "holding" /\ Idle
    /\ Interrupting(c)
    /\ step[c] # "end"
    /\ step' = [step EXCEPT ![c] = "end"]
    /\ UNCHANGED <<vars, value, seen>>

(* ensuring(release), when modifyEffect ended. *)
Unlock(c) ==
    /\ step[c] = "end"
    /\ Release(c)
    /\ UNCHANGED refVars

Modify(c) == Get(c) \/ Effect(c) \/ Set(c) \/ Abort(c) \/ Unlock(c)

SyncNext ==
    \/ \E c \in Clients :
          \/ Lock(c) \/ Modify(c)
          \/ (Interrupt(c) \/ Cancel(c) \/ Enter(c)) /\ UNCHANGED refVars
    \/ Wake /\ UNCHANGED refVars

SyncSpec == SyncInit /\ [][SyncNext]_syncVars

-----------------------------------------------------------------------------
(* Properties.                                                             *)

SyncTypeOK ==
    /\ value \in Seq(Clients)
    /\ seen \in [Clients -> Seq(Clients)]
    /\ step \in [Clients -> Steps]

(* The lock is given back only when modifyEffect ended.                    *)
LockedWhileUpdating == \A c \in Clients : phase[c] = "idle" => step[c] = "end"

(* Between the read and the write of an update nobody else writes: what    *)
(* modifyEffect is about to overwrite is what it read, although observers, *)
(* failures and interrupts move the permit around.                         *)
UpdatesAreFresh ==
    \A c \in Clients :
        phase[c] = "holding" /\ step[c] \in {"effect", "set"} => seen[c] = value

Ref == INSTANCE AtomicRef

(* No update is lost or applied twice, in any interleaving. *)
RefinesAtomicRef == Ref!Spec

===============================================================================
