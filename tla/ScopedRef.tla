------------------------------- MODULE ScopedRef -------------------------------
(***************************************************************************)
(* Scoped refs (internal/scopedRef.ts): a Synchronized ref that holds a    *)
(* value and the scope of its resources.  set is a modifyEffect that       *)
(* acquires the new value in a scope of its own, closes the old scope, and *)
(* then writes both; a finalizer of the outer scope closes the scope that  *)
(* it finds in the ref.  A close that takes time is one step: an interrupt *)
(* told while it runs is one told just before.                             *)
(***************************************************************************)
EXTENDS Synchronized

CONSTANT Closer  \* the fiber that closes the outer scope

ASSUME CloserAssumption == Closer \in Masked /\ Closer \notin Roots /\ Rounds[Closer] = 1

VARIABLES
    ref,     \* the scope in the ref
    opened,  \* the scopes with resources that were acquired and not released
    found,   \* the scope that the finalizer found in the ref
    stage    \* what set does inside its effect, or the finalizer outside it

scopedVars == <<syncVars, ref, opened, found, stage>>

Stages == {"none", "acquire", "discard", "replace", "close", "closed"}

Setters == Clients \ {Closer}

(* The scope of the value fromAcquire acquired, and of a client's last set.*)
FirstScope == <<>>
NewScope(c) == <<c, calls[c]>>

ScopedInit ==
    /\ SyncInit
    /\ ref = FirstScope
    /\ opened = {FirstScope}
    /\ found = FirstScope
    /\ stage = [c \in Clients |-> "none"]

At(c, s) == stage[c] = s
Goto(c, s) == stage' = [stage EXCEPT ![c] = s]

-----------------------------------------------------------------------------
(* set.                                                                    *)

(* modifyEffect(([oldScope, value]) => ...): the effect begins.            *)
Open(c) ==
    /\ Get(c)
    /\ Goto(c, "acquire")
    /\ UNCHANGED <<ref, opened, found>>

(* restore(acquire), then exit: it may fail, having acquired some of its   *)
(* resources, and fails when it is interrupted.                            *)
Acquire(c) ==
    /\ Inside(c, "effect") /\ At(c, "acquire")
    /\ opened' = opened \cup {NewScope(c)}
    /\ \E s \in {"discard", "replace"} :
          /\ Interrupting(c) => s = "discard"
          /\ Goto(c, s)
    /\ UNCHANGED <<syncVars, ref, found>>

(* After a failure: newScope.close.  The tuple written back is the old one.*)
Discard(c) ==
    /\ At(c, "discard")
    /\ Effect(c) /\ step'[c] = "end"
    /\ opened' = opened \ {NewScope(c)}
    /\ Goto(c, "none")
    /\ UNCHANGED <<ref, found>>

(* Mutant: the old scope stays open. *)
ReplaceOnly(c) ==
    /\ At(c, "replace")
    /\ Effect(c) /\ step'[c] = IF Interrupting(c) THEN "end" ELSE "set"
    /\ Goto(c, "none")
    /\ UNCHANGED <<ref, opened, found>>

(* After a success: oldScope.close.  Then the mask of set ends, and with   *)
(* it, in an interrupted fiber, the update.                                *)
Replace(c) ==
    /\ At(c, "replace")
    /\ Effect(c) /\ step'[c] = IF Interrupting(c) THEN "end" ELSE "set"
    /\ opened' = opened \ {ref}
    /\ Goto(c, "none")
    /\ UNCHANGED <<ref, found>>

Write(c) ==
    /\ Set(c)
    /\ ref' = NewScope(c)
    /\ UNCHANGED <<opened, found, stage>>

(* An interrupt outside the mask of set, or before it masked itself. *)
Leave(c) ==
    /\ At(c, "none") \/ At(c, "acquire")
    /\ Abort(c)
    /\ Goto(c, "none")
    /\ UNCHANGED <<ref, opened, found>>

SetStep(c) == Open(c) \/ Acquire(c) \/ Discard(c) \/ Replace(c) \/ Write(c) \/ Leave(c)

-----------------------------------------------------------------------------
(* close, the finalizer of the outer scope.                                *)

(* synchronized.get is a modify that writes back what it read. *)
Find ==
    /\ \/ Get(Closer) /\ found' = ref
       \/ Effect(Closer) /\ step'[Closer] = "end" /\ UNCHANGED found
    /\ Goto(Closer, "close")
    /\ UNCHANGED <<ref, opened>>

(* tuple[0].close, outside the lock. *)
CloseFound ==
    /\ Idle
    /\ phase[Closer] = "idle" /\ At(Closer, "close")
    /\ opened' = opened \ {found}
    /\ Goto(Closer, "closed")
    /\ UNCHANGED <<syncVars, ref, found>>

-----------------------------------------------------------------------------
ScopedNext ==
    \/ \E c \in Setters : SetStep(c)
    \/ Find
    \/ CloseFound
    \/ /\ \E c \in Clients :
             \/ Lock(c) \/ Unlock(c)
             \/ (Interrupt(c) \/ Cancel(c) \/ Enter(c)) /\ UNCHANGED refVars
       /\ UNCHANGED <<ref, opened, found, stage>>
    \/ /\ Wake
       /\ UNCHANGED <<refVars, ref, opened, found, stage>>

ScopedSpec == ScopedInit /\ [][ScopedNext]_scopedVars

-----------------------------------------------------------------------------
(* Properties.                                                             *)

ScopedTypeOK ==
    /\ stage \in [Clients -> Stages]
    /\ {ref, found} \cup opened \subseteq {FirstScope} \cup (Clients \X Nat)

(* The clients in the middle of a set, and those that an interrupt threw   *)
(* out of one.                                                             *)
Setting == {c \in Setters : phase[c] = "holding" /\ (stage[c] # "none" \/ step[c] = "set")}
Thrown == {c \in Setters : Interrupting(c)}

(* Scopes whose resources nobody will release. *)
Leaked == opened \ ({ref} \cup {NewScope(c) : c \in Setting})

(* Sets, failures and the close of the outer scope lose resources only     *)
(* with an interrupt: each interrupted client leaks at most the resources  *)
(* of its last set, and a ref serves a released value only in the middle   *)
(* of a set, after a set was interrupted, or once the outer scope closed.  *)
LeaksAreInterrupts ==
    /\ Leaked \subseteq {NewScope(c) : c \in Thrown}
    /\ ref \notin opened => Setting # {} \/ Thrown # {} \/ At(Closer, "closed")

(* What the documentation says of the ref and of set (src/ScopedRef.ts,    *)
(* lines 26-27 and 87-89): between sets, and before the outer scope        *)
(* closes, exactly the resources of its value are open.                    *)
OldIsReleased ==
    (\A c \in Clients : phase[c] \in {"idle", "out"}) /\ ~At(Closer, "closed") =>
        opened = {ref}

===============================================================================
