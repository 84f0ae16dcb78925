-------------------------- MODULE SynchronizedProofs --------------------------
(***************************************************************************)
(* A Synchronized ref implements an atomic one, for any clients, masked or *)
(* not, and any number of calls.  The argument: at most one client owns    *)
(* the permit, since permits are taken only when none is taken; so nobody  *)
(* writes between the read and the write of an update.                     *)
(***************************************************************************)
EXTENDS ScopedRef, TLAPS

LockTypeOK ==
    /\ taken \in Nat
    /\ phase \in [Clients -> Phases]
    /\ SyncTypeOK

OwnerIsAlone ==
    /\ \A c, d \in Owners : c = d
    /\ Owners # {} => taken >= 1

EntersAtGet == \A c \in Clients : phase[c] \in {"waiting", "granted"} => step[c] = "get"

LockInv ==
    LockTypeOK /\ OwnerIsAlone /\ EntersAtGet /\ UpdatesAreFresh /\ LockedWhileUpdating

-----------------------------------------------------------------------------
(* What a step of the semaphore does to the owners. *)

(* No step of the semaphore brings a second owner. *)
LEMMA SemaphoreStep ==
    ASSUME taken \in Nat, phase \in [Clients -> Phases], OwnerIsAlone,
           \/ \E c \in Clients :
                 Take(c) \/ Interrupt(c) \/ Cancel(c) \/ Enter(c) \/ Release(c)
           \/ Wake
           \/ UNCHANGED vars
    PROVE  taken' \in Nat /\ phase' \in [Clients -> Phases] /\ OwnerIsAlone'
<1> USE LockAssumption DEF Phases, OwnerIsAlone, Owners, Free
<1>1. ASSUME NEW c \in Clients, Take(c)
      PROVE  taken' \in Nat /\ phase' \in [Clients -> Phases] /\ OwnerIsAlone'
  BY <1>1 DEF Take
<1>2. ASSUME NEW c \in Clients, Interrupt(c)
      PROVE  taken' \in Nat /\ phase' \in [Clients -> Phases] /\ OwnerIsAlone'
  BY <1>2 DEF Interrupt
<1>3. ASSUME NEW c \in Clients, Cancel(c)
      PROVE  taken' \in Nat /\ phase' \in [Clients -> Phases] /\ OwnerIsAlone'
  BY <1>3 DEF Cancel
<1>4. ASSUME NEW c \in Clients, Enter(c)
      PROVE  taken' \in Nat /\ phase' \in [Clients -> Phases] /\ OwnerIsAlone'
  BY <1>4 DEF Enter
<1>5. ASSUME NEW c \in Clients, Release(c)
      PROVE  taken' \in Nat /\ phase' \in [Clients -> Phases] /\ OwnerIsAlone'
  BY <1>5 DEF Release
<1>6. ASSUME NEW c \in Clients, WakeNext(c)
      PROVE  taken' \in Nat /\ phase' \in [Clients -> Phases] /\ OwnerIsAlone'
  BY <1>6 DEF WakeNext, Resume
<1>7. CASE WakeStart \/ WakeEnd \/ UNCHANGED vars
  BY <1>7 DEF WakeStart, WakeEnd, vars
<1> QED
  BY <1>1, <1>2, <1>3, <1>4, <1>5, <1>6, <1>7 DEF Wake

(* Nor does it let a client back into an update it began before. *)
LEMMA SemaphoreKeepsUpdates ==
    ASSUME LockInv, UNCHANGED refVars,
           \/ \E c \in Clients : Interrupt(c) \/ Cancel(c) \/ Enter(c)
           \/ Wake
    PROVE  EntersAtGet' /\ UpdatesAreFresh' /\ LockedWhileUpdating'
<1> USE DEF LockInv, LockTypeOK, EntersAtGet, UpdatesAreFresh, LockedWhileUpdating, refVars
<1>1. ASSUME NEW c \in Clients, Interrupt(c) \/ Cancel(c) \/ Enter(c)
      PROVE  EntersAtGet' /\ UpdatesAreFresh' /\ LockedWhileUpdating'
  BY <1>1 DEF Interrupt, Cancel, Enter
<1>2. ASSUME NEW c \in Clients, WakeNext(c)
      PROVE  EntersAtGet' /\ UpdatesAreFresh' /\ LockedWhileUpdating'
  BY <1>2 DEF WakeNext, Resume
<1>3. CASE WakeStart \/ WakeEnd
  BY <1>3 DEF WakeStart, WakeEnd
<1> QED
  BY <1>1, <1>2, <1>3 DEF Wake

(* A step of an update keeps the invariant, and writes what AtomicRef may. *)
LEMMA UpdateStep ==
    ASSUME LockInv, NEW c \in Clients, Lock(c) \/ Modify(c)
    PROVE  LockInv' /\ [Ref!Next]_value
<1> USE DEF LockInv, LockTypeOK, SyncTypeOK, Steps
<1>1. CASE Lock(c)
  <2>1. OwnerIsAlone' /\ taken' \in Nat /\ phase' \in [Clients -> Phases]
    BY <1>1, SemaphoreStep DEF Lock
  <2>2. EntersAtGet' /\ UpdatesAreFresh' /\ LockedWhileUpdating' /\ SyncTypeOK'
    BY <1>1 DEF Lock, Take, EntersAtGet, UpdatesAreFresh, LockedWhileUpdating
  <2> QED
    BY <1>1, <2>1, <2>2 DEF Lock
<1>2. CASE Unlock(c)
  <2>1. OwnerIsAlone' /\ taken' \in Nat /\ phase' \in [Clients -> Phases]
    BY <1>2, SemaphoreStep DEF Unlock
  <2>2. EntersAtGet' /\ UpdatesAreFresh' /\ LockedWhileUpdating' /\ SyncTypeOK'
    BY <1>2 DEF Unlock, Release, refVars, EntersAtGet, UpdatesAreFresh, LockedWhileUpdating
  <2> QED
    BY <1>2, <2>1, <2>2 DEF Unlock, refVars
<1>3. CASE Get(c) \/ Effect(c) \/ Abort(c)
  <2>1. OwnerIsAlone' /\ UNCHANGED <<taken, phase, value>>
    BY <1>3 DEF Get, Effect, Abort, vars, OwnerIsAlone, Owners
  <2>2. EntersAtGet' /\ UpdatesAreFresh' /\ LockedWhileUpdating' /\ SyncTypeOK'
    BY <1>3, <2>1
       DEF Get, Effect, Abort, Inside, EntersAtGet, UpdatesAreFresh, LockedWhileUpdating
  <2> QED
    BY <2>1, <2>2
<1>4. CASE Set(c)
  <2>1. OwnerIsAlone' /\ UNCHANGED <<taken, phase>>
    BY <1>4 DEF Set, vars, OwnerIsAlone, Owners
  <2>2. seen[c] = value /\ value' = Append(value, c)
    BY <1>4 DEF Set, Inside, UpdatesAreFresh
  <2>3. \A d \in Clients : phase[d] = "holding" => d = c
    BY <1>4 DEF Set, Inside, OwnerIsAlone, Owners
  <2>4. EntersAtGet' /\ UpdatesAreFresh' /\ LockedWhileUpdating' /\ SyncTypeOK'
    BY <1>4, <2>1, <2>2, <2>3
       DEF Set, Inside, EntersAtGet, UpdatesAreFresh, LockedWhileUpdating
  <2> QED
    BY <2>1, <2>2, <2>4 DEF Ref!Next, Ref!Update
<1> QED
  BY <1>1, <1>2, <1>3, <1>4 DEF Modify

(* Every step keeps the invariant of the lock and is an update or a stutter. *)
LEMMA LockInvariant == LockInv /\ [SyncNext]_syncVars => LockInv' /\ [Ref!Next]_value
<1> SUFFICES ASSUME LockInv, [SyncNext]_syncVars
             PROVE  LockInv' /\ [Ref!Next]_value
  OBVIOUS
<1>1. ASSUME NEW c \in Clients, Lock(c) \/ Modify(c)
      PROVE  LockInv' /\ [Ref!Next]_value
  BY <1>1, UpdateStep
<1>2. ASSUME UNCHANGED refVars,
             (\E c \in Clients : Interrupt(c) \/ Cancel(c) \/ Enter(c)) \/ Wake
      PROVE  LockInv' /\ [Ref!Next]_value
  <2>1. taken' \in Nat /\ phase' \in [Clients -> Phases] /\ OwnerIsAlone'
    BY <1>2, SemaphoreStep DEF LockInv, LockTypeOK
  <2>2. EntersAtGet' /\ UpdatesAreFresh' /\ LockedWhileUpdating'
    BY <1>2, SemaphoreKeepsUpdates
  <2> QED
    BY <1>2, <2>1, <2>2 DEF LockInv, LockTypeOK, SyncTypeOK, refVars
<1>3. CASE UNCHANGED syncVars
  BY <1>3 DEF syncVars, refVars, vars, LockInv, LockTypeOK, SyncTypeOK, OwnerIsAlone, Owners,
              EntersAtGet, UpdatesAreFresh, LockedWhileUpdating
<1> QED
  BY <1>1, <1>2, <1>3 DEF SyncNext

(* The initial states satisfy the invariant of the lock. *)
LEMMA LockInit == SyncInit => LockInv
  BY DEF SyncInit, Init, LockInv, LockTypeOK, SyncTypeOK, Phases, Steps, OwnerIsAlone, Owners,
         EntersAtGet, UpdatesAreFresh, LockedWhileUpdating

-----------------------------------------------------------------------------
(* What an update is about to overwrite is what it read. *)
THEOREM Freshness == SyncSpec => []UpdatesAreFresh
<1>1. LockInv => UpdatesAreFresh
  BY DEF LockInv
<1> QED
  BY <1>1, LockInit, LockInvariant, PTL DEF SyncSpec

(* The lock is given back only between updates. *)
THEOREM LockHeld == SyncSpec => []LockedWhileUpdating
<1>1. LockInv => LockedWhileUpdating
  BY DEF LockInv
<1> QED
  BY <1>1, LockInit, LockInvariant, PTL DEF SyncSpec

(* A Synchronized ref is an atomic ref: no interleaving of modifyEffect,   *)
(* with failures and interrupts, loses an update.                          *)
THEOREM NoLostUpdate == SyncSpec => RefinesAtomicRef
<1>1. SyncInit => Ref!Init
  BY DEF SyncInit, Ref!Init
<1> QED
  BY <1>1, LockInit, LockInvariant, PTL DEF SyncSpec, RefinesAtomicRef, Ref!Spec

-----------------------------------------------------------------------------
(* Every step of a scoped ref is one of its Synchronized, or a stutter. *)
LEMMA ScopedStep == [ScopedNext]_scopedVars => [SyncNext]_syncVars
<1> SUFFICES ASSUME [ScopedNext]_scopedVars
             PROVE  SyncNext \/ UNCHANGED syncVars
  OBVIOUS
<1>1. ASSUME NEW c \in Clients, SetStep(c)
      PROVE  Modify(c) \/ UNCHANGED syncVars
  BY <1>1 DEF SetStep, Open, Acquire, Discard, Replace, Write, Leave, Modify
<1>2. ASSUME NEW c \in Setters, SetStep(c)
      PROVE  SyncNext \/ UNCHANGED syncVars
  BY <1>1, <1>2 DEF SyncNext, Setters
<1>3. ASSUME Find
      PROVE  SyncNext
  BY <1>3, CloserAssumption, MaskedAssumption DEF Find, SyncNext, Modify
<1>4. CASE CloseFound \/ UNCHANGED scopedVars
  BY <1>4 DEF CloseFound, scopedVars
<1>5. ASSUME NEW c \in Clients,
             \/ Lock(c) \/ Unlock(c)
             \/ (Interrupt(c) \/ Cancel(c) \/ Enter(c)) /\ UNCHANGED refVars
      PROVE  SyncNext
  BY <1>5 DEF SyncNext, Modify
<1>6. CASE Wake /\ UNCHANGED refVars
  BY <1>6 DEF SyncNext
<1> QED
  BY <1>2, <1>3, <1>4, <1>5, <1>6 DEF ScopedNext

(* A scoped ref is a Synchronized, so it loses no update either. *)
THEOREM ScopedImplements == ScopedSpec => SyncSpec
<1>1. ScopedInit => SyncInit
  BY DEF ScopedInit
<1> QED
  BY <1>1, ScopedStep, PTL DEF ScopedSpec, SyncSpec

-----------------------------------------------------------------------------
(* What a scoped ref leaks.  The argument: the scope of a set in progress  *)
(* is a new one, and only the owner of the lock writes it to the ref; the  *)
(* old scope is closed by then, unless an interrupt threw the owner out.   *)

StagesAreRight ==
    /\ stage \in [Clients -> Stages]
    /\ calls \in [Clients -> Nat]
    /\ \A c \in Setters :
          /\ stage[c] \in {"none", "acquire", "discard", "replace"}
          /\ stage[c] # "none" => phase[c] = "holding" /\ step[c] = "effect"
          /\ step[c] = "set" => phase[c] = "holding"
    /\ \A c \in Clients : phase[c] # "idle" => calls[c] >= 1
    /\ stage[Closer] # "none" => calls[Closer] >= 1
    /\ stage[Closer] = "closed" => phase[Closer] = "idle"

Ready(c) == step[c] = "set" \/ stage[c] = "replace"

ScopesAreRight ==
    /\ \A c \in Clients, n \in Nat : ref = <<c, n>> => n <= calls[c]
    /\ \A c \in Setters : step[c] # "end" => ref # NewScope(c)
    /\ \A c \in Setters : step[c] = "set" => ref \notin opened
    /\ \A c \in Setters : Ready(c) => NewScope(c) \in opened \/ stage[Closer] = "closed"
    /\ ref \notin opened =>
          (\E c \in Setters : step[c] = "set") \/ Thrown # {} \/ stage[Closer] = "closed"
    /\ Leaked \subseteq {NewScope(c) : c \in Thrown}

ScopedInv == LockInv /\ StagesAreRight /\ ScopesAreRight

(* A step of set keeps the invariant. *)
LEMMA SetKeepsScopes ==
    ASSUME ScopedInv, NEW c \in Setters, SetStep(c)
    PROVE  StagesAreRight' /\ ScopesAreRight'
<1> USE CloserAssumption, MaskedAssumption
    DEF ScopedInv, StagesAreRight, ScopesAreRight, Setters, Stages, At, Goto, Inside, NewScope,
        Ready, Leaked, Setting, Thrown, Interrupting
<1>1. \A d \in Clients : phase[c] = "holding" /\ phase[d] = "holding" => c = d
  BY DEF LockInv, OwnerIsAlone, Owners
<1>2. step \in [Clients -> Steps] /\ phase \in [Clients -> Phases]
  BY DEF LockInv, LockTypeOK, SyncTypeOK
<1>3. CASE Open(c)
  BY <1>1, <1>2, <1>3 DEF Open, Get, vars
<1>4. CASE Acquire(c)
  BY <1>1, <1>2, <1>4 DEF Acquire, syncVars, refVars, vars
<1>5. CASE Discard(c)
  BY <1>1, <1>2, <1>5 DEF Discard, Effect, vars
<1>6. CASE Replace(c)
  BY <1>1, <1>2, <1>6 DEF Replace, Effect, vars
<1>7. CASE Write(c)
  BY <1>1, <1>2, <1>7 DEF Write, Set, vars
<1>8. CASE Leave(c)
  BY <1>1, <1>2, <1>8 DEF Leave, Abort, vars
<1> QED
  BY <1>3, <1>4, <1>5, <1>6, <1>7, <1>8 DEF SetStep

(* So does a step of the finalizer of the outer scope. *)
LEMMA CloseKeepsScopes ==
    ASSUME ScopedInv, Find \/ CloseFound
    PROVE  StagesAreRight' /\ ScopesAreRight'
<1> USE CloserAssumption, MaskedAssumption
    DEF ScopedInv, StagesAreRight, ScopesAreRight, Setters, Stages, At, Goto, Inside, NewScope,
        Ready, Leaked, Setting, Thrown, Interrupting
<1>1. step \in [Clients -> Steps] /\ phase \in [Clients -> Phases]
  BY DEF LockInv, LockTypeOK, SyncTypeOK
<1>2. CASE Find
  <2>1. phase[Closer] = "holding" /\ UNCHANGED <<vars, ref, opened>>
    BY <1>2 DEF Find, Get, Effect
  <2>2. \A c \in Setters : step'[c] = step[c] /\ stage'[c] = stage[c]
    BY <1>1, <1>2 DEF Find, Get, Effect
  <2>3. stage' = [stage EXCEPT ![Closer] = "close"] /\ step' \in [Clients -> Steps]
    BY <1>1, <1>2 DEF Find, Get, Effect, Steps
  <2> QED
    BY <1>1, <2>1, <2>2, <2>3 DEF vars
<1>3. CASE CloseFound
  <2>1. calls[Closer] >= 1
    BY <1>3 DEF CloseFound
  <2> QED
    BY <1>1, <1>3, <2>1 DEF CloseFound, syncVars, refVars, vars
<1> QED
  BY <1>2, <1>3

(* And so does a step of the lock. *)
LEMMA LockKeepsScopes ==
    ASSUME ScopedInv, UNCHANGED <<ref, opened, found, stage>>,
           \/ \E c \in Clients :
                 \/ Lock(c) \/ Unlock(c)
                 \/ (Interrupt(c) \/ Cancel(c) \/ Enter(c)) /\ UNCHANGED refVars
           \/ Wake /\ UNCHANGED refVars
    PROVE  StagesAreRight' /\ ScopesAreRight'
<1> USE CloserAssumption, MaskedAssumption
    DEF ScopedInv, StagesAreRight, ScopesAreRight, Setters, Stages, NewScope, Ready, Leaked,
        Setting, Thrown, Interrupting, refVars
<1>1. /\ step \in [Clients -> Steps] /\ phase \in [Clients -> Phases]
      /\ \A c \in Clients : phase[c] \in {"waiting", "granted"} => step[c] = "get"
      /\ \A c \in Clients : phase[c] = "idle" => step[c] = "end"
  BY DEF LockInv, LockTypeOK, SyncTypeOK, EntersAtGet, LockedWhileUpdating
<1>2. ASSUME NEW c \in Clients, Lock(c)
      PROVE  StagesAreRight' /\ ScopesAreRight'
  BY <1>1, <1>2 DEF Lock, Take
<1>3. ASSUME NEW c \in Clients, Unlock(c)
      PROVE  StagesAreRight' /\ ScopesAreRight'
  BY <1>1, <1>3 DEF Unlock, Release
<1>4. ASSUME NEW c \in Clients, Interrupt(c), UNCHANGED refVars
      PROVE  StagesAreRight' /\ ScopesAreRight'
  BY <1>1, <1>4 DEF Interrupt
<1>5. ASSUME NEW c \in Clients, Cancel(c) \/ Enter(c), UNCHANGED refVars
      PROVE  StagesAreRight' /\ ScopesAreRight'
  BY <1>1, <1>5 DEF Cancel, Enter
<1>6. ASSUME NEW c \in Clients, WakeNext(c), UNCHANGED refVars
      PROVE  StagesAreRight' /\ ScopesAreRight'
  BY <1>1, <1>6 DEF WakeNext, Resume
<1>7. CASE (WakeStart \/ WakeEnd) /\ UNCHANGED refVars
  BY <1>1, <1>7 DEF WakeStart, WakeEnd
<1> QED
  BY <1>2, <1>3, <1>4, <1>5, <1>6, <1>7 DEF Wake

(* In every interleaving of sets, failures, interrupts and the close of    *)
(* the outer scope, only interrupts make a scoped ref leak.                *)
THEOREM LeaksFollowInterrupts == ScopedSpec => []LeaksAreInterrupts
<1>1. ScopedInit => ScopedInv
  <2>1. ScopedInit => LockInv
    BY LockInit DEF ScopedInit
  <2> QED
    BY <2>1, CloserAssumption, MaskedAssumption
       DEF ScopedInit, SyncInit, Init, ScopedInv, StagesAreRight, ScopesAreRight, Stages, Setters,
           Ready, Leaked, Setting, FirstScope
<1>2. ScopedInv /\ [ScopedNext]_scopedVars => ScopedInv'
  <2> SUFFICES ASSUME ScopedInv, [ScopedNext]_scopedVars
               PROVE  ScopedInv'
    OBVIOUS
  <2>1. LockInv'
    BY LockInvariant, ScopedStep DEF ScopedInv
  <2>2. CASE UNCHANGED scopedVars
    BY <2>1, <2>2
       DEF scopedVars, syncVars, refVars, vars, ScopedInv, StagesAreRight, ScopesAreRight, Ready,
           Leaked, Setting, Thrown, Interrupting, NewScope
  <2> QED
    BY <2>1, <2>2, SetKeepsScopes, CloseKeepsScopes, LockKeepsScopes DEF ScopedNext, ScopedInv
<1>3. ScopedInv => LeaksAreInterrupts
  BY DEF ScopedInv, ScopesAreRight, StagesAreRight, LeaksAreInterrupts, Setting, At
<1> QED
  BY <1>1, <1>2, <1>3, PTL DEF ScopedSpec
===============================================================================
