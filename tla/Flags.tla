------------------------------- MODULE Flags -------------------------------
(* Runtime flags and their patches: src/internal/runtimeFlags.ts and       *)
(* runtimeFlagsPatch.ts.  A word of flags is the set of the bits that are  *)
(* set; every flag lies below the patches' mask (runtimeFlagsPatch.ts:5),  *)
(* so that the mask and the shift only pair two words: the flags a patch   *)
(* is about (active) and those of them that it sets (enabled).             *)
EXTENDS TLAPS

CONSTANT Bits    \* the eight bits of the mask

Words == SUBSET Bits
MakePatch(active, enabled) == [active |-> active, enabled |-> enabled \cap active]
Patches == {p \in [active : Words, enabled : Words] : p.enabled \subseteq p.active}

-----------------------------------------------------------------------------
(* Words. *)

Make(flags) == UNION {{flags[i]} : i \in DOMAIN flags}
EnableAll(flags, self) == self \cup flags
DisableAll(flags, self) == self \ flags
IsEnabled(flag, self) == flag \in self

(* The patch that turns one word into another, and its application. *)
Diff(self, that) ==
    MakePatch((self \ that) \cup (that \ self), that)
Invert(word) == Bits \ word
Apply(patch, self) ==
    (self \cap (Invert(patch.active) \cup patch.enabled)) \cup (patch.active \cap patch.enabled)

(* interruptible: what the fiber runtime asks before it interrupts. *)
Interruptible(self, Interruption, WindDown) ==
    IsEnabled(Interruption, self) /\ ~IsEnabled(WindDown, self)

-----------------------------------------------------------------------------
(* Patches. *)

EmptyPatch == MakePatch({}, {})
Enable(flag) == MakePatch({flag}, {flag})
Disable(flag) == MakePatch({flag}, {})
EnabledSet(patch) == patch.active \cap patch.enabled
DisabledSet(patch) == patch.active \ patch.enabled
IsPatchEmpty(patch) == patch.active = {} /\ patch.enabled = {}
IsActive(flag, patch) == flag \in patch.active
PatchEnables(flag, patch) == flag \in patch.enabled
PatchDisables(flag, patch) == flag \in patch.active /\ flag \notin patch.enabled
Exclude(flag, patch) == MakePatch(patch.active \ {flag}, patch.enabled)
Both(self, that) == MakePatch(self.active \cup that.active, self.enabled \cap that.enabled)
Either(self, that) == MakePatch(self.active \cup that.active, self.enabled \cup that.enabled)
AndThen(self, that) ==
    [active |-> self.active \cup that.active, enabled |-> self.enabled \cup that.enabled]
Inverse(patch) == MakePatch(patch.enabled, Invert(patch.active))

-----------------------------------------------------------------------------
(* The patch between two words turns the one into the other: what the      *)
(* runtime relies on when it updates the flags of a fiber and puts them    *)
(* back afterwards (core.ts, RevertFlags).                                 *)
THEOREM DiffApplies ==
    ASSUME NEW self \in Words, NEW that \in Words
    PROVE  Apply(Diff(self, that), self) = that
<1>1. Diff(self, that).active \cap Diff(self, that).enabled = that \ self
  BY DEF Diff, MakePatch
<1>2. self \cap Invert(Diff(self, that).active) = self \cap that
  BY DEF Diff, MakePatch, Invert, Words
<1>3. self \cap Diff(self, that).enabled = {}
  BY DEF Diff, MakePatch
<1> QED  BY <1>1, <1>2, <1>3 DEF Apply

(* A patch decides the flags it is about and leaves the others: it sets    *)
(* the enabled ones and clears the disabled ones.                          *)
THEOREM ApplyDecides ==
    ASSUME NEW patch \in Patches, NEW self \in Words
    PROVE  Apply(patch, self) = (self \ DisabledSet(patch)) \cup EnabledSet(patch)
  BY DEF Apply, Patches, Words, Invert, DisabledSet, EnabledSet

(* A patch applied twice is as good as once. *)
THEOREM ApplyIsIdempotent ==
    ASSUME NEW patch \in Patches, NEW self \in Words
    PROVE  Apply(patch, Apply(patch, self)) = Apply(patch, self)
<1>1. Apply(patch, self) \in Words
  BY DEF Apply, Patches, Words
<1>2. Apply(patch, self) = (self \ DisabledSet(patch)) \cup EnabledSet(patch)
  BY ApplyDecides
<1>3. Apply(patch, Apply(patch, self))
        = (Apply(patch, self) \ DisabledSet(patch)) \cup EnabledSet(patch)
  BY <1>1, ApplyDecides
<1> QED  BY <1>2, <1>3

(* Patches between words leave alone every flag on which the two words     *)
(* agree, whatever word they are applied to: of two concurrent changes of  *)
(* different flags none undoes the other (fiberRefs.ts, joinAs).           *)
THEOREM DiffTouchesDifferences ==
    ASSUME NEW self \in Words, NEW that \in Words, NEW word \in Words,
           NEW flag \in Bits, flag \in self <=> flag \in that
    PROVE  flag \in Apply(Diff(self, that), word) <=> flag \in word
  BY DEF Apply, Diff, MakePatch, Invert

(* runtimeFlagsPatch.andThen is a bitwise or: it is the first patch and    *)
(* then the second, except that a flag the first enables stays enabled     *)
(* though the second disables it.                                          *)
THEOREM AndThenKeepsEnabled ==
    ASSUME NEW first \in Patches, NEW second \in Patches, NEW self \in Words
    PROVE  Apply(AndThen(first, second), self)
               = Apply(second, Apply(first, self)) \cup (EnabledSet(first) \cap DisabledSet(second))
<1>1. AndThen(first, second) \in Patches
  BY DEF AndThen, Patches, Words
<1>2. Apply(first, self) \in Words
  BY DEF Apply, Patches, Words
<1>3. Apply(AndThen(first, second), self)
        = (self \ DisabledSet(AndThen(first, second))) \cup EnabledSet(AndThen(first, second))
  BY <1>1, ApplyDecides
<1>4. Apply(second, Apply(first, self))
        = (((self \ DisabledSet(first)) \cup EnabledSet(first)) \ DisabledSet(second))
              \cup EnabledSet(second)
  BY <1>2, ApplyDecides
<1> QED
  BY <1>3, <1>4 DEF AndThen, EnabledSet, DisabledSet, Patches

(* Where the second patch disables nothing that the first enables, andThen *)
(* is what Fiber/Runtime/Flags/Patch.ts says: one patch followed by the    *)
(* other.                                                                  *)
COROLLARY AndThenFollows ==
    ASSUME NEW first \in Patches, NEW second \in Patches, NEW self \in Words,
           EnabledSet(first) \cap DisabledSet(second) = {}
    PROVE  Apply(AndThen(first, second), self) = Apply(second, Apply(first, self))
<1>1. Apply(AndThen(first, second), self)
        = Apply(second, Apply(first, self)) \cup (EnabledSet(first) \cap DisabledSet(second))
  BY AndThenKeepsEnabled
<1> QED  BY <1>1

(* runtimeFlagsPatch.inverse keeps only the flags a patch enables: after a *)
(* patch, its inverse clears them and brings back none of those the patch  *)
(* cleared, so that it undoes exactly a patch that disables nothing and    *)
(* enables only what was not set.                                          *)
THEOREM InverseClears ==
    ASSUME NEW patch \in Patches, NEW self \in Words
    PROVE  Apply(Inverse(patch), Apply(patch, self)) = self \ patch.active
<1>1. Inverse(patch) = [active |-> patch.enabled, enabled |-> {}]
  BY DEF Inverse, MakePatch, Invert, Patches
<1>2. Inverse(patch) \in Patches
  BY <1>1 DEF Patches, Words
<1>3. Apply(patch, self) \in Words
  BY DEF Apply, Patches, Words
<1>4. Apply(Inverse(patch), Apply(patch, self)) = Apply(patch, self) \ patch.enabled
  BY <1>1, <1>2, <1>3, ApplyDecides DEF DisabledSet, EnabledSet
<1> QED
  BY <1>4, ApplyDecides DEF DisabledSet, EnabledSet, Patches

(* The patch back from what a patch made is the way to undo it: how the    *)
(* run loop reverts flags (fiberRuntime.ts, OP_UPDATE_RUNTIME_FLAGS).      *)
THEOREM RevertRestores ==
    ASSUME NEW patch \in Patches, NEW self \in Words
    PROVE  Apply(Diff(Apply(patch, self), self), Apply(patch, self)) = self
<1>1. Apply(patch, self) \in Words
  BY DEF Apply, Patches, Words
<1> QED  BY <1>1, DiffApplies
=============================================================================
