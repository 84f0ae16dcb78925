-------------------------------- MODULE Channel --------------------------------
(***************************************************************************)
(* What a queue promises, whatever its strategy.                           *)
(***************************************************************************)
EXTENDS Integers, Sequences, SequencesExt, Functions

VARIABLES
    buffer,    \* the elements on their way, the oldest first
    handed,    \* the elements that were handed over, in order
    accepted,  \* those whose offer returned true
    slides     \* the channel may drop its oldest elements

vars == <<buffer, handed, accepted, slides>>

Init == buffer = <<>> /\ handed = <<>> /\ accepted = {} /\ slides \in BOOLEAN

(* The k oldest elements disappear, new ones come, the oldest of all are   *)
(* handed over: what comes goes through in this order, and once.           *)
Pass(k) ==
    /\ IsPrefix(handed, handed')
    /\ IsPrefix(handed \o SubSeq(buffer, k + 1, Len(buffer)), handed' \o buffer')
    /\ IsInjective(handed' \o buffer')

(* Two elements of s are in t as well, in the same order. *)
InOrder(s, t) ==
    \A i, j \in DOMAIN s :
        i < j => \E a, b \in DOMAIN t : a < b /\ t[a] = s[i] /\ t[b] = s[j]

(* Those who offered the elements of S withdraw them; the others keep     *)
(* their order, and as the buffer repeats no element, none appears twice.  *)
Withdraw(S) ==
    /\ ToSet(buffer') = ToSet(buffer) \ S
    /\ InOrder(buffer', buffer)
    /\ UNCHANGED handed

(* Offers return true, for elements that are there unless they slid out. *)
Accept ==
    /\ accepted \subseteq accepted'
    /\ slides \/ accepted' \subseteq ToSet(buffer' \o handed')

Next ==
    /\ \/ Pass(0)
       \/ slides /\ \E k \in 1 .. Len(buffer) : Pass(k)
       \/ \E S \in SUBSET ToSet(buffer) : Withdraw(S)
    /\ Accept
    /\ UNCHANGED slides

Spec == Init /\ [][Next]_vars
===============================================================================
