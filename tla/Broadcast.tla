------------------------------- MODULE Broadcast -------------------------------
(***************************************************************************)
(* What a hub promises: a subscription receives every message stored while *)
(* it is subscribed, once and in order.  Only a sliding hub may skip some. *)
(***************************************************************************)
EXTENDS Integers, Sequences, SequencesExt

CONSTANT Subscriptions

VARIABLES
    log,      \* the messages stored, in order
    on,       \* the subscriptions that receive messages
    cursor,   \* cursor[s]: the place in log up to which s received or skipped
    got,      \* got[s]: what s received
    slides    \* the hub may drop its oldest messages

vars == <<log, on, cursor, got, slides>>

Init ==
    /\ log = <<>> /\ on = {} /\ slides \in BOOLEAN
    /\ got = [s \in Subscriptions |-> <<>>]

(* A subscription goes on to a later place; it may skip messages if the    *)
(* hub slides, and receives the others up to there.                        *)
Receives(s) ==
    /\ cursor'[s] \in cursor[s] .. Len(log')
    /\ \E k \in cursor[s] .. cursor'[s] :
          /\ slides \/ k = cursor[s]
          /\ got'[s] = got[s] \o SubSeq(log', k + 1, cursor'[s])

Joins(s) == cursor'[s] = Len(log) /\ UNCHANGED log

Next ==
    /\ IsPrefix(log, log')
    /\ \A s \in Subscriptions :
          \/ s \in on \cap on' /\ Receives(s)
          \/ s \in on' \ on /\ Joins(s) /\ got'[s] = got[s]
          \/ s \notin on' /\ got'[s] = got[s]
    /\ UNCHANGED slides

Spec == Init /\ [][Next]_vars
===============================================================================
