--------------------------------- MODULE Queue ---------------------------------
(***************************************************************************)
(* Queues (internal/queue.ts): producers offer, consumers take, through a  *)
(* buffer of Capacity elements.  Consumers that find it empty leave a      *)
(* Deferred in takers.  What happens to elements without room depends on   *)
(* the strategy: producers wait in putters (back pressure), the new        *)
(* elements are dropped, or the oldest ones are (sliding).                 *)
(*                                                                         *)
(* A client has one operation at a time, so its Deferred is named by it.   *)
(* An operation is a chain of primitives, between which the run loop may   *)
(* yield to other fibers or see an interrupt: the steps below are the      *)
(* stretches in between.                                                   *)
(***************************************************************************)
EXTENDS Integers, Sequences, SequencesExt, FiniteSetsExt

CONSTANTS
    Producers,   \* the fibers that offer
    Consumers,   \* the fibers that take
    Capacity,    \* capacity of the MutableQueue
    Strategies,  \* the strategies considered
    MaxOffers,   \* bound: MaxOffers[p] elements are offered by producer p
    MaxBatch,    \* bound: elements of one offerAll or takeUpTo
    MaxTakes     \* bound: operations of a consumer

ASSUME ClientsAssumption == Producers \cap Consumers = {}
ASSUME CapacityAssumption == Capacity \in Nat \ {0}
ASSUME StrategiesAssumption == Strategies \subseteq {"backpressure", "dropping", "sliding"}
ASSUME BoundsAssumption ==
    MaxOffers \in [Producers -> Nat] /\ MaxBatch \in Nat /\ MaxTakes \in Nat

VARIABLES
    strategy,     \* strategy
    items,        \* queue: the elements in the buffer
    takers,       \* takers: the consumers whose Deferred is in the queue
    putters,      \* putters of BackPressureStrategy: [elem, who]
    out,          \* history: the elements handed to consumers, in order
    shutdown,     \* shutdownFlag, and how far shutdown got
    closing,      \* the Deferreds that shutdown is about to interrupt
    phase,        \* where a client is in its operation
    interrupted,  \* an Interrupt message was told to the client
    offering,     \* the elements of the producer's offer that is under way
    surplus,      \* those that had no room and are not yet handled
    sent,         \* how many elements the producer has offered
    took,         \* how many operations the consumer has begun
    accepted      \* history: the elements whose offer returned true

queueVars == <<items, takers, putters, out>>
shutdownVars == <<shutdown, closing>>
jobVars == <<offering, surplus, sent, took, accepted>>
vars == <<strategy, queueVars, shutdownVars, phase, interrupted, jobVars>>

Clients == Producers \cup Consumers
Elements == UNION {{p} \X (1 .. MaxOffers[p]) : p \in Producers}

(* "idle" between operations; a producer is at "surplus" before            *)
(* handleSurplus, "putting" suspended on its Deferred, "put" resumed by    *)
(* it; a consumer is at "polled" before it enters takers, "taking"         *)
(* suspended, "taken" resumed; either is at "leaving" once it fails with   *)
(* an interruption of the queue's own, and "out" when it has ended so.     *)
Phases == {"idle", "surplus", "putting", "put", "polled", "taking", "taken",
           "leaving", "out"}

Init ==
    /\ strategy \in Strategies
    /\ items = <<>> /\ takers = <<>> /\ putters = <<>> /\ out = <<>>
    /\ shutdown = "open" /\ closing = {}
    /\ phase = [c \in Clients |-> "idle"]
    /\ interrupted = [c \in Clients |-> FALSE]
    /\ offering = [p \in Producers |-> <<>>]
    /\ surplus = [p \in Producers |-> <<>>]
    /\ sent = [p \in Producers |-> 0]
    /\ took = [c \in Consumers |-> 0]
    /\ accepted = {}

-----------------------------------------------------------------------------
(* The loops over the three queues.  They run without a pause, so each is  *)
(* a function of the four queues, kept in a record.                        *)

Queues == [items |-> items, takers |-> takers, putters |-> putters, out |-> out]

First(s, n) == SubSeq(s, 1, n)
Without(s, n) == SubSeq(s, n + 1, Len(s))
Less(m, n) == Min({m, n})

Elems(ps) == [i \in 1 .. Len(ps) |-> ps[i].elem]
Owners(ps) == {ps[i].who : i \in 1 .. Len(ps)}

(* Elements go in order to the takers that wait, then to the free places.  *)
Settle(q) ==
    LET all == q.items \o Elems(q.putters)
        given == Less(Len(q.takers), Len(all))
        kept == Less(Capacity, Len(all) - given)
        moved == given + kept - Len(q.items)
    IN  [items |-> First(Without(all, given), kept),
         takers |-> Without(q.takers, given),
         putters |-> Without(q.putters, moved),
         out |-> q.out \o First(all, given)]

(* unsafeCompleteTakers. *)
CompleteTakers(q) == IF q.items = <<>> \/ q.takers = <<>> THEN q ELSE Settle(q)

(* unsafeOnQueueEmptySpace; putters are empty without back pressure. *)
OnQueueEmptySpace(q) ==
    IF Len(q.items) >= Capacity \/ q.putters = <<>> THEN q ELSE Settle(q)

(* Mutant: a putter is resumed when the first of its elements is in. *)
CompletedEarly(q, r) ==
    (ToSet(q.takers) \ ToSet(r.takers))
    \cup {p \in Owners(q.putters) : Len(r.putters) < Len(q.putters)}

(* The clients whose Deferred a loop completes: takers that get an element *)
(* and putters whose last element is in.                                   *)
Completed(q, r) ==
    (ToSet(q.takers) \ ToSet(r.takers)) \cup (Owners(q.putters) \ Owners(r.putters))

(* The queues were q and became r by such loops; c goes to phase s.        *)
Loops(q, r, c, s) ==
    LET resumed == [taking |-> "taken", putting |-> "put"]
        moved == [phase EXCEPT ![c] = s]
    IN
    /\ items' = r.items /\ takers' = r.takers /\ putters' = r.putters /\ out' = r.out
    /\ phase' = [d \in Clients |->
          IF d \in Completed(q, r) /\ moved[d] \in DOMAIN resumed
          THEN resumed[moved[d]] ELSE moved[d]]

Goes(c, s) == phase' = [phase EXCEPT ![c] = s]

(* The surplus is in the hands of the strategy; the whole offer is over.   *)
Handled(p) == surplus' = [surplus EXCEPT ![p] = <<>>]
Over(p) == Handled(p) /\ offering' = [offering EXCEPT ![p] = <<>>]
Accepted(p) == accepted' = accepted \cup ToSet(offering[p])

(* unsafeRemove: all entries are polled, and those not in S offered again. *)
Removed(s, S) ==
    LET kept[i \in 0 .. Len(s)] ==
            IF i = 0 THEN <<>>
            ELSE IF s[i] \in S THEN kept[i - 1] ELSE Append(kept[i - 1], s[i])
    IN  kept[Len(s)]

(* The Deferred of c leaves takers and putters. *)
Forget(c) ==
    /\ takers' = Removed(takers, {c})
    /\ putters' = Removed(putters, {x \in ToSet(putters) : x.who = c})
    /\ UNCHANGED <<items, out>>

-----------------------------------------------------------------------------
(* Producers.                                                              *)

(* offer (n = 1) and offerAll: waiting takers first, then the buffer.      *)
Offer(p, n) ==
    LET es == [i \in 1 .. n |-> <<p, sent[p] + i>>]
        direct == IF items = <<>> THEN Less(Len(takers), n) ELSE 0
        fits == Less(n - direct, Capacity - Len(items))
        q == [items |-> items \o First(Without(es, direct), fits),
              takers |-> Without(takers, direct),
              putters |-> putters,
              out |-> out \o First(es, direct)]
        rest == Without(es, direct + fits)
    IN
    /\ phase[p] = "idle" /\ ~interrupted[p] /\ shutdown = "open"
    /\ sent[p] + n <= MaxOffers[p]
    /\ Loops(Queues, CompleteTakers(q), p, IF rest = <<>> THEN "idle" ELSE "surplus")
    /\ sent' = [sent EXCEPT ![p] = @ + n]
    /\ offering' = [offering EXCEPT ![p] = IF rest = <<>> THEN <<>> ELSE es]
    /\ surplus' = [surplus EXCEPT ![p] = rest]
    /\ accepted' = IF rest = <<>> THEN accepted \cup ToSet(es) ELSE accepted
    /\ UNCHANGED <<strategy, shutdownVars, interrupted, took>>

(* Operations on a queue that is shut down are interrupted at once. *)
Refused(c) ==
    /\ phase[c] = "idle" /\ shutdown # "open"
    /\ c \in Producers => sent[c] < MaxOffers[c]
    /\ c \in Consumers => took[c] < MaxTakes
    /\ Goes(c, "out")
    /\ UNCHANGED <<strategy, queueVars, shutdownVars, interrupted, jobVars>>

(* DroppingStrategy.handleSurplus: offer returns false. *)
Drop(p) ==
    /\ strategy = "dropping"
    /\ phase[p] = "surplus" /\ ~interrupted[p]
    /\ Goes(p, "idle") /\ Over(p)
    /\ UNCHANGED <<strategy, queueVars, shutdownVars, interrupted, sent, took, accepted>>

(* SlidingStrategy.handleSurplus: each element takes the place of the      *)
(* oldest one, even if there is room by now; the first of them has its own *)
(* place in an empty queue.                                                *)
Slide(p) ==
    LET all == items \o surplus[p]
        places == IF items = <<>> THEN 1 ELSE Len(items)
        q == [Queues EXCEPT !.items = Without(all, Len(all) - places)]
    IN
    /\ strategy = "sliding"
    /\ phase[p] = "surplus" /\ ~interrupted[p]
    /\ Loops(q, CompleteTakers(q), p, "idle") /\ Over(p) /\ Accepted(p)
    /\ UNCHANGED <<strategy, shutdownVars, interrupted, sent, took>>

(* BackPressureStrategy.handleSurplus: wait in putters, after a look at    *)
(* the queues, which may have changed since offer did.  After a shutdown   *)
(* the producer is interrupted instead.                                    *)
Put(p) ==
    LET entries == [i \in DOMAIN surplus[p] |-> [elem |-> surplus[p][i], who |-> p]]
        q == [Queues EXCEPT !.putters = @ \o entries]
        r == CompleteTakers(OnQueueEmptySpace(q))
    IN
    /\ strategy = "backpressure"
    /\ phase[p] = "surplus" /\ ~interrupted[p]
    /\ Loops(q, r, p, IF shutdown = "open" THEN "putting" ELSE "leaving")
    /\ Handled(p)
    /\ UNCHANGED <<strategy, shutdownVars, interrupted, offering, sent, took, accepted>>

(* The Deferred was completed: offer returns true. *)
PutDone(p) ==
    /\ phase[p] = "put" /\ ~interrupted[p]
    /\ Goes(p, "idle") /\ Over(p) /\ Accepted(p)
    /\ UNCHANGED <<strategy, queueVars, shutdownVars, interrupted, sent, took>>

-----------------------------------------------------------------------------
(* Consumers.                                                              *)

Begins(c) ==
    /\ phase[c] = "idle" /\ ~interrupted[c] /\ shutdown = "open"
    /\ took[c] < MaxTakes
    /\ took' = [took EXCEPT ![c] = @ + 1]
    /\ UNCHANGED <<strategy, shutdownVars, interrupted, offering, surplus, sent, accepted>>

(* take of an element in the buffer, takeUpTo(n) and takeAll. *)
TakeItems(c, n) ==
    LET k == Less(n, Len(items))
        q == [items |-> Without(items, k), takers |-> takers, putters |-> putters,
              out |-> out \o First(items, k)]
    IN
    /\ Begins(c)
    /\ Loops(q, OnQueueEmptySpace(q), c, "idle")

(* take of an empty buffer makes a Deferred. *)
TakeNothing(c) ==
    /\ Begins(c)
    /\ items = <<>>
    /\ Goes(c, "polled")
    /\ UNCHANGED queueVars

(* Mutant: take does not look at the buffer again. *)
WaitBlindly(c) ==
    /\ phase[c] = "polled" /\ ~interrupted[c]
    /\ takers' = Append(takers, c)
    /\ Goes(c, "taking")
    /\ UNCHANGED <<strategy, items, putters, out, shutdownVars, interrupted, jobVars>>

(* The Deferred enters takers, and take looks at the buffer again.  After  *)
(* a shutdown the consumer is interrupted instead.                         *)
Wait(c) ==
    LET q == [Queues EXCEPT !.takers = Append(@, c)] IN
    /\ phase[c] = "polled" /\ ~interrupted[c]
    /\ Loops(q, CompleteTakers(q), c, IF shutdown = "open" THEN "taking" ELSE "leaving")
    /\ UNCHANGED <<strategy, shutdownVars, interrupted, jobVars>>

(* The Deferred was completed: take returns its element. *)
TakeDone(c) ==
    /\ phase[c] = "taken" /\ ~interrupted[c]
    /\ Goes(c, "idle")
    /\ UNCHANGED <<strategy, queueVars, shutdownVars, interrupted, jobVars>>

-----------------------------------------------------------------------------
(* Interruption and shutdown.                                              *)

(* Between operations an interrupt is not the queue's concern. *)
Interrupt(c) ==
    /\ ~interrupted[c] /\ phase[c] \notin {"idle", "out"}
    /\ interrupted' = [interrupted EXCEPT ![c] = TRUE]
    /\ UNCHANGED <<strategy, queueVars, shutdownVars, phase, jobVars>>

Ends(c) == phase[c] # "out" /\ (interrupted[c] \/ phase[c] = "leaving")

(* Mutant: an interrupted client leaves its Deferred behind. *)
EndSilently(c) ==
    /\ Ends(c)
    /\ Goes(c, "out")
    /\ UNCHANGED <<strategy, queueVars, shutdownVars, interrupted, jobVars>>

(* The client fails with the interrupt; onInterrupt removes its Deferred.  *)
(* If that was completed meanwhile, its element or its true is lost.       *)
End(c) ==
    /\ Ends(c)
    /\ Goes(c, "out")
    /\ Forget(c)
    /\ UNCHANGED <<strategy, shutdownVars, interrupted, jobVars>>

(* Mutant: shutdown forgets who waits. *)
ShutdownSilently ==
    /\ shutdown = "open"
    /\ shutdown' = "takers"
    /\ takers' = <<>>
    /\ UNCHANGED <<strategy, items, putters, out, closing, phase, interrupted, jobVars>>

(* shutdown sets the flag and takes the Deferreds out of takers; it        *)
(* interrupts them in parallel, then those of the putters.                 *)
Shutdown ==
    /\ shutdown = "open"
    /\ shutdown' = "takers"
    /\ closing' = ToSet(takers)
    /\ takers' = <<>>
    /\ UNCHANGED <<strategy, items, putters, out, phase, interrupted, jobVars>>

ShutdownPutters ==
    /\ shutdown = "takers" /\ closing = {}
    /\ shutdown' = "putters"
    /\ closing' = Owners(putters)
    /\ putters' = <<>>
    /\ UNCHANGED <<strategy, items, takers, out, phase, interrupted, jobVars>>

(* Interrupting a Deferred does nothing when its client has left. *)
Close(c) ==
    /\ c \in closing
    /\ closing' = closing \ {c}
    /\ Goes(c, IF phase[c] \in {"taking", "putting"} THEN "leaving" ELSE phase[c])
    /\ UNCHANGED <<strategy, queueVars, shutdown, interrupted, jobVars>>

Produce(p) ==
    \/ \E n \in 1 .. MaxBatch : Offer(p, n)
    \/ Drop(p) \/ Slide(p) \/ Put(p) \/ PutDone(p)

Consume(c) ==
    \/ \E n \in 1 .. MaxBatch : TakeItems(c, n)
    \/ TakeNothing(c) \/ Wait(c) \/ TakeDone(c)

ShutdownStep == ShutdownPutters \/ \E c \in Clients : Close(c)

Next ==
    \/ \E p \in Producers : Produce(p)
    \/ \E c \in Consumers : Consume(c)
    \/ \E c \in Clients : Interrupt(c) \/ End(c) \/ Refused(c)
    \/ Shutdown \/ ShutdownStep

Spec == Init /\ [][Next]_vars

(* The event loop runs whoever has something to do within an operation:    *)
(* while there is such a step, one of them is taken.                       *)
Pending ==
    \/ ShutdownStep
    \/ \E p \in Producers : Drop(p) \/ Slide(p) \/ Put(p) \/ PutDone(p)
    \/ \E c \in Consumers : Wait(c) \/ TakeDone(c)
    \/ \E c \in Clients : End(c)

Fairness == WF_vars(Pending)

FairSpec == Spec /\ Fairness

-----------------------------------------------------------------------------
(* Properties.                                                             *)

TypeOK ==
    /\ strategy \in Strategies
    /\ items \in Seq(Elements) /\ Len(items) <= Capacity
    /\ takers \in Seq(Consumers)
    /\ putters \in Seq([elem: Elements, who: Producers])
    /\ out \in Seq(Elements)
    /\ shutdown \in {"open", "takers", "putters"}
    /\ closing \in SUBSET Clients
    /\ phase \in [Clients -> Phases]
    /\ interrupted \in [Clients -> BOOLEAN]
    /\ offering \in [Producers -> Seq(Elements)]
    /\ surplus \in [Producers -> Seq(Elements)]
    /\ sent \in [Producers -> Nat] /\ \A p \in Producers : sent[p] <= MaxOffers[p]
    /\ took \in [Consumers -> 0 .. MaxTakes]
    /\ accepted \in SUBSET Elements

(* Nobody waits for what is there: no taker while there are elements, and  *)
(* no putter while there is room.                                          *)
NobodyWaitsInVain ==
    /\ takers # <<>> => items = <<>> /\ putters = <<>>
    /\ putters # <<>> => Len(items) = Capacity

(* What is in takers and putters belongs to clients that are in the        *)
(* operation: elements of an offer that was interrupted never turn up      *)
(* later, and none goes to a consumer that left.  Conversely whoever is    *)
(* suspended can be found, by the other side or by shutdown.               *)
WaitersArePending ==
    /\ \A c \in ToSet(takers) : phase[c] \in {"taking", "leaving"}
    /\ \A p \in Owners(putters) : phase[p] \in {"putting", "leaving"}
    /\ \A c \in Clients :
          phase[c] \in {"taking", "putting"} =>
              c \in ToSet(takers) \cup Owners(putters) \cup closing

(* Whoever waits, waits with reason and can be found (the lists takers and *)
(* putters against the clients suspended in take and offer).               *)
WaitersAreRight == NobodyWaitsInVain /\ WaitersArePending

Channel == INSTANCE Channel WITH
    buffer <- items \o Elems(putters), handed <- out, slides <- strategy = "sliding"

(* The queue implements the channel: elements are handed over in order,    *)
(* each once, and one whose offer returned true is not lost on the way.    *)
RefinesChannel == Channel!Spec

(* shutdown interrupts the fibers "that are suspended on offer or take"    *)
(* (src/src/Queue.ts), also those that are about to suspend.               *)
ShutdownFrees ==
    shutdown # "open" ~> \A c \in Clients : phase[c] \in {"idle", "out"}
===============================================================================
