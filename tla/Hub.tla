---------------------------------- MODULE Hub ----------------------------------
(***************************************************************************)
(* Hubs (internal/hub.ts): every message published goes to every           *)
(* subscription.  Messages wait in a ring of slots, each with the number   *)
(* of subscriptions that have not taken it; a hub of capacity one has a    *)
(* slot and code of its own.  Consumers that find nothing leave a Deferred *)
(* in the pollers of their subscription.  What happens to messages without *)
(* room depends on the strategy, as in Queue.                              *)
(*                                                                         *)
(* The steps are the synchronous stretches of code.  A stretch that ends   *)
(* in the mutual loops of the strategy makes a step per turn of them,      *)
(* while nothing else happens (loop).                                      *)
(***************************************************************************)
EXTENDS Integers, Sequences, SequencesExt, FiniteSetsExt

CONSTANTS
    Publishers,     \* the fibers that publish
    Consumers,      \* the fibers that take
    Subscriptions,  \* the subscriptions that may be made
    Of,             \* Of[c]: the subscription consumer c takes from
    Kinds,          \* the hubs considered: [capacity, strategy]
    MaxOffers,      \* bound: messages of all publishers together
    MaxBatch,       \* bound: messages of one publishAll or takeUpTo
    MaxTakes,       \* bound: operations of a consumer
    MaxInterrupts   \* bound: clients that are interrupted

ASSUME ClientsAssumption == Publishers \cap Consumers = {}
ASSUME OfAssumption == Of \in [Consumers -> Subscriptions]
ASSUME KindsAssumption ==
    Kinds \subseteq [capacity: Nat \ {0}, strategy: {"backpressure", "dropping", "sliding"}]
ASSUME BoundsAssumption ==
    MaxOffers \in Nat /\ MaxBatch \in Nat /\ MaxTakes \in Nat /\ MaxInterrupts \in Nat

VARIABLES
    kind,         \* capacity and strategy
    hub,          \* the AtomicHub: see Init
    pollers,      \* pollers[s]: the consumers whose Deferred is in the queue
    publishers,   \* publishers of BackPressureStrategy: [msg, who, last]
    loop,         \* the loops under way: "none", "pollers" or "space"
    status,       \* how far a subscription is made or shut down
    shutdown,     \* shutdownFlag of the hub, and how far shutdown got
    closing,      \* the Deferreds that a shutdown is about to interrupt
    phase,        \* where a client is in its operation
    interrupted,  \* an Interrupt message was told to the client
    surplus,      \* those that had no room and are not yet handled
    sent,         \* how many messages the publisher has begun to publish
    took,         \* how many operations the consumer has begun
    log,          \* history: the messages stored, in order
    got           \* history: got[s], the messages s polled

stateVars == <<hub, log, got, pollers, publishers>>
closeVars == <<status, shutdown, closing>>
jobVars == <<surplus, sent, took>>
vars == <<kind, stateVars, loop, closeVars, phase, interrupted, jobVars>>

Clients == Publishers \cup Consumers
Messages == Publishers \X (1 .. MaxOffers)
NoMessage == <<>>

(* A publisher is at "surplus" before handleSurplus and "waiting" when     *)
(* suspended; a consumer is "polled" before its Deferred is in pollers and *)
(* "taking" when suspended; either is "leaving" once its Deferred was      *)
(* interrupted.  With a completed Deferred it is "idle" again.             *)
Phases == {"idle", "surplus", "waiting", "polled", "taking", "leaving"}

(* "opening" until its finalizer is in the scope of the hub, "open", then  *)
(* through the three stages of its shutdown.                               *)
Statuses == {"none", "opening", "open", "closing", "unsubscribed", "closed"}
Subscribed(s) == status[s] \in {"opening", "open", "closing"}
ShutDown(s) == status[s] \in {"closing", "unsubscribed", "closed"}

-----------------------------------------------------------------------------
(* The AtomicHub: operations on a record of its fields.  needs[i] is       *)
(* subscribers[i]; publisherIndex is Len(log), but the code does not know. *)

First(s, n) == SubSeq(s, 1, n)
Without(s, n) == SubSeq(s, n + 1, Len(s))
Less(m, n) == Min({m, n})

Single == kind.capacity = 1
Slot(i) == i % kind.capacity

IsFull(h) ==
    IF Single THEN h.needs[0] # 0
    ELSE h.publisherIndex = h.subscribersIndex + kind.capacity

(* The messages go to the slots from that of publisherIndex on. *)
Store(h, ms) ==
    LET into(i) == {j \in DOMAIN ms : Slot(h.publisherIndex + j - 1) = i} IN
    [h EXCEPT !.array = [i \in DOMAIN @ |-> IF into(i) = {} THEN @[i] ELSE ms[Max(into(i))]],
              !.needs = [i \in DOMAIN @ |-> IF into(i) = {} THEN @[i] ELSE h.subscriberCount],
              !.publisherIndex = @ + Len(ms)]

(* publish, when the hub is not full: without subscriptions nothing is     *)
(* stored.                                                                 *)
Heard(h, ms) == IF h.subscriberCount = 0 THEN <<>> ELSE ms
Publish(h, m) == Store(h, Heard(h, <<m>>))

(* publishAll stores as many as fit, whether or not anybody subscribed.    *)
(* A ring returns the last one it stored with those that do not fit.       *)
Fitting(h, ms) ==
    IF Single THEN (IF IsFull(h) THEN <<>> ELSE First(ms, 1))
    ELSE First(ms, Less(Len(ms), kind.capacity - (h.publisherIndex - h.subscribersIndex)))
Stored(h, ms) == IF Single THEN Heard(h, Fitting(h, ms)) ELSE Fitting(h, ms)
Rest(h, ms) ==
    IF Single \/ Fitting(h, ms) = <<>> THEN Without(ms, Len(Fitting(h, ms)))
    ELSE Without(ms, Len(Fitting(h, ms)) - 1)

Slid(h) ==
    IF Single THEN [h EXCEPT !.needs[0] = 0]
    ELSE IF h.subscribersIndex = h.publisherIndex THEN h
    ELSE [h EXCEPT !.needs[Slot(h.subscribersIndex)] = 0, !.subscribersIndex = @ + 1]

(* slidingPublish: each message makes room for itself. *)
Pushed(h, ms) ==
    LET after[i \in 0 .. Len(ms)] ==
            IF i = 0 THEN h ELSE Publish(Slid(after[i - 1]), ms[i])
    IN  after[Len(ms)]

(* Mutant: a subscription does not notice that messages were slid out. *)
CursorIgnoringSlides(h, s) == h.subscriberIndex[s]
Cursor(h, s) ==
    IF Single THEN h.subscriberIndex[s] ELSE Max({h.subscriberIndex[s], h.subscribersIndex})

Available(h, s) ==
    IF Single THEN (IF h.needs[0] = 0 \/ h.subscriberIndex[s] = h.publisherIndex THEN 0 ELSE 1)
    ELSE h.publisherIndex - Cursor(h, s)

Oldest(h, s, n) == [i \in 1 .. n |-> h.array[Slot(Cursor(h, s) + i - 1)]]

(* s is done with n messages; slots that nobody needs any more are free.   *)
Pass(h, s, n) ==
    LET passed == {Slot(Cursor(h, s) + i) : i \in 0 .. n - 1} IN
    [h EXCEPT !.needs = [i \in DOMAIN @ |-> IF i \in passed THEN @[i] - 1 ELSE @[i]],
              !.subscribersIndex = @ + Cardinality({i \in passed : h.needs[i] = 1}),
              !.subscriberIndex[s] = Cursor(h, s) + n]

(* Mutant: the slots a subscription leaves behind stay in use. *)
LeftOnly(h, s) == [h EXCEPT !.subscriberCount = @ - 1]
Left(h, s) ==
    LET n == IF Single THEN (IF h.subscriberIndex[s] = h.publisherIndex THEN 0 ELSE 1)
             ELSE Available(h, s)
    IN  [Pass(h, s, n) EXCEPT !.subscriberCount = @ - 1]

-----------------------------------------------------------------------------
Init ==
    /\ kind \in Kinds
    /\ hub = [array |-> [i \in 0 .. kind.capacity - 1 |-> NoMessage],
              needs |-> [i \in 0 .. kind.capacity - 1 |-> 0],
              publisherIndex |-> 0, subscribersIndex |-> 0, subscriberCount |-> 0,
              subscriberIndex |-> [s \in Subscriptions |-> 0]]
    /\ log = <<>> /\ got = [s \in Subscriptions |-> <<>>]
    /\ pollers = [s \in Subscriptions |-> <<>>]
    /\ publishers = <<>>
    /\ loop = "none"
    /\ status = [s \in Subscriptions |-> "none"]
    /\ shutdown = "no" /\ closing = {}
    /\ phase = [c \in Clients |-> "idle"]
    /\ interrupted = [c \in Clients |-> FALSE]
    /\ surplus = [p \in Publishers |-> <<>>]
    /\ sent = [p \in Publishers |-> 0]
    /\ took = [c \in Consumers |-> 0]

Idle == loop = "none"
At(c, f) == Idle /\ phase[c] = f /\ ~interrupted[c]
Goes(c, f) == phase' = [phase EXCEPT ![c] = f]
Polls(s, n) ==
    /\ hub' = Pass(hub, s, n)
    /\ got' = [got EXCEPT ![s] = @ \o Oldest(hub, s, n)]

-----------------------------------------------------------------------------
(* The loops of the strategy: completing pollers frees slots, for which    *)
(* waiting publishers have messages, which complete pollers.               *)

(* What the loops still have to do. *)
Pollable(s) == pollers[s] # <<>> /\ Subscribed(s) /\ Available(hub, s) > 0
Room == publishers # <<>> /\ ~IsFull(hub)
Work(l) == (\E s \in Subscriptions : Pollable(s)) \/ (l = "space" /\ Room)

(* A stretch ends with unsafeCompleteSubscribers or unsafeCompletePollers  *)
(* ("pollers"), or with unsafeOnHubEmptySpace ("space").                   *)
Loops(l) == loop' = IF Work(l)' THEN l ELSE "none"

(* A Deferred is completed, or interrupted, if its client is suspended.    *)
Resumed(c, f) == phase' = [phase EXCEPT ![c] = IF @ \in {"taking", "waiting"} THEN f ELSE @]

CompletePoller(s) ==
    /\ loop # "none"
    /\ Pollable(s)
    /\ Polls(s, 1)
    /\ pollers' = [pollers EXCEPT ![s] = Tail(@)]
    /\ Resumed(Head(pollers[s]), "idle")
    /\ UNCHANGED <<kind, log, publishers, closeVars, interrupted, jobVars>>
    /\ Loops("space")

(* unsafeOnHubEmptySpace. *)
PublishWaiting ==
    LET x == Head(publishers) IN
    /\ loop = "space" /\ Room
    /\ hub' = Publish(hub, x.msg) /\ log' = log \o Heard(hub, <<x.msg>>)
    /\ publishers' = Tail(publishers)
    /\ IF x.last THEN Resumed(x.who, "idle") ELSE UNCHANGED phase
    /\ UNCHANGED <<kind, got, pollers, closeVars, interrupted, jobVars>>
    /\ Loops("space")

-----------------------------------------------------------------------------
(* Publishers.                                                             *)

Offered == MapThenSumSet(LAMBDA p : sent[p], Publishers)

Begins(p, ms) ==
    /\ At(p, "idle") /\ shutdown = "no"
    /\ Offered + Len(ms) <= MaxOffers
    /\ sent' = [sent EXCEPT ![p] = @ + Len(ms)]
    /\ UNCHANGED <<kind, got, pollers, publishers, closeVars, interrupted, took>>

(* The rest of the call, if there is one, is up to the strategy. *)
Leaves(p, rest) ==
    /\ Goes(p, IF rest = <<>> THEN "idle" ELSE "surplus")
    /\ surplus' = [surplus EXCEPT ![p] = rest]

PublishOne(p) ==
    LET ms == <<<<p, sent[p] + 1>>>> IN
    /\ Begins(p, ms)
    /\ \/ /\ ~IsFull(hub)
          /\ hub' = Publish(hub, ms[1]) /\ log' = log \o Heard(hub, ms)
          /\ Leaves(p, <<>>)
       \/ /\ IsFull(hub)
          /\ UNCHANGED <<hub, log>>
          /\ Leaves(p, ms)
    /\ Loops("pollers")

PublishAll(p, n) ==
    LET ms == [i \in 1 .. n |-> <<p, sent[p] + i>>] IN
    /\ Begins(p, ms)
    /\ hub' = Store(hub, Stored(hub, ms)) /\ log' = log \o Stored(hub, ms)
    /\ Leaves(p, Rest(hub, ms))
    /\ Loops("pollers")

Handled(p) ==
    /\ surplus' = [surplus EXCEPT ![p] = <<>>]

(* DroppingStrategy.handleSurplus: the call returns false. *)
Drop(p) ==
    /\ At(p, "surplus") /\ kind.strategy = "dropping"
    /\ Goes(p, "idle") /\ Handled(p)
    /\ UNCHANGED <<kind, stateVars, loop, closeVars, interrupted, sent, took>>

(* SlidingStrategy.handleSurplus. *)
Slide(p) ==
    /\ At(p, "surplus") /\ kind.strategy = "sliding"
    /\ hub' = Pushed(hub, surplus[p]) /\ log' = log \o Heard(hub, surplus[p])
    /\ Goes(p, "idle") /\ Handled(p)
    /\ UNCHANGED <<kind, got, pollers, publishers, closeVars, interrupted, sent, took>>
    /\ Loops("pollers")

(* BackPressureStrategy.handleSurplus: wait among the publishers, after    *)
(* another look at the hub.                                                *)
Put(p) ==
    LET ms == surplus[p]
        entries == [i \in DOMAIN ms |-> [msg |-> ms[i], who |-> p, last |-> i = Len(ms)]]
    IN
    /\ At(p, "surplus") /\ kind.strategy = "backpressure"
    /\ publishers' = publishers \o entries
    /\ Goes(p, IF shutdown = "no" THEN "waiting" ELSE "leaving")
    /\ Handled(p)
    /\ UNCHANGED <<kind, hub, log, got, pollers, closeVars, interrupted, sent, took>>
    /\ Loops("space")

-----------------------------------------------------------------------------
(* Consumers.                                                              *)

(* A consumer has the subscription once subscribe returned. *)
Takes(c) ==
    /\ At(c, "idle") /\ status[Of[c]] = "open"
    /\ took[c] < MaxTakes
    /\ took' = [took EXCEPT ![c] = @ + 1]
    /\ UNCHANGED <<kind, log, pollers, publishers, closeVars, interrupted, surplus, sent>>

(* What a take may have: nothing while others wait at the subscription.    *)
Ready(s) == IF pollers[s] = <<>> THEN Available(hub, s) ELSE 0

(* take of a message that is there, takeUpTo(n) and takeAll. *)
TakeUpTo(c, n) ==
    /\ Takes(c)
    /\ Polls(Of[c], Less(n, Ready(Of[c])))
    /\ UNCHANGED phase
    /\ Loops("space")

(* take finds nothing and makes a Deferred. *)
TakeNothing(c) ==
    /\ Takes(c)
    /\ Ready(Of[c]) = 0
    /\ Goes(c, "polled")
    /\ UNCHANGED <<hub, got, loop>>

(* Mutant: take does not look again after its Deferred is in pollers. *)
WaitBlindly(c) ==
    /\ At(c, "polled")
    /\ pollers' = [pollers EXCEPT ![Of[c]] = Append(@, c)]
    /\ Goes(c, "taking")
    /\ UNCHANGED <<kind, hub, log, got, publishers, loop, closeVars, interrupted, jobVars>>

(* The Deferred enters pollers, and take looks at the subscription again.  *)
Wait(c) ==
    /\ At(c, "polled")
    /\ pollers' = [pollers EXCEPT ![Of[c]] = Append(@, c)]
    /\ Goes(c, IF ShutDown(Of[c]) THEN "leaving" ELSE "taking")
    /\ UNCHANGED <<kind, hub, log, got, publishers, closeVars, interrupted, jobVars>>
    /\ Loops("pollers")

-----------------------------------------------------------------------------
(* Interruption, as in Queue.                                              *)

Interrupt(c) ==
    /\ Idle
    /\ ~interrupted[c] /\ phase[c] # "idle"
    /\ Cardinality({d \in Clients : interrupted[d]}) < MaxInterrupts
    /\ interrupted' = [interrupted EXCEPT ![c] = TRUE]
    /\ UNCHANGED <<kind, stateVars, loop, closeVars, phase, jobVars>>

Ends(c) == Idle /\ phase[c] # "idle" /\ (interrupted[c] \/ phase[c] = "leaving")

(* unsafeRemove. *)
Removed(s, S) ==
    LET kept[i \in 0 .. Len(s)] ==
            IF i = 0 THEN <<>>
            ELSE IF s[i] \in S THEN kept[i - 1] ELSE Append(kept[i - 1], s[i])
    IN  kept[Len(s)]

End(c) ==
    /\ Ends(c)
    /\ Goes(c, "idle")
    /\ pollers' = [s \in Subscriptions |-> Removed(pollers[s], {c})]
    /\ publishers' = Removed(publishers, {x \in ToSet(publishers) : x.who = c})
    /\ UNCHANGED <<kind, hub, log, got, loop, closeVars, interrupted, jobVars>>

-----------------------------------------------------------------------------
(* Subscriptions come and go; shutting the hub down closes them all.       *)

closeRest == <<kind, log, got, publishers, interrupted, jobVars>>

Subscribe(s) ==
    /\ Idle /\ status[s] = "none"
    /\ status' = [status EXCEPT ![s] = "opening"]
    /\ hub' = [hub EXCEPT !.subscriberCount = @ + 1,
                          !.subscriberIndex[s] = hub.publisherIndex]
    /\ UNCHANGED <<closeRest, pollers, loop, shutdown, closing, phase>>

(* scope.addFinalizer, which shuts the subscription down at once if the    *)
(* scope of the hub is closed.                                             *)
Register(s) ==
    /\ Idle /\ status[s] = "opening"
    /\ status' = [status EXCEPT ![s] = IF shutdown = "no" THEN "open" ELSE "closing"]
    /\ UNCHANGED <<closeRest, hub, pollers, loop, shutdown, closing, phase>>

(* shutdown of a subscription, by the scope of its subscriber or that of   *)
(* the hub: its pollers are interrupted, ...                               *)
Close(s) ==
    /\ Idle /\ status[s] = "open"
    /\ status' = [status EXCEPT ![s] = "closing"]
    /\ closing' = closing \cup ToSet(pollers[s])
    /\ pollers' = [pollers EXCEPT ![s] = <<>>]
    /\ UNCHANGED <<closeRest, hub, loop, shutdown, phase>>

(* ... it unsubscribes, ...                                                *)
Unsubscribe(s) ==
    /\ Idle /\ status[s] = "closing"
    /\ closing \cap {c \in Consumers : Of[c] = s} = {}
    /\ status' = [status EXCEPT ![s] = "unsubscribed"]
    /\ hub' = Left(hub, s)
    /\ UNCHANGED <<closeRest, pollers, loop, shutdown, closing, phase>>

(* ... and waiting publishers get the slots it freed.                      *)
Closed(s) ==
    /\ Idle /\ status[s] = "unsubscribed"
    /\ status' = [status EXCEPT ![s] = "closed"]
    /\ UNCHANGED <<closeRest, hub, pollers, shutdown, closing, phase>>
    /\ Loops("space")

(* shutdown of the hub sets the flag, closes the scope, whose finalizers   *)
(* shut the subscriptions down, and then interrupts waiting publishers.    *)
(* It does not wait for a subscription that its subscriber began to close. *)
Shutdown ==
    /\ Idle
    /\ shutdown = "no" /\ shutdown' = "scope"
    /\ UNCHANGED <<closeRest, hub, pollers, loop, status, closing, phase>>

ShutdownPublishers ==
    /\ Idle /\ shutdown = "scope"
    /\ \A s \in Subscriptions : status[s] # "open"
    /\ shutdown' = "publishers"
    /\ closing' = closing \cup {x.who : x \in {y \in ToSet(publishers) : y.last}}
    /\ publishers' = <<>>
    /\ UNCHANGED <<kind, hub, log, got, pollers, loop, status, phase, interrupted, jobVars>>

(* A Deferred is interrupted; that does nothing when its client has left.  *)
InterruptDeferred(c) ==
    /\ Idle /\ c \in closing
    /\ closing' = closing \ {c}
    /\ Resumed(c, "leaving")
    /\ UNCHANGED <<kind, stateVars, loop, status, shutdown, interrupted, jobVars>>

-----------------------------------------------------------------------------
Loop == PublishWaiting \/ \E s \in Subscriptions : CompletePoller(s)

Produce(p) ==
    \/ PublishOne(p) \/ \E n \in 2 .. MaxBatch : PublishAll(p, n)
    \/ Drop(p) \/ Slide(p) \/ Put(p)

Consume(c) ==
    \/ \E n \in 1 .. MaxBatch : TakeUpTo(c, n)
    \/ TakeNothing(c) \/ Wait(c)

Next ==
    \/ Loop
    \/ \E p \in Publishers : Produce(p)
    \/ \E c \in Consumers : Consume(c)
    \/ \E c \in Clients : Interrupt(c) \/ End(c) \/ InterruptDeferred(c)
    \/ \E s \in Subscriptions :
          Subscribe(s) \/ Register(s) \/ Close(s) \/ Unsubscribe(s) \/ Closed(s)
    \/ Shutdown \/ ShutdownPublishers

Spec == Init /\ [][Next]_vars

-----------------------------------------------------------------------------
(* Properties.                                                             *)

TypeOK ==
    /\ kind \in Kinds
    /\ hub.array \in [0 .. kind.capacity - 1 -> Messages \cup {NoMessage}]
    /\ hub.needs \in [0 .. kind.capacity - 1 -> Nat]
    /\ hub.publisherIndex \in Nat /\ hub.subscribersIndex \in Nat
    /\ hub.subscriberCount \in Nat
    /\ hub.subscriberIndex \in [Subscriptions -> Nat]
    /\ pollers \in [Subscriptions -> Seq(Consumers)]
    /\ publishers \in Seq([msg: Messages, who: Publishers, last: BOOLEAN])
    /\ loop \in {"none", "pollers", "space"}
    /\ status \in [Subscriptions -> Statuses]
    /\ shutdown \in {"no", "scope", "publishers"}
    /\ closing \in SUBSET Clients
    /\ phase \in [Clients -> Phases]
    /\ interrupted \in [Clients -> BOOLEAN]
    /\ surplus \in [Publishers -> Seq(Messages)]
    /\ sent \in [Publishers -> 0 .. MaxOffers]
    /\ took \in [Consumers -> 0 .. MaxTakes]

Waiting(k) ==
    {s \in Subscriptions : Subscribed(s) /\ Cursor(hub, s) <= k}

(* A slot is in use for as many subscriptions as still need its message,   *)
(* so it is freed with the last of them, not earlier and not later; the    *)
(* ring never holds more than its capacity.                                *)
SlotsAreNeeded ==
    LET oldest == IF Single THEN hub.publisherIndex - 1 ELSE hub.subscribersIndex IN
    /\ ~Single => hub.publisherIndex - hub.subscribersIndex \in 0 .. kind.capacity
    /\ \A k \in oldest .. hub.publisherIndex - 1 :
          k >= 0 => hub.needs[Slot(k)] = Cardinality(Waiting(k))

(* Nobody waits for what is there: no poller while its subscription has a  *)
(* message, and no publisher while there is room, except while the         *)
(* subscription that made it is about to say so.                           *)
NobodyWaitsInVain ==
    Idle =>
        /\ \A s \in Subscriptions : pollers[s] # <<>> => ShutDown(s) \/ Available(hub, s) = 0
        /\ publishers # <<>> =>
              IsFull(hub) \/ \E s \in Subscriptions : status[s] = "unsubscribed"

(* Who is in pollers or publishers is in the operation, and whoever is     *)
(* suspended can be found there, or is about to be interrupted.            *)
WaitersArePending ==
    /\ \A s \in Subscriptions : \A c \in ToSet(pollers[s]) : phase[c] \in {"taking", "leaving"}
    /\ \A x \in ToSet(publishers) : phase[x.who] \in {"waiting", "leaving"}
    /\ \A c \in Consumers : phase[c] = "taking" => c \in ToSet(pollers[Of[c]]) \cup closing
    /\ \A p \in Publishers :
          phase[p] = "waiting" =>
              p \in {x.who : x \in {y \in ToSet(publishers) : y.last}} \cup closing

(* No subscription survives the hub, also not one made while it was being  *)
(* shut down: its consumer would wait for messages nobody can publish.     *)
ShutdownClosesAll ==
    shutdown = "publishers" => \A s \in Subscriptions : status[s] # "open"

(* Whoever waits, waits with reason and can be found (the lists pollers    *)
(* and publishers against the clients suspended in take and publish).      *)
WaitersAreRight == NobodyWaitsInVain /\ WaitersArePending /\ ShutdownClosesAll

Channel == INSTANCE Broadcast WITH
    on <- {s \in Subscriptions : Subscribed(s)},
    cursor <- [s \in Subscriptions |-> Cursor(hub, s)],
    slides <- kind.strategy = "sliding"

(* The hub implements a broadcast: each subscription gets what is stored   *)
(* while it is subscribed, once and in order, however slots are reused.    *)
RefinesBroadcast == Channel!Spec
===============================================================================
