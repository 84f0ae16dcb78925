------------------------------ MODULE HubBuffers ------------------------------
(* The AtomicHub classes of src/src/internal/hub.ts that Hub leaves out, as *)
(* sequential objects: the ring whose capacity is a power of two, the      *)
(* single slot and the unbounded list.  An operation takes the record of   *)
(* the object's fields, and those of its subscriptions, to the next; poll  *)
(* gives what it polled too, <<>> for its default.                         *)
EXTENDS Integers, Sequences, SequencesExt, FiniteSetsExt, Bitwise

CONSTANTS Subscribers     \* subscriptions that may be made, each once

(* The index of a subscription; at is 0 and live FALSE before it is made.  *)
Fresh(fields) ==
    [publisherIndex |-> 0, subscribersIndex |-> 0, at |-> [s \in Subscribers |-> 0],
     live |-> [s \in Subscribers |-> FALSE], fields |-> fields]

(* nextPow2: the ring is chosen when the capacity is one. *)
NextPow2(n) == Max({2, Min({2 ^ k : k \in {k \in 0 .. n : 2 ^ k >= n}})})

Polled(hub, got) == [hub |-> hub, got |-> got]

-----------------------------------------------------------------------------
(* BoundedHubPow2.                                                         *)

Ring(capacity) ==
    Fresh([capacity |-> capacity, count |-> 0,
           array |-> [i \in 0 .. capacity - 1 |-> <<>>],
           needs |-> [i \in 0 .. capacity - 1 |-> 0]])

Slot(h, i) == i & (h.fields.capacity - 1)
RingSize(h) == h.publisherIndex - h.subscribersIndex
RingIsEmpty(h) == h.publisherIndex = h.subscribersIndex
RingIsFull(h) == h.publisherIndex = h.subscribersIndex + h.fields.capacity
RingCursor(h, s) == Max({h.at[s], h.subscribersIndex})

RingStore(h, value) ==
    LET slot == Slot(h, h.publisherIndex) IN
    [h EXCEPT !.fields.array[slot] = <<value>>, !.fields.needs[slot] = h.fields.count,
              !.publisherIndex = @ + 1]
RingAccepts(h, value) == ~RingIsFull(h)
RingPublish(h, value) ==
    IF RingIsFull(h) \/ h.fields.count = 0 THEN h ELSE RingStore(h, value)
(* Stores what fits, and gives back the last one stored with the others.   *)
RingPublishAll(h, values) ==
    LET room == Min({Len(values), h.fields.capacity - RingSize(h)}) IN
    IF room = 0 THEN [hub |-> h, rest |-> values]
    ELSE [hub |-> FoldLeft(RingStore, h, SubSeq(values, 1, room)),
          rest |-> SubSeq(values, room, Len(values))]
RingSlide(h) ==
    IF RingIsEmpty(h) THEN h
    ELSE LET slot == Slot(h, h.subscribersIndex) IN
         [h EXCEPT !.fields.array[slot] = <<>>, !.fields.needs[slot] = 0,
                   !.subscribersIndex = @ + 1]
RingSubscribe(h, s) ==
    [h EXCEPT !.fields.count = @ + 1, !.at[s] = h.publisherIndex, !.live[s] = TRUE]

RingSizeFor(h, s) == IF h.live[s] THEN h.publisherIndex - RingCursor(h, s) ELSE 0
RingIsEmptyFor(h, s) ==
    \/ ~h.live[s] \/ h.publisherIndex = h.at[s] \/ h.publisherIndex = h.subscribersIndex

(* The subscription leaves a slot behind, which is freed by the last.      *)
RingPass(h, s) ==
    LET slot == Slot(h, RingCursor(h, s))
        last == h.fields.needs[slot] = 1
    IN  [h EXCEPT !.fields.needs[slot] = @ - 1,
                  !.fields.array[slot] = IF last THEN <<>> ELSE @,
                  !.subscribersIndex = @ + (IF last THEN 1 ELSE 0),
                  !.at[s] = RingCursor(h, s) + 1]
RingPoll(h, s) ==
    IF RingSizeFor(h, s) = 0 THEN Polled(h, <<>>)
    ELSE Polled(RingPass(h, s), h.fields.array[Slot(h, RingCursor(h, s))])
RingPollUpTo(h, s, n) ==
    FoldLeft(LAMBDA so, i : LET next == RingPoll(so.hub, s) IN
                            Polled(next.hub, so.got \o next.got),
             Polled(h, <<>>), [i \in 1 .. Min({n, RingSizeFor(h, s)}) |-> i])
RingUnsubscribe(h, s) ==
    IF ~h.live[s] THEN h
    ELSE LET left == [h EXCEPT !.fields.count = @ - 1] IN
         [FoldLeft(LAMBDA so, i : RingPass(so, s), left, [i \in 1 .. RingSizeFor(h, s) |-> i])
             EXCEPT !.live[s] = FALSE]

-----------------------------------------------------------------------------
(* BoundedHubSingle: the slot is empty when nobody needs it.               *)

SingleSlot == Fresh([count |-> 0, needs |-> 0, value |-> <<>>])

SingleIsEmpty(h) == h.fields.needs = 0
SingleSize(h) == IF SingleIsEmpty(h) THEN 0 ELSE 1
SinglePublish(h, value) ==
    IF ~SingleIsEmpty(h) \/ h.fields.count = 0 THEN h
    ELSE [h EXCEPT !.fields.value = <<value>>, !.fields.needs = h.fields.count,
                   !.publisherIndex = @ + 1]
SinglePublishAll(h, values) ==
    IF values = <<>> \/ ~SingleIsEmpty(h) THEN [hub |-> h, rest |-> values]
    ELSE [hub |-> SinglePublish(h, Head(values)), rest |-> Tail(values)]
SingleSlide(h) == [h EXCEPT !.fields.needs = 0, !.fields.value = <<>>]
SingleSubscribe(h, s) ==
    [h EXCEPT !.fields.count = @ + 1, !.at[s] = h.publisherIndex, !.live[s] = TRUE]

SingleIsEmptyFor(h, s) == ~h.live[s] \/ SingleIsEmpty(h) \/ h.at[s] = h.publisherIndex
SingleSizeFor(h, s) == IF SingleIsEmptyFor(h, s) THEN 0 ELSE 1
SinglePass(h, s) ==
    [h EXCEPT !.fields.needs = @ - 1, !.fields.value = IF h.fields.needs = 1 THEN <<>> ELSE @,
              !.at[s] = @ + 1]
SinglePoll(h, s) ==
    IF SingleIsEmptyFor(h, s) THEN Polled(h, <<>>) ELSE Polled(SinglePass(h, s), h.fields.value)
SinglePollUpTo(h, s, n) == IF n < 1 THEN Polled(h, <<>>) ELSE SinglePoll(h, s)
SingleUnsubscribe(h, s) ==
    IF ~h.live[s] THEN h
    ELSE [(IF h.at[s] = h.publisherIndex THEN h ELSE SinglePass(h, s))
             EXCEPT !.fields.count = @ - 1, !.live[s] = FALSE]

-----------------------------------------------------------------------------
(* UnboundedHub: a list of nodes; a node counts the subscriptions  *)
(* that have not passed it to the node after it.  node[s] is the           *)
(* subscriberHead.  The tail is the last node.                             *)

Unbounded ==
    Fresh([nodes |-> <<[value |-> <<>>, needs |-> 0]>>, head |-> 1,
           node |-> [s \in Subscribers |-> 1]])

TailOf(h) == Len(h.fields.nodes)
UnboundedIsEmpty(h) == h.fields.head = TailOf(h)
UnboundedSize(h) == h.publisherIndex - h.subscribersIndex
UnboundedPublish(h, value) ==
    LET needs == h.fields.nodes[TailOf(h)].needs IN
    IF needs = 0 THEN h
    ELSE [h EXCEPT !.fields.nodes = Append(@, [value |-> <<value>>, needs |-> needs]),
                   !.publisherIndex = @ + 1]
UnboundedPublishAll(h, values) ==
    [hub |-> FoldLeft(UnboundedPublish, h, values), rest |-> <<>>]
(* The first message of the list is given up. *)
Advance(h) ==
    [h EXCEPT !.fields.head = @ + 1, !.fields.nodes[h.fields.head + 1].value = <<>>,
              !.subscribersIndex = @ + 1]
UnboundedSlide(h) == IF UnboundedIsEmpty(h) THEN h ELSE Advance(h)
UnboundedSubscribe(h, s) ==
    [h EXCEPT !.fields.nodes[TailOf(h)].needs = @ + 1, !.fields.node[s] = TailOf(h),
              !.at[s] = h.publisherIndex, !.live[s] = TRUE]

(* The node before the next message of s, past those that were given up.   *)
Skipped(h, s) ==
    Min({i \in h.fields.node[s] .. TailOf(h) :
            i = TailOf(h) \/ h.fields.nodes[i + 1].value # <<>>})
Moved(h, s, i) == [h EXCEPT !.at[s] = @ + i - h.fields.node[s], !.fields.node[s] = i]
UnboundedIsEmptyFor(h, s) == ~h.live[s] \/ Skipped(h, s) = TailOf(h)
UnboundedLooked(h, s) == IF h.live[s] THEN Moved(h, s, Skipped(h, s)) ELSE h
UnboundedSizeFor(h, s) ==
    IF h.live[s] THEN h.publisherIndex - Max({h.at[s], h.subscribersIndex}) ELSE 0

UnboundedPass(h, i) ==
    LET passed == [h EXCEPT !.fields.nodes[i].needs = @ - 1] IN
    IF h.fields.nodes[i].needs = 1 THEN Advance(passed) ELSE passed
UnboundedPoll(h, s) ==
    LET i == Skipped(h, s) IN
    IF ~h.live[s] THEN Polled(h, <<>>)
    ELSE IF i = TailOf(h) THEN Polled(Moved(h, s, i), <<>>)
    ELSE Polled(Moved(UnboundedPass(h, i), s, i + 1), h.fields.nodes[i + 1].value)
UnboundedPollUpTo(h, s, n) ==
    FoldLeft(LAMBDA so, i : LET next == UnboundedPoll(so.hub, s) IN
                            Polled(next.hub, so.got \o next.got),
             Polled(h, <<>>), [i \in 1 .. Min({n, TailOf(h)}) |-> i])
UnboundedUnsubscribe(h, s) ==
    LET left == [h EXCEPT !.live[s] = FALSE, !.fields.nodes[TailOf(h)].needs = @ - 1]
        Leave(so, i) == IF so.fields.nodes[i + 1].value = <<>> THEN so ELSE UnboundedPass(so, i)
        n == TailOf(h) - h.fields.node[s]
    IN  IF ~h.live[s] THEN h
        ELSE [FoldLeft(Leave, left, [k \in 1 .. n |-> h.fields.node[s] + k - 1])
                 EXCEPT !.fields.node[s] = TailOf(h)]

-----------------------------------------------------------------------------
(* The subscribers of a hub: the queues of pollers of each subscription.   *)

AddSubscribers(subscribers, s, pollers) ==
    [x \in DOMAIN subscribers \cup {s} |->
        (IF x \in DOMAIN subscribers THEN subscribers[x] ELSE {})
            \cup (IF x = s THEN {pollers} ELSE {})]
RemoveSubscribers(subscribers, s, pollers) ==
    LET left == [x \in DOMAIN subscribers |->
                    subscribers[x] \ (IF x = s THEN {pollers} ELSE {})]
    IN  [x \in {x \in DOMAIN left : x # s \/ left[x] # {}} |-> left[x]]

==============================================================================
