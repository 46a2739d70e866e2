---------------------------- MODULE EventDelivery ----------------------------
(***************************************************************************)
(* What the queue of a consumer promises to the listeners and to the       *)
(* aggregator (pkg/event/queue.go), without callstacks, buckets, surrogate *)
(* processes and mutexes.  An event that was accepted waits until it is    *)
(* handed to the listeners or dropped; an event they let pass is sent once *)
(* to a bounded FIFO channel.                                              *)
(***************************************************************************)
EXTENDS Naturals, Sequences

CONSTANTS
    Item,      \* the events
    Carrier,   \* events that only carry a callstack and end in the queue
    Dropper,   \* events that make the queue drop others
    Twice,     \* events that may be handed over after they were seen or dropped
    Producer,  \* the threads that push
    Room,      \* capacity of the channel
    Nothing    \* no event

VARIABLES
    due,       \* events that were not accepted yet
    seen,      \* events the listeners were given
    gone,      \* events that were dropped unseen
    passing,   \* producer -> event it is about to send, or Nothing
    channel    \* the channel to the aggregator

deliveryVars == <<due, seen, gone, passing, channel>>

\* The events the queue keeps: accepted, not seen and not dropped.
Waiting == Item \ (due \cup seen \cup gone \cup Carrier)

DeliveryInit ==
    /\ due = Item /\ seen = {} /\ gone = {}
    /\ passing = [p \in Producer |-> Nothing]
    /\ channel = <<>>

Accept(e) ==
    /\ e \in due
    /\ due' = due \ {e}
    /\ UNCHANGED <<seen, gone, passing, channel>>

\* The listeners get the event and decide whether it goes on.
Hand(p, e) ==
    /\ passing[p] = Nothing
    /\ e \in Waiting \cup (Twice \ due)
    /\ seen' = seen \cup {e} /\ gone' = gone \ {e}
    /\ passing' \in {passing, [passing EXCEPT ![p] = e]}
    /\ UNCHANGED <<due, channel>>

\* Waiting events are dropped because of an event the listeners have seen.
DropWaiting(S) ==
    /\ S \subseteq Waiting /\ Dropper \cap seen # {}
    /\ gone' = gone \cup S
    /\ UNCHANGED <<due, seen, passing, channel>>

SendOn(p) ==
    /\ passing[p] # Nothing /\ Len(channel) < Room
    /\ channel' = Append(channel, passing[p])
    /\ passing' = [passing EXCEPT ![p] = Nothing]
    /\ UNCHANGED <<due, seen, gone>>

Take ==
    /\ channel # <<>>
    /\ channel' = Tail(channel)
    /\ UNCHANGED <<due, seen, gone, passing>>

DeliveryNext ==
    \/ \E e \in Item : Accept(e) \/ \E p \in Producer : Hand(p, e)
    \/ \E S \in SUBSET Waiting : DropWaiting(S)
    \/ \E p \in Producer : SendOn(p)
    \/ Take

DeliverySpec == DeliveryInit /\ [][DeliveryNext]_deliveryVars
=============================================================================
