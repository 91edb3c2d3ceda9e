----------------------------- MODULE FecDelivery ------------------------------
(***************************************************************************)
(* What an FEC stream promises to the consumer of StreamChannel.Channel:   *)
(* groups come out in the order they were sent, each at most once, and the *)
(* data of one group is never mixed with that of another.  Groups may be   *)
(* left out, and data that did not arrive may be replaced by zeroes.  Only *)
(* within a set of loose groups may the stream go back.                    *)
(***************************************************************************)
EXTENDS Integers

CONSTANTS Slots, MaxGroups, Zeroes

VARIABLES
    last,   \* the last group delivered
    data,   \* what was delivered for each of its data shards
    loose   \* the groups whose order is not promised; never changes

Init == last = 0

Deliver(g) ==
    /\ g > last \/ {g, last} \subseteq loose
    /\ last' = g
    /\ data' \in [Slots -> {g, Zeroes}]
    /\ loose' = loose

Next == \E g \in 1 .. MaxGroups : Deliver(g)

Spec == Init /\ [][Next]_<<last, data>>

=============================================================================
