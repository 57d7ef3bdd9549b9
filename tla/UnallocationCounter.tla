------------------------- MODULE UnallocationCounter -------------------------
(***************************************************************************)
(* What the unallocation tracker promises (spec.md, section 9): a          *)
(* producer/consumer counter.  Each freed object is counted once, under    *)
(* its recId, in a per-recId byte counter; a drain takes the whole counter *)
(* at once and hands it to the consumer, leaving it empty.                 *)
(* Unallocation.tla is checked against this module by a refinement         *)
(* mapping.                                                                *)
(***************************************************************************)
EXTENDS Naturals, Bags, TLC

CONSTANTS Objects, RecOf, SizeOf

VARIABLES
    notified,   \* the objects whose free has been counted
    counted,    \* recId -> bytes counted and not yet drained
    handed      \* recId -> bytes handed to the consumer

vars == <<notified, counted, handed>>

(* A counter is a bag of recIds: the bytes of recId r are its copies of r, *)
(* and adding counters is the bag sum (+).                                *)
Init == notified = {} /\ counted = EmptyBag /\ handed = EmptyBag

(* A producer counts the free of object o under its recId. *)
Notify(o) ==
    /\ o \notin notified
    /\ notified' = notified \cup {o}
    /\ counted' = counted (+) (RecOf[o] :> SizeOf[o])
    /\ UNCHANGED handed

(* A drain swaps the counter out and hands all of it to the consumer. *)
Drain ==
    /\ handed' = handed (+) counted
    /\ counted' = EmptyBag
    /\ UNCHANGED notified

Next == (\E o \in Objects : Notify(o)) \/ Drain

Spec == Init /\ [][Next]_vars
==============================================================================
