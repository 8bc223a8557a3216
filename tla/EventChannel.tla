---------------------------- MODULE EventChannel ----------------------------
(***************************************************************************)
(* What a device module promises the main loop while it monitors devices:  *)
(* events are delivered in the order in which they happened, none twice    *)
(* and none left out between two that are delivered.  What has not been    *)
(* delivered when monitoring stops is lost.                                *)
(***************************************************************************)
EXTENDS Naturals, Sequences

CONSTANT Events   \* numbered in the order in which they happen

VARIABLES
    open,      \* devices are monitored
    posted,    \* the events that were noticed since
    delivered  \* how many of them the main loop has got

vars == <<open, posted, delivered>>

Init == open = FALSE /\ posted = <<>> /\ delivered = 0

Open == ~open /\ open' = TRUE /\ UNCHANGED <<posted, delivered>>

Post(e) ==
    /\ open
    /\ \A i \in DOMAIN posted : posted[i] < e
    /\ posted' = Append(posted, e)
    /\ UNCHANGED <<open, delivered>>

Deliver ==
    /\ open /\ delivered < Len(posted)
    /\ delivered' = delivered + 1
    /\ UNCHANGED <<open, posted>>

Close ==
    /\ open /\ open' = FALSE
    /\ posted' = SubSeq(posted, 1, delivered)
    /\ UNCHANGED delivered

Next == Open \/ Deliver \/ Close \/ \E e \in Events : Post(e)

Spec == Init /\ [][Next]_vars
=============================================================================
