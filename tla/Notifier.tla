------------------------------ MODULE Notifier ------------------------------
(***************************************************************************)
(* What avrcp.Source promises the loop that consumes its notifications:    *)
(* a change of either kind that is raised stays pending until the consumer *)
(* takes it, any number of raises before a take collapse into one, and no  *)
(* pending change is left behind for ever.  AvrcpSource implements it with *)
(* two atomic flags and a channel of capacity one.                         *)
(***************************************************************************)
CONSTANT Kinds

VARIABLE pending

Init == pending = {}

Raise(k) == pending' = pending \cup {k}

Take(k) ==
    /\ k \in pending
    /\ pending' = pending \ {k}

Next == \E k \in Kinds : Raise(k) \/ Take(k)

Spec ==
    /\ Init
    /\ [][Next]_pending
    /\ \A k \in Kinds : WF_pending(Take(k))
=============================================================================
