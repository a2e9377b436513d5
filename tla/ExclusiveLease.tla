--------------------------- MODULE ExclusiveLease ---------------------------
(***************************************************************************)
(* What group.lock promises: a group is leased to at most one worker       *)
(* process at a time.  A process takes a free lease and later gives it     *)
(* back; a process that dies gives it back too.                            *)
(***************************************************************************)
CONSTANTS Procs, Nobody

VARIABLE holder

TypeOK == holder \in Procs \cup {Nobody}

Init == holder = Nobody

Take(p) == holder = Nobody /\ holder' = p

GiveBack(p) == holder = p /\ holder' = Nobody

Next == \E p \in Procs : Take(p) \/ GiveBack(p)

Spec == Init /\ [][Next]_holder
=============================================================================
