-------------------------- MODULE ProjectionOutbox --------------------------
(***************************************************************************)
(* The outbox from which a group's memories are projected into the vector  *)
(* index (memory/infrastructure/projection_outbox.py).  A row says which   *)
(* version of a record the index ought to have; drains lease rows, write   *)
(* the index outside the transaction and acknowledge.  Drains run in the   *)
(* background loop of a worker, after a distillation, and when a group is  *)
(* hydrated, in two workers while a group changes hands.                   *)
(*                                                                         *)
(* A drain's lease token is named by the drain: it looks only at rows that *)
(* its present call has claimed, whatever older calls have left behind.    *)
(***************************************************************************)
EXTENDS Naturals, FiniteSets

CONSTANTS Events,     \* event_id: one record, whatever its version
          Drains,
          MaxVersion, \* bound on the versions of a record
          MaxEdits,   \* bound on enqueues
          MaxSlow,    \* bound on leases that lapse under a drain still at work
          None

ASSUME BoundsAssumption == MaxVersion \in Nat \ {0} /\ MaxEdits \in Nat /\ MaxSlow \in Nat
ASSUME NoneAssumption == None \notin Events \cup Drains

Versions == 1..MaxVersion

VARIABLES status,    \* column status; "none" when there is no row
          version,   \* column aggregate_version, 0 when there is no row
          lease,     \* column lease_token
          lapsed,    \* the rows with lease_until < now
          backoff,   \* the rows with next_attempt_at > now
          todo,      \* what each drain has claimed: a version per row, or 0
          cur,       \* the row it is delivering
          pc,        \* how far the delivery is
          stray,     \* writes of the index whose drain was cancelled
          indexed,   \* the version in the index, or 0
          landed,    \* history: <<e, v>> once version v of e was written
          overtaken, \* history: rows claimed or replaced while in hand
          edits, slow

row == <<status, version, lease, lapsed, backoff>>
hand == <<todo, cur, pc, stray>>
index == <<indexed, landed>>
vars == <<row, hand, index, overtaken, edits, slow>>

TypeOK ==
  /\ status \in [Events -> {"none", "pending", "processing", "completed"}]
  /\ version \in [Events -> 0..MaxVersion]
  /\ lease \in [Events -> Drains \cup {None}]
  /\ lapsed \subseteq Events
  /\ backoff \subseteq Events
  /\ todo \in [Drains -> [Events -> 0..MaxVersion]]
  /\ cur \in [Drains -> Events \cup {None}]
  /\ pc \in [Drains -> {"none", "writing", "written", "raised"}]
  /\ stray \subseteq Events \X Versions
  /\ indexed \in [Events -> 0..MaxVersion]
  /\ landed \subseteq Events \X Versions
  /\ overtaken \subseteq Events
  /\ edits \in 0..MaxEdits
  /\ slow \in 0..MaxSlow

Nothing == [e \in Events |-> 0]

Init ==
  /\ status = [e \in Events |-> "none"]
  /\ version = Nothing
  /\ lease = [e \in Events |-> None]
  /\ lapsed = {} /\ backoff = {}
  /\ todo = [d \in Drains |-> Nothing]
  /\ cur = [d \in Drains |-> None]
  /\ pc = [d \in Drains |-> "none"]
  /\ stray = {}
  /\ indexed = Nothing
  /\ landed = {}
  /\ overtaken = {}
  /\ edits = 0 /\ slow = 0

-----------------------------------------------------------------------------
(* The producers                                                           *)

\* Somebody may still write e to the index.
InHand(e) ==
  \/ \E d \in Drains : todo[d][e] # 0
  \/ \E v \in Versions : <<e, v>> \in stray

\* enqueue, in the transaction of the canonical write: a new version of the
\* record or its tombstone, an old one again (a version is a hash of what is to
\* be written), or the one the row has (the reconciler's repair).
Enqueue(e) ==
  /\ edits < MaxEdits
  /\ edits' = edits + 1
  /\ \E v \in Versions : version' = [version EXCEPT ![e] = v]
  /\ status' = [status EXCEPT ![e] = "pending"]
  /\ lease' = [lease EXCEPT ![e] = None]
  /\ lapsed' = lapsed \ {e}
  /\ backoff' = backoff \ {e}
  /\ overtaken' = IF InHand(e) THEN overtaken \cup {e} ELSE overtaken
  /\ UNCHANGED <<hand, index, slow>>

\* Thirty seconds pass, for all the rows of a drain and without renewal.
Expire(e) ==
  /\ status[e] = "processing" /\ e \notin lapsed
  /\ IF lease[e] \in Drains /\ todo[lease[e]][e] # 0
     THEN slow < MaxSlow /\ slow' = slow + 1
     ELSE UNCHANGED slow
  /\ lapsed' = lapsed \cup {e}
  /\ UNCHANGED <<status, version, lease, backoff, hand, index, overtaken, edits>>

EndBackoff(e) ==
  /\ e \in backoff
  /\ backoff' = backoff \ {e}
  /\ UNCHANGED <<status, version, lease, lapsed, hand, index, overtaken, edits, slow>>

-----------------------------------------------------------------------------
(* drain                                                                   *)

\* Mutant: rows that a dead drain has left are forgotten.
ClaimablePending == {e \in Events : status[e] = "pending" /\ e \notin backoff}

Claimable ==
  {e \in Events : /\ status[e] = "pending" \/ (status[e] = "processing" /\ e \in lapsed)
                  /\ e \notin backoff}

Idle(d) == todo[d] = Nothing

\* One transaction.  `rows` is all that is ready, cut off by limit, or the one
\* row of event_id.
Claim(d, rows) ==
  /\ Idle(d)
  /\ rows # {} /\ rows \subseteq Claimable
  /\ status' = [e \in Events |-> IF e \in rows THEN "processing" ELSE status[e]]
  /\ lease' = [e \in Events |-> IF e \in rows THEN d ELSE lease[e]]
  /\ lapsed' = lapsed \ rows
  /\ todo' = [todo EXCEPT ![d] = [e \in Events |-> IF e \in rows THEN version[e] ELSE 0]]
  /\ overtaken' = overtaken \cup {e \in rows : InHand(e)}
  /\ UNCHANGED <<version, backoff, cur, pc, stray, index, edits, slow>>

\* Mutant: the drain delivers what it has not claimed.
DeliverAny(d, e) ==
  /\ cur[d] = None
  /\ cur' = [cur EXCEPT ![d] = e]
  /\ pc' = [pc EXCEPT ![d] = "writing"]
  /\ UNCHANGED <<row, todo, stray, index, overtaken, edits, slow>>

\* The write of the index runs in a thread.
Deliver(d, e) ==
  /\ cur[d] = None
  /\ todo[d][e] # 0
  /\ cur' = [cur EXCEPT ![d] = e]
  /\ pc' = [pc EXCEPT ![d] = "writing"]
  /\ UNCHANGED <<row, todo, stray, index, overtaken, edits, slow>>

\* The vector of e is written, or deleted, as its version v says.  The vectors of
\* other records that an upsert deletes with it (delete_ids) are left out.
Write(e, v) ==
  /\ indexed' = [indexed EXCEPT ![e] = v]
  /\ landed' = landed \cup {<<e, v>>}

Land(d) ==
  /\ pc[d] = "writing"
  /\ Write(cur[d], todo[d][cur[d]])
  /\ pc' = [pc EXCEPT ![d] = "written"]
  /\ UNCHANGED <<row, todo, cur, stray, overtaken, edits, slow>>

\* Mutant: an exception of deliver() is taken for its return.
RaiseSwallowed(d) ==
  /\ pc[d] \in {"writing", "written"}
  /\ pc' = [pc EXCEPT ![d] = "written"]
  /\ UNCHANGED <<row, todo, cur, stray, index, overtaken, edits, slow>>

\* deliver() raises, before or after the index has taken the write.
Raise(d) ==
  /\ pc[d] \in {"writing", "written"}
  /\ pc' = [pc EXCEPT ![d] = "raised"]
  /\ UNCHANGED <<row, todo, cur, stray, index, overtaken, edits, slow>>

\* Mutant: the acknowledgement names the row and its status only.
HoldsRow(d) == status[cur[d]] = "processing"

\* The WHERE clause of both acknowledgements.
Holds(d) ==
  /\ status[cur[d]] = "processing"
  /\ version[cur[d]] = todo[d][cur[d]]
  /\ lease[cur[d]] = d

\* The drain goes on to its next row.
NextRow(d) ==
  /\ todo' = [todo EXCEPT ![d] = [@ EXCEPT ![cur[d]] = 0]]
  /\ cur' = [cur EXCEPT ![d] = None]
  /\ pc' = [pc EXCEPT ![d] = "none"]
  /\ UNCHANGED stray

EndLease(e, s) ==
  /\ status' = [status EXCEPT ![e] = s]
  /\ lease' = [lease EXCEPT ![e] = None]
  /\ lapsed' = lapsed \ {e}

\* _mark_completed.
Complete(d) ==
  /\ pc[d] = "written"
  /\ Holds(d)
  /\ EndLease(cur[d], "completed")
  /\ NextRow(d)
  /\ UNCHANGED <<version, backoff, index, overtaken, edits, slow>>

\* _mark_failed.
Fail(d) ==
  /\ pc[d] = "raised"
  /\ Holds(d)
  /\ EndLease(cur[d], "pending")
  /\ backoff' = backoff \cup {cur[d]}
  /\ NextRow(d)
  /\ UNCHANGED <<version, index, overtaken, edits, slow>>

\* Neither finds the row any more.
TooLate(d) ==
  /\ pc[d] \in {"written", "raised"}
  /\ ~Holds(d)
  /\ NextRow(d)
  /\ UNCHANGED <<row, index, overtaken, edits, slow>>

\* The drain is cancelled, its process dies, or the database refuses the
\* acknowledgement.  A write that has begun may come to the index later.
Abort(d) ==
  /\ ~Idle(d)
  /\ todo' = [todo EXCEPT ![d] = Nothing]
  /\ cur' = [cur EXCEPT ![d] = None]
  /\ pc' = [pc EXCEPT ![d] = "none"]
  /\ \/ UNCHANGED stray
     \/ pc[d] = "writing" /\ stray' = stray \cup {<<cur[d], todo[d][cur[d]]>>}
  /\ UNCHANGED <<row, index, overtaken, edits, slow>>

LandStray(e, v) ==
  /\ <<e, v>> \in stray
  /\ stray' = stray \ {<<e, v>>}
  /\ Write(e, v)
  /\ UNCHANGED <<row, todo, cur, pc, overtaken, edits, slow>>

-----------------------------------------------------------------------------

Drain(d) ==
  \/ \E rows \in SUBSET Events : Claim(d, rows)
  \/ \E e \in Events : Deliver(d, e)
  \/ Land(d) \/ Raise(d) \/ Complete(d) \/ Fail(d) \/ TooLate(d) \/ Abort(d)

Next ==
  \/ \E e \in Events : Enqueue(e) \/ Expire(e) \/ EndBackoff(e)
  \/ \E e \in Events, v \in Versions : LandStray(e, v)
  \/ \E d \in Drains : Drain(d)

Spec == Init /\ [][Next]_vars

\* Time passes, the background loop drains again and again, and neither
\* cancellations nor failures of the index go on for ever.
Fairness ==
  /\ \A e \in Events : WF_vars(Expire(e)) /\ WF_vars(EndBackoff(e))
  /\ \A d \in Drains :
       /\ WF_vars(\E rows \in SUBSET Events : rows = Claimable /\ Claim(d, rows))
       /\ \A e \in Events : SF_vars(Deliver(d, e))
       /\ SF_vars(Land(d))
       /\ SF_vars(Complete(d))
       /\ WF_vars(Fail(d) \/ TooLate(d))

FairSpec == Spec /\ Fairness

-----------------------------------------------------------------------------
(* Properties                                                              *)

\* A row is completed only once the index has taken the version the row names:
\* a delivery that was overtaken by a newer version or by another drain never
\* acknowledges for it.
AckIsCurrent ==
  \A e \in Events : status[e] = "completed" => <<e, version[e]>> \in landed

\* If the index has another version than a completed row, then a drain, or a
\* write it left behind, had the row in hand while it was replaced or claimed
\* again: retries, failures and cancellations alone never leave the index stale.
StaleMeansOvertaken ==
  \A e \in Events :
    status[e] = "completed" /\ indexed[e] # version[e] => e \in overtaken

\* A row that waits is completed in the end, whichever drains died with it.
Drained ==
  \A e \in Events : status[e] = "pending" ~> status[e] = "completed"

\* Nobody has anything to do.
Quiet == /\ \A e \in Events : status[e] \in {"none", "completed"}
         /\ \A d \in Drains : Idle(d)
         /\ stray = {}

\* docs/decisions/MEMORY-SYSTEM-DESIGN.md: even if another worker has claimed
\* the old upsert, "a later drain deletes the stale projection again".
QuietIndexIsCurrent == Quiet => indexed = version
=============================================================================
