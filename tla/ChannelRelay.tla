---------------------------- MODULE ChannelRelay ----------------------------
(***************************************************************************)
(* From a committed workflow event to a message on an external platform:   *)
(* the projection queue and the outbox of a group, the outbox of the       *)
(* channel store, and the two loops of the Supervisor that move an event   *)
(* through them (channels/bridge/workflow_events.py, group_outbox.py,      *)
(* channels/stores/sqlite.py, channels/runtime.py).                        *)
(*                                                                         *)
(* One Supervisor runs one relay and one dispatcher, each of them one row  *)
(* at a time, so that the owner of a lease is whoever is at work on it; a  *)
(* lease matters to whoever comes after a crash.  A step is a transaction, *)
(* or what the platform does.  next_attempt_at is not modelled: a row that *)
(* may be retried may be retried now or later.                             *)
(***************************************************************************)
EXTENDS Naturals, FiniteSets

CONSTANTS Events,     \* source_event_id
          Bindings,   \* of the group, one channel instance each, that take such events
          ProjTries, OutTries, ChanTries,  \* max_attempts of the three stages
          MaxFaults,  \* bound on crashes, time-outs and failing databases
          MaxReplays, \* bound on replayed dead letters
          None

ASSUME TriesAssumption == {ProjTries, OutTries, ChanTries} \subseteq Nat \ {0}
ASSUME NoneAssumption == None \notin Events \cup (Events \X Bindings)
ASSUME BoundsAssumption == MaxFaults \in Nat /\ MaxReplays \in Nat

Rows == Events \X Bindings    \* idempotency keys

VARIABLES proj, projTries,  \* the projection queue: state and attempts
          out, outTries,    \* the outbox of the group
          chan, chanTries,  \* the outbox of the channel store
          lapsed,    \* the leases with lease_expires_at <= now
          active,    \* the bindings that are active
          paused,    \* the channel instances that are paused
          rpc, item, \* the relay, and the event or row it has claimed
          dpc, row,  \* the dispatcher, and the row it has claimed
          accepted,  \* how often the platform has shown each row
          excused,   \* history: what cost the knowledge of a send, or replayed it
          steady,    \* history: the bindings that have always been active
          faults, replays

stages == <<proj, projTries, out, outTries, chan, chanTries, lapsed>>
settings == <<active, paused, steady>>
relay == <<rpc, item>>
dispatcher == <<dpc, row>>
platform == <<accepted, excused>>
bounds == <<faults, replays>>
vars == <<stages, settings, relay, dispatcher, platform, bounds>>

TypeOK ==
  /\ proj \in [Events -> {"none", "pending", "projecting", "retrying", "projected", "dead"}]
  /\ projTries \in [Events -> 0..ProjTries]
  /\ out \in [Rows -> {"none", "pending", "sending", "retrying", "forwarded", "dead"}]
  /\ outTries \in [Rows -> 0..OutTries]
  /\ chan \in [Rows -> {"none", "pending", "sending", "retrying", "sent", "dead"}]
  /\ chanTries \in [Rows -> 0..ChanTries]
  /\ lapsed \subseteq {"proj"} \X Events \cup {"out", "chan"} \X Rows
  /\ active \subseteq Bindings /\ paused \subseteq Bindings /\ steady \subseteq active
  /\ rpc \in {"project", "projecting", "relay", "relaying", "enqueued"}
  /\ item \in Events \cup Rows \cup {None}
  /\ dpc \in {"idle", "sending", "accepted", "failed", "ambiguous"}
  /\ row \in Rows \cup {None}
  /\ accepted \in [Rows -> Nat] /\ excused \in [Rows -> Nat]
  /\ faults \in 0..MaxFaults /\ replays \in 0..MaxReplays

Init ==
  /\ proj = [e \in Events |-> "none"] /\ projTries = [e \in Events |-> 0]
  /\ out = [r \in Rows |-> "none"] /\ outTries = [r \in Rows |-> 0]
  /\ chan = [r \in Rows |-> "none"] /\ chanTries = [r \in Rows |-> 0]
  /\ lapsed = {}
  /\ active \in SUBSET Bindings /\ paused = {} /\ steady = active
  /\ rpc = "project" /\ item = None
  /\ dpc = "idle" /\ row = None
  /\ accepted = [r \in Rows |-> 0] /\ excused = [r \in Rows |-> 0]
  /\ faults = 0 /\ replays = 0

\* Attempts are counted up to the maximum, which is all anybody compares them to.
Counted(tries, x, max) == [tries EXCEPT ![x] = IF @ < max THEN @ + 1 ELSE @]

Fault == faults < MaxFaults /\ faults' = faults + 1 /\ UNCHANGED replays

\* Mutant: nobody picks up what a crash has left.
RecoveredNever(state, stage, busy) == state

\* A stage's leases that have lapsed go back to be retried.
Recovered(state, stage, busy) ==
  [x \in DOMAIN state |->
     IF state[x] = busy /\ <<stage, x>> \in lapsed THEN "retrying" ELSE state[x]]

Unlapsed(stage, X) == lapsed \ ({stage} \X X)

-----------------------------------------------------------------------------
(* Everybody else                                                          *)

\* enqueue_workflow_channel_projections, in the transaction of the observation.
Commit(e) ==
  /\ proj[e] = "none"
  /\ proj' = [proj EXCEPT ![e] = "pending"]
  /\ UNCHANGED <<projTries, out, outTries, chan, chanTries, lapsed,
                 settings, relay, dispatcher, platform, bounds>>

\* The relay is stopped after 10 s, the dispatcher renews its lease: only leases
\* of rows nobody is at work on lapse (any other lapse would go unnoticed).
Expire(lease) ==
  /\ lease \notin lapsed
  /\ \/ lease[1] = "proj" /\ proj[lease[2]] = "projecting" /\ item # lease[2]
     \/ lease[1] = "out" /\ out[lease[2]] = "sending" /\ item # lease[2]
     \/ lease[1] = "chan" /\ chan[lease[2]] = "sending" /\ row # lease[2]
  /\ lapsed' = lapsed \cup {lease}
  /\ UNCHANGED <<proj, projTries, out, outTries, chan, chanTries,
                 settings, relay, dispatcher, platform, bounds>>

Revoke(b) ==
  /\ b \in active
  /\ active' = active \ {b} /\ steady' = steady \ {b}
  /\ UNCHANGED <<stages, paused, relay, dispatcher, platform, bounds>>

\* set_channel_paused.
SetPaused(b) ==
  /\ \/ b \in paused /\ paused' = paused \ {b}
     \/ b \notin paused /\ paused' = paused \cup {b}
  /\ UNCHANGED <<stages, active, steady, relay, dispatcher, platform, bounds>>

\* replay_dead_letter, which leaves the attempts as they are.
Replay(r) ==
  /\ replays < MaxReplays /\ replays' = replays + 1
  /\ chan[r] = "dead"
  /\ chan' = [chan EXCEPT ![r] = "retrying"]
  /\ excused' = [excused EXCEPT ![r] = @ + 1]
  /\ UNCHANGED <<proj, projTries, out, outTries, chanTries, lapsed,
                 settings, relay, dispatcher, accepted, faults>>

-----------------------------------------------------------------------------
(* The relay of a group                                                    *)

At(l) == rpc' = l
Free == item' = None

Retried(tries, max) == IF tries >= max THEN "dead" ELSE "retrying"

\* run_once of the projector: claim the event.
ClaimEvent(e) ==
  /\ rpc = "project"
  /\ LET rows == Recovered(proj, "proj", "projecting")
     IN  /\ rows[e] \in {"pending", "retrying"}
         /\ proj' = [rows EXCEPT ![e] = "projecting"]
  /\ projTries' = Counted(projTries, e, ProjTries)
  /\ lapsed' = Unlapsed("proj", Events)
  /\ item' = e
  /\ At("projecting")
  /\ UNCHANGED <<out, outTries, chan, chanTries, settings, dispatcher, platform, bounds>>

NoEvent ==
  /\ rpc = "project"
  /\ \A e \in Events : Recovered(proj, "proj", "projecting")[e] \notin {"pending", "retrying"}
  /\ At("relay")
  /\ UNCHANGED <<stages, item, settings, dispatcher, platform, bounds>>

\* Mutant: the event is marked projected outside the transaction of its rows.
ProjectedRowsLost(e) == out

\* A row per active binding, unless it is there already.
ProjectedRows(e) ==
  [r \in Rows |-> IF r[1] = e /\ r[2] \in active /\ out[r] = "none" THEN "pending" ELSE out[r]]

\* One transaction for the rows and the state of the event.
Project ==
  /\ rpc = "projecting"
  /\ out' = ProjectedRows(item)
  /\ proj' = [proj EXCEPT ![item] = "projected"]
  /\ lapsed' = Unlapsed("proj", {item})
  /\ At("relay") /\ Free
  /\ UNCHANGED <<projTries, outTries, chan, chanTries, settings, dispatcher, platform, bounds>>

\* The bindings cannot be read, or the transaction is rolled back.
FailProject ==
  /\ rpc = "projecting"
  /\ proj' = [proj EXCEPT ![item] = Retried(projTries[item], ProjTries)]
  /\ lapsed' = Unlapsed("proj", {item})
  /\ At("relay") /\ Free
  /\ UNCHANGED <<projTries, out, outTries, chan, chanTries,
                 settings, dispatcher, platform, bounds>>

\* relay_once: claim a row.
ClaimRow(r) ==
  /\ rpc = "relay"
  /\ LET rows == Recovered(out, "out", "sending")
     IN  /\ rows[r] \in {"pending", "retrying"}
         /\ out' = [rows EXCEPT ![r] = "sending"]
  /\ outTries' = Counted(outTries, r, OutTries)
  /\ lapsed' = Unlapsed("out", Rows)
  /\ item' = r
  /\ At("relaying")
  /\ UNCHANGED <<proj, projTries, chan, chanTries, settings, dispatcher, platform, bounds>>

NoRow ==
  /\ rpc = "relay"
  /\ \A r \in Rows : Recovered(out, "out", "sending")[r] \notin {"pending", "retrying"}
  /\ At("project")
  /\ UNCHANGED <<stages, item, settings, dispatcher, platform, bounds>>

\* enqueue_outbound: INSERT OR IGNORE.
Enqueued(r) == [chan EXCEPT ![r] = IF @ = "none" THEN "pending" ELSE @]

EnqueueOutbound ==
  /\ rpc = "relaying"
  /\ chan' = Enqueued(item)
  /\ At("enqueued")
  /\ UNCHANGED <<proj, projTries, out, outTries, chanTries, lapsed, item,
                 settings, dispatcher, platform, bounds>>

Finish(s) ==
  /\ out' = [out EXCEPT ![item] = s]
  /\ lapsed' = Unlapsed("out", {item})
  /\ At("project") /\ Free
  /\ UNCHANGED <<proj, projTries, outTries, chan, chanTries,
                 settings, dispatcher, platform, bounds>>

\* Mutant: the group's outbox gets a state of the channel store.
ForwardedAsSent == rpc = "enqueued" /\ Finish("sent")

Forwarded == rpc = "enqueued" /\ Finish("forwarded")
FailEnqueue == rpc = "relaying" /\ Finish(Retried(outTries[item], OutTries))

\* wait_for cancels the projector or the relay wherever it is, or _finish
\* raises: the row waits for its lease to lapse, and the cycle starts again.
AbandonRelay ==
  /\ rpc \in {"projecting", "relaying", "enqueued"}
  /\ Fault
  /\ At("project") /\ Free
  /\ UNCHANGED <<stages, settings, dispatcher, platform>>

-----------------------------------------------------------------------------
(* The dispatcher                                                          *)

\* recover_expired_deliveries, before every claim.
Recover ==
  /\ dpc = "idle"
  /\ chan' = Recovered(chan, "chan", "sending")
  /\ lapsed' = Unlapsed("chan", Rows)
  /\ lapsed' # lapsed
  /\ UNCHANGED <<proj, projTries, out, outTries, chanTries,
                 settings, relay, dispatcher, platform, bounds>>

\* claim_due_delivery.
ClaimDelivery(r) ==
  /\ dpc = "idle"
  /\ chan[r] \in {"pending", "retrying"}
  /\ r[2] \notin paused
  /\ chan' = [chan EXCEPT ![r] = "sending"]
  /\ chanTries' = Counted(chanTries, r, ChanTries)
  /\ lapsed' = Unlapsed("chan", {r})
  /\ dpc' = "sending" /\ row' = r
  /\ UNCHANGED <<proj, projTries, out, outTries, settings, relay, platform, bounds>>

\* What the platform does with a send: it shows the message, once, or not.
Shown == accepted' = [accepted EXCEPT ![row] = @ + 1]
Excuse == excused' = [excused EXCEPT ![row] = @ + 1]
Told == Shown /\ UNCHANGED excused
Refused == UNCHANGED platform
Untold == Shown /\ Excuse

\* connector.send returns a receipt, or raises.  An ambiguous error says that the
\* message may have been shown.  A plain one says nothing: the connector's process
\* was not heard of in time, or answered an error of any kind without the flag, or
\* the receipt is not one of the message.
Send ==
  /\ dpc = "sending"
  /\ \/ dpc' = "accepted" /\ Told
     \/ dpc' = "failed" /\ (Refused \/ Untold)
     \/ dpc' = "ambiguous" /\ (Told \/ Refused)
  /\ UNCHANGED <<stages, row, settings, relay, bounds>>

\* transition_delivery_with_audit.
Settle(s) ==
  /\ chan' = [chan EXCEPT ![row] = s]
  /\ lapsed' = Unlapsed("chan", {row})
  /\ dpc' = "idle" /\ row' = None
  /\ UNCHANGED <<proj, projTries, out, outTries, chanTries, settings, relay>>

MarkSent == dpc = "accepted" /\ Settle("sent") /\ UNCHANGED <<platform, bounds>>

\* Mutant: an ambiguous failure is retried like any other.
FailedStateBlind == Retried(chanTries[row], ChanTries)

\* Mutant: the attempts are not compared to the maximum.
FailedStateForever == IF dpc = "ambiguous" THEN "dead" ELSE "retrying"

\* What becomes of a row whose send has raised.
FailedState == IF dpc = "ambiguous" THEN "dead" ELSE Retried(chanTries[row], ChanTries)

MarkFailed ==
  dpc \in {"failed", "ambiguous"} /\ Settle(FailedState) /\ UNCHANGED <<platform, bounds>>

\* The message was sent and the database refuses to say so: an error like any.
MarkSentFails ==
  /\ dpc = "accepted" /\ Fault
  /\ Settle(Retried(chanTries[row], ChanTries))
  /\ Excuse /\ UNCHANGED accepted

\* The dispatcher is stopped, or the database refuses to record a failure:
\* the row waits for its lease to lapse.
AbandonDelivery ==
  /\ dpc # "idle" /\ Fault
  /\ dpc' = "idle" /\ row' = None
  /\ Excuse /\ UNCHANGED accepted
  /\ UNCHANGED <<stages, settings, relay>>

\* The Supervisor dies.
Crash ==
  /\ item # None \/ row # None
  /\ Fault
  /\ At("project") /\ Free
  /\ dpc' = "idle" /\ row' = None
  /\ IF row = None THEN UNCHANGED platform ELSE Excuse /\ UNCHANGED accepted
  /\ UNCHANGED <<stages, settings>>

-----------------------------------------------------------------------------

Leases == {"proj"} \X Events \cup {"out", "chan"} \X Rows

Relay ==
  \/ NoEvent \/ Project \/ FailProject \/ NoRow
  \/ EnqueueOutbound \/ Forwarded \/ FailEnqueue \/ AbandonRelay
  \/ \E e \in Events : ClaimEvent(e)
  \/ \E r \in Rows : ClaimRow(r)

Dispatcher ==
  \/ Recover \/ Send \/ MarkSent \/ MarkFailed \/ MarkSentFails \/ AbandonDelivery
  \/ \E r \in Rows : ClaimDelivery(r)

Others ==
  \/ \E e \in Events : Commit(e)
  \/ \E lease \in Leases : Expire(lease)
  \/ \E b \in Bindings : Revoke(b) \/ SetPaused(b)
  \/ \E r \in Rows : Replay(r)

Next == Others \/ Relay \/ Dispatcher \/ Crash

Spec == Init /\ [][Next]_vars

\* Time passes, both loops go on, the platform answers, and no instance is
\* paused for ever.
Fairness ==
  /\ \A lease \in Leases : WF_vars(Expire(lease))
  /\ WF_vars(Relay)
  /\ \A e \in Events : SF_vars(ClaimEvent(e))
  /\ \A r \in Rows : SF_vars(ClaimRow(r)) /\ SF_vars(ClaimDelivery(r))
  /\ WF_vars(Recover)
  /\ WF_vars(Send \/ MarkSent \/ MarkFailed)
  /\ \A b \in Bindings : SF_vars(b \in paused /\ SetPaused(b))

FairSpec == Spec /\ Fairness

-----------------------------------------------------------------------------
(* Properties                                                              *)

\* No crash, time-out or failure between two databases loses an event that one
\* of them has let go: a projected event has its row for every binding that was
\* always active, a forwarded row is in the channel store.
HandOver ==
  /\ \A r \in Rows : proj[r[1]] = "projected" /\ r[2] \in steady => out[r] # "none"
  /\ \A r \in Rows : out[r] = "forwarded" => chan[r] # "none"

\* A message is shown twice only if a send was cut off, not recorded or answered
\* by an error that does not say it may have been shown, or somebody has replayed
\* it: relaying again, recovered leases and ambiguous failures do not send it again.
DuplicatesExcused == \A r \in Rows : accepted[r] <= 1 + excused[r]

\* However its sends end, a message is shown once for each attempt at most, and
\* once more for each crash, refusal of the store or replay after the last of them.
AttemptsBound == \A r \in Rows : accepted[r] <= chanTries[r] + faults + replays

\* What docs/channels-feishu-wechat-deployment.md promises of sends that may or may
\* not have reached the platform: nothing sends them again by itself.
NeverResent == faults = 0 /\ replays = 0 => \A r \in Rows : accepted[r] <= 1

Ended(r) ==
  \/ proj[r[1]] = "dead" \/ out[r] = "dead" \/ chan[r] = "dead"
  \/ chan[r] = "sent" /\ accepted[r] > 0

\* A committed event reaches every binding that is always active, or ends as
\* the dead letter of some stage.
EveryEventEnds ==
  \A r \in Rows : proj[r[1]] = "pending" /\ r[2] \in steady ~> Ended(r) \/ r[2] \notin steady
=============================================================================
