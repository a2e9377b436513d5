------------------------- MODULE ChannelRelayProofs -------------------------
(***************************************************************************)
(* What ChannelRelay hands over and what it shows, for any events,         *)
(* bindings and bounds.                                                    *)
(***************************************************************************)
EXTENDS ChannelRelay, TLAPS

-----------------------------------------------------------------------------
(* Types                                                                   *)

ProjStates == {"none", "pending", "projecting", "retrying", "projected", "dead"}
OutStates == {"none", "pending", "sending", "retrying", "forwarded", "dead"}
ChanStates == {"none", "pending", "sending", "retrying", "sent", "dead"}

Queues ==
  /\ proj \in [Events -> ProjStates]
  /\ projTries \in [Events -> 0..ProjTries]
  /\ out \in [Rows -> OutStates]
  /\ outTries \in [Rows -> 0..OutTries]
  /\ chan \in [Rows -> ChanStates]
  /\ chanTries \in [Rows -> 0..ChanTries]
  /\ lapsed \subseteq Leases
Settings == active \subseteq Bindings /\ paused \subseteq Bindings /\ steady \subseteq active
Loops ==
  /\ rpc \in {"project", "projecting", "relay", "relaying", "enqueued"}
  /\ item \in Events \cup Rows \cup {None}
  /\ dpc \in {"idle", "sending", "accepted", "failed", "ambiguous"}
  /\ row \in Rows \cup {None}
Counters ==
  /\ accepted \in [Rows -> Nat] /\ excused \in [Rows -> Nat]
  /\ faults \in 0..MaxFaults /\ replays \in 0..MaxReplays

\* The loops have in hand what they are at work on.
InHand ==
  /\ rpc = "projecting" => item \in Events
  /\ rpc \in {"relaying", "enqueued"} => item \in Rows
  /\ dpc # "idle" <=> row # None

Types == Queues /\ Settings /\ Loops /\ Counters /\ InHand

LEMMA CountedType ==
  ASSUME NEW X, NEW max \in Nat, NEW tries \in [X -> 0..max], NEW x
  PROVE  Counted(tries, x, max) \in [X -> 0..max]
<1>1. CASE x \in X
  <2>1. (IF tries[x] < max THEN tries[x] + 1 ELSE tries[x]) \in 0..max
    BY <1>1
  <2> QED
    BY <2>1 DEF Counted
<1>2. CASE x \notin X
  BY <1>2 DEF Counted
<1> QED
  BY <1>1, <1>2

LEMMA RecoveredType ==
  ASSUME NEW X, NEW S, "retrying" \in S, NEW state \in [X -> S], NEW stage, NEW busy
  PROVE  Recovered(state, stage, busy) \in [X -> S]
BY DEF Recovered

LEMMA TypesInit == Init => Types
<1>1. /\ 0 \in 0..ProjTries /\ 0 \in 0..OutTries /\ 0 \in 0..ChanTries
      /\ 0 \in 0..MaxFaults /\ 0 \in 0..MaxReplays
  BY TriesAssumption, BoundsAssumption
<1>2. Init => Queues
  BY <1>1 DEF Init, Queues, ProjStates, OutStates, ChanStates
<1>3. Init => Counters
  BY <1>1 DEF Init, Counters
<1>4. Init => Settings /\ Loops /\ InHand
  BY DEF Init, Settings, Loops, InHand
<1> QED
  BY <1>2, <1>3, <1>4 DEF Types

LEMMA OthersTypes == Types /\ Others => Types'
<1> SUFFICES ASSUME Types, Others PROVE Types'
  OBVIOUS
<1> USE DEF Types, stages, settings, relay, dispatcher, platform, bounds
<1>1. ASSUME NEW e \in Events, Commit(e) PROVE Types'
  <2>1. Queues'
    BY <1>1 DEF Commit, Queues, ProjStates
  <2> QED
    BY <1>1, <2>1 DEF Commit, Settings, Loops, Counters, InHand
<1>2. ASSUME NEW lease \in Leases, Expire(lease) PROVE Types'
  <2>1. Queues'
    BY <1>2 DEF Expire, Queues
  <2> QED
    BY <1>2, <2>1 DEF Expire, Settings, Loops, Counters, InHand
<1>3. ASSUME NEW b \in Bindings, Revoke(b) \/ SetPaused(b) PROVE Types'
  <2>1. Settings'
    BY <1>3 DEF Revoke, SetPaused, Settings
  <2> QED
    BY <1>3, <2>1 DEF Revoke, SetPaused, Queues, Loops, Counters, InHand
<1>4. ASSUME NEW r \in Rows, Replay(r) PROVE Types'
  <2>1. Queues'
    BY <1>4 DEF Replay, Queues, ChanStates
  <2>2. Counters'
    BY <1>4, BoundsAssumption DEF Replay, Counters
  <2> QED
    BY <1>4, <2>1, <2>2 DEF Replay, Settings, Loops, InHand
<1> QED
  BY <1>1, <1>2, <1>3, <1>4 DEF Others

LEMMA RelayTypes == Types /\ Relay => Types'
<1> SUFFICES ASSUME Types, Relay PROVE Types'
  OBVIOUS
<1> USE DEF Types, stages, settings, relay, dispatcher, platform, bounds, At, Free
<1>1. ASSUME NEW e \in Events, ClaimEvent(e) PROVE Types'
  <2>1. Recovered(proj, "proj", "projecting") \in [Events -> ProjStates]
    BY RecoveredType DEF Queues, ProjStates
  <2>2. proj' \in [Events -> ProjStates]
    BY <1>1, <2>1 DEF ClaimEvent, ProjStates
  <2>3. projTries' \in [Events -> 0..ProjTries]
    BY <1>1, CountedType, TriesAssumption DEF ClaimEvent, Queues
  <2>4. Queues'
    BY <1>1, <2>2, <2>3 DEF ClaimEvent, Queues, Unlapsed
  <2> QED
    BY <1>1, <2>4 DEF ClaimEvent, Settings, Loops, Counters, InHand
<1>2. ASSUME NEW r \in Rows, ClaimRow(r) PROVE Types'
  <2>1. Recovered(out, "out", "sending") \in [Rows -> OutStates]
    BY RecoveredType DEF Queues, OutStates
  <2>2. out' \in [Rows -> OutStates]
    BY <1>2, <2>1 DEF ClaimRow, OutStates
  <2>3. outTries' \in [Rows -> 0..OutTries]
    BY <1>2, CountedType, TriesAssumption DEF ClaimRow, Queues
  <2>4. Queues'
    BY <1>2, <2>2, <2>3 DEF ClaimRow, Queues, Unlapsed
  <2> QED
    BY <1>2, <2>4 DEF ClaimRow, Settings, Loops, Counters, InHand
<1>3. CASE NoEvent \/ NoRow
  BY <1>3 DEF NoEvent, NoRow, Queues, Settings, Loops, Counters, InHand
<1>4. CASE Project
  <2>1. out' \in [Rows -> OutStates]
    BY <1>4 DEF Project, ProjectedRows, Queues, OutStates
  <2>2. proj' \in [Events -> ProjStates]
    BY <1>4 DEF Project, Queues, ProjStates
  <2>3. Queues'
    BY <1>4, <2>1, <2>2 DEF Project, Queues, Unlapsed
  <2> QED
    BY <1>4, <2>3 DEF Project, Settings, Loops, Counters, InHand
<1>5. CASE FailProject
  <2>1. proj' \in [Events -> ProjStates]
    BY <1>5 DEF FailProject, Retried, Queues, ProjStates
  <2>2. Queues'
    BY <1>5, <2>1 DEF FailProject, Queues, Unlapsed
  <2> QED
    BY <1>5, <2>2 DEF FailProject, Settings, Loops, Counters, InHand
<1>6. CASE EnqueueOutbound
  <2>1. chan' \in [Rows -> ChanStates]
    BY <1>6 DEF EnqueueOutbound, Enqueued, Queues, ChanStates
  <2>2. Queues'
    BY <1>6, <2>1 DEF EnqueueOutbound, Queues
  <2> QED
    BY <1>6, <2>2 DEF EnqueueOutbound, Settings, Loops, Counters, InHand
<1>7. CASE Forwarded \/ FailEnqueue
  <2>1. PICK s \in {"forwarded", "dead", "retrying"} : Finish(s)
    BY <1>7 DEF Forwarded, FailEnqueue, Retried
  <2>2. out' \in [Rows -> OutStates]
    BY <2>1 DEF Finish, Queues, OutStates
  <2>3. Queues'
    BY <2>1, <2>2 DEF Finish, Queues, Unlapsed
  <2> QED
    BY <2>1, <2>3 DEF Finish, Settings, Loops, Counters, InHand
<1>8. CASE AbandonRelay
  <2>1. Counters'
    BY <1>8, BoundsAssumption DEF AbandonRelay, Fault, Counters
  <2> QED
    BY <1>8, <2>1 DEF AbandonRelay, Queues, Settings, Loops, InHand
<1> QED
  BY <1>1, <1>2, <1>3, <1>4, <1>5, <1>6, <1>7, <1>8 DEF Relay

LEMMA ExcuseType == Counters /\ Excuse => excused' \in [Rows -> Nat]
<1> SUFFICES ASSUME Counters, Excuse PROVE excused' \in [Rows -> Nat]
  OBVIOUS
<1>1. CASE row \in Rows
  BY <1>1 DEF Excuse, Counters
<1>2. CASE row \notin Rows
  <2>1. [excused EXCEPT ![row] = @ + 1] = excused
    BY <1>2 DEF Counters
  <2> QED
    BY <2>1 DEF Excuse, Counters
<1> QED
  BY <1>1, <1>2

LEMMA DispatcherTypes == Types /\ Dispatcher => Types'
<1> SUFFICES ASSUME Types, Dispatcher PROVE Types'
  OBVIOUS
<1> USE DEF Types, stages, settings, relay, dispatcher, platform, bounds
<1>1. CASE Recover
  <2>1. Recovered(chan, "chan", "sending") \in [Rows -> ChanStates]
    BY RecoveredType DEF Queues, ChanStates
  <2>2. Queues'
    BY <1>1, <2>1 DEF Recover, Queues, Unlapsed
  <2> QED
    BY <1>1, <2>2 DEF Recover, Settings, Loops, Counters, InHand
<1>2. ASSUME NEW r \in Rows, ClaimDelivery(r) PROVE Types'
  <2>1. chan' \in [Rows -> ChanStates]
    BY <1>2 DEF ClaimDelivery, Queues, ChanStates
  <2>2. chanTries' \in [Rows -> 0..ChanTries]
    BY <1>2, CountedType, TriesAssumption DEF ClaimDelivery, Queues
  <2>3. Queues'
    BY <1>2, <2>1, <2>2 DEF ClaimDelivery, Queues, Unlapsed
  <2>4. r # None
    BY NoneAssumption DEF Rows
  <2> QED
    BY <1>2, <2>3, <2>4 DEF ClaimDelivery, Settings, Loops, Counters, InHand
<1>3. CASE Send
  <2>1. row \in Rows
    BY <1>3 DEF Send, Loops, InHand
  <2>2. accepted' \in [Rows -> Nat] /\ excused' \in [Rows -> Nat]
    BY <1>3, <2>1 DEF Send, Told, Refused, Untold, Shown, Excuse, Counters
  <2> QED
    BY <1>3, <2>2 DEF Send, Queues, Settings, Loops, Counters, InHand
<1>4. ASSUME NEW s \in ChanStates, Settle(s), Counters' PROVE Types'
  <2>1. chan' \in [Rows -> ChanStates]
    BY <1>4 DEF Settle, Queues
  <2>2. Queues'
    BY <1>4, <2>1 DEF Settle, Queues, Unlapsed
  <2> QED
    BY <1>4, <2>2 DEF Settle, Settings, Loops, InHand
<1>5. CASE MarkSent
  <2>1. "sent" \in ChanStates /\ Settle("sent") /\ Counters'
    BY <1>5 DEF MarkSent, ChanStates, Counters
  <2> QED
    BY <1>4, <2>1
<1>6. CASE MarkFailed
  <2>1. FailedState \in ChanStates
    BY DEF FailedState, Retried, ChanStates
  <2>2. Settle(FailedState) /\ Counters'
    BY <1>6 DEF MarkFailed, Counters
  <2> QED
    BY <1>4, <2>1, <2>2
<1>7. ASSUME Fault, Excuse, accepted' = accepted PROVE Counters'
  <2>1. excused' \in [Rows -> Nat]
    BY <1>7, ExcuseType
  <2> QED
    BY <1>7, <2>1, BoundsAssumption DEF Excuse, Fault, Counters
<1>8. CASE MarkSentFails
  <2>1. Retried(chanTries[row], ChanTries) \in ChanStates
    BY DEF Retried, ChanStates
  <2> QED
    BY <1>4, <1>7, <1>8, <2>1 DEF MarkSentFails
<1>9. CASE AbandonDelivery
  BY <1>7, <1>9 DEF AbandonDelivery, Queues, Settings, Loops, InHand
<1> QED
  BY <1>1, <1>2, <1>3, <1>5, <1>6, <1>8, <1>9 DEF Dispatcher

LEMMA CrashTypes == Types /\ Crash => Types'
<1> SUFFICES ASSUME Types, Crash PROVE Types'
  OBVIOUS
<1> USE DEF Types, stages, settings, relay, dispatcher, platform, bounds
<1>1. accepted' = accepted /\ (excused' = excused \/ Excuse)
  BY DEF Crash, Excuse
<1>2. excused' \in [Rows -> Nat]
  BY <1>1, ExcuseType DEF Counters
<1>3. Counters'
  BY <1>1, <1>2, BoundsAssumption DEF Crash, Fault, Counters
<1> QED
  BY <1>3 DEF Crash, Queues, Settings, Loops, InHand, At, Free

LEMMA TypesStep == Types /\ [Next]_vars => Types'
<1>1. Types /\ UNCHANGED vars => Types'
  BY DEF Types, Queues, Settings, Loops, Counters, InHand,
         vars, stages, settings, relay, dispatcher, platform, bounds
<1> QED
  BY <1>1, OthersTypes, RelayTypes, DispatcherTypes, CrashTypes DEF Next

THEOREM TypesHold == Spec => []Types
BY TypesInit, TypesStep, PTL DEF Spec
-----------------------------------------------------------------------------
(* Handing over                                                            *)

\* What the relay has handed to the channel store, before it says so, is there.
HandInv == HandOver /\ (rpc = "enqueued" => chan[item] # "none")

\* What every step does to the rows: none goes away, an event is projected only
\* with its rows, and a row forwarded only from the channel store on.
Hands ==
  /\ \A r \in Rows : out[r] # "none" => out'[r] # "none"
  /\ \A r \in Rows : chan[r] # "none" => chan'[r] # "none"
  /\ steady' \subseteq steady
  /\ \A r \in Rows : proj'[r[1]] = "projected" =>
       proj[r[1]] = "projected" \/ (r[2] \in steady => out'[r] # "none")
  /\ \A r \in Rows : out'[r] = "forwarded" => out[r] = "forwarded" \/ chan[r] # "none"
  /\ rpc' = "enqueued" => item' \in Rows /\ chan'[item'] # "none"

LEMMA OthersHand == Types /\ HandInv /\ Others => Hands
<1> SUFFICES ASSUME Types, HandInv, Others PROVE Hands
  OBVIOUS
<1> USE DEF Types, Loops, InHand, HandInv, stages, settings, relay, dispatcher
<1>1. ASSUME NEW e \in Events, Commit(e) PROVE Hands
  BY <1>1 DEF Commit, Hands, Queues
<1>2. ASSUME NEW lease \in Leases, Expire(lease) PROVE Hands
  BY <1>2 DEF Expire, Hands
<1>3. ASSUME NEW b \in Bindings, Revoke(b) \/ SetPaused(b) PROVE Hands
  BY <1>3 DEF Revoke, SetPaused, Hands
<1>4. ASSUME NEW r \in Rows, Replay(r) PROVE Hands
  BY <1>4 DEF Replay, Hands, Queues
<1> QED
  BY <1>1, <1>2, <1>3, <1>4 DEF Others

LEMMA RelayHands == Types /\ HandInv /\ Relay => Hands
<1> SUFFICES ASSUME Types, HandInv, Relay PROVE Hands
  OBVIOUS
<1> USE DEF Types, Loops, InHand, HandInv, stages, settings, relay, dispatcher, At, Free
<1>1. ASSUME NEW e \in Events, ClaimEvent(e) PROVE Hands
  <2>1. \A d \in Events : proj'[d] = "projected" => proj[d] = "projected"
    BY <1>1 DEF ClaimEvent, Recovered, Queues
  <2> QED
    BY <1>1, <2>1 DEF ClaimEvent, Hands, Rows
<1>2. ASSUME NEW q \in Rows, ClaimRow(q) PROVE Hands
  <2>1. \A r \in Rows : /\ out[r] # "none" => out'[r] # "none"
                        /\ out'[r] = "forwarded" => out[r] = "forwarded"
    BY <1>2 DEF ClaimRow, Recovered, Queues
  <2> QED
    BY <1>2, <2>1 DEF ClaimRow, Hands
<1>3. CASE NoEvent \/ NoRow
  BY <1>3 DEF NoEvent, NoRow, Hands
<1>4. CASE Project
  <2>1. \A r \in Rows : /\ out[r] # "none" => out'[r] # "none"
                        /\ out'[r] = "forwarded" => out[r] = "forwarded"
                        /\ r[1] = item /\ r[2] \in active => out'[r] # "none"
    BY <1>4 DEF Project, ProjectedRows
  <2>2. \A d \in Events : d # item => proj'[d] = proj[d]
    BY <1>4 DEF Project, Queues
  <2>3. steady \subseteq active
    BY DEF Settings
  <2>4. \A r \in Rows : r[1] \in Events
    BY DEF Rows
  <2> QED
    BY <1>4, <2>1, <2>2, <2>3, <2>4 DEF Project, Hands
<1>5. CASE FailProject
  <2>1. \A d \in Events : proj'[d] = "projected" => proj[d] = "projected"
    BY <1>5 DEF FailProject, Retried, Queues
  <2> QED
    BY <1>5, <2>1 DEF FailProject, Hands, Rows
<1>6. CASE EnqueueOutbound
  <2>1. \A r \in Rows : chan[r] # "none" => chan'[r] # "none"
    BY <1>6 DEF EnqueueOutbound, Enqueued, Queues
  <2>2. item \in Rows /\ chan'[item] # "none"
    BY <1>6 DEF EnqueueOutbound, Enqueued, Queues
  <2> QED
    BY <1>6, <2>1, <2>2 DEF EnqueueOutbound, Hands
<1>7. CASE Forwarded
  <2>1. item \in Rows /\ chan[item] # "none" /\ out' = [out EXCEPT ![item] = "forwarded"]
    BY <1>7 DEF Forwarded, Finish
  <2>2. \A r \in Rows : /\ out[r] # "none" => out'[r] # "none"
                        /\ out'[r] = "forwarded" => out[r] = "forwarded" \/ r = item
    BY <2>1 DEF Queues
  <2> QED
    BY <1>7, <2>1, <2>2 DEF Forwarded, Finish, Hands
<1>8. CASE FailEnqueue
  <2>1. PICK s \in {"dead", "retrying"} : Finish(s)
    BY <1>8 DEF FailEnqueue, Retried
  <2>2. \A r \in Rows : /\ out[r] # "none" => out'[r] # "none"
                        /\ out'[r] = "forwarded" => out[r] = "forwarded"
    BY <2>1 DEF Finish, Queues
  <2> QED
    BY <2>1, <2>2 DEF Finish, Hands
<1>9. CASE AbandonRelay
  BY <1>9 DEF AbandonRelay, Hands
<1> QED
  BY <1>1, <1>2, <1>3, <1>4, <1>5, <1>6, <1>7, <1>8, <1>9 DEF Relay

LEMMA DispatcherHands == Types /\ HandInv /\ (Dispatcher \/ Crash) => Hands
<1> SUFFICES ASSUME Types, HandInv, Dispatcher \/ Crash PROVE Hands
  OBVIOUS
<1> USE DEF Types, Loops, InHand, HandInv, stages, settings, relay, dispatcher
<1>1. ASSUME UNCHANGED <<proj, out, steady, relay>>,
             \A r \in Rows : chan[r] # "none" => chan'[r] # "none"
      PROVE  Hands
  BY <1>1 DEF Hands
<1>2. ASSUME NEW s, s # "none", Settle(s) PROVE Hands
  <2>1. \A r \in Rows : chan[r] # "none" => chan'[r] # "none"
    BY <1>2 DEF Settle, Queues
  <2> QED
    BY <1>1, <1>2, <2>1 DEF Settle
<1>3. CASE Recover
  <2>1. \A r \in Rows : chan[r] # "none" => chan'[r] # "none"
    BY <1>3 DEF Recover, Recovered, Queues
  <2> QED
    BY <1>1, <1>3, <2>1 DEF Recover
<1>4. ASSUME NEW q \in Rows, ClaimDelivery(q) PROVE Hands
  <2>1. \A r \in Rows : chan[r] # "none" => chan'[r] # "none"
    BY <1>4 DEF ClaimDelivery, Queues
  <2> QED
    BY <1>1, <1>4, <2>1 DEF ClaimDelivery
<1>5. CASE Send \/ AbandonDelivery
  BY <1>1, <1>5 DEF Send, AbandonDelivery
<1>6. CASE MarkSent
  BY <1>2, <1>6 DEF MarkSent
<1>7. CASE MarkFailed
  <2>1. FailedState # "none"
    BY DEF FailedState, Retried
  <2> QED
    BY <1>2, <1>7, <2>1 DEF MarkFailed
<1>8. CASE MarkSentFails
  <2>1. Retried(chanTries[row], ChanTries) # "none"
    BY DEF Retried
  <2> QED
    BY <1>2, <1>8, <2>1 DEF MarkSentFails
<1>9. CASE Crash
  BY <1>9 DEF Crash, Hands, At, Free
<1> QED
  BY <1>3, <1>4, <1>5, <1>6, <1>7, <1>8, <1>9 DEF Dispatcher

LEMMA HandInit == Init => HandInv
BY DEF Init, HandInv, HandOver, Rows

LEMMA HandStep == Types /\ HandInv /\ [Next]_vars => HandInv'
<1> SUFFICES ASSUME Types, HandInv, [Next]_vars PROVE HandInv'
  OBVIOUS
<1>1. CASE UNCHANGED vars
  BY <1>1 DEF HandInv, HandOver, vars, stages, settings, relay
<1>2. CASE Next
  <2>1. Hands
    BY <1>2, OthersHand, RelayHands, DispatcherHands DEF Next
  <2>2. HandOver'
    BY <2>1 DEF Hands, HandInv, HandOver
  <2> QED
    BY <2>1, <2>2 DEF Hands, HandInv
<1> QED
  BY <1>1, <1>2

\* No crash, time-out or failure between two databases loses an event: one that
\* is projected has its rows for the bindings that were always active, and a row
\* the group's outbox has let go of is in the channel store.
THEOREM HandedOver == Spec => []HandOver
<1>1. HandInv => HandOver
  BY DEF HandInv
<1> QED
  BY <1>1, TypesHold, HandInit, HandStep, PTL DEF Spec
-----------------------------------------------------------------------------
(* Duplicates                                                              *)

\* Whether the dispatcher knows something of r that the store does not.
Unsaid(r) == row = r /\ dpc \in {"accepted", "ambiguous"}

\* What the platform has shown of r, against what excuses a second time: less
\* than that while the row may be sent again and nobody holds an answer to it.
Sends(r) ==
  /\ accepted[r] <= 1 + excused[r]
  /\ chan[r] \notin {"sent", "dead"} /\ ~Unsaid(r) => accepted[r] <= excused[r]

\* The row in hand is being sent: nobody else moves it.
SendInv ==
  /\ dpc # "idle" => chan[row] = "sending"
  /\ \A r \in Rows : Sends(r)

LEMMA SendInit == Init => SendInv
<1> SUFFICES ASSUME Init PROVE SendInv
  OBVIOUS
<1>1. \A r \in Rows : accepted[r] = 0 /\ excused[r] = 0
  BY DEF Init
<1>2. dpc = "idle"
  BY DEF Init
<1> QED
  BY <1>1, <1>2 DEF SendInv, Sends

\* A step that sends nothing and settles nothing.
Quiet ==
  /\ UNCHANGED <<dispatcher, platform>>
  /\ \A r \in Rows :
       /\ chan[r] = "sending" /\ row = r => chan'[r] = "sending"
       /\ chan'[r] \notin {"sent", "dead"} => chan[r] \notin {"sent", "dead"}

LEMMA QuietSends == Types /\ SendInv /\ Quiet => SendInv'
<1> SUFFICES ASSUME Types, SendInv, Quiet PROVE SendInv'
  OBVIOUS
<1> USE DEF Types, Quiet, SendInv, dispatcher, platform
<1>1. dpc # "idle" => row \in Rows
  BY DEF Loops, InHand
<1>2. (dpc # "idle" => chan[row] = "sending")'
  BY <1>1
<1>3. (\A r \in Rows : Sends(r))'
  BY DEF Sends, Unsaid
<1> QED
  BY <1>2, <1>3

\* A step that ends the work on a row in hand, with an excuse for it.
LEMMA ExcusedSends ==
  ASSUME Types, SendInv, row \in Rows, Excuse, accepted' = accepted, dpc' = "idle", row' = None,
         \A r \in Rows : r # row => chan'[r] = chan[r]
  PROVE  SendInv'
<1>1. excused'[row] = excused[row] + 1 /\ \A r \in Rows : r # row => excused'[r] = excused[r]
  BY DEF Excuse, Types, Counters
<1>2. accepted' = accepted
  OBVIOUS
<1>3. accepted \in [Rows -> Nat] /\ excused \in [Rows -> Nat]
  BY DEF Types, Counters
<1>4. ASSUME NEW r \in Rows PROVE Sends(r)'
  <2>1. CASE r = row
    <3>1. accepted[r] <= 1 + excused[r]
      BY DEF SendInv, Sends
    <3>2. accepted'[r] <= excused'[r]
      BY <1>1, <1>2, <1>3, <2>1, <3>1
    <3>3. accepted'[r] <= 1 + excused'[r]
      BY <1>1, <1>2, <1>3, <2>1, <3>1
    <3> QED
      BY <3>2, <3>3 DEF Sends
  <2>2. CASE r # row
    <3>1. Sends(r) /\ ~Unsaid(r)
      BY <2>2 DEF SendInv, Unsaid
    <3> QED
      BY <1>1, <1>2, <2>2, <3>1 DEF Sends
  <2> QED
    BY <2>1, <2>2
<1> QED
  BY <1>4 DEF SendInv

\* A step that ends the work on a row, with an answer the store takes down.
LEMMA SettledSends ==
  ASSUME Types, SendInv, row \in Rows, NEW s, Settle(s), UNCHANGED platform,
         s \notin {"sent", "dead"} => ~Unsaid(row)
  PROVE  SendInv'
<1>1. chan'[row] = s /\ \A r \in Rows : r # row => chan'[r] = chan[r]
  BY DEF Settle, Types, Queues
<1>2. dpc' = "idle" /\ row' = None
  BY DEF Settle
<1>3. dpc # "idle" /\ chan[row] = "sending"
  BY NoneAssumption DEF Types, InHand, SendInv, Rows
<1>4. UNCHANGED <<accepted, excused>>
  BY DEF platform
<1>5. ASSUME NEW r \in Rows PROVE Sends(r)'
  <2>1. Sends(r)
    BY DEF SendInv
  <2>2. CASE r = row
    BY <1>1, <1>3, <1>4, <2>1, <2>2 DEF Sends
  <2>3. CASE r # row
    BY <1>1, <1>4, <2>1, <2>3 DEF Sends, Unsaid
  <2> QED
    BY <2>2, <2>3
<1> QED
  BY <1>2, <1>5 DEF SendInv

LEMMA OthersSends == Types /\ SendInv /\ Others => SendInv'
<1> SUFFICES ASSUME Types, SendInv, Others PROVE SendInv'
  OBVIOUS
<1> USE DEF stages, settings, relay, dispatcher, platform, bounds
<1>2. CASE UNCHANGED <<chan, dispatcher, platform, bounds>>
  <2>1. Quiet
    BY <1>2 DEF Quiet
  <2> QED
    BY <2>1, QuietSends
<1>3. ASSUME NEW r \in Rows, Replay(r) PROVE SendInv'
  <2>1. /\ chan[r] = "dead" /\ chan'[r] = "retrying"
        /\ \A q \in Rows : q # r => chan'[q] = chan[q]
    BY <1>3 DEF Replay, Types, Queues
  <2>2. /\ excused'[r] = excused[r] + 1
        /\ \A q \in Rows : q # r => excused'[q] = excused[q]
    BY <1>3 DEF Replay, Types, Counters
  <2>3. UNCHANGED <<accepted, dpc, row>>
    BY <1>3 DEF Replay
  <2>4. accepted \in [Rows -> Nat] /\ excused \in [Rows -> Nat]
    BY DEF Types, Counters
  <2>5. (dpc # "idle" => chan[row] = "sending")'
    BY <2>1, <2>3 DEF SendInv, Types, Loops, InHand
  <2>6. ASSUME NEW q \in Rows PROVE Sends(q)'
    <3>1. Sends(q)
      BY DEF SendInv
    <3>2. CASE q = r
      <4>1. accepted'[q] <= excused'[q] /\ accepted'[q] <= 1 + excused'[q]
        BY <2>2, <2>3, <2>4, <3>1, <3>2 DEF Sends
      <4> QED
        BY <4>1 DEF Sends
    <3>3. CASE q # r
      BY <2>1, <2>2, <2>3, <3>1, <3>3 DEF Sends, Unsaid
    <3> QED
      BY <3>2, <3>3
  <2> QED
    BY <2>5, <2>6 DEF SendInv
<1>4. CASE UNCHANGED <<chan, dispatcher, platform, bounds>> \/ \E r \in Rows : Replay(r)
  BY <1>2, <1>3, <1>4
<1>5. UNCHANGED <<chan, dispatcher, platform, bounds>> \/ \E r \in Rows : Replay(r)
  BY DEF Others, Commit, Expire, Revoke, SetPaused
<1> QED
  BY <1>4, <1>5

LEMMA RelaySends == Types /\ SendInv /\ Relay => SendInv'
<1> SUFFICES ASSUME Types, SendInv, Relay PROVE SendInv'
  OBVIOUS
<1> USE DEF stages, settings, relay, dispatcher, platform, bounds
<1>2. CASE EnqueueOutbound
  <2>1. \A r \in Rows : chan'[r] = IF r = item /\ chan[r] = "none" THEN "pending" ELSE chan[r]
    BY <1>2 DEF EnqueueOutbound, Enqueued, Types, Queues
  <2>2. Quiet
    BY <1>2, <2>1 DEF EnqueueOutbound, Quiet
  <2> QED
    BY <2>2, QuietSends
<1>3. CASE AbandonRelay
  <2>1. Quiet
    BY <1>3 DEF AbandonRelay, Quiet
  <2> QED
    BY <2>1, QuietSends
<1>4. CASE UNCHANGED <<chan, dispatcher, platform, bounds>>
  <2>1. Quiet
    BY <1>4 DEF Quiet
  <2> QED
    BY <2>1, QuietSends
<1>5. EnqueueOutbound \/ AbandonRelay \/ UNCHANGED <<chan, dispatcher, platform, bounds>>
  BY DEF Relay, NoEvent, Project, FailProject, NoRow, Forwarded, FailEnqueue, Finish,
         ClaimEvent, ClaimRow
<1> QED
  BY <1>2, <1>3, <1>4, <1>5

LEMMA DispatcherSends == Types /\ SendInv /\ Dispatcher => SendInv'
<1> SUFFICES ASSUME Types, SendInv, Dispatcher PROVE SendInv'
  OBVIOUS
<1> USE DEF stages, settings, relay, dispatcher, platform, bounds
<1>1. accepted \in [Rows -> Nat] /\ excused \in [Rows -> Nat]
  BY DEF Types, Counters
<1>2. dpc # "idle" => row \in Rows
  BY DEF Types, Loops, InHand
<1>3. CASE Recover
  <2>1. row = None
    BY <1>3 DEF Recover, Types, InHand
  <2>2. \A r \in Rows : /\ r # None
                        /\ chan'[r] = chan[r] \/ (chan[r] = "sending" /\ chan'[r] = "retrying")
    BY <1>3, NoneAssumption DEF Recover, Recovered, Types, Queues, Rows
  <2>3. Quiet
    BY <1>3, <2>1, <2>2 DEF Recover, Quiet
  <2> QED
    BY <2>3, QuietSends
<1>4. ASSUME NEW r \in Rows, ClaimDelivery(r) PROVE SendInv'
  <2>1. /\ chan[r] \in {"pending", "retrying"} /\ chan'[r] = "sending"
        /\ \A q \in Rows : q # r => chan'[q] = chan[q]
    BY <1>4 DEF ClaimDelivery, Types, Queues
  <2>2. /\ UNCHANGED <<accepted, excused>>
        /\ dpc = "idle" /\ dpc' = "sending" /\ row' = r
    BY <1>4 DEF ClaimDelivery
  <2>3. ASSUME NEW q \in Rows PROVE Sends(q)'
    <3>1. Sends(q) /\ ~Unsaid(q)
      BY <2>2 DEF SendInv, Unsaid
    <3> QED
      BY <2>1, <2>2, <3>1 DEF Sends
  <2> QED
    BY <2>1, <2>2, <2>3 DEF SendInv
<1>5. CASE Send
  <2>1. row \in Rows /\ dpc = "sending" /\ chan[row] = "sending"
    BY <1>2, <1>5 DEF Send, SendInv
  <2>2. UNCHANGED <<chan, row>>
    BY <1>5 DEF Send
  <2>3. dpc' \in {"accepted", "failed", "ambiguous"}
    BY <1>5 DEF Send
  <2>4. /\ \A q \in Rows : q # row => accepted'[q] = accepted[q] /\ excused'[q] = excused[q]
        /\ \/ accepted'[row] = accepted[row] /\ excused'[row] = excused[row]
           \/ accepted'[row] = accepted[row] + 1 /\ excused'[row] = excused[row] + 1
           \/ /\ accepted'[row] = accepted[row] + 1 /\ excused'[row] = excused[row]
              /\ dpc' \in {"accepted", "ambiguous"}
    BY <1>1, <1>5, <2>1 DEF Send, Told, Refused, Untold, Shown, Excuse
  <2>5. ASSUME NEW q \in Rows PROVE Sends(q)'
    <3>1. Sends(q) /\ ~Unsaid(q)
      BY <2>1 DEF SendInv, Unsaid
    <3>2. CASE q = row
      <4>1. accepted[q] <= excused[q]
        BY <2>1, <3>1, <3>2 DEF Sends
      <4>2. accepted'[q] <= 1 + excused'[q]
        BY <1>1, <2>4, <3>2, <4>1
      <4>3. ~Unsaid(q)' => accepted'[q] <= excused'[q]
        BY <1>1, <2>2, <2>4, <3>2, <4>1 DEF Unsaid
      <4> QED
        BY <4>2, <4>3 DEF Sends
    <3>3. CASE q # row
      BY <2>2, <2>4, <3>1, <3>3 DEF Sends, Unsaid
    <3> QED
      BY <3>2, <3>3
  <2> QED
    BY <2>1, <2>2, <2>5 DEF SendInv
<1>6. CASE MarkSent
  <2>1. row \in Rows /\ Settle("sent") /\ UNCHANGED platform
    BY <1>2, <1>6 DEF MarkSent
  <2> QED
    BY <2>1, SettledSends
<1>7. CASE MarkFailed
  <2>1. row \in Rows /\ Settle(FailedState) /\ UNCHANGED platform
    BY <1>2, <1>7 DEF MarkFailed
  <2>2. FailedState \notin {"sent", "dead"} => ~Unsaid(row)
    BY <1>7 DEF MarkFailed, FailedState, Unsaid
  <2> QED
    BY <2>1, <2>2, SettledSends
<1>8. CASE MarkSentFails
  <2>1. \A r \in Rows : r # row => chan'[r] = chan[r]
    BY <1>8 DEF MarkSentFails, Settle, Types, Queues
  <2>2. row \in Rows /\ Excuse /\ accepted' = accepted /\ dpc' = "idle" /\ row' = None
    BY <1>2, <1>8 DEF MarkSentFails, Settle
  <2> QED
    BY <2>1, <2>2, ExcusedSends
<1>9. CASE AbandonDelivery
  <2>1. row \in Rows /\ Excuse /\ accepted' = accepted /\ dpc' = "idle" /\ row' = None
        /\ chan' = chan
    BY <1>2, <1>9 DEF AbandonDelivery
  <2> QED
    BY <2>1, ExcusedSends
<1> QED
  BY <1>3, <1>4, <1>5, <1>6, <1>7, <1>8, <1>9 DEF Dispatcher

LEMMA CrashSends == Types /\ SendInv /\ Crash => SendInv'
<1> SUFFICES ASSUME Types, SendInv, Crash PROVE SendInv'
  OBVIOUS
<1> USE DEF stages, settings, relay, dispatcher, platform, bounds
<1>1. dpc' = "idle" /\ row' = None /\ chan' = chan
  BY DEF Crash
<1>2. CASE row = None
  <2>1. dpc = "idle" /\ UNCHANGED platform
    BY <1>2 DEF Crash, Types, InHand
  <2>2. Quiet
    BY <1>1, <1>2, <2>1 DEF Quiet
  <2> QED
    BY <2>2, QuietSends
<1>3. CASE row # None
  <2>1. row \in Rows /\ Excuse /\ accepted' = accepted
    BY <1>3 DEF Crash, Types, Loops
  <2> QED
    BY <1>1, <2>1, ExcusedSends
<1> QED
  BY <1>2, <1>3

LEMMA SendStep == Types /\ SendInv /\ [Next]_vars => SendInv'
<1>1. Types /\ SendInv /\ UNCHANGED vars => SendInv'
  BY DEF SendInv, Sends, Unsaid, vars, stages, dispatcher, platform, bounds
<1> QED
  BY <1>1, OthersSends, RelaySends, DispatcherSends, CrashSends DEF Next

\* A message is shown twice only if a send was cut off, not recorded or answered
\* by an error that does not say it may have been shown, or somebody has replayed
\* it: no row goes back to be sent once the store has a receipt or an ambiguous
\* error of it, whatever the relay hands over again and whatever leases lapse.
THEOREM Duplicates == Spec => []DuplicatesExcused
<1>1. SendInv => DuplicatesExcused
  BY DEF SendInv, Sends, DuplicatesExcused
<1> QED
  BY <1>1, TypesHold, SendInit, SendStep, PTL DEF Spec
-----------------------------------------------------------------------------
(* Attempts                                                                *)

\* A send of r is still to come that the attempts count already: the one under
\* way, or one that follows the last attempt.
Due(r) ==
  \/ row = r /\ dpc = "sending"
  \/ /\ chanTries[r] = ChanTries
     /\ chan[r] \in {"pending", "retrying"} \/ (chan[r] = "sending" /\ row # r)

Allowed(r) == chanTries[r] + faults + replays
Within(r) ==
  /\ chan[r] = "none" => chanTries[r] = 0
  /\ accepted[r] <= Allowed(r)
  /\ Due(r) => accepted[r] + 1 <= Allowed(r)
AttemptInv == \A r \in Rows : Within(r)

LEMMA AttemptInit == Init => AttemptInv
<1> SUFFICES ASSUME Init, NEW r \in Rows PROVE Within(r)
  BY DEF AttemptInv
<1>1. /\ chanTries[r] = 0 /\ accepted[r] = 0 /\ faults = 0 /\ replays = 0
      /\ chan[r] = "none" /\ dpc = "idle"
  BY DEF Init
<1> QED
  BY <1>1 DEF Within, Allowed, Due

LEMMA AttemptTypes ==
  Types => /\ faults \in Nat /\ replays \in Nat /\ ChanTries \in Nat /\ ChanTries >= 1
           /\ \A r \in Rows : accepted[r] \in Nat /\ chanTries[r] \in 0..ChanTries
BY BoundsAssumption, TriesAssumption DEF Types, Counters, Queues

\* One more fault, or one more replay.
Slip ==
  \/ faults' = faults + 1 /\ replays' = replays
  \/ faults' = faults /\ replays' = replays + 1

\* A step that neither sends r nor counts an attempt of it, and makes no send due
\* unless it is a fault or a replay.
LEMMA AttemptKept ==
  ASSUME Types, NEW r \in Rows, Within(r),
         accepted'[r] = accepted[r], chanTries'[r] = chanTries[r],
         chan'[r] = "none" => chan[r] = "none",
         Slip \/ (UNCHANGED bounds /\ (Due(r)' => Due(r)))
  PROVE  Within(r)'
<1>1. /\ faults \in Nat /\ replays \in Nat
      /\ accepted[r] \in Nat /\ chanTries[r] \in Nat
  BY AttemptTypes
<1>2. chan'[r] = "none" => chanTries'[r] = 0
  BY DEF Within
<1>3. CASE UNCHANGED bounds /\ (Due(r)' => Due(r))
  <2>1. Allowed(r)' = Allowed(r)
    BY <1>3 DEF Allowed, bounds
  <2> QED
    BY <1>2, <1>3, <2>1 DEF Within
<1>4. CASE Slip
  <2>1. Allowed(r)' = Allowed(r) + 1 /\ Allowed(r) \in Nat
    BY <1>1, <1>4 DEF Allowed, Slip
  <2>2. accepted'[r] <= Allowed(r)' /\ accepted'[r] + 1 <= Allowed(r)'
    BY <1>1, <2>1 DEF Within
  <2> QED
    BY <1>2, <2>2 DEF Within
<1> QED
  BY <1>3, <1>4

LEMMA OthersAttempt == Types /\ SendInv /\ AttemptInv /\ Others => AttemptInv'
<1> SUFFICES ASSUME Types, SendInv, Others, NEW r \in Rows, Within(r) PROVE Within(r)'
  BY DEF AttemptInv
<1> USE DEF stages, settings, relay, dispatcher, platform
<1>1. CASE UNCHANGED <<chan, chanTries, dispatcher, platform, bounds>>
  <2>1. Due(r)' => Due(r)
    BY <1>1 DEF Due
  <2> QED
    BY <1>1, <2>1, AttemptKept
<1>2. ASSUME NEW q \in Rows, Replay(q) PROVE Within(r)'
  <2>1. chan'[r] = "none" => chan[r] = "none"
    BY <1>2 DEF Replay, Types, Queues
  <2>2. accepted' = accepted /\ chanTries' = chanTries /\ Slip
    BY <1>2 DEF Replay, Slip
  <2> QED
    BY <2>1, <2>2, AttemptKept
<1> QED
  BY <1>1, <1>2 DEF Others, Commit, Expire, Revoke, SetPaused, bounds

LEMMA RelayAttempt == Types /\ SendInv /\ AttemptInv /\ Relay => AttemptInv'
<1> SUFFICES ASSUME Types, SendInv, Relay, NEW r \in Rows, Within(r) PROVE Within(r)'
  BY DEF AttemptInv
<1> USE DEF stages, settings, relay, dispatcher, platform
<1>1. CASE EnqueueOutbound
  <2>1. /\ chan'[r] = IF r = item /\ chan[r] = "none" THEN "pending" ELSE chan[r]
        /\ UNCHANGED <<chanTries, dispatcher, platform, bounds>>
    BY <1>1 DEF EnqueueOutbound, Enqueued, Types, Queues
  <2>2. chan[r] = "none" => chanTries[r] # ChanTries
    BY TriesAssumption DEF Within
  <2>3. Due(r)' => Due(r)
    BY <2>1, <2>2 DEF Due
  <2>4. chan'[r] = "none" => chan[r] = "none"
    BY <2>1
  <2> QED
    BY <2>1, <2>3, <2>4, AttemptKept
<1>2. CASE AbandonRelay
  <2>1. UNCHANGED <<chan, chanTries, accepted>> /\ Slip
    BY <1>2 DEF AbandonRelay, Fault, Slip
  <2> QED
    BY <2>1, AttemptKept
<1>3. CASE UNCHANGED <<chan, chanTries, dispatcher, platform, bounds>>
  <2>1. Due(r)' => Due(r)
    BY <1>3 DEF Due
  <2> QED
    BY <1>3, <2>1, AttemptKept
<1> QED
  BY <1>1, <1>2, <1>3
  DEF Relay, NoEvent, Project, FailProject, NoRow, Forwarded, FailEnqueue, Finish, ClaimEvent,
      ClaimRow, bounds

LEMMA DispatcherAttempt == Types /\ SendInv /\ AttemptInv /\ Dispatcher => AttemptInv'
<1> SUFFICES ASSUME Types, SendInv, Dispatcher, NEW r \in Rows, Within(r) PROVE Within(r)'
  BY DEF AttemptInv
<1> USE DEF stages, settings, relay, dispatcher, platform
<1>1. /\ faults \in Nat /\ replays \in Nat /\ ChanTries \in Nat /\ ChanTries >= 1
      /\ accepted[r] \in Nat /\ chanTries[r] \in 0..ChanTries
  BY AttemptTypes
<1>2. dpc # "idle" => row \in Rows /\ chan[row] = "sending"
  BY DEF Types, Loops, InHand, SendInv
<1>3. CASE Recover
  <2>1. row = None /\ r # None
    BY <1>3, NoneAssumption DEF Recover, Types, InHand, Rows
  <2>2. chan'[r] = chan[r] \/ (chan[r] = "sending" /\ chan'[r] = "retrying")
    BY <1>3 DEF Recover, Recovered, Types, Queues
  <2>3. UNCHANGED <<chanTries, dispatcher, accepted, bounds>>
    BY <1>3 DEF Recover
  <2>4. Due(r)' => Due(r)
    BY <2>1, <2>2, <2>3 DEF Due
  <2> QED
    BY <2>2, <2>3, <2>4, AttemptKept
<1>4. ASSUME NEW q \in Rows, ClaimDelivery(q) PROVE Within(r)'
  <2>1. /\ chan[q] \in {"pending", "retrying"} /\ chan'[q] = "sending"
        /\ r # q => chan'[r] = chan[r] /\ chanTries'[r] = chanTries[r]
    BY <1>4 DEF ClaimDelivery, Counted, Types, Queues
  <2>2. UNCHANGED <<accepted, bounds>> /\ dpc = "idle" /\ row = None /\ row' = q
    BY <1>4 DEF ClaimDelivery, Types, InHand
  <2>3. CASE r # q
    <3>1. Due(r)' => Due(r)
      BY <2>1, <2>2, <2>3, NoneAssumption DEF Due, Rows
    <3> QED
      BY <2>1, <2>2, <2>3, <3>1, AttemptKept
  <2>4. CASE r = q /\ chanTries[r] < ChanTries
    <3>1. chanTries'[r] = chanTries[r] + 1
      BY <1>4, <2>4 DEF ClaimDelivery, Counted, Types, Queues
    <3>2. Allowed(r)' = Allowed(r) + 1 /\ Allowed(r) \in Nat
      BY <1>1, <2>2, <3>1 DEF Allowed, bounds
    <3>3. accepted'[r] <= Allowed(r)' /\ accepted'[r] + 1 <= Allowed(r)'
      BY <1>1, <2>2, <3>2 DEF Within
    <3> QED
      BY <2>1, <2>4, <3>3 DEF Within
  <2>5. CASE r = q /\ chanTries[r] = ChanTries
    <3>1. chanTries'[r] = chanTries[r]
      BY <1>1, <1>4, <2>5 DEF ClaimDelivery, Counted, Types, Queues
    <3>2. Due(r)
      BY <2>1, <2>5 DEF Due
    <3> QED
      BY <2>1, <2>2, <2>5, <3>1, <3>2, AttemptKept
  <2> QED
    BY <1>1, <2>3, <2>4, <2>5
<1>5. CASE Send
  <2>1. /\ row \in Rows /\ chan[row] = "sending" /\ dpc = "sending" /\ dpc' # "sending"
        /\ UNCHANGED <<chan, chanTries, row, bounds>>
    BY <1>2, <1>5 DEF Send
  <2>2. CASE r # row
    <3>1. accepted'[r] = accepted[r]
      BY <1>5, <2>2 DEF Send, Told, Refused, Untold, Shown, Types, Counters
    <3>2. Due(r)' => Due(r)
      BY <2>1, <2>2 DEF Due
    <3> QED
      BY <2>1, <3>1, <3>2, AttemptKept
  <2>3. CASE r = row
    <3>1. accepted'[r] \in {accepted[r], accepted[r] + 1}
      BY <1>5, <2>3 DEF Send, Told, Refused, Untold, Shown, Types, Counters
    <3>2. Due(r) /\ ~Due(r)'
      BY <2>1, <2>3 DEF Due
    <3>3. Allowed(r)' = Allowed(r) /\ Allowed(r) \in Nat
      BY <1>1, <2>1 DEF Allowed, bounds
    <3>4. accepted'[r] <= Allowed(r)'
      BY <1>1, <3>1, <3>2, <3>3 DEF Within
    <3> QED
      BY <2>1, <2>3, <3>2, <3>4 DEF Within
  <2> QED
    BY <2>2, <2>3
<1>6. ASSUME NEW s \in {"sent", Retried(chanTries[row], ChanTries), "dead"}, Settle(s),
             accepted' = accepted, dpc # "idle", Slip \/ UNCHANGED bounds
      PROVE  Within(r)'
  <2>1. /\ row \in Rows /\ chanTries' = chanTries /\ dpc' = "idle" /\ row' = None
        /\ chan'[r] = IF r = row THEN s ELSE chan[r]
    BY <1>2, <1>6 DEF Settle, Types, Queues
  <2>2. s # "none" /\ (s \in {"pending", "retrying", "sending"} => chanTries[row] # ChanTries)
    BY <1>1, <1>6 DEF Retried
  <2>3. Due(r)' => Due(r)
    BY <2>1, <2>2 DEF Due
  <2> QED
    BY <1>6, <2>1, <2>2, <2>3, AttemptKept
<1>7. CASE MarkSent \/ MarkFailed \/ MarkSentFails
  BY <1>6, <1>7 DEF MarkSent, MarkFailed, FailedState, MarkSentFails, Fault, Slip
<1>8. CASE AbandonDelivery
  <2>1. UNCHANGED <<chan, chanTries, accepted>> /\ Slip
    BY <1>8 DEF AbandonDelivery, Fault, Slip
  <2> QED
    BY <2>1, AttemptKept
<1> QED
  BY <1>3, <1>4, <1>5, <1>7, <1>8 DEF Dispatcher

LEMMA AttemptStep == Types /\ SendInv /\ AttemptInv /\ [Next]_vars => AttemptInv'
<1> SUFFICES ASSUME Types, SendInv, AttemptInv, [Next]_vars PROVE AttemptInv'
  OBVIOUS
<1> USE DEF stages, dispatcher, platform
<1>1. CASE Crash
  <2>1. UNCHANGED <<chan, chanTries, accepted>> /\ Slip
    BY <1>1 DEF Crash, Fault, Slip
  <2> QED
    BY <2>1, AttemptKept DEF AttemptInv
<1>2. CASE UNCHANGED vars
  BY <1>2 DEF vars, bounds, AttemptInv, Within, Allowed, Due
<1> QED
  BY <1>1, <1>2, OthersAttempt, RelayAttempt, DispatcherAttempt DEF Next

\* However its sends end, a message is shown once for each attempt at most, and
\* once more for each crash, refusal of the store or replay.
THEOREM Attempts == Spec => []AttemptsBound
<1>1. AttemptInv => AttemptsBound
  BY DEF AttemptInv, Within, Allowed, AttemptsBound
<1> QED
  BY <1>1, TypesHold, SendInit, SendStep, AttemptInit, AttemptStep, PTL DEF Spec

\* The queues, the loops and what the platform shows keep their types, with any
\* number of events, bindings and attempts.
THEOREM Typing == Spec => []TypeOK
<1>1. Types => TypeOK
  BY DEF Types, Counters, TypeOK, Queues, Settings, Loops, ProjStates, OutStates, ChanStates,
         Leases
<1> QED
  BY <1>1, TypesHold, PTL
=============================================================================
