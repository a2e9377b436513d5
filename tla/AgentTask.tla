----------------------------- MODULE AgentTask -----------------------------
(***************************************************************************)
(* One coding-agent task of the dashboard (plugins/agent_dashboard): its   *)
(* row and retry claim in the database, the progress adapter and the       *)
(* projector that run ahead of the row, the operators' requests and the    *)
(* stuck detector that act on it at the same time, and the worker that     *)
(* runs it, reached by START_WORKFLOW and ABORT_REQUEST frames.            *)
(*                                                                         *)
(* A step is a database transaction together with the synchronous code     *)
(* after it, or the handling of a frame or an event.  A status of the      *)
(* adapter is named by the persisted status it maps to ("done" is          *)
(* completed, "error" is failed).  "paused" is left out: coding_agent_v1   *)
(* has no gates; so is "restarted", which nothing writes any more.         *)
(***************************************************************************)
EXTENDS Naturals, Sequences

CONSTANTS Users,          \* requests of operators that may be under way at once
          Detector,       \* the stuck detector, one retry at a time
          Creator,        \* the create_task call, from its dispatch on
          Outcomes,       \* how a run may end by itself
          MaxAutoRetries, \* DEFAULT_MAX_AUTO_RETRIES
          MaxRequests,    \* bound on the operators' requests
          MaxFaults,      \* bound on time-outs, failing sends and crashes
          None

ASSUME OutcomesAssumption == Outcomes \subseteq {"completed", "failed", "incomplete"}
ASSUME AutoRetriesAssumption == MaxAutoRetries \in Nat \ {0}
ASSUME CallersAssumption ==
  Detector # Creator /\ {Detector, Creator} \cap Users = {}
ASSUME BoundsAssumption == MaxRequests \in Nat /\ MaxFaults \in Nat

Callers == Users \cup {Detector, Creator}
Terminal == {"completed", "failed", "aborted", "stuck_permanently", "incomplete"}
Statuses == Terminal \cup {"created", "dispatched", "running", "stuck", "retrying"}
Claims == [owner : Users \cup {Detector}, prev : Statuses]

ASSUME NoneAssumption ==
  None \notin Callers \cup Statuses \cup Claims \cup {"start"} /\ "start" \notin Callers

VARIABLES row,      \* agent_tasks.status, "none" once the row is gone
          claim,    \* agent_task_retry_claims: who retries, and from which status
          ops,      \* the calls under way
          adapter,  \* the adapter's status, tracking and retry hold of the task
          proj,     \* the projector: the pending status and the last one accepted
          retries,  \* _retry_counts of the detector
          frames,   \* frames on their way to the worker
          live,     \* runs of the task the worker has
          events,   \* what the runs have published and the Supervisor not read
          mixed,    \* history: a dispatch has met an abort or a removal, or old news
          requests, faults

database == <<row, claim>>
dashboard == <<adapter, proj, retries>>
worker == <<frames, live, events>>
bounds == <<requests, faults>>
vars == <<database, ops, dashboard, worker, mixed, bounds>>

Call(kind, pc) == [kind |-> kind, pc |-> pc, prev |-> None, override |-> FALSE]
Idle == Call("none", "idle")
Busy(o) == ops[o].pc # "idle"
Retrying(o) == ops[o].kind = "retry" /\ ops[o].pc \notin {"idle", "claim"}

\* Who is about to start a run.
Dispatching ==
  {x \in {"creation", "retry"} :
     IF x = "creation" THEN Busy(Creator) ELSE \E o \in Callers : Retrying(o)}

TypeOK ==
  /\ row \in Statuses \cup {"none"}
  /\ claim \in Claims \cup {None}
  /\ ops \in [Callers -> [kind : {"none", "create", "retry", "abort", "delete", "terminate"},
                          pc : {"idle", "claim", "send", "waiting", "acked", "refused",
                                "complete", "restore", "unwind", "write", "mark", "remove", "delete"},
                          prev : Statuses \cup {None}, override : BOOLEAN]]
  /\ adapter \in [local : Statuses \cup {"none"}, active : BOOLEAN, held : BOOLEAN]
  /\ proj \in [pending : Statuses \cup {None}, last : Statuses \cup {None}]
  /\ retries \in 0..MaxAutoRetries
  /\ frames \in Seq({"start"} \cup (Callers \cup {None}))
  /\ live \in Nat
  /\ events \in Seq([status : Statuses, old : BOOLEAN])
  /\ mixed \subseteq {"creation", "retry", "news"}
  /\ requests \in 0..MaxRequests /\ faults \in 0..MaxFaults
  \* What is held back in the dashboard is held for somebody.
  /\ adapter.held => \E o \in Callers : Retrying(o)
  /\ adapter.active => adapter.local \notin Terminal \cup {"none"}

\* The row has been created and registered, and is about to be dispatched.
Init ==
  /\ row = "created" /\ claim = None
  /\ ops = [o \in Callers |->
              IF o = Creator THEN Call("create", "acked") ELSE Idle]
  /\ adapter = [local |-> "running", active |-> TRUE, held |-> FALSE]
  /\ proj = [pending |-> None, last |-> None]
  /\ retries = 0
  /\ frames = <<>> /\ live = 0 /\ events = <<>>
  /\ mixed = {}
  /\ requests = 0 /\ faults = 0

Fault == faults < MaxFaults /\ faults' = faults + 1 /\ UNCHANGED requests
Request == requests < MaxRequests /\ requests' = requests + 1 /\ UNCHANGED faults

-----------------------------------------------------------------------------
(* The row and the dashboard                                               *)

\* _ALLOWED_TRANSITIONS.
Allowed(s) ==
  CASE s \in {"created", "dispatched", "running"} ->
         Terminal \cup {"stuck", "retrying"}
           \cup (IF s = "running" THEN {} ELSE {"running"})
           \cup (IF s = "created" THEN {"dispatched"} ELSE {})
    [] s = "stuck" -> {"retrying"} \cup (Terminal \ {"completed"})
    [] s = "retrying" -> {"running"} \cup (Terminal \ {"completed"})
    [] s \in {"failed", "stuck_permanently", "incomplete"} -> {"retrying", "aborted"}
    [] s = "aborted" -> {"retrying"}
    [] OTHER -> {}

\* update_status, and whether it writes.
Accepts(s) == row # "none" /\ (s = row \/ s \in Allowed(row))
Updated(s) == IF Accepts(s) THEN s ELSE row

\* set_status of the adapter: a held retry hears of nothing but itself.
Hears(a, s) == a.local # "none" /\ (a.held => s = "retrying")
\* Mutant: a task that has ended is still watched.
ShownWatched(a, s) == IF Hears(a, s) THEN [a EXCEPT !.local = s] ELSE a

Shown(a, s) ==
  IF Hears(a, s) THEN [local |-> s, active |-> a.active /\ s \notin Terminal, held |-> a.held]
  ELSE a
Retires(a, s) == Hears(a, s) /\ s \in Terminal

\* enqueue_status: one pending status per task, the last one not repeated.
Projected(s) == IF proj.last = s THEN proj ELSE [pending |-> s, last |-> s]

\* forget() cancels what the detector has under way; a retry then gives its claim
\* back, unless it has not heard yet that the claim is committed ("send"): the
\* cancellation is raised inside claim_retry, and the claim stays.
Forgotten(all) ==
  LET d == all[Detector] IN
  [all EXCEPT ![Detector] =
     CASE d.kind = "retry" /\ d.pc \in {"waiting", "acked", "refused", "complete"} ->
            [d EXCEPT !.pc = "unwind"]
       [] d.pc \in {"restore", "unwind"} -> d
       [] OTHER -> Idle]

\* Nobody waits any more for the answers to o's frames.
Unawaited(o) == [i \in DOMAIN frames |-> IF frames[i] = o THEN None ELSE frames[i]]

\* The status s reaches the adapter in a step that leaves the calls as `all`.
Show(a, s, all) ==
  /\ adapter' = Shown(a, s)
  /\ IF Retires(a, s)
     THEN retries' = 0 /\ ops' = Forgotten(all) /\ frames' = Unawaited(Detector)
     ELSE ops' = all /\ UNCHANGED <<retries, frames>>

Finished(o) == [ops EXCEPT ![o] = Idle]
At(o, pc) == [ops EXCEPT ![o] = [@ EXCEPT !.pc = pc]]

-----------------------------------------------------------------------------
(* The beginning of a call: get_task has found the row                     *)

\* The retry of an operator also accepts an active row whose task the adapter
\* already shows as stuck.
BeginRetry(u) ==
  /\ ~Busy(u) /\ row # "none" /\ Request
  /\ ops' = [ops EXCEPT ![u] =
               [kind |-> "retry", pc |-> "claim", prev |-> None,
                override |-> adapter.local = "stuck"]]
  /\ UNCHANGED <<database, dashboard, worker, mixed>>

BeginAbort(u) ==
  /\ ~Busy(u) /\ row # "none" /\ Request
  /\ ops' = [ops EXCEPT ![u] = Call("abort", "send")]
  /\ mixed' = mixed \cup Dispatching
  /\ UNCHANGED <<database, dashboard, worker>>

BeginDelete(u) ==
  /\ ~Busy(u) /\ row \in Terminal /\ Request
  /\ ops' = [ops EXCEPT ![u] = Call("delete", "remove")]
  /\ UNCHANGED <<database, dashboard, worker, mixed>>

\* _check_all finds the task silent for STUCK_TIMEOUT_SEC.
FoundIdle ==
  /\ ~Busy(Detector) /\ adapter.active /\ adapter.local = "running"
  /\ events = <<>> /\ ~Busy(Creator)
  /\ IF retries < MaxAutoRetries
     THEN /\ retries' = retries + 1
          /\ ops' = [ops EXCEPT ![Detector] = Call("retry", "claim")]
          /\ UNCHANGED mixed
     ELSE /\ ops' = [ops EXCEPT ![Detector] = Call("terminate", "send")]
          /\ mixed' = mixed \cup Dispatching
          /\ UNCHANGED retries
  /\ UNCHANGED <<database, adapter, proj, worker, bounds>>

-----------------------------------------------------------------------------
(* retry_task                                                              *)

Eligible(o) ==
  IF o = Detector THEN {"dispatched", "running", "stuck"}
  ELSE {"stuck", "failed", "aborted", "stuck_permanently", "incomplete"}
         \cup (IF ops[o].override THEN {"dispatched", "running"} ELSE {})

\* Mutant: the claim of another retry is no obstacle.
ClaimsOpenAny == {None, claim}

\* The claims claim_retry may proceed from: none, or one whose 120 seconds have
\* passed, which a retry that is still under way does not reach.
ClaimsOpen ==
  IF claim = None THEN {None}
  ELSE IF Retrying(claim.owner) THEN {} ELSE {claim}

\* The status after the recovery of a stale claim.
Recovered == IF claim # None /\ row = "retrying" THEN "stuck" ELSE row

Claim(o) ==
  /\ ops[o].pc = "claim" /\ claim \in ClaimsOpen /\ Recovered \in Eligible(o)
  /\ row' = "retrying"
  /\ claim' = [owner |-> o, prev |-> Recovered]
  /\ ops' = [ops EXCEPT ![o] = [kind |-> "retry", pc |-> "send", prev |-> Recovered,
                                override |-> ops[o].override]]
  /\ mixed' = mixed \cup
       (IF \E p \in Callers : ops[p].kind \in {"abort", "delete", "terminate"}
        THEN {"retry"} ELSE {})
       \cup (IF proj.pending # None THEN {"news"} ELSE {})
  /\ UNCHANGED <<dashboard, worker, bounds>>

\* TaskRetryConflict; the detector then shows what the row says, or "stuck".
Conflict(o) ==
  /\ ops[o].pc = "claim"
  /\ \/ claim # None /\ UNCHANGED database
     \/ /\ claim \in ClaimsOpen /\ Recovered \notin Eligible(o)
        /\ row' = Recovered /\ claim' = None
  /\ IF o = Detector
     THEN Show(adapter, IF row' \in Terminal \cup {"retrying"} THEN row' ELSE "stuck", Finished(o))
     ELSE ops' = Finished(o) /\ UNCHANGED <<adapter, retries, frames>>
  /\ UNCHANGED <<proj, live, events, mixed, bounds>>

\* mark_retrying.
Held(a) ==
  IF a.local = "none" THEN a ELSE [local |-> "retrying", active |-> TRUE, held |-> TRUE]

\* ABORT_REQUEST, by a retry, an abort or a termination.
SendAbort(o) ==
  /\ ops[o].pc = "send"
  /\ adapter' = IF ops[o].kind = "retry" THEN Held(adapter) ELSE adapter
  /\ \/ /\ frames' = Append(frames, o) /\ ops' = At(o, "waiting")
        /\ UNCHANGED bounds
     \/ /\ ops' = At(o, "refused") /\ Fault /\ UNCHANGED frames
  /\ UNCHANGED <<database, proj, retries, live, events, mixed>>

\* request_abort gives up, after 10 seconds or because the answer was lost; the
\* worker may yet do as it was asked.
TimeOut(o) ==
  /\ ops[o].pc = "waiting"
  /\ IF \E i \in DOMAIN frames : frames[i] = o THEN Fault ELSE UNCHANGED bounds
  /\ ops' = At(o, "refused") /\ frames' = Unawaited(o)
  /\ UNCHANGED <<database, dashboard, live, events, mixed>>

\* START_WORKFLOW; what was published before is news of an older run.
SendStart ==
  /\ frames' = Append(frames, "start")
  /\ events' = [i \in DOMAIN events |-> [events[i] EXCEPT !.old = TRUE]]

Dispatch(o) ==
  /\ ops[o].pc = "acked" /\ ops[o].kind = "retry"
  /\ \/ SendStart /\ ops' = At(o, "complete") /\ UNCHANGED bounds
     \/ ops' = At(o, "restore") /\ Fault /\ UNCHANGED <<frames, events>>
  /\ UNCHANGED <<database, dashboard, live, mixed>>

Owns(o) == claim # None /\ claim.owner = o /\ row = "retrying"

\* complete_retry_claim, then reset_for_retry.
Complete(o) ==
  /\ ops[o].pc = "complete" /\ Owns(o)
  /\ row' = "running" /\ claim' = None
  /\ adapter' = IF adapter.local = "none" THEN [adapter EXCEPT !.held = FALSE]
                ELSE [local |-> "running", active |-> TRUE, held |-> FALSE]
  /\ ops' = Finished(o)
  /\ UNCHANGED <<proj, retries, worker, mixed, bounds>>

\* The status a failed retry goes back to.
Fallback(o) ==
  IF (o = Detector \/ ops[o].override) /\ ops[o].prev \in {"dispatched", "running"}
  THEN "stuck" ELSE ops[o].prev

\* Mutant: a retry that has failed forgets its claim.
RestorableNever(o) == FALSE

\* Mutant: an aborted task is not accepted back either.
RestorableButAborted(o) == Owns(o) /\ Fallback(o) \notin {"incomplete", "aborted"}

\* What restore_retry_claim accepts.
Restorable(o) == Owns(o) /\ Fallback(o) # "incomplete"

\* The retry has failed, or its claim was lost, or it was cancelled; the detector
\* shows a failure of its own as "stuck".
Restore(o) ==
  /\ \/ ops[o].pc \in {"restore", "unwind"}
     \/ ops[o].pc = "complete" /\ ~Owns(o)
     \/ ops[o].pc = "refused" /\ ops[o].kind = "retry"
  /\ LET free == [adapter EXCEPT !.held = FALSE] IN
     IF Restorable(o)
     THEN row' = Fallback(o) /\ claim' = None /\ Show(free, Fallback(o), Finished(o))
     ELSE /\ adapter' = IF o = Detector /\ ops[o].pc # "unwind" THEN Shown(free, "stuck") ELSE free
          /\ ops' = Finished(o)
          /\ UNCHANGED <<database, retries, frames>>
  /\ UNCHANGED <<proj, live, events, mixed, bounds>>

-----------------------------------------------------------------------------
(* create_task, abort_task, terminate_permanently_stuck, delete_task_record *)

CreateDispatch ==
  /\ ops[Creator].pc = "acked"
  /\ \/ /\ SendStart
        /\ ops' = At(Creator, "write")
        /\ UNCHANGED <<database, adapter, retries, bounds>>
     \/ \* remove_task, delete_task and _rollback_group
        /\ row' = "none" /\ claim' = None
        /\ adapter' = [local |-> "none", active |-> FALSE, held |-> FALSE]
        /\ retries' = 0 /\ ops' = Finished(Creator)
        /\ Fault /\ UNCHANGED <<frames, events>>
  /\ UNCHANGED <<proj, live, mixed>>

CreateWrite ==
  /\ ops[Creator].pc = "write"
  /\ row' = Updated("dispatched") /\ ops' = Finished(Creator)
  /\ UNCHANGED <<claim, dashboard, worker, mixed, bounds>>

\* Mutant: the terminal state does not wait for the worker's proof.
ProvenAnyway(o) == ops[o].pc \in {"acked", "refused"}

\* The ABORT_ACK proved that the task is gone.
Proven(o) == ops[o].pc = "acked"

\* mark_aborted.
MarkAborted(u) ==
  /\ ops[u].kind = "abort" /\ Proven(u)
  /\ proj' = IF Hears(adapter, "aborted") THEN Projected("aborted") ELSE proj
  /\ Show(adapter, "aborted", At(u, "write"))
  /\ UNCHANGED <<database, live, events, mixed, bounds>>

WriteAborted(u) ==
  /\ ops[u].kind = "abort" /\ ops[u].pc = "write"
  /\ row' = Updated("aborted") /\ ops' = Finished(u)
  /\ mixed' = mixed \cup Dispatching
  /\ UNCHANGED <<claim, dashboard, worker, bounds>>

AbortRefused(u) ==
  /\ ops[u].kind = "abort" /\ ops[u].pc = "refused"
  /\ ops' = Finished(u)
  /\ UNCHANGED <<database, dashboard, worker, mixed, bounds>>

WriteTerminated ==
  /\ ops[Detector].kind = "terminate" /\ ops[Detector].pc = "acked"
  /\ row' = Updated("stuck_permanently")
  /\ IF Accepts("stuck_permanently")
     THEN ops' = At(Detector, "mark") /\ UNCHANGED adapter
     ELSE ops' = Finished(Detector) /\ adapter' = Shown(adapter, "stuck")
  /\ mixed' = mixed \cup Dispatching
  /\ UNCHANGED <<claim, proj, retries, worker, bounds>>

MarkTerminated ==
  /\ ops[Detector].kind = "terminate" /\ ops[Detector].pc = "mark"
  /\ Show(adapter, "stuck_permanently", Finished(Detector))
  /\ UNCHANGED <<database, proj, live, events, mixed, bounds>>

TerminateRefused ==
  /\ ops[Detector].kind = "terminate" /\ ops[Detector].pc = "refused"
  /\ adapter' = Shown(adapter, "stuck") /\ ops' = Finished(Detector)
  /\ UNCHANGED <<database, proj, retries, worker, mixed, bounds>>

\* remove_task of the adapter, then the row and, by the foreign key, its claim.
RemoveTask(u) ==
  /\ ops[u].kind = "delete" /\ ops[u].pc = "remove"
  /\ adapter' = [local |-> "none", active |-> FALSE, held |-> FALSE]
  /\ retries' = 0 /\ ops' = Forgotten(At(u, "delete")) /\ frames' = Unawaited(Detector)
  /\ mixed' = mixed \cup Dispatching
  /\ UNCHANGED <<database, proj, live, events, bounds>>

DeleteRow(u) ==
  /\ ops[u].kind = "delete" /\ ops[u].pc = "delete"
  /\ row' = "none" /\ claim' = None /\ ops' = Finished(u)
  /\ mixed' = mixed \cup Dispatching
  /\ UNCHANGED <<dashboard, worker, bounds>>

-----------------------------------------------------------------------------
(* The projector, the adapter's observer and the worker                    *)

\* _apply: what the row rejects or what ends it is not remembered.
Project ==
  /\ proj.pending # None
  /\ row' = Updated(proj.pending)
  /\ proj' = [pending |-> None,
              last |-> IF proj.last = proj.pending
                          /\ (proj.pending \in Terminal \/ ~Accepts(proj.pending))
                       THEN None ELSE proj.last]
  /\ UNCHANGED <<claim, ops, adapter, retries, worker, mixed, bounds>>

\* on_event; an activity event projects "running" again and again.
Observe ==
  /\ events # <<>>
  /\ events' = Tail(events)
  /\ LET e == Head(events) IN
     IF ~adapter.active \/ (e.status = "running" /\ adapter.local # "running")
        \/ ~Hears(adapter, e.status)
     THEN UNCHANGED <<ops, adapter, proj, retries, frames, mixed>>
     ELSE /\ proj' = Projected(e.status)
          /\ Show(adapter, e.status, ops)
          /\ mixed' = IF e.old \/ \E o \in Callers : Retrying(o)
                      THEN mixed \cup {"news"} ELSE mixed
  /\ UNCHANGED <<database, live, bounds>>

\* START_WORKFLOW: the unit waits for the group's run lock and runs.
Start ==
  /\ frames # <<>> /\ Head(frames) = "start"
  /\ frames' = Tail(frames) /\ live' = live + 1
  /\ events' = Append(events, [status |-> "running", old |-> FALSE])
  /\ UNCHANGED <<database, ops, dashboard, mixed, bounds>>

\* ABORT_REQUEST: every task of the group is cancelled and awaited, and the
\* answer proves that the workspace is gone; or the cleanup fails.
Abort ==
  /\ frames # <<>> /\ Head(frames) # "start"
  /\ frames' = Tail(frames)
  /\ \/ /\ live' = 0
        /\ events' = IF live > 0
                     THEN Append(events, [status |-> "aborted", old |-> FALSE]) ELSE events
        /\ \/ ops' = (IF Head(frames) = None THEN ops ELSE At(Head(frames), "acked"))
              /\ UNCHANGED bounds
           \/ Head(frames) # None /\ Fault /\ UNCHANGED ops
     \/ /\ live' \in {0, live} /\ Fault
        /\ events' = IF live' < live
                     THEN Append(events, [status |-> "aborted", old |-> FALSE]) ELSE events
        /\ ops' = IF Head(frames) = None THEN ops ELSE At(Head(frames), "refused")
  /\ UNCHANGED <<database, dashboard, mixed>>

\* A run ends by itself and says how.
EndRun ==
  /\ live > 0 /\ live' = live - 1
  /\ \E status \in Outcomes : events' = Append(events, [status |-> status, old |-> FALSE])
  /\ UNCHANGED <<database, ops, dashboard, frames, mixed, bounds>>

-----------------------------------------------------------------------------
(* Crashes                                                                 *)

\* The worker dies and comes back; its session recovery may go on with the run.
WorkerDies ==
  /\ Fault
  /\ frames' = <<>> /\ events' = <<>>
  /\ live' \in {0, IF live > 0 THEN 1 ELSE 0}
  /\ UNCHANGED <<database, ops, dashboard, mixed>>

\* reconcile_transient_states: row and claim after a restart.
RowReconciled == IF row = "retrying" THEN "stuck" ELSE row
ClaimReconciled == IF row = "retrying" THEN None ELSE claim

\* hydrate: an active row is watched again.
Hydrated(s) ==
  LET local == IF s \in {"created", "dispatched"} THEN "running" ELSE s IN
  [local |-> local, active |-> local \notin Terminal \cup {"none"}, held |-> FALSE]

\* The Supervisor dies, its workers end with it, and all are started again.
Crash ==
  /\ Fault
  /\ row' = RowReconciled /\ claim' = ClaimReconciled
  /\ ops' = [o \in Callers |-> Idle]
  /\ adapter' = Hydrated(RowReconciled)
  /\ proj' = [pending |-> None, last |-> None] /\ retries' = 0
  /\ frames' = <<>> /\ events' = <<>>
  /\ live' \in {0, IF live > 0 THEN 1 ELSE 0}
  /\ UNCHANGED <<mixed>>

Step(o) ==
  \/ Claim(o) \/ Conflict(o) \/ SendAbort(o) \/ TimeOut(o)
  \/ Dispatch(o) \/ Complete(o) \/ Restore(o)

UserStep(u) ==
  \/ MarkAborted(u) \/ WriteAborted(u) \/ AbortRefused(u) \/ RemoveTask(u) \/ DeleteRow(u)

Next ==
  \/ \E u \in Users : BeginRetry(u) \/ BeginAbort(u) \/ BeginDelete(u) \/ UserStep(u)
  \/ \E o \in Users \cup {Detector} : Step(o)
  \/ FoundIdle \/ WriteTerminated \/ MarkTerminated \/ TerminateRefused
  \/ CreateDispatch \/ CreateWrite
  \/ Project \/ Observe \/ Start \/ Abort \/ EndRun
  \/ WorkerDies \/ Crash

Spec == Init /\ [][Next]_vars

\* The event loops run, silence is noticed, time-outs expire; operators need not
\* ask, runs need not end and nothing need fail.
Fairness ==
  /\ \A o \in Users \cup {Detector} : WF_vars(Step(o))
  /\ \A u \in Users : WF_vars(UserStep(u))
  /\ WF_vars(FoundIdle \/ WriteTerminated \/ MarkTerminated \/ TerminateRefused)
  /\ WF_vars(CreateDispatch \/ CreateWrite)
  /\ WF_vars(Project) /\ WF_vars(Observe) /\ WF_vars(Start \/ Abort)

FairSpec == Spec /\ Fairness

-----------------------------------------------------------------------------
(* Properties                                                              *)

Starts == {i \in DOMAIN frames : frames[i] = "start"}

\* A retry starts no second run beside one that is still there: the claim keeps
\* other retries out, and the acknowledged abort has ended every run before it.
\* The creation of a task holds no claim: an abort and a retry before it has
\* dispatched are excepted.
OneRun ==
  "creation" \notin mixed =>
    live <= 1 /\ (live = 1 => Starts = {}) /\ \A i, j \in Starts : i = j

\* "retrying" is the state of a retry that is under way.
RetryingHasOwner == row = "retrying" => claim # None /\ Retrying(claim.owner)

\* However a retry ends, by a refusal, a lost claim, an abort that is never
\* acknowledged or a failing send, it does not leave the row behind in "retrying";
\* only the detector's can, cancelled before it hears that its claim is committed.
RetriesGiveBack ==
  [][RetryingHasOwner /\ ~RetryingHasOwner' =>
       claim.owner = Detector /\ ops[Detector].pc = "send"]_vars

\* "Status events from the old workflow are ignored while its retry owner holds the
\* durable TaskStore claim" (progress.py).
OldNewsIgnored ==
  [][Observe /\ claim # None /\ Retrying(claim.owner) => UNCHANGED adapter]_vars

Quiet ==
  /\ \A o \in Callers : ~Busy(o)
  /\ frames = <<>> /\ events = <<>> /\ proj.pending = None

\* Once everything has come to rest, a task that runs is not recorded as ended,
\* and one recorded as running that does not run is watched, or shown as stuck, so
\* that it can be retried; except where a retry has met an abort, a removal or the
\* news of an older run, which no claim excludes.
RowTellsTheRun ==
  Quiet /\ mixed = {} =>
    /\ (live > 0 => row \notin Terminal \cup {"none"})
    /\ row \in {"dispatched", "running"} /\ live = 0 =>
         adapter.local = "stuck" \/ (adapter.active /\ adapter.local = "running")

\* The detector gives up on every task sooner or later: it ends, or it waits for a
\* person, with the same exception.
Settles == <>(mixed # {} \/ [](adapter.local \notin {"running", "retrying"}))

=============================================================================
