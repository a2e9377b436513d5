------------------------------ MODULE Workflow -------------------------------
(***************************************************************************)
(* The workflow of one group in the worker process that serves it: the     *)
(* state machine of core/orchestration/declarative.py, the units of work   *)
(* and the effects of core/runner.py, the snapshot of                      *)
(* core/workflow_store.py, and what aborts, releases and crashes leave.    *)
(*                                                                         *)
(* A step is what a task of the event loop does between two suspensions.   *)
(* Three tasks change the state: the unit that holds group_run_lock, the   *)
(* frame the worker handles, and a run that recover_all() resumed, which   *)
(* takes no lock (of several, one at a time is between its observation and *)
(* its effects).  Each changes the memory at once, waits for the write     *)
(* lock of the group's database, commits, and only then shows cards and    *)
(* hands over units.                                                       *)
(***************************************************************************)
EXTENDS Integers, FiniteSets, SequencesExt

CONSTANTS
  NStages,      \* len(stages)
  Gated,        \* the single stages with "gate"
  Pool,         \* the pool stage, or None
  Bots,         \* the bots of the pool
  MaxTickets,   \* bound: tickets of a pool
  MaxSteps,     \* bound: transitions
  MaxMessages,  \* bound: user messages
  Faults,       \* a subset of AllFaults
  None

Stages == 0 .. NStages - 1

AllFaults == {"fail",      \* the executor raises
              "abort",     \* the group's tasks are cancelled by a user
              "release",   \* the worker gives the group up
              "crash"}     \* the worker dies

ASSUME StagesAssumption == NStages \in Nat \ {0}
ASSUME PoolAssumption == Pool \in Stages \cup {None} /\ None \notin Stages /\ Pool \notin Gated
ASSUME GatedAssumption == Gated \subseteq Stages
ASSUME BotsAssumption == IsFiniteSet(Bots) /\ Bots # {} /\ Bots \cap Stages = {}
ASSUME FaultsAssumption == Faults \subseteq AllFaults
ASSUME BoundsAssumption == MaxTickets \in Nat \ {0} /\ MaxSteps \in Nat /\ MaxMessages \in Nat

VARIABLES
  mem,       \* _state[group_id] of the worker, None when there is no entry
  row,       \* the row of workflow_state, None when there is none
  queue,     \* units that wait for group_run_lock
  run,       \* the unit that holds it
  recovered, \* the units whose sessions _dispatch_recovery has resumed
  step,      \* the OrchestratorStep each task is applying
  writers,   \* the tasks at the write lock of the group's database
  cards,     \* confirm cards in the message stream
  sessions,  \* the units whose agent sessions have status 'running'
  serving,   \* the group is active
  messages,  \* how many messages users have sent
  clock,     \* history: transitions made
  durable,   \* history: the latest transition the database has seen
  adrift,    \* history: the row has missed what the memory went through
  left       \* history: the memory the worker gave the group up with

tasks == <<queue, run, recovered, step, writers>>
history == <<durable, adrift, left>>
vars == <<mem, row, tasks, cards, sessions, serving, messages, clock, history>>

Tasks == {"run", "frame", "recovery"}
Clock == 0 .. MaxSteps

\* The performer of a unit is a bot of the pool, or the bot of a single stage,
\* known by the stage; by is the transition that handed the unit over.
Unit == [bot : Bots \cup Stages, by : Clock]
\* awaiting_confirm, the gate_id being the stage and whether it is a rework.
Gate == [stage : Stages, to : Stages \cup {None}, by : Clock]
Card == [stage : Stages, rework : BOOLEAN, by : Clock]
\* approved is history: the stages a human has let the workflow leave.
Flow == [id : Clock, current : 0..NStages, gate : Gate \cup {None},
         busy : SUBSET Bots, tickets : 0..MaxTickets, approved : SUBSET Stages]
Step == [write : {"save", "clear", "none"}, flow : Flow \cup {None},
         units : Seq(Unit), card : Card \cup {None}, by : Clock,
         failed : BOOLEAN]

ASSUME NoneAssumption == None \notin Step

TypeOK ==
  /\ mem \in Flow \cup {None}
  /\ row \in Flow \cup {None}
  /\ queue \in Seq(Unit)
  /\ run \in Unit \cup {None}
  /\ recovered \subseteq Unit
  /\ step \in [Tasks -> Step \cup {None}]
  /\ writers \in Seq(Tasks)
  /\ cards \subseteq Card
  /\ sessions \subseteq Unit
  /\ serving \in BOOLEAN
  /\ messages \in 0..MaxMessages
  /\ clock \in Clock
  /\ durable \in Clock
  /\ adrift \in BOOLEAN
  /\ left \in Flow \cup {None}

Init ==
  /\ mem = None /\ row = None
  /\ queue = <<>> /\ run = None /\ recovered = {}
  /\ step = [t \in Tasks |-> None] /\ writers = <<>>
  /\ cards = {} /\ sessions = {}
  /\ serving = TRUE
  /\ messages = 0
  /\ clock = 0 /\ durable = 0 /\ adrift = FALSE /\ left = None

-----------------------------------------------------------------------------
(* Transitions.  Each is a set of outcomes: the new state, the units to    *)
(* hand over and the card to show.                                         *)

Work(b) == [bot |-> b, by |-> clock + 1]
Outcome(f, units) == [flow |-> f, units |-> units, card |-> None]

\* Workflow f in stage s, without a gate.
At(f, s, busy, tickets) ==
  [id |-> f.id, current |-> s, gate |-> None, busy |-> busy, tickets |-> tickets,
   approved |-> f.approved]

\* A pool of n tickets starts with as many bots as there are tickets for.
Assignments ==
  {a \in (SUBSET Bots) \X (1..MaxTickets) :
     Cardinality(a[1]) = IF a[2] < Cardinality(Bots) THEN a[2] ELSE Cardinality(Bots)}

\* StageType.enter; what a stage kept from its last time is reset.
Enter(f, s) ==
  IF s # Pool THEN {Outcome(At(f, s, {}, 0), <<Work(s)>>)}
  ELSE {Outcome(At(f, s, a[1], a[2] - Cardinality(a[1])),
                SetToSeq({Work(b) : b \in a[1]})) : a \in Assignments}

\* _advance; behind the last stage the workflow is over.
Advance(f) ==
  IF f.current + 1 < NStages THEN Enter(f, f.current + 1)
  ELSE {Outcome(At(f, NStages, f.busy, f.tickets), <<>>)}

\* A human lets the workflow leave the stages from the current one up to s.
Approve(f, s) ==
  [f EXCEPT !.approved = {r \in Stages : (r \in @ /\ r < s) \/ (f.current <= r /\ r < s)}]

\* _raise_gate, for completion when to is None
RaiseGate(f, to) ==
  {[flow |-> [f EXCEPT !.gate = [stage |-> f.current, to |-> to, by |-> clock + 1]],
    units |-> <<>>,
    card |-> [stage |-> f.current, rework |-> to # None, by |-> clock + 1]]}

\* Mutant: the counter of tickets is not looked at.
TicketsLeftAlways(f) == TRUE
TicketsLeft(f) == f.tickets > 0

\* PoolStage.observe, when b says it is done.
Claim(f, b) ==
  IF b \notin f.busy THEN {}
  ELSE IF TicketsLeft(f)
    THEN {Outcome([f EXCEPT !.tickets = @ - 1], <<Work(b)>>)}
  ELSE IF f.busy # {b} THEN {Outcome([f EXCEPT !.busy = @ \ {b}], <<>>)}
  ELSE Advance([f EXCEPT !.busy = {}])

\* Mutant: a stage that is done is left, with or without a gate.
DoneUngated(f, b) == IF f.current = Pool THEN Claim(f, b) ELSE Advance(f)

\* signal_stage_done of b, whichever single stage it worked for.
Done(f, b) ==
  IF f.current = Pool THEN Claim(f, b)
  ELSE IF f.current \in Gated THEN RaiseGate(f, None)
  ELSE Advance(f)

Staged(f) == f # None /\ f.current < NStages

\* observe with the signals of a run of b.
Observed(f, b) == Done(f, b) \cup UNION {RaiseGate(f, s) : s \in Stages}

\* observe with text alone: a pool knows no rework, and a single stage may ask
\* for it without saying where to.
ObservedText(f, b) ==
  Done(f, b) \cup IF f.current = Pool THEN {}
                   ELSE UNION {RaiseGate(f, s) : s \in Stages \cup {None}}

\* DeclarativeOrchestrator.confirm of the gate that is pending.
Confirmed(f, revise) ==
  IF f.gate.to # None THEN Enter(Approve(f, f.gate.to), f.gate.to)
  ELSE IF revise THEN Enter(f, f.current)
  ELSE Advance(Approve(f, f.current + 1))

-----------------------------------------------------------------------------
(* apply_step                                                              *)

\* serialize() hands out the live dict, which is dumped after the wait for the
\* lock: a write that waits follows its workflow.
Follow(s, f) ==
  IF s # None /\ s.write = "save" /\ s.flow.id = f.id THEN [s EXCEPT !.flow = f] ELSE s

\* Mutant: the lock is passed to the last task that asked.
QueuedLast(t) == <<t>> \o writers
Queued(t) == Append(writers, t)

\* Task t no longer waits for the lock.
Unqueued(t) ==
  IF \E i \in DOMAIN writers : writers[i] = t
  THEN RemoveAt(writers, CHOOSE i \in DOMAIN writers : writers[i] = t)
  ELSE writers

\* A step that waits to write: a snapshot f, or when it is None the deletion.
Submit(f, units, card, by) ==
  [write |-> IF f = None THEN "clear" ELSE "save", flow |-> f,
   units |-> units, card |-> card, by |-> by, failed |-> FALSE]

\* Task t makes the transition o.
Apply(t, o) ==
  LET saved == IF o.flow.current = NStages THEN None ELSE o.flow
  IN /\ clock < MaxSteps
     /\ clock' = clock + 1
     /\ mem' = saved
     /\ step' = [u \in Tasks |-> IF u = t THEN Submit(saved, o.units, o.card, clock + 1)
                                 ELSE Follow(step[u], o.flow)]
     /\ writers' = Queued(t)

\* Task t writes without a transition.
Write(t, f, failed) ==
  /\ step' = [step EXCEPT ![t] = [Submit(f, <<>>, None, 0) EXCEPT !.failed = failed]]
  /\ writers' = Queued(t)
  /\ UNCHANGED clock

\* What the database holds after the write of s.  A run that raised deletes the
\* snapshot of a workflow that goes on.
Committed(s) ==
  /\ row' = s.flow
  /\ durable' = IF s.by > durable THEN s.by ELSE durable
  /\ adrift' = ((adrift \/ s.failed) /\ (s.flow # mem \/ Tail(writers) # <<>>))

\* commit_transition, save_state or clear_state of the first task in the queue.
Commit ==
  /\ writers # <<>>
  /\ LET s == step[Head(writers)]
     IN /\ Committed(s)
        /\ step' = [step EXCEPT ![Head(writers)].write = "none"]
  /\ writers' = Tail(writers)
  /\ UNCHANGED <<mem, queue, run, recovered, cards, sessions, serving, messages, clock, left>>

\* Mutant: a card is shown and units are spawned while the write waits.
ReadyAtOnce(t) ==
  step[t] # None /\ (step[t].write = "none" \/ step[t].units # <<>> \/ step[t].card # None)
Ready(t) == step[t] # None /\ step[t].write = "none"

\* The announcements, the card, the broadcast, the units; the task ends.
Deliver(t) ==
  /\ Ready(t)
  /\ cards' = IF step[t].card = None THEN cards ELSE cards \cup {step[t].card}
  /\ queue' = queue \o step[t].units
  /\ run' = IF t = "run" THEN None ELSE run
  /\ step' = [step EXCEPT ![t] = None]
  /\ UNCHANGED <<mem, row, recovered, writers, sessions, serving, messages, clock, history>>

-----------------------------------------------------------------------------
(* run_unit                                                                *)

\* The lock goes to the first unit in the queue.
Begin ==
  /\ run = None /\ queue # <<>>
  /\ run' = Head(queue) /\ queue' = Tail(queue)
  /\ sessions' = sessions \cup {Head(queue)}
  /\ UNCHANGED <<mem, row, recovered, step, writers, cards, serving, messages, clock, history>>

Working == run # None /\ step["run"] = None

\* The run signals, and the state machine moves.
Observe ==
  /\ Working /\ Staged(mem)
  /\ \E o \in Observed(mem, run.bot) : Apply("run", o)
  /\ sessions' = sessions \ {run}
  /\ UNCHANGED <<row, queue, run, recovered, cards, serving, messages, history>>

\* It ends without a signal: the pause is recorded, the state stays.
Pause ==
  /\ Working
  /\ Staged(mem)
  /\ Write("run", mem, FALSE)
  /\ sessions' = sessions \ {run}
  /\ UNCHANGED <<mem, row, queue, run, recovered, cards, serving, messages, history>>

\* Mutant: the lock is kept by a run that had nothing to say.
LockKept == run
LockFree == None

\* It says nothing, the provider refuses, or the workflow has no use for it.
Quit ==
  /\ Working
  /\ run' = LockFree
  /\ sessions' = sessions \ {run}
  /\ UNCHANGED <<mem, row, queue, recovered, step, writers, cards, serving, messages, clock,
                 history>>

\* The executor raises: the snapshot is deleted, the memory stays.
Fail ==
  /\ "fail" \in Faults
  /\ Working
  /\ Write("run", None, TRUE)
  /\ sessions' = sessions \ {run}
  /\ UNCHANGED <<mem, row, queue, run, recovered, cards, serving, messages, history>>

-----------------------------------------------------------------------------
(* Frames: the worker handles one at a time.                               *)

FrameLoopFree == serving /\ step["frame"] = None

\* Confirm, revise, next, start and end move the workflow by a human's hand.
Moved(o) ==
  /\ FrameLoopFree
  /\ Apply("frame", o)
  /\ UNCHANGED <<row, queue, run, recovered, cards, sessions, serving, messages, history>>

\* dispatch_start_workflow
Start ==
  LET f == [id |-> clock + 1, current |-> 0, gate |-> None, busy |-> {}, tickets |-> 0,
            approved |-> {}]
  IN Moved(Outcome(f, <<>>))

\* wf.confirm: the gate_id of a frame names the stage, not the time it was asked,
\* and a frame may name none: whatever gate is pending is confirmed, shown or not.
Confirm(revise) ==
  /\ mem # None /\ mem.gate # None
  /\ \E o \in Confirmed(mem, revise) : Moved(o)

\* dispatch_workflow_next
NextStage ==
  /\ mem # None
  /\ \E o \in Advance(Approve(mem, mem.current + 1)) : Moved(o)

\* dispatch_workflow_end
End ==
  /\ FrameLoopFree
  /\ mem # None
  /\ mem' = None
  /\ Write("frame", None, FALSE)
  /\ UNCHANGED <<row, queue, run, recovered, cards, sessions, serving, messages, history>>

Participants(f) ==
  IF f.current # Pool THEN {f.current} ELSE IF f.busy = {} THEN Bots ELSE f.busy

\* A message during a workflow asks the bots of the current stage, in addition
\* to what they do already.
Message ==
  /\ FrameLoopFree
  /\ Staged(mem)
  /\ messages < MaxMessages
  /\ messages' = messages + 1
  /\ queue' = queue \o SetToSeq({[bot |-> b, by |-> 0] : b \in Participants(mem)})
  /\ UNCHANGED <<mem, row, run, recovered, step, writers, cards, sessions, serving, clock,
                 history>>

-----------------------------------------------------------------------------
(* Aborts, releases, crashes and recoveries.                               *)

\* abort_group: what the run was committing may reach the database still, and
\* that its session has failed may not.
Cancel ==
  LET s == step["run"]
      writing == s # None /\ s.write # "none"
  IN /\ queue' = <<>> /\ run' = None
     /\ sessions' \in {sessions, sessions \ {run}}
     /\ step' = [step EXCEPT !["run"] = None]
     /\ writers' = Unqueued("run")
     /\ \/ row' = row /\ durable' = durable /\ adrift' = (adrift \/ writing)
        \/ writing /\ writers # <<>> /\ Head(writers) = "run" /\ Committed(s)

\* ABORT, or a message outside a workflow, which replaces the runs under way.
Abort ==
  /\ "abort" \in Faults
  /\ FrameLoopFree
  /\ run # None \/ queue # <<>>
  /\ Cancel
  /\ UNCHANGED <<mem, recovered, cards, serving, messages, clock, left>>

\* _do_evict on RELEASE_LEASE: the save comes first, but goes to the central
\* database; nothing clears the memory.
Release ==
  /\ "release" \in Faults
  /\ FrameLoopFree /\ recovered = {} /\ step["recovery"] = None
  /\ Cancel
  /\ serving' = FALSE
  /\ left' = mem
  /\ UNCHANGED <<mem, recovered, cards, messages, clock>>

Crash ==
  /\ "crash" \in Faults
  /\ mem' = None /\ queue' = <<>> /\ run' = None /\ recovered' = {}
  /\ step' = [t \in Tasks |-> None] /\ writers' = <<>>
  /\ serving' = FALSE
  /\ left' = None
  /\ UNCHANGED <<row, cards, sessions, messages, clock, durable, adrift>>

\* resume_workflows, then recover_all: the sessions that were running go on if
\* their bots take part in the stage, unless they were cut off in a tool call that
\* must not be repeated, or before they were recorded.
Hydrate ==
  /\ ~serving
  /\ serving' = TRUE
  /\ mem' = IF row = None THEN mem ELSE row
  /\ adrift' = (row = None /\ mem # None)
  /\ recovered' \in SUBSET {u \in sessions : Staged(mem') /\ u.bot \in Participants(mem')}
  /\ sessions' = {}
  /\ left' = None
  /\ UNCHANGED <<row, queue, run, step, writers, cards, messages, clock, durable>>

\* persist_session_start: the session is 'running' again, for the next recovery.
Resumed(u) ==
  /\ u \in recovered \ sessions
  /\ sessions' = sessions \cup {u}
  /\ UNCHANGED <<mem, row, tasks, cards, serving, messages, clock, history>>

\* _dispatch_recovery: what the run says is observed outside group_run_lock,
\* as text; its signals are dropped.
ObserveRecovered(u) ==
  /\ u \in recovered /\ step["recovery"] = None
  /\ Staged(mem) /\ u.bot \in Participants(mem)
  /\ \E o \in ObservedText(mem, u.bot) : Apply("recovery", o)
  /\ recovered' = recovered \ {u} /\ sessions' = sessions \ {u}
  /\ UNCHANGED <<row, queue, run, cards, serving, messages, history>>

QuitRecovered(u) ==
  /\ u \in recovered
  /\ recovered' = recovered \ {u} /\ sessions' = sessions \ {u}
  /\ UNCHANGED <<mem, row, queue, run, step, writers, cards, serving, messages, clock,
                 history>>

-----------------------------------------------------------------------------
Frame ==
  \/ Start \/ NextStage \/ End \/ Message
  \/ \E revise \in BOOLEAN : Confirm(revise)

RunUnit == Begin \/ Observe \/ Pause \/ Quit

Next ==
  \/ Frame
  \/ RunUnit \/ Fail
  \/ \E u \in recovered : Resumed(u) \/ ObserveRecovered(u) \/ QuitRecovered(u)
  \/ Commit
  \/ \E t \in Tasks : Deliver(t)
  \/ Abort \/ Release \/ Crash \/ Hydrate

Spec == Init /\ [][Next]_vars

\* The event loop goes on, executors return, the database answers.  Nobody has
\* to send a frame, no run has to raise, and a group that was given up may stay
\* unserved.
Fairness ==
  /\ WF_vars(RunUnit)
  /\ WF_vars(\E u \in recovered : ObserveRecovered(u) \/ QuitRecovered(u))
  /\ WF_vars(Commit)
  /\ \A t \in Tasks : WF_vars(Deliver(t))

FairSpec == Spec /\ Fairness

-----------------------------------------------------------------------------
(* Properties                                                              *)

\* What others can see of a transition, its units and its card, the database
\* has seen before: a restart never finds the workflow behind a card.
EffectsAreDurable ==
  /\ \A i \in DOMAIN queue : queue[i].by <= durable
  /\ run # None => run.by <= durable
  /\ \A c \in cards : c.by <= durable

\* The row is what the memory is whenever no write waits, although three tasks
\* write the same live dict: only a run that was cancelled while it committed,
\* or that raised, sets them apart, until the last write that waits.
RowFollowsMemory == serving /\ writers = <<>> /\ ~adrift => row = mem

\* No bot alone takes the workflow past a gate: not with the signal of a run
\* for an earlier stage, not in a run that was recovered, not by a restart.
GatesNeedHumans ==
  \A f \in {mem, row} \ {None} : \A s \in Gated : s < f.current => s \in f.approved

Busy == queue # <<>> \/ run # None \/ \E t \in Tasks : step[t] # None

\* Every unit gets its turn and every task its write: the lock of the group and
\* the lock of its database are always passed on.
WorkDrains == Busy ~> ~Busy

\* A worker that takes the group over goes on from where the last one was.
TakeoverIsCurrent == [][~serving /\ serving' /\ left # None => mem' = left]_vars
=============================================================================
