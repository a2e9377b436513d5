----------------------------- MODULE Lifecycle ------------------------------
(***************************************************************************)
(* LifecycleManager of backend/runtime/lifecycle.py: one worker process    *)
(* that hydrates, uses and evicts groups, and the coroutines inside it.    *)
(*                                                                         *)
(* A step is what one coroutine does between two suspensions.  No body of  *)
(* an `async with self._lock` suspends, so each such section, with the     *)
(* code that follows it up to the next await, is one step.                 *)
(***************************************************************************)
EXTENDS Integers, FiniteSets

CONSTANTS
  Groups,
  Callers,     \* coroutines that call hydrate()
  FrameLoops,  \* those of them that process frames: they also call evict(),
               \* and run handlers.  A worker has one, and one other caller,
               \* the startup hydration; the manager assumes neither.
  Sweeper,     \* the background task that runs sweep_inactive_groups()
  MaxGroups,   \* max_groups
  None

Threads == Callers \cup {Sweeper}

ASSUME SweeperAssumption == Sweeper \notin Callers
ASSUME FrameLoopsAssumption == FrameLoops \subseteq Callers
ASSUME NoneAssumption == None \notin Threads \cup Groups
ASSUME MaxGroupsAssumption == MaxGroups \in Nat

VARIABLES
  active,      \* keys of _active_groups
  older,       \* its order: <<g, h>> when g was touched before h
  hydrating,   \* hydrating[g]: the coroutine that owns _hydrating[g]
  evicting,    \* evicting[g]: the coroutine that owns _evicting[g]
  registered,  \* keys of _locks
  lock,        \* group.lock of g: free, held by this process, by another one
  tasks,       \* background tasks registered for g in core/bg.py
  stale,       \* active groups whose timestamp is older than the timeout
  cand,        \* what is left of the sweep's list of candidates
  touched,     \* candidates whose timestamp has changed since they were listed
  pc, op, target,
  freed,       \* history: evict() calls during which this process was seen
               \* without the lock of the group they are to release
  misled       \* history: evict() calls during which their group was orphaned

phases == <<active, older, hydrating, evicting>>
leases == <<registered, lock>>
sweep  == <<stale, cand, touched>>
vars   == <<phases, leases, tasks, sweep, pc, op, target, freed, misled>>

PCs == {"idle", "body", "failed", "ended",
        "hWaitEvict", "hRetry", "hFollow", "hInit", "hReady",
        "eWaitHydrate", "eWoken", "eWaitEvict", "eReturn",
        "saving", "closing", "sweeping"}

TypeOK ==
  /\ active \subseteq Groups
  /\ older \subseteq Groups \X Groups
  /\ hydrating \in [Groups -> Threads \cup {None}]
  /\ evicting \in [Groups -> Threads \cup {None}]
  /\ registered \subseteq Groups
  /\ lock \in [Groups -> {"free", "mine", "other"}]
  /\ tasks \in [Groups -> {"none", "running", "cancelled"}]
  /\ stale \subseteq Groups
  /\ cand \subseteq Groups
  /\ touched \subseteq Groups
  /\ pc \in [Threads -> PCs]
  /\ op \in [Threads -> {"none", "hydrate", "evict", "sweep"}]
  /\ target \in [Threads -> Groups \cup {None}]
  /\ freed \subseteq Threads
  /\ misled \subseteq Threads

Init ==
  /\ active = {}
  /\ older = {}
  /\ hydrating = [g \in Groups |-> None]
  /\ evicting = [g \in Groups |-> None]
  /\ registered = {}
  /\ lock \in [Groups -> {"free", "other"}]
  /\ tasks = [g \in Groups |-> "none"]
  /\ stale = {}
  /\ cand = {}
  /\ touched = {}
  /\ pc = [c \in Threads |-> "idle"]
  /\ op = [c \in Threads |-> "none"]
  /\ target = [c \in Threads |-> None]
  /\ freed = {}
  /\ misled = {}

-----------------------------------------------------------------------------
(* Pieces shared by the handlers.                                          *)

Goto(c, l) == pc' = [pc EXCEPT ![c] = l]

\* _active_groups without g.
Forget(g) == {e \in older : e[1] # g /\ e[2] # g}

\* _active_groups[g] = time.time(), with g moved to the end.
TouchedLast(g) == Forget(g) \cup ((active \ {g}) \X {g})

\* The timestamp of g is now.
Fresh(g) == /\ stale' = stale \ {g}
            /\ touched' = touched \cup ({g} \cap cand)
            /\ cand' = cand

\* _group_has_active_tasks: a cancelled task that has not finished counts.
Busy(g) == tasks[g] # "none"

\* _pick_lru_evictable_group: the least recently touched group without tasks.
LruIdle(g) ==
  /\ g \in active /\ ~Busy(g)
  /\ \A h \in active : <<h, g>> \in older => Busy(h)

\* The future in _hydrating[g] is resolved: where its waiters go on.
HydrationWakes(g, followers, evicters) ==
  [d \in Threads |->
     IF target[d] = g /\ pc[d] = "hFollow" THEN followers
     ELSE IF target[d] = g /\ pc[d] = "eWaitHydrate" THEN evicters
     ELSE pc[d]]

\* Mutant: the future of an eviction is popped and never resolved.
EvictionWakesNobody(g, hydraters, evicters) == pc

\* The future in _evicting[g] is resolved.
EvictionWakes(g, hydraters, evicters) ==
  [d \in Threads |->
     IF target[d] = g /\ pc[d] = "hWaitEvict" THEN hydraters
     ELSE IF target[d] = g /\ pc[d] = "eWaitEvict" THEN evicters
     ELSE pc[d]]

\* asyncio runs woken coroutines in order: none of those woken by g's futures
\* is still waiting for its turn when a database call started later completes.
\* (Eviction may meet no such call: without state to save or a writer to close
\* it does not suspend.)
ReadyQueueDrained(g) ==
  \A d \in Threads : target[d] = g => pc[d] \notin {"hRetry", "eWoken"}

\* Mutant: the group stays in _active_groups while it is evicted.
BeginEvictActive(c, g) ==
  /\ evicting' = [evicting EXCEPT ![g] = c]
  /\ active' = active /\ older' = older /\ stale' = stale
  /\ Goto(c, "saving")

\* _evict_once by c, for a group it has just removed from _active_groups, up
\* to the await of save_state.
BeginEvict(c, g) ==
  /\ evicting' = [evicting EXCEPT ![g] = c]
  /\ active' = active \ {g}
  /\ older' = Forget(g)
  /\ stale' = stale \ {g}
  /\ Goto(c, "saving")

-----------------------------------------------------------------------------
(* hydrate(g)                                                              *)

\* The group is active: touch it and return.
UseActive(c, g) ==
  /\ g \in active
  /\ older' = TouchedLast(g)
  /\ Fresh(g)
  /\ Goto(c, "body")
  /\ UNCHANGED <<active, hydrating, evicting, leases>>

AwaitEviction(c, g) ==
  /\ g \notin active
  /\ evicting[g] # None
  /\ Goto(c, "hWaitEvict")
  /\ UNCHANGED <<phases, leases, sweep>>

Follow(c, g) ==
  /\ g \notin active
  /\ evicting[g] = None
  /\ hydrating[g] # None
  /\ Goto(c, "hFollow")
  /\ UNCHANGED <<phases, leases, sweep>>

\* Mutant: the result of GroupLock.acquire is not looked at.
LeadRegardless(c, g) ==
  /\ g \notin active /\ evicting[g] = None /\ hydrating[g] = None
  /\ lock' = IF lock[g] = "free" THEN [lock EXCEPT ![g] = "mine"] ELSE lock
  /\ hydrating' = [hydrating EXCEPT ![g] = c]
  /\ Goto(c, "hInit")
  /\ UNCHANGED <<active, older, evicting, registered, sweep>>

\* GroupLock.acquire succeeds.
Lead(c, g) ==
  /\ g \notin active
  /\ evicting[g] = None
  /\ hydrating[g] = None
  /\ lock[g] = "free"
  /\ lock' = [lock EXCEPT ![g] = "mine"]
  /\ hydrating' = [hydrating EXCEPT ![g] = c]
  /\ Goto(c, "hInit")
  /\ UNCHANGED <<active, older, evicting, registered, sweep>>

\* GroupLock.acquire fails: hydrate() raises.
Refused(c, g) ==
  /\ g \notin active
  /\ evicting[g] = None
  /\ hydrating[g] = None
  /\ lock[g] # "free"
  /\ Goto(c, "failed")
  /\ UNCHANGED <<phases, leases, sweep>>

\* The loop body of hydrate(), from its first line or after an eviction.
HydrateLoop(c, g) ==
  \/ UseActive(c, g) \/ AwaitEviction(c, g) \/ Follow(c, g)
  \/ Lead(c, g) \/ Refused(c, g)

StartHydrate(c, g) ==
  /\ pc[c] = "idle"
  /\ HydrateLoop(c, g)
  /\ op' = [op EXCEPT ![c] = "hydrate"]
  /\ target' = [target EXCEPT ![c] = g]
  /\ UNCHANGED tasks

RetryHydrate(c) ==
  /\ pc[c] = "hRetry"
  /\ HydrateLoop(c, target[c])
  /\ UNCHANGED <<tasks, op, target>>

\* Mutant: the error path without its finally clause.
HydrateFailKeepingLock(c, g) ==
  /\ pc[c] = "hInit" /\ target[c] = g
  /\ ReadyQueueDrained(g)
  /\ hydrating' = [hydrating EXCEPT ![g] = None]
  /\ pc' = [HydrationWakes(g, "failed", "eReturn") EXCEPT ![c] = "failed"]
  /\ UNCHANGED <<active, older, evicting, leases, tasks, sweep, op, target>>

\* init_group_db or run_migrations raises: followers get the exception and
\* the finally clause releases the lock.
HydrateFail(c, g) ==
  /\ pc[c] = "hInit" /\ target[c] = g
  /\ ReadyQueueDrained(g)
  /\ hydrating' = [hydrating EXCEPT ![g] = None]
  /\ lock' = [lock EXCEPT ![g] = "free"]
  /\ pc' = [HydrationWakes(g, "failed", "eReturn") EXCEPT ![c] = "failed"]
  /\ UNCHANGED <<active, older, evicting, registered, tasks, sweep, op, target>>

\* The database is ready; resume_workflows may spawn tasks of the group.
Resume(c, g) ==
  /\ pc[c] = "hInit" /\ target[c] = g
  /\ ReadyQueueDrained(g)
  /\ tasks' \in {tasks, [tasks EXCEPT ![g] = "running"]}
  /\ Goto(c, "hReady")
  /\ UNCHANGED <<phases, leases, sweep, op, target>>

\* Mutant: compared with > instead of >=.
AtCapacityOverfull == Cardinality(active) > MaxGroups

AtCapacity == Cardinality(active) >= MaxGroups

\* The last section of hydrate() when nothing has to go, or nothing can.
FinishHydrate(c, g) ==
  /\ pc[c] = "hReady" /\ target[c] = g
  /\ AtCapacity => \A h \in active : Busy(h)
  /\ registered' = registered \cup {g}
  /\ active' = active \cup {g}
  /\ older' = TouchedLast(g)
  /\ hydrating' = [hydrating EXCEPT ![g] = None]
  /\ Fresh(g)
  /\ pc' = [HydrationWakes(g, "body", "eWoken") EXCEPT ![c] = "body"]
  /\ UNCHANGED <<evicting, lock, tasks, op, target>>

\* The same at capacity: the LRU group leaves _active_groups in the section
\* that adds g, and c goes on to evict it.
FinishHydrateEvicting(c, g, h) ==
  /\ pc[c] = "hReady" /\ target[c] = g
  /\ AtCapacity
  /\ LruIdle(h)
  /\ registered' = registered \cup {g}
  /\ active' = (active \ {h}) \cup {g}
  /\ older' = {e \in TouchedLast(g) : e[1] # h /\ e[2] # h}
  /\ hydrating' = [hydrating EXCEPT ![g] = None]
  /\ evicting' = [evicting EXCEPT ![h] = c]
  /\ stale' = stale \ {g, h}
  /\ touched' = touched \cup ({g} \cap cand)
  /\ pc' = [HydrationWakes(g, "body", "eWoken") EXCEPT ![c] = "saving"]
  /\ UNCHANGED <<lock, tasks, cand, op, target>>

-----------------------------------------------------------------------------
(* evict(g)                                                                *)

EvictActive(c, g) ==
  /\ g \in active
  /\ BeginEvict(c, g)
  /\ UNCHANGED <<hydrating, leases, cand, touched>>

EvictOther(c, g, l) ==
  /\ g \notin active
  /\ Goto(c, l)
  /\ UNCHANGED <<phases, leases, sweep>>

StartEvict(c, g) ==
  /\ pc[c] = "idle"
  /\ \/ EvictActive(c, g)
     \/ hydrating[g] # None /\ EvictOther(c, g, "eWaitHydrate")
     \/ hydrating[g] = None /\ evicting[g] # None /\ EvictOther(c, g, "eWaitEvict")
     \/ hydrating[g] = None /\ evicting[g] = None /\ EvictOther(c, g, "eReturn")
  /\ op' = [op EXCEPT ![c] = "evict"]
  /\ target' = [target EXCEPT ![c] = g]
  /\ UNCHANGED tasks

\* Mutant: evict() waits for the hydration and then does not look again.
EvictAfterHydrateBlind(c) ==
  /\ pc[c] = "eWoken"
  /\ Goto(c, "eReturn")
  /\ UNCHANGED <<phases, leases, sweep, tasks, op, target>>

\* The hydration evict() was waiting for has succeeded.
EvictAfterHydrate(c) ==
  /\ pc[c] = "eWoken"
  /\ \/ EvictActive(c, target[c])
     \/ evicting[target[c]] # None /\ EvictOther(c, target[c], "eWaitEvict")
     \/ evicting[target[c]] = None /\ EvictOther(c, target[c], "eReturn")
  /\ UNCHANGED <<tasks, op, target>>

-----------------------------------------------------------------------------
(* _do_evict(g), run by the coroutine c that owns _evicting[g]             *)

\* The orchestrator state is saved, or there was none, or saving failed: abort
\* the tasks, drop the group's in-memory state, start closing the writer.
AbortTasks(c, g) ==
  /\ pc[c] = "saving"
  /\ evicting[g] = c
  /\ tasks' = [tasks EXCEPT ![g] = IF @ = "running" THEN "cancelled" ELSE @]
  /\ Goto(c, "closing")
  /\ UNCHANGED <<phases, leases, sweep, op, target>>

\* aclose_writer returned or raised: the lock, popped from _locks before the
\* await, is released either way, and the future is resolved.
ReleaseLease(c, g) ==
  /\ registered' = registered \ {g}
  /\ lock' = IF g \in registered THEN [lock EXCEPT ![g] = "free"] ELSE lock
  /\ evicting' = [evicting EXCEPT ![g] = None]
  /\ UNCHANGED <<active, older, tasks, stale, op, target>>

AfterEvict(c) ==
  CASE op[c] = "hydrate" -> "body"
    [] op[c] = "evict" -> "eReturn"
    [] OTHER -> "sweeping"

FinishEvict(c, g) ==
  /\ pc[c] = "closing"
  /\ evicting[g] = c
  /\ ReleaseLease(c, g)
  /\ pc' = [EvictionWakes(g, "hRetry", "eReturn") EXCEPT ![c] = AfterEvict(c)]
  /\ UNCHANGED <<hydrating, cand, touched>>

\* The error handler of the hydrate() that c runs pops _hydrating[target[c]],
\* which may by now be the future of a later hydration of that group.
PopsFuture(c) == op[c] = "hydrate" /\ hydrating[target[c]] # None

\* The exception reaches every waiter; a sweep gives up its other candidates.
FailEvict(c, g) ==
  /\ pc[c] = "closing"
  /\ evicting[g] = c
  /\ ReleaseLease(c, g)
  /\ hydrating' = IF PopsFuture(c) THEN [hydrating EXCEPT ![target[c]] = None]
                                   ELSE hydrating
  /\ pc' = [d \in Threads |->
       IF d = c THEN "failed"
       ELSE IF PopsFuture(c) /\ target[d] = target[c] /\ pc[d] \in {"hFollow", "eWaitHydrate"}
              THEN HydrationWakes(target[c], "failed", "eReturn")[d]
              ELSE EvictionWakes(g, "failed", "failed")[d]]
  /\ cand' = IF c = Sweeper THEN {} ELSE cand
  /\ touched' = IF c = Sweeper THEN {} ELSE touched

-----------------------------------------------------------------------------
(* sweep_inactive_groups()                                                 *)

StartSweep ==
  /\ pc[Sweeper] = "idle"
  /\ cand' = {g \in active \cap stale : ~Busy(g)}
  /\ touched' = {}
  /\ Goto(Sweeper, "sweeping")
  /\ op' = [op EXCEPT ![Sweeper] = "sweep"]
  /\ UNCHANGED <<phases, leases, tasks, stale, target>>

\* Mutants: the second check forgets the tasks, or the timestamp.
StillInactiveMaybeBusy(g) == g \in active /\ g \notin touched
StillInactiveMaybeUsed(g) == g \in active /\ ~Busy(g)

\* _evict_if_still_inactive: the timestamp is the one the list was made with
\* and there are still no tasks.
StillInactive(g) == g \in active /\ g \notin touched /\ ~Busy(g)

SweepOne(g) ==
  /\ pc[Sweeper] = "sweeping"
  /\ g \in cand
  /\ cand' = cand \ {g}
  /\ touched' = touched \ {g}
  /\ \/ /\ StillInactive(g)
        /\ BeginEvict(Sweeper, g)
        /\ UNCHANGED hydrating
     \/ /\ ~StillInactive(g)
        /\ UNCHANGED <<phases, stale, pc>>
  /\ UNCHANGED <<leases, tasks, op, target>>

EndSweep ==
  /\ pc[Sweeper] = "sweeping"
  /\ cand = {}
  /\ Goto(Sweeper, "idle")
  /\ op' = [op EXCEPT ![Sweeper] = "none"]
  /\ UNCHANGED <<phases, leases, tasks, sweep, target>>

-----------------------------------------------------------------------------
(* What happens around the manager.                                        *)

\* The body of `async with _group_context(g)` hands work to spawn_group.
SpawnTask(c) ==
  /\ pc[c] = "body"
  /\ tasks' = [tasks EXCEPT ![target[c]] = "running"]
  /\ UNCHANGED <<phases, leases, sweep, pc, op, target>>

\* The call is over, and with it the body that followed a hydrate().  The sweep
\* and the startup hydration log an exception and go on.
Leave(c) ==
  /\ \/ pc[c] \in {"body", "eReturn"}
     \/ pc[c] = "failed" /\ c \notin FrameLoops
  /\ Goto(c, "idle")
  /\ op' = [op EXCEPT ![c] = "none"]
  /\ target' = [target EXCEPT ![c] = None]
  /\ UNCHANGED <<phases, leases, tasks, sweep>>

\* An exception from hydrate(), from evict() or from the handler of a frame
\* leaves Worker.run: no frame is handled after it.
EndLoop(c) ==
  /\ c \in FrameLoops
  /\ pc[c] \in {"body", "failed"}
  /\ Goto(c, "ended")
  /\ op' = [op EXCEPT ![c] = "none"]
  /\ target' = [target EXCEPT ![c] = None]
  /\ UNCHANGED <<phases, leases, tasks, sweep>>

\* Mutant: a finished task stays registered.
EndTaskRegistered(g) ==
  /\ Busy(g)
  /\ tasks' = [tasks EXCEPT ![g] = "done"]
  /\ UNCHANGED <<phases, leases, sweep, pc, op, target>>

\* A task of g finishes, and with it the last of them.
EndTask(g) ==
  /\ Busy(g)
  /\ tasks' = [tasks EXCEPT ![g] = "none"]
  /\ UNCHANGED <<phases, leases, sweep, pc, op, target>>

\* GROUP_INACTIVITY_TIMEOUT passes.  A sweep under way compares with the time
\* at which it started, so what expires later does not count for it.
Expire(g) ==
  /\ g \in active \ stale
  /\ pc[Sweeper] = "idle"
  /\ stale' = stale \cup {g}
  /\ UNCHANGED <<phases, leases, tasks, cand, touched, pc, op, target>>

\* Another worker process takes or gives back the lock.
OtherProcess(g) ==
  /\ \/ lock[g] = "free" /\ lock' = [lock EXCEPT ![g] = "other"]
     \/ lock[g] = "other" /\ lock' = [lock EXCEPT ![g] = "free"]
  /\ UNCHANGED <<phases, registered, tasks, sweep, pc, op, target>>

-----------------------------------------------------------------------------
\* A step of the coroutine c itself: what the event loop owes it.
Advance(c) ==
  \/ RetryHydrate(c) \/ EvictAfterHydrate(c) \/ Leave(c) \/ EndLoop(c)
  \/ \E g \in Groups :
       \/ HydrateFail(c, g) \/ Resume(c, g) \/ FinishHydrate(c, g)
       \/ \E h \in Groups : FinishHydrateEvicting(c, g, h)
       \/ AbortTasks(c, g) \/ FinishEvict(c, g) \/ FailEvict(c, g)

AdvanceSweep == EndSweep \/ \E g \in Groups : SweepOne(g)

Step ==
  \/ \E c \in Threads : Advance(c)
  \/ \E c \in Callers, g \in Groups : StartHydrate(c, g)
  \/ \E c \in FrameLoops : SpawnTask(c) \/ \E g \in Groups : StartEvict(c, g)
  \/ StartSweep \/ AdvanceSweep
  \/ \E g \in Groups : EndTask(g) \/ Expire(g) \/ OtherProcess(g)

\* c is hydrating g.
Hydrates(c, g) == pc[c] \in {"hInit", "hReady"} /\ target[c] = g

\* A coroutine hydrates g and its future is no longer in _hydrating: the error
\* handler of an earlier hydrate() has popped it.
Orphaned(g) == \E c \in Threads : Hydrates(c, g) /\ hydrating[g] # c

\* The history variables look at every step.
Observe ==
  /\ freed' = {c \in Threads : /\ op'[c] = "evict"
                               /\ c \in freed \/ lock'[target'[c]] # "mine"}
  /\ misled' = {c \in Threads : /\ op'[c] = "evict"
                                /\ c \in misled \/ Orphaned(target[c])'}

Next == Step /\ Observe

Spec == Init /\ [][Next]_vars

\* The event loop runs every coroutine that is ready, and the I/O it awaits
\* completes.  Nobody has to call hydrate or evict, and tasks need not end.
Fairness ==
  /\ \A c \in Threads : WF_vars(Advance(c) /\ Observe)
  /\ WF_vars(AdvanceSweep /\ Observe)

FairSpec == Spec /\ Fairness

-----------------------------------------------------------------------------
(* Properties                                                              *)

\* hydrate() and evict() never overlap on a group: it is active, being
\* hydrated by one coroutine, being evicted, or none of these.
OnePhase ==
  \A g \in Groups :
    /\ g \in active => evicting[g] = None
    /\ \A c \in Threads : Hydrates(c, g) =>
         g \notin active /\ evicting[g] = None /\ \A d \in Threads : Hydrates(d, g) => d = c

\* A group is served only under its file lock, which this manager will find
\* in _locks when it evicts the group.
ActiveIsLeased == \A g \in active : lock[g] = "mine" /\ g \in registered

\* Every exit of hydrate and evict gives the lock back: the process holds it
\* only while the group is active or on its way in or out.
NoLeakedLease ==
  \A g \in Groups :
    lock[g] = "mine" =>
      g \in active \/ evicting[g] # None \/ \E c \in Threads : Hydrates(c, g)

\* group.lock is held as long as the group is in use and no longer.
LeaseFollowsUse == ActiveIsLeased /\ NoLeakedLease

\* When evict() returns normally, so that the worker answers RELEASE_LEASE
\* with LEASE_RELEASED, the group has been released during the call, whatever
\* hydrations and evictions of it were under way.  It takes three coroutines
\* that call hydrate() to break this; a worker has two.
LeaseReleased == \A c \in Threads : pc[c] = "eReturn" => c \in freed

\* The same with any number of callers, for a call during which no hydration
\* of the group had lost its future.
EvictReleases ==
  \A c \in Threads : pc[c] = "eReturn" => c \in freed \/ c \in misled

\* max_groups is exceeded only when every group in the way has tasks.
OverCapacityOnlyWhenBusy ==
  [][(Cardinality(active') > Cardinality(active) /\ Cardinality(active') > MaxGroups)
        => \A g \in active : Busy(g)]_vars

\* Eviction for capacity or inactivity never starts on a group with tasks,
\* however long ago the group was listed as a candidate.
IdleEvictionsOnly ==
  [][\A g \in Groups :
        (evicting[g] = None /\ evicting'[g] # None /\ op'[evicting'[g]] # "evict")
           => ~Busy(g)]_vars

\* A group that was used after the sweep listed it survives that sweep.
SweepSparesUsedGroups ==
  [][\A g \in Groups :
        (evicting[g] # Sweeper /\ evicting'[g] = Sweeper) => g \in stale]_vars

\* Every call of hydrate and evict comes back: no wake-up is lost and no two
\* calls wait for each other.
CallsReturn == \A c \in Threads : pc[c] # "idle" ~> pc[c] \in {"idle", "ended"}

\* Tasks of a group run only in a process that holds its lock.
TasksUnderLease == \A g \in Groups : Busy(g) => lock[g] = "mine"
=============================================================================
