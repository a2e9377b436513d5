------------------------------ MODULE Handoff -------------------------------
(***************************************************************************)
(* How backend/runtime/supervisor.py moves one group between workers:      *)
(* reassign_group(), the routing cache, the RELEASE_LEASE / LEASE_RELEASED *)
(* handshake, and what disconnects do to them.                             *)
(*                                                                         *)
(* The Supervisor is one event loop: a step is what one coroutine does     *)
(* between two suspensions.  Workers are as far away as their sockets.     *)
(* Each element of Calls is one call of reassign_group(), each element of  *)
(* Senders one call of send_to_worker().                                   *)
(***************************************************************************)
EXTENDS Integers, Sequences, FiniteSets

CONSTANTS
  Workers, Calls, Senders,
  DefaultWorker,  \* _default_worker_for(group_id)
  MaxLinks,       \* bound: connections per worker
  Faults,         \* what may go wrong: a subset of AllFaults
  None

AllFaults == {"db",       \* UPDATE groups raises
              "send",     \* a send to a worker times out or fails
              "crash"}    \* a worker dies

ASSUME CallsAssumption == IsFiniteSet(Calls)
ASSUME DefaultWorkerAssumption == DefaultWorker \in Workers
ASSUME FaultsAssumption == Faults \subseteq AllFaults
ASSUME MaxLinksAssumption == MaxLinks \in Nat \ {0}
ASSUME NoneAssumption == None \notin Workers \cup Calls \cup Senders
ASSUME DisjointAssumption == Calls \cap Senders = {}

VARIABLES
  assigned,  \* groups.assigned_worker_id, in the central database
  route,     \* _routing_cache: the worker cached for the group
  version,   \* _reassign_versions, 0 when there is no entry
  registry,  \* _reassign_locks: the lock object, named by the call that made it
  users,     \* _reassign_lock_users, 0 when there is no entry
  pending,   \* _pending_handoffs: the call whose (old_wid, fut) is the entry
  handoffs,  \* _active_handoffs: versions
  cleanups,  \* _clear_reassign_version_later tasks that have not run
  link,      \* _workers: the connection to each worker, 0 when there is none
  held,      \* held[l]: the call inside `async with` of lock object l
  call,      \* local state of the calls
  sender,    \* local state of the senders
  worker,    \* state of the worker processes
  owner,     \* the worker that holds group.lock
  astray,    \* history: it took the lock when the group was assigned elsewhere
  order      \* history: the calls in the order they got their versions

maps == <<route, version, registry, users, pending, handoffs, cleanups, link>>
procs == <<worker, owner, astray>>
vars == <<assigned, maps, held, call, sender, procs, order>>

CallStates == {"idle", "locking", "writing", "written", "sending", "closing",
               "waiting", "done"}
Futures == {"none", "unset", "released", "gone", "cancelled", "expired"}
SenderStates == {"idle", "reading", "read", "sending", "closing", "done"}
Versions == 0..Cardinality(Calls)

CallRecord ==
  [at : CallStates, new : Workers \cup {None}, old : Workers \cup {None},
   ver : Versions, fut : Futures, lock : Calls \cup {None}, via : 0..MaxLinks]
SenderRecord ==
  [at : SenderStates, to : Workers \cup {None}, via : 0..MaxLinks, again : BOOLEAN]
\* inbox holds the calls whose RELEASE_LEASE, and the senders whose frame, the
\* worker has still to read; acks the LEASE_RELEASED frames on their way back.
\* boot: the query for assigned groups is due, or has listed this one, or neither.
WorkerRecord ==
  [up : BOOLEAN, boot : {"due", "listed", "no"}, links : 0..MaxLinks,
   inbox : Seq(Calls \cup Senders), acks : Seq(Calls)]

TypeOK ==
  /\ assigned \in Workers \cup {None}
  /\ route \in Workers \cup {None}
  /\ version \in Versions
  /\ registry \in Calls \cup {None}
  /\ users \in Versions
  /\ pending \in Calls \cup {None}
  /\ handoffs \subseteq Versions
  /\ cleanups \in Versions
  /\ link \in [Workers -> 0..MaxLinks]
  /\ held \in [Calls -> Calls \cup {None}]
  /\ call \in [Calls -> CallRecord]
  /\ sender \in [Senders -> SenderRecord]
  /\ worker \in [Workers -> WorkerRecord]
  /\ owner \in Workers \cup {None}
  /\ astray \in BOOLEAN
  /\ order \in Seq(Calls)

\* The worker that a group with assignment a belongs to.
WorkerFor(a) == IF a = None THEN DefaultWorker ELSE a

\* A Supervisor that has routed the group before, or not.
Init ==
  /\ assigned \in Workers \cup {None}
  /\ route \in {None, WorkerFor(assigned)}
  /\ version = 0 /\ registry = None /\ users = 0
  /\ pending = None /\ handoffs = {} /\ cleanups = 0
  /\ link = [w \in Workers |-> 1]
  /\ held = [l \in Calls |-> None]
  /\ call = [c \in Calls |->
       [at |-> "idle", new |-> None, old |-> None, ver |-> 0, fut |-> "none",
        lock |-> None, via |-> 0]]
  /\ sender = [s \in Senders |->
       [at |-> "idle", to |-> None, via |-> 0, again |-> FALSE]]
  /\ worker = [w \in Workers |->
       [up |-> TRUE, boot |-> "due", links |-> 1, inbox |-> <<>>, acks |-> <<>>]]
  /\ owner = None
  /\ astray = FALSE
  /\ order = <<>>

-----------------------------------------------------------------------------
(* Pieces shared by the handlers.                                          *)

At(c) == call[c].at

\* The calls cs with the future of c, if it is still unset, resolved to f.
Resolve(cs, c, f) == [cs EXCEPT ![c].fut = IF @ = "unset" THEN f ELSE @]

\* Mutant: the finally clause forgets to count down.
LeaveLockUncounted(c) ==
  users' = users /\ held' = [held EXCEPT ![call[c].lock] = None]
\* Mutant: the except clause counts down, and then the finally clause does.
LeaveLockTwice(c) ==
  users' = users - 2 /\ held' = [held EXCEPT ![call[c].lock] = None]

\* The finally clause after the section, and its last lines: the lock object is
\* forgotten with the last coroutine that uses it.
LeaveLock(c) ==
  users' = users - 1 /\ held' = [held EXCEPT ![call[c].lock] = None]
ForgetLock ==
  registry' = IF users' = 0 /\ version' = 0 /\ pending = None THEN None ELSE registry

\* _finish_reassign_version(v), after pending has become p.
FinishVersion(v, p) ==
  IF version = v /\ p = None
    THEN version' = 0 /\ registry' = (IF users' = 0 THEN None ELSE registry)
    ELSE UNCHANGED <<version, registry>>

\* _drop_worker_state(w, writer) for connection n: nothing when the worker has
\* another connection by now.
Drop(w, n) ==
  IF link[w] # n THEN UNCHANGED <<route, version, registry, pending, cleanups, link>>
  ELSE LET resolved == pending # None /\ call[pending].old = w
           stale    == route = w /\ pending = None
       IN /\ link' = [link EXCEPT ![w] = 0]
          /\ route' = IF route = w THEN None ELSE route
          /\ pending' = IF resolved THEN None ELSE pending
          /\ cleanups' = IF resolved THEN cleanups + 1 ELSE cleanups
          /\ version' = IF stale THEN 0 ELSE version
          /\ registry' = IF stale /\ users = 0 THEN None ELSE registry

\* The future Drop(w, n) resolves to False, if any.
DropCall(w, n) ==
  IF link[w] = n /\ pending # None /\ call[pending].old = w
    THEN Resolve(call, pending, "gone") ELSE call

\* A frame written on connection n of w: lost when the connection has gone.
Write(w, n, m) ==
  worker' = IF link[w] = n /\ worker[w].up
              THEN [worker EXCEPT ![w].inbox = Append(@, m)] ELSE worker

-----------------------------------------------------------------------------
(* reassign_group(new_worker_id)                                           *)

\* Mutant: the entry of the superseded handoff is popped, its future left unset.
SupersedeSilently(cs) == cs

\* The handoff in progress, if any, is cancelled.
Supersede(cs) == IF pending = None THEN cs ELSE Resolve(cs, pending, "cancelled")

\* The section under the lock, up to the database.
BeginSection(c, cs) ==
  /\ version' = version + 1
  /\ order' = Append(order, c)
  /\ pending' = None
  /\ held' = [held EXCEPT ![cs[c].lock] = c]
  /\ call' = [Supersede(cs) EXCEPT ![c].at = "writing", ![c].ver = version + 1]

\* Nobody holds lock object l or waits for it.
Uncontended(l) ==
  held[l] = None /\ \A d \in Calls : ~(At(d) = "locking" /\ call[d].lock = l)

\* Mutant: a lock object of its own for every call, whatever the registry holds.
LockObjectFresh(c) == c

\* _get_reassign_lock: the object of the group, made when there is none.
LockObject(c) == IF registry = None THEN c ELSE registry

Enter(c, w) ==
  LET l  == LockObject(c)
      cs == [call EXCEPT ![c].new = w, ![c].lock = l]
  IN /\ At(c) = "idle"
     /\ users' = users + 1
     /\ registry' = l
     /\ IF Uncontended(l) THEN BeginSection(c, cs)
        ELSE /\ call' = [cs EXCEPT ![c].at = "locking"]
             /\ UNCHANGED <<version, pending, held, order>>
     /\ UNCHANGED <<assigned, route, handoffs, cleanups, link, sender, procs>>

Acquire(c) ==
  /\ At(c) = "locking"
  /\ held[call[c].lock] = None
  /\ BeginSection(c, call)
  /\ UNCHANGED <<assigned, route, registry, users, handoffs, cleanups, link, sender, procs>>

\* The UPDATE is committed; the coroutine has yet to hear of it.
WriteDb(c) ==
  /\ At(c) = "writing"
  /\ assigned' = call[c].new
  /\ call' = [call EXCEPT ![c].at = "written"]
  /\ UNCHANGED <<maps, held, sender, procs, order>>

\* The UPDATE raises, and so does reassign_group.
FailDb(c) ==
  /\ "db" \in Faults
  /\ At(c) = "writing"
  /\ LeaveLock(c)
  /\ version' = IF version = call[c].ver /\ pending = None THEN 0 ELSE version
  /\ ForgetLock
  /\ call' = [call EXCEPT ![c].at = "done"]
  /\ UNCHANGED <<assigned, route, pending, handoffs, cleanups, link, sender, procs, order>>

\* No worker to ask: nobody cached, the same worker, or its connection gone.
NobodyToAsk(c) ==
  route # None => route = call[c].new \/ link[route] = 0

Direct(c) ==
  /\ At(c) = "written"
  /\ NobodyToAsk(c)
  /\ LeaveLock(c)
  /\ IF version = call[c].ver
       THEN /\ route' = call[c].new
            /\ FinishVersion(call[c].ver, pending)
       ELSE UNCHANGED <<route, version>> /\ ForgetLock
  /\ call' = [call EXCEPT ![c].at = "done"]
  /\ UNCHANGED <<assigned, pending, handoffs, cleanups, link, sender, procs, order>>

\* Ask the old worker: the entry is in place before the frame is sent.
StartHandoff(c) ==
  /\ At(c) = "written"
  /\ ~NobodyToAsk(c)
  /\ LeaveLock(c)
  /\ version' = version
  /\ ForgetLock
  /\ pending' = c
  /\ handoffs' = handoffs \cup {call[c].ver}
  /\ call' = [call EXCEPT ![c].at = "sending", ![c].fut = "unset",
                          ![c].old = route, ![c].via = link[route]]
  /\ UNCHANGED <<assigned, route, cleanups, link, sender, procs, order>>

SendRelease(c) ==
  /\ At(c) = "sending"
  /\ Write(call[c].old, call[c].via, c)
  /\ call' = [call EXCEPT ![c].at = "waiting"]
  /\ UNCHANGED <<assigned, maps, held, sender, owner, astray, order>>

\* The send fails: the connection is dropped at once, then closed.
FailRelease(c) ==
  /\ "send" \in Faults
  /\ At(c) = "sending"
  /\ Drop(call[c].old, call[c].via)
  /\ call' = [DropCall(call[c].old, call[c].via) EXCEPT ![c].at = "closing"]
  /\ UNCHANGED <<assigned, users, handoffs, held, sender, procs, order>>

\* Mutant: the future is awaited without wait_for.
TimeoutNever(c) == FALSE /\ UNCHANGED vars

\* No answer within 10 seconds.
Timeout(c) ==
  /\ At(c) = "waiting"
  /\ call[c].fut = "unset"
  /\ call' = [call EXCEPT ![c].fut = "expired"]
  /\ UNCHANGED <<assigned, maps, held, sender, procs, order>>

\* Mutants: versions are not compared; a timeout leaves the route alone.
CurrentAnyVersion(c) == pending \in {None, c}
CurrentIfAnswered(c) ==
  version = call[c].ver /\ pending \in {None, c} /\ call[c].fut # "expired"

\* No later reassign_group has taken over.
Current(c) == version = call[c].ver /\ pending \in {None, c}

\* send_to_worker_id returned False, or the wait is over: the finally clause
\* routes the group to the new worker unless the call was superseded.
EndHandoff(c) ==
  /\ \/ At(c) = "closing"
     \/ At(c) = "waiting" /\ call[c].fut # "unset"
  /\ IF Current(c) /\ ~(At(c) = "waiting" /\ call[c].fut = "cancelled")
       THEN /\ pending' = None
            /\ route' = call[c].new
            /\ users' = users
            /\ FinishVersion(call[c].ver, None)
       ELSE UNCHANGED <<pending, route, version, registry, users>>
  /\ handoffs' = handoffs \ {call[c].ver}
  /\ call' = [call EXCEPT ![c].at = "done"]
  /\ UNCHANGED <<assigned, cleanups, link, held, sender, procs, order>>

\* _clear_reassign_version_later
Cleanup ==
  /\ cleanups > 0
  /\ cleanups' = cleanups - 1
  /\ IF users = 0 /\ handoffs = {} /\ route = None /\ pending = None
       THEN version' = 0 /\ registry' = None
       ELSE UNCHANGED <<version, registry>>
  /\ UNCHANGED <<assigned, route, users, pending, handoffs, link, held, call, sender,
                 procs, order>>

-----------------------------------------------------------------------------
(* send_to_worker(msg)                                                     *)

\* What s does with the worker w its route gave, r being the cached route: send,
\* or forget the route and look again, once, or raise.
Dispatch(s, w, r) ==
  \/ /\ link[w] # 0
     /\ sender' = [sender EXCEPT ![s].at = "sending", ![s].to = w, ![s].via = link[w]]
     /\ route' = r
  \/ /\ link[w] = 0 /\ ~sender[s].again
     /\ sender' = [sender EXCEPT ![s].at = "reading", ![s].again = TRUE]
     /\ route' = None
  \/ /\ link[w] = 0 /\ sender[s].again
     /\ sender' = [sender EXCEPT ![s].at = "done"]
     /\ route' = r

\* _default_route: the cached worker, or a query when there is none or it is
\* too old.  An entry may be too old at any time.
StartSend(s) ==
  /\ sender[s].at = "idle"
  /\ \/ route # None /\ Dispatch(s, route, route)
     \/ sender' = [sender EXCEPT ![s].at = "reading"] /\ route' = route
  /\ UNCHANGED <<assigned, version, registry, users, pending, handoffs, cleanups, link,
                 held, call, procs, order>>

\* The query reads the assignment; the coroutine has yet to get it.
ReadAssignment(s) ==
  /\ sender[s].at = "reading"
  /\ sender' = [sender EXCEPT ![s].at = "read",
                  ![s].to = WorkerFor(assigned)]
  /\ UNCHANGED <<assigned, maps, held, call, procs, order>>

\* It caches what it got.
CacheRoute(s) ==
  /\ sender[s].at = "read"
  /\ Dispatch(s, sender[s].to, sender[s].to)
  /\ UNCHANGED <<assigned, version, registry, users, pending, handoffs, cleanups, link,
                 held, call, procs, order>>

SendFrame(s) ==
  /\ sender[s].at = "sending"
  /\ Write(sender[s].to, sender[s].via, s)
  /\ sender' = [sender EXCEPT ![s].at = "done"]
  /\ UNCHANGED <<assigned, maps, held, call, owner, astray, order>>

FailFrame(s) ==
  /\ "send" \in Faults
  /\ sender[s].at = "sending"
  /\ Drop(sender[s].to, sender[s].via)
  /\ call' = DropCall(sender[s].to, sender[s].via)
  /\ sender' = [sender EXCEPT ![s].at = "closing"]
  /\ UNCHANGED <<assigned, users, handoffs, held, procs, order>>

\* The connection is closed: forget the route and raise.
EndSend(s) ==
  /\ sender[s].at = "closing"
  /\ route' = None
  /\ sender' = [sender EXCEPT ![s].at = "done"]
  /\ UNCHANGED <<assigned, version, registry, users, pending, handoffs, cleanups, link,
                 held, call, procs, order>>

-----------------------------------------------------------------------------
(* The workers and their connections.                                      *)

\* Mutant: an acknowledgement of any worker answers the handoff in progress.
DeliverAckOfAnyone(w) ==
  /\ worker[w].acks # <<>>
  /\ worker' = [worker EXCEPT ![w].acks = Tail(@)]
  /\ call' = IF pending # None THEN Resolve(call, pending, "released") ELSE call
  /\ UNCHANGED <<assigned, maps, held, sender, owner, astray, order>>

\* _on_upstream(LEASE_RELEASED): the frame names the worker, not the handoff.
DeliverAck(w) ==
  /\ worker[w].acks # <<>>
  /\ worker' = [worker EXCEPT ![w].acks = Tail(@)]
  /\ call' = IF pending # None /\ call[pending].old = w
               THEN Resolve(call, pending, "released") ELSE call
  /\ UNCHANGED <<assigned, maps, held, sender, owner, astray, order>>

\* group.lock is taken by w when it is free, and left.
TakeLock(w) ==
  /\ owner' = w
  /\ astray' = IF owner = None THEN WorkerFor(assigned) # w ELSE astray
LeaveLockFile(w) ==
  IF owner = w THEN owner' = None /\ astray' = FALSE ELSE UNCHANGED <<owner, astray>>

\* _hydrate_assigned_groups, a task beside the loop that reads frames: the query
\* for the groups assigned to w ...
ListGroups(w) ==
  /\ worker[w].up /\ worker[w].boot = "due"
  /\ worker' = [worker EXCEPT ![w].boot = IF assigned = w THEN "listed" ELSE "no"]
  /\ UNCHANGED <<assigned, maps, held, call, sender, owner, astray, order>>

\* ... and, when it gets to this one, hydrate: a lock that is another worker's
\* is logged.
HydrateListed(w) ==
  /\ worker[w].up /\ worker[w].boot = "listed"
  /\ worker' = [worker EXCEPT ![w].boot = "no"]
  /\ IF owner \in {None, w} THEN TakeLock(w) ELSE UNCHANGED <<owner, astray>>
  /\ UNCHANGED <<assigned, maps, held, call, sender, order>>

Boot(w) == ListGroups(w) \/ HydrateListed(w)

\* RELEASE_LEASE: evict, then acknowledge.
HandleRelease(w) ==
  /\ worker[w].up
  /\ worker[w].inbox # <<>> /\ Head(worker[w].inbox) \in Calls
  /\ LeaveLockFile(w)
  /\ worker' = [worker EXCEPT ![w].inbox = Tail(@),
                              ![w].acks = Append(@, Head(worker[w].inbox))]
  /\ UNCHANGED <<assigned, maps, held, call, sender, order>>

\* Any other frame: hydrate the group if it is not active.
HandleFrame(w) ==
  /\ worker[w].up
  /\ worker[w].inbox # <<>> /\ Head(worker[w].inbox) \in Senders
  /\ owner \in {None, w}
  /\ TakeLock(w)
  /\ worker' = [worker EXCEPT ![w].inbox = Tail(@)]
  /\ UNCHANGED <<assigned, maps, held, call, sender, order>>

\* The process is gone, its socket not yet closed at this end.
Dead(w) == [worker EXCEPT ![w].up = FALSE, ![w].boot = "no", ![w].inbox = <<>>]

\* The lock is another worker's: hydrate raises out of Worker.run.
RefuseFrame(w) ==
  /\ worker[w].up
  /\ worker[w].inbox # <<>> /\ Head(worker[w].inbox) \in Senders
  /\ owner \notin {None, w}
  /\ worker' = Dead(w)
  /\ UNCHANGED <<assigned, maps, held, call, sender, owner, astray, order>>

Crash(w) ==
  /\ "crash" \in Faults
  /\ worker[w].up
  /\ worker' = Dead(w)
  /\ LeaveLockFile(w)
  /\ UNCHANGED <<assigned, maps, held, call, sender, order>>

\* End of file, after the frames that precede it: _on_worker_conn's finally.
Disconnect(w) ==
  /\ ~worker[w].up
  /\ link[w] # 0
  /\ worker[w].acks = <<>>
  /\ Drop(w, link[w])
  /\ call' = DropCall(w, link[w])
  /\ UNCHANGED <<assigned, users, handoffs, held, sender, procs, order>>

\* The worker is back.  A connection it had is replaced, its state kept; what
\* was still in its buffer may be read or not.
Connect(w) ==
  /\ ~worker[w].up
  /\ worker[w].links < MaxLinks
  /\ link' = [link EXCEPT ![w] = worker[w].links + 1]
  /\ \E a \in {worker[w].acks, <<>>} :
       worker' = [worker EXCEPT ![w] = [up |-> TRUE, boot |-> "due",
                    links |-> @.links + 1, inbox |-> <<>>, acks |-> a]]
  /\ UNCHANGED <<assigned, route, version, registry, users, pending, handoffs, cleanups,
                 held, call, sender, owner, astray, order>>

-----------------------------------------------------------------------------
\* What the event loop, its timers and the sockets bring about by themselves.
AdvanceCall(c) ==
  \/ Acquire(c) \/ WriteDb(c) \/ Direct(c) \/ StartHandoff(c)
  \/ SendRelease(c) \/ Timeout(c) \/ EndHandoff(c)

FaultyCall(c) == FailDb(c) \/ FailRelease(c)

AdvanceSender(s) ==
  \/ ReadAssignment(s) \/ CacheRoute(s) \/ SendFrame(s) \/ FailFrame(s) \/ EndSend(s)

AdvanceWorker(w) ==
  DeliverAck(w) \/ HandleRelease(w) \/ HandleFrame(w) \/ RefuseFrame(w) \/ Disconnect(w)

\* Every call and every frame has run its course.
Finished ==
  /\ \A c \in Calls : At(c) = "done"
  /\ \A s \in Senders : sender[s].at = "done"
  /\ UNCHANGED vars

Next ==
  \/ \E c \in Calls : AdvanceCall(c) \/ FaultyCall(c) \/ \E w \in Workers : Enter(c, w)
  \/ Cleanup
  \/ \E s \in Senders : StartSend(s) \/ AdvanceSender(s)
  \/ \E w \in Workers : AdvanceWorker(w) \/ Boot(w) \/ Crash(w) \/ Connect(w)
  \/ Finished

Spec == Init /\ [][Next]_vars

\* The database and the sockets answer; wait_for ends every wait.  Nobody has
\* to call reassign_group, and workers need not answer or come back.
Fairness == \A c \in Calls : WF_vars(AdvanceCall(c))

FairSpec == Spec /\ Fairness

-----------------------------------------------------------------------------
(* Properties                                                              *)

Quiet ==
  /\ \A c \in Calls : At(c) \in {"idle", "done"}
  /\ \A s \in Senders : sender[s].at \in {"idle", "done"}
  /\ cleanups = 0

\* The reference-counted lock objects serialize the database updates, although
\* the registry forgets them at four places.
OneWriter ==
  \A c, d \in Calls : At(c) \in {"writing", "written"} /\ At(d) \in {"writing", "written"}
                        => c = d

\* A handoff that waits is the one an acknowledgement, a disconnect or the next
\* reassign will reach.
WaitIsReachable ==
  \A c \in Calls : At(c) = "waiting" /\ call[c].fut = "unset" => pending = c

\* Handoff state converges back to empty after every outcome.
CleanWhenQuiet ==
  Quiet => /\ version = 0 /\ registry = None /\ users = 0
           /\ pending = None /\ handoffs = {}

\* When everything has settled, the cached route, if any, is the assignment.
RouteFollowsAssignment == Quiet => route \in {None, WorkerFor(assigned)}

\* Whatever its outcome, a reassign leaves the route it was asked for and nothing
\* else behind.
HandoffSettles == RouteFollowsAssignment /\ CleanWhenQuiet

\* A call that was superseded by a later one never routes the group.
Routes(c) == At(c) # "done" /\ call'[c].at = "done" /\ route' = call[c].new /\ route # route'
StaleNeverRoutes == [][\A c \in Calls : Routes(c) => order[Len(order)] = c]_vars

\* The group is routed to its new worker after LEASE_RELEASED only when the old
\* worker does not hold the group.
AckMeansReleased ==
  [][\A c \in Calls : (Routes(c) /\ call[c].fut = "released") => owner # call[c].old]_vars

\* It does so at most when it let go, and took the group again later although it
\* had been assigned to another worker by then: for its startup, which had listed
\* the group before, or for a frame routed to it before.  So it is with two calls,
\* unless there are both a routed frame and a reconnection: the version popped by a
\* disconnect lets the first call route after the second has given the group back.
AckMeansLetGo ==
  [][\A c \in Calls :
       (Routes(c) /\ call[c].fut = "released") => owner # call[c].old \/ astray]_vars

\* Every reassign_group returns.
HandoffsReturn == \A c \in Calls : At(c) # "idle" ~> At(c) = "done"
=============================================================================
