---------------------------- MODULE PipelineJobs ----------------------------
(***************************************************************************)
(* The durable learning jobs of a group: the table pipeline_jobs           *)
(* (memory/infrastructure/pipeline_jobs.py) and the dispatchers that       *)
(* consume it (memory/application/pipeline.py).  Several workers may have  *)
(* the same database open for a while: the one that evicts the group and   *)
(* the one that hydrates it.                                               *)
(*                                                                         *)
(* A step is one transaction of the repository, or what a dispatcher does  *)
(* between two of them.  Time is `lapsed`: the running jobs whose          *)
(* lease_until has passed.                                                 *)
(***************************************************************************)
EXTENDS Naturals, FiniteSets

CONSTANTS Jobs,        \* idempotency keys
          Workers,     \* one dispatcher each
          Tokens,      \* lease tokens, unique while somebody remembers them
          MaxAttempts, \* column max_attempts
          MaxDefers,   \* bound on RetryablePipelineJob, which costs no attempt
          None

ASSUME MaxAttemptsAssumption == MaxAttempts \in Nat \ {0}
ASSUME MaxDefersAssumption == MaxDefers \in Nat
ASSUME NoneAssumption == None \notin Jobs \cup Tokens

VARIABLES status,   \* column status; "none" when there is no row
          attempt,  \* column attempt
          token,    \* column lease_token
          lapsed,   \* the jobs with lease_until < now
          pc,       \* where the dispatcher of each worker is
          batch,    \* what is left of the list it read
          job,      \* the job it has claimed
          held,     \* the token it got
          defers    \* how often jobs have been deferred

rows == <<status, attempt, token, lapsed>>
hands == <<pc, batch, job, held>>
vars == <<rows, hands, defers>>

PCs == {"idle", "batch", "claimed", "running", "done", "raised", "deferred"}
Claiming == {"claimed", "running", "done", "raised", "deferred"}

TypeOK ==
  /\ status \in [Jobs -> {"none", "pending", "running", "failed", "dead", "completed"}]
  /\ attempt \in [Jobs -> 0..MaxAttempts]
  /\ token \in [Jobs -> Tokens \cup {None}]
  /\ lapsed \subseteq Jobs
  /\ pc \in [Workers -> PCs]
  /\ batch \in [Workers -> SUBSET Jobs]
  /\ job \in [Workers -> Jobs \cup {None}]
  /\ held \in [Workers -> Tokens \cup {None}]
  /\ defers \in 0..MaxDefers

Init ==
  /\ status = [j \in Jobs |-> "none"]
  /\ attempt = [j \in Jobs |-> 0]
  /\ token = [j \in Jobs |-> None]
  /\ lapsed = {}
  /\ pc = [w \in Workers |-> "idle"]
  /\ batch = [w \in Workers |-> {}]
  /\ job = [w \in Workers |-> None]
  /\ held = [w \in Workers |-> None]
  /\ defers = 0

-----------------------------------------------------------------------------
(* The producers                                                           *)

\* enqueue: an existing row is left alone.
Enqueue(j) ==
  /\ status[j] = "none"
  /\ status' = [status EXCEPT ![j] = "pending"]
  /\ UNCHANGED <<attempt, token, lapsed, hands, defers>>

\* reset_completed: new input for a job that was done.
ResetCompleted(j) ==
  /\ status[j] = "completed"
  /\ status' = [status EXCEPT ![j] = "pending"]
  /\ attempt' = [attempt EXCEPT ![j] = 0]
  /\ token' = [token EXCEPT ![j] = None]
  /\ UNCHANGED <<lapsed, hands, defers>>

\* complete_pending_by_input: the work was done on another path.
CompletePending(j) ==
  /\ status[j] = "pending"
  /\ status' = [status EXCEPT ![j] = "completed"]
  /\ UNCHANGED <<attempt, token, lapsed, hands, defers>>

Expire(j) ==
  /\ status[j] = "running"
  /\ j \notin lapsed
  /\ lapsed' = lapsed \cup {j}
  /\ UNCHANGED <<status, attempt, token, hands, defers>>

-----------------------------------------------------------------------------
(* The dispatcher                                                          *)

Goto(w, l) == pc' = [pc EXCEPT ![w] = l]

\* What list_ready selects.
Ready ==
  {j \in Jobs : \/ status[j] \in {"pending", "failed"} /\ attempt[j] < MaxAttempts
                \/ status[j] = "running" /\ j \in lapsed}

List(w) ==
  /\ pc[w] = "idle"
  /\ Ready # {}
  /\ batch' = [batch EXCEPT ![w] = Ready]
  /\ Goto(w, "batch")
  /\ UNCHANGED <<rows, job, held, defers>>

\* The list is used up, or a call outside the try block raised.
EndBatch(w) ==
  /\ pc[w] = "batch"
  /\ Goto(w, "idle")
  /\ batch' = [batch EXCEPT ![w] = {}]
  /\ UNCHANGED <<rows, job, held, defers>>

\* Mutant: the statement that claims forgets the bound on attempts.
ClaimableForEver(j) ==
  status[j] \in {"pending", "failed"} \/ (status[j] = "running" /\ j \in lapsed)

Claimable(j) ==
  /\ status[j] \in {"pending", "failed"} \/ (status[j] = "running" /\ j \in lapsed)
  /\ attempt[j] < MaxAttempts

\* Mutant: every lapsed lease is taken for the last one.
ExhaustedEarly(j) == status[j] = "running" /\ j \in lapsed

Exhausted(j) ==
  status[j] = "running" /\ j \in lapsed /\ attempt[j] >= MaxAttempts

\* Mutant: the token is the job's, the same for every claim.
FreshReused(t) == TRUE

\* uuid4: nobody has or remembers it.
Fresh(t) ==
  /\ \A j \in Jobs : token[j] # t
  /\ \A w \in Workers : held[w] # t

\* Which of them it is makes no difference to anybody.
NewToken == CHOOSE t \in Tokens : Fresh(t)

\* claim succeeds.
Claim(w, j) ==
  /\ pc[w] = "batch" /\ j \in batch[w]
  /\ batch' = [batch EXCEPT ![w] = @ \ {j}]
  /\ Claimable(j)
  /\ \E t \in Tokens : Fresh(t)
  /\ token' = [token EXCEPT ![j] = NewToken]
  /\ held' = [held EXCEPT ![w] = NewToken]
  /\ status' = [status EXCEPT ![j] = "running"]
  /\ attempt' = [attempt EXCEPT ![j] = @ + 1]
  /\ lapsed' = lapsed \ {j}
  /\ job' = [job EXCEPT ![w] = j]
  /\ Goto(w, "claimed")
  /\ UNCHANGED defers

\* claim finds that the lease of the final attempt has lapsed: the job is dead.
ClaimKills(w, j) ==
  /\ pc[w] = "batch" /\ j \in batch[w]
  /\ batch' = [batch EXCEPT ![w] = @ \ {j}]
  /\ Exhausted(j)
  /\ status' = [status EXCEPT ![j] = "dead"]
  /\ token' = [token EXCEPT ![j] = None]
  /\ lapsed' = lapsed \ {j}
  /\ UNCHANGED <<attempt, pc, job, held, defers>>

\* claim returns None: the list was out of date.
ClaimMisses(w, j) ==
  /\ pc[w] = "batch" /\ j \in batch[w]
  /\ batch' = [batch EXCEPT ![w] = @ \ {j}]
  /\ ~Claimable(j) /\ ~Exhausted(j)
  /\ UNCHANGED <<rows, pc, job, held, defers>>

\* The checkpoint of the claim is written and the handler started, or it raises.
Start(w) ==
  /\ pc[w] = "claimed"
  /\ \/ Goto(w, "running") \/ Goto(w, "raised")
  /\ UNCHANGED <<rows, batch, job, held, defers>>

\* The handler returns, raises, or asks to be retried.
Handler(w) ==
  /\ pc[w] = "running"
  /\ \/ /\ \/ Goto(w, "done") \/ Goto(w, "raised")
        /\ UNCHANGED defers
     \/ /\ defers < MaxDefers
        /\ Goto(w, "deferred")
        /\ defers' = defers + 1
  /\ UNCHANGED <<rows, batch, job, held>>

\* Mutant: the repository looks at the status and not at the token.
HoldsStatus(w) == status[job[w]] = "running"

\* The WHERE clause of every statement that ends or renews a claim.
Holds(w) == status[job[w]] = "running" /\ token[job[w]] = held[w]

\* renew_lease, which does not look at lease_until.
Heartbeat(w) ==
  /\ pc[w] = "running"
  /\ Holds(w)
  /\ lapsed' = lapsed \ {job[w]}
  /\ UNCHANGED <<status, attempt, token, hands, defers>>

\* It failed, for the token or for another reason: the handler is cancelled.
\* (A handler that had just returned is not heard: heartbeat_lost is set.)
HeartbeatLost(w) ==
  /\ pc[w] = "running"
  /\ Goto(w, "raised")
  /\ UNCHANGED <<rows, batch, job, held, defers>>

Release(w) ==
  /\ job' = [job EXCEPT ![w] = None]
  /\ held' = [held EXCEPT ![w] = None]
  /\ UNCHANGED batch

\* The lease ends and the row gets status s.
EndLease(j, s) ==
  /\ status' = [status EXCEPT ![j] = s]
  /\ token' = [token EXCEPT ![j] = None]
  /\ lapsed' = lapsed \ {j}

\* complete_with_checkpoint returns True.
Complete(w) ==
  /\ pc[w] = "done"
  /\ Holds(w)
  /\ EndLease(job[w], "completed")
  /\ Release(w)
  /\ Goto(w, "batch")
  /\ UNCHANGED <<attempt, defers>>

\* It returns False, or is rolled back because the checkpoint cannot be written.
CompleteLost(w) ==
  /\ pc[w] = "done"
  /\ Goto(w, "raised")
  /\ UNCHANGED <<rows, batch, job, held, defers>>

\* Mutant: the final attempt is not told from the others.
FailedNeverDead(j) == "failed"

FailedStatus(j) == IF attempt[j] >= MaxAttempts THEN "dead" ELSE "failed"

\* fail.
Fail(w) ==
  /\ pc[w] = "raised"
  /\ \/ Holds(w) /\ EndLease(job[w], FailedStatus(job[w]))
     \/ ~Holds(w) /\ UNCHANGED <<status, token, lapsed>>
  /\ Release(w)
  /\ Goto(w, "batch")
  /\ UNCHANGED <<attempt, defers>>

\* defer: MAX(attempt - 1, 0).
Defer(w) ==
  /\ pc[w] = "deferred"
  /\ \/ /\ Holds(w)
        /\ EndLease(job[w], "pending")
        /\ attempt' = [attempt EXCEPT ![job[w]] = IF @ > 0 THEN @ - 1 ELSE 0]
     \/ ~Holds(w) /\ UNCHANGED <<status, token, lapsed, attempt>>
  /\ Release(w)
  /\ Goto(w, "batch")
  /\ UNCHANGED defers

\* The worker dies or is told to stop, or fail() itself raises: the row stays
\* as it is until its lease lapses.
Crash(w) ==
  /\ pc[w] \in Claiming
  /\ job' = [job EXCEPT ![w] = None]
  /\ held' = [held EXCEPT ![w] = None]
  /\ batch' = [batch EXCEPT ![w] = {}]
  /\ Goto(w, "idle")
  /\ UNCHANGED <<rows, defers>>

-----------------------------------------------------------------------------

Dispatch(w) ==
  \/ List(w) \/ EndBatch(w)
  \/ \E j \in Jobs : Claim(w, j) \/ ClaimKills(w, j) \/ ClaimMisses(w, j)
  \/ Start(w) \/ Handler(w) \/ Heartbeat(w) \/ HeartbeatLost(w)
  \/ Complete(w) \/ CompleteLost(w) \/ Fail(w) \/ Defer(w) \/ Crash(w)

Next ==
  \/ \E j \in Jobs : Enqueue(j) \/ ResetCompleted(j) \/ CompletePending(j) \/ Expire(j)
  \/ \E w \in Workers : Dispatch(w)

Spec == Init /\ [][Next]_vars

\* Time passes; the background loop of a worker goes on, handlers return, and
\* a worker is not for ever stopped between reading its list and claiming.
Fairness ==
  /\ \A j \in Jobs : WF_vars(Expire(j))
  /\ \A w \in Workers :
       /\ WF_vars(List(w))
       /\ WF_vars(EndBatch(w))
       /\ WF_vars(Start(w))
       /\ WF_vars(Handler(w))
       /\ WF_vars(Complete(w) \/ CompleteLost(w))
       /\ WF_vars(Fail(w) \/ Defer(w))
       /\ \A j \in Jobs : SF_vars(Claim(w, j) \/ ClaimKills(w, j) \/ ClaimMisses(w, j))

FairSpec == Spec /\ Fairness

-----------------------------------------------------------------------------
(* Properties                                                              *)

\* What every WHERE clause of the repository relies on.  A job has a token
\* exactly while it is running; a claimant has a job and a token; a token is in
\* one hand and one row at most, and the hand that has it is at work on that row.
RunningHasToken == \A j \in Jobs : status[j] = "running" <=> token[j] # None
ClaimantHolds ==
  \A w \in Workers : /\ pc[w] \in Claiming <=> held[w] # None
                     /\ pc[w] \in Claiming <=> job[w] # None
OneHand == \A v, w \in Workers : held[v] = held[w] /\ held[v] # None => v = w
OneRow == \A i, j \in Jobs : token[i] = token[j] /\ token[i] # None => i = j
HandOfRow ==
  \A j \in Jobs, w \in Workers : held[w] = token[j] /\ held[w] # None => job[w] = j
LeasesFence == RunningHasToken /\ ClaimantHolds /\ OneHand /\ OneRow /\ HandOfRow

\* A job dies only when all its attempts are used up: resets, deferrals,
\* crashes and late answers never cost a job an attempt it still has.
DeadMeansExhausted ==
  \A j \in Jobs : status[j] = "dead" => attempt[j] = MaxAttempts

\* Whoever was fenced off by a later claim settles nothing, whether it fails,
\* succeeds, defers or dies: the queue of leased work is implemented.
phase ==
  [j \in Jobs |-> IF status[j] = "none" THEN "absent"
                  ELSE IF status[j] = "completed" THEN "done"
                  ELSE IF status[j] = "dead" THEN "dead" ELSE "open"]
entitled == {w \in Workers : pc[w] \in Claiming /\ Holds(w)}
Work == INSTANCE FencedWork WITH Items <- Jobs, working <- job
ImplementsFencedWork == Work!Spec

\* With workers that may crash during every claim, each job that is enqueued
\* is done or dead in the end.
JobsEnd ==
  \A j \in Jobs : status[j] = "pending" ~> status[j] \in {"completed", "dead"}
=============================================================================
