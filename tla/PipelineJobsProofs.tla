------------------------- MODULE PipelineJobsProofs -------------------------
(***************************************************************************)
(* The fencing of PipelineJobs for any jobs, workers, tokens and bounds.   *)
(***************************************************************************)
EXTENDS PipelineJobs, TLAPS

-----------------------------------------------------------------------------
(* Types                                                                   *)

LEMMA FreshToken ==
  ASSUME \E t \in Tokens : Fresh(t)
  PROVE  NewToken \in Tokens /\ Fresh(NewToken)
BY Zenon DEF NewToken

LEMMA TypeInit == Init => TypeOK
BY MaxAttemptsAssumption, MaxDefersAssumption DEF Init, TypeOK, PCs

\* No operation leaves the columns and the dispatchers' states.
LEMMA TypeStep == TypeOK /\ [Next]_vars => TypeOK'
<1> SUFFICES ASSUME TypeOK, [Next]_vars PROVE TypeOK'
  OBVIOUS
<1> USE DEF TypeOK, rows, hands, PCs
<1>1. CASE UNCHANGED vars
  BY <1>1 DEF vars
<1>2. ASSUME NEW j \in Jobs,
             Enqueue(j) \/ ResetCompleted(j) \/ CompletePending(j) \/ Expire(j)
      PROVE  TypeOK'
  BY <1>2, MaxAttemptsAssumption
     DEF Enqueue, ResetCompleted, CompletePending, Expire
<1>3. ASSUME NEW w \in Workers, Dispatch(w) PROVE TypeOK'
  <2>1. CASE List(w) \/ EndBatch(w)
    BY <2>1 DEF List, EndBatch, Goto, Ready
  <2>2. ASSUME NEW j \in Jobs, Claim(w, j) PROVE TypeOK'
    <3>1. attempt' \in [Jobs -> 0..MaxAttempts]
      BY <2>2, MaxAttemptsAssumption DEF Claim, Claimable
    <3>2. NewToken \in Tokens
      BY <2>2, FreshToken DEF Claim
    <3> QED
      BY <2>2, <3>1, <3>2 DEF Claim, Goto
  <2>3. ASSUME NEW j \in Jobs, ClaimKills(w, j) \/ ClaimMisses(w, j) PROVE TypeOK'
    BY <2>3 DEF ClaimKills, ClaimMisses
  <2>4. CASE Start(w) \/ Heartbeat(w) \/ HeartbeatLost(w) \/ CompleteLost(w)
    BY <2>4 DEF Start, Heartbeat, HeartbeatLost, CompleteLost, Goto
  <2>5. CASE Handler(w)
    BY <2>5, MaxDefersAssumption DEF Handler, Goto
  <2>6. CASE Complete(w)
    BY <2>6 DEF Complete, EndLease, Release, Goto
  <2>7. CASE Fail(w)
    BY <2>7 DEF Fail, FailedStatus, EndLease, Release, Goto
  <2>8. CASE Defer(w)
    <3>1. attempt' \in [Jobs -> 0..MaxAttempts]
      BY <2>8, MaxAttemptsAssumption DEF Defer
    <3> QED
      BY <2>8, <3>1 DEF Defer, EndLease, Release, Goto
  <2>9. CASE Crash(w)
    BY <2>9 DEF Crash, Goto
  <2> QED
    BY <1>3, <2>1, <2>2, <2>3, <2>4, <2>5, <2>6, <2>7, <2>8, <2>9 DEF Dispatch
<1> QED
  BY <1>1, <1>2, <1>3 DEF Next

\* Every reachable state of the table and the dispatchers is well-typed.
THEOREM Typing == Spec => []TypeOK
  BY TypeInit, TypeStep, PTL DEF Spec

-----------------------------------------------------------------------------
(* Fencing                                                                 *)

LEMMA FenceInit == Init => LeasesFence
BY DEF Init, LeasesFence, RunningHasToken, ClaimantHolds, OneHand, OneRow, HandOfRow,
       Claiming

\* A step that ends the lease of j, and perhaps w's claim, fences nobody in.
LEMMA EndingFences ==
  ASSUME TypeOK, LeasesFence,
         NEW j \in Jobs, NEW s \in {"pending", "failed", "dead", "completed"},
         EndLease(j, s),
         \/ UNCHANGED <<pc, job, held>>
         \/ \E w \in Workers : Release(w) /\ Goto(w, "batch")
  PROVE  LeasesFence'
<1> USE DEF TypeOK, LeasesFence
<1>1. RunningHasToken'
  BY DEF RunningHasToken, EndLease
<1>2. ClaimantHolds'
  BY DEF ClaimantHolds, Claiming, Release, Goto
<1>3. OneHand'
  BY DEF OneHand, Release
<1>4. OneRow'
  BY DEF OneRow, EndLease
<1>5. HandOfRow'
  BY DEF HandOfRow, EndLease, Release
<1> QED
  BY <1>1, <1>2, <1>3, <1>4, <1>5

\* So does a worker that lets its claim go.
LEMMA ReleasingFences ==
  ASSUME TypeOK, LeasesFence, NEW w \in Workers,
         job' = [job EXCEPT ![w] = None], held' = [held EXCEPT ![w] = None],
         Goto(w, "batch") \/ Goto(w, "idle"),
         UNCHANGED <<status, token>>
  PROVE  LeasesFence'
<1> USE DEF TypeOK, LeasesFence
<1>1. RunningHasToken' /\ OneRow'
  BY DEF RunningHasToken, OneRow
<1>2. ClaimantHolds'
  BY DEF ClaimantHolds, Claiming, Goto
<1>3. OneHand'
  BY DEF OneHand
<1>4. HandOfRow'
  BY DEF HandOfRow
<1> QED
  BY <1>1, <1>2, <1>3, <1>4

\* And a step that moves a claimant on, or a dispatcher that claims nothing.
LEMMA MovingFences ==
  ASSUME TypeOK, LeasesFence, NEW w \in Workers, NEW l \in PCs,
         pc[w] \in Claiming <=> l \in Claiming, Goto(w, l),
         UNCHANGED <<status, token, job, held>>
  PROVE  LeasesFence'
<1> USE DEF TypeOK, LeasesFence
<1>1. ClaimantHolds'
  BY DEF ClaimantHolds, Goto
<1> QED
  BY <1>1 DEF RunningHasToken, OneHand, OneRow, HandOfRow

LEMMA ClaimFences ==
  ASSUME TypeOK, LeasesFence, NEW w \in Workers, NEW j \in Jobs, Claim(w, j)
  PROVE  LeasesFence'
<1> USE DEF TypeOK, LeasesFence
<1>1. NewToken \in Tokens /\ Fresh(NewToken)
  BY FreshToken DEF Claim
<1> DEFINE t == NewToken
<1>2. /\ t \in Tokens /\ t # None
      /\ \A i \in Jobs : token[i] # t
      /\ \A v \in Workers : held[v] # t
  BY <1>1, NoneAssumption DEF Fresh
<1>3. /\ token' = [token EXCEPT ![j] = t] /\ held' = [held EXCEPT ![w] = t]
      /\ job' = [job EXCEPT ![w] = j] /\ pc' = [pc EXCEPT ![w] = "claimed"]
      /\ status' = [status EXCEPT ![j] = "running"]
      /\ j # None
  BY NoneAssumption DEF Claim, Goto
<1> HIDE DEF t
<1>4. RunningHasToken'
  BY <1>2, <1>3 DEF RunningHasToken
<1>5. ClaimantHolds'
  BY <1>2, <1>3 DEF ClaimantHolds, Claiming
<1>6. OneHand' /\ OneRow'
  BY <1>2, <1>3 DEF OneHand, OneRow
<1>7. HandOfRow'
  BY <1>2, <1>3 DEF HandOfRow
<1> QED
  BY <1>4, <1>5, <1>6, <1>7

\* The fencing is inductive: it needs nothing but the types.
LEMMA FenceStep == TypeOK /\ LeasesFence /\ [Next]_vars => LeasesFence'
<1> SUFFICES ASSUME TypeOK, LeasesFence, [Next]_vars PROVE LeasesFence'
  OBVIOUS
<1> USE DEF rows, hands
<1>1. CASE UNCHANGED <<status, token, pc, job, held>>
  BY <1>1 DEF LeasesFence, RunningHasToken, ClaimantHolds, OneHand, OneRow, HandOfRow
<1>2. ASSUME NEW j \in Jobs,
             Enqueue(j) \/ ResetCompleted(j) \/ CompletePending(j) \/ Expire(j)
      PROVE  LeasesFence'
  <2>1. \/ UNCHANGED <<status, token>>
        \/ /\ status[j] # "running"
           /\ \E s \in {"pending", "completed"} : status' = [status EXCEPT ![j] = s]
           /\ token' \in {token, [token EXCEPT ![j] = None]}
    BY <1>2 DEF Enqueue, ResetCompleted, CompletePending, Expire
  <2>2. UNCHANGED <<pc, job, held>>
    BY <1>2 DEF Enqueue, ResetCompleted, CompletePending, Expire
  <2>3. token' = token
    BY <2>1 DEF TypeOK, LeasesFence, RunningHasToken
  <2>4. RunningHasToken'
    BY <2>1, <2>3 DEF TypeOK, LeasesFence, RunningHasToken
  <2> QED
    BY <2>2, <2>3, <2>4 DEF LeasesFence, ClaimantHolds, OneHand, OneRow, HandOfRow
<1>3. ASSUME NEW w \in Workers, Dispatch(w) PROVE LeasesFence'
  <2>1. CASE List(w) \/ EndBatch(w)
    BY <2>1, MovingFences DEF List, EndBatch, Claiming, PCs
  <2>2. ASSUME NEW j \in Jobs, Claim(w, j) PROVE LeasesFence'
    BY <2>2, ClaimFences
  <2>3. ASSUME NEW j \in Jobs, ClaimKills(w, j) PROVE LeasesFence'
    BY <2>3, EndingFences DEF ClaimKills, EndLease
  <2>4. ASSUME NEW j \in Jobs, ClaimMisses(w, j) PROVE LeasesFence'
    BY <2>4, <1>1 DEF ClaimMisses
  <2>5. CASE Start(w) \/ Handler(w) \/ HeartbeatLost(w) \/ CompleteLost(w)
    BY <2>5, MovingFences
       DEF Start, Handler, HeartbeatLost, CompleteLost, Claiming, PCs
  <2>6. CASE Heartbeat(w)
    BY <2>6, <1>1 DEF Heartbeat
  <2>7. CASE Complete(w) \/ Fail(w) \/ Defer(w)
    <3>1. CASE UNCHANGED <<status, token>>
      BY <2>7, <3>1, ReleasingFences DEF Complete, Fail, Defer, Release
    <3>2. CASE ~ UNCHANGED <<status, token>>
      <4>1. job[w] \in Jobs
        BY <2>7 DEF TypeOK, LeasesFence, ClaimantHolds, Claiming, Complete, Fail, Defer
      <4>2. /\ \E s \in {"pending", "failed", "dead", "completed"} : EndLease(job[w], s)
            /\ Release(w) /\ Goto(w, "batch")
        BY <2>7, <3>2 DEF Complete, Fail, Defer, FailedStatus
      <4> QED
        BY <4>1, <4>2, EndingFences
    <3> QED
      BY <3>1, <3>2
  <2>8. CASE Crash(w)
    BY <2>8, ReleasingFences DEF Crash
  <2> QED
    BY <1>3, <2>1, <2>2, <2>3, <2>4, <2>5, <2>6, <2>7, <2>8 DEF Dispatch
<1> QED
  BY <1>1, <1>2, <1>3 DEF Next, vars

\* At any time a job is in at most one hand that counts, and its token in no other.
THEOREM Fencing == Spec => []LeasesFence
  BY TypeInit, FenceInit, TypeStep, FenceStep, PTL DEF Spec

-----------------------------------------------------------------------------
(* Attempts                                                                *)

LEMMA DeadInit == Init => DeadMeansExhausted
BY DEF Init, DeadMeansExhausted

LEMMA DeadStep ==
  TypeOK /\ LeasesFence /\ DeadMeansExhausted /\ [Next]_vars => DeadMeansExhausted'
<1> SUFFICES ASSUME TypeOK, LeasesFence, DeadMeansExhausted, [Next]_vars
             PROVE  DeadMeansExhausted'
  OBVIOUS
<1> USE MaxAttemptsAssumption DEF TypeOK, DeadMeansExhausted, rows, hands
<1>1. CASE UNCHANGED <<status, attempt>>
  BY <1>1
<1>2. ASSUME NEW j \in Jobs,
             Enqueue(j) \/ ResetCompleted(j) \/ CompletePending(j) \/ Expire(j)
      PROVE  DeadMeansExhausted'
  BY <1>2 DEF Enqueue, ResetCompleted, CompletePending, Expire
<1>3. ASSUME NEW w \in Workers, Dispatch(w) PROVE DeadMeansExhausted'
  <2>1. CASE \/ List(w) \/ EndBatch(w) \/ Start(w) \/ Handler(w) \/ Heartbeat(w)
             \/ HeartbeatLost(w) \/ CompleteLost(w) \/ Crash(w)
             \/ \E j \in Jobs : ClaimMisses(w, j)
    BY <2>1, <1>1 DEF List, EndBatch, Start, Handler, Heartbeat, HeartbeatLost,
                      CompleteLost, Crash, ClaimMisses
  <2>2. ASSUME NEW j \in Jobs, Claim(w, j) PROVE DeadMeansExhausted'
    BY <2>2 DEF Claim, Claimable
  <2>3. ASSUME NEW j \in Jobs, ClaimKills(w, j) PROVE DeadMeansExhausted'
    BY <2>3 DEF ClaimKills, Exhausted
  <2>4. CASE Complete(w)
    BY <2>4 DEF Complete, EndLease
  <2>5. CASE Fail(w)
    BY <2>5 DEF Fail, FailedStatus, EndLease
  <2>6. CASE Defer(w)
    BY <2>6 DEF Defer, Holds, EndLease
  <2> QED
    BY <1>3, <2>1, <2>2, <2>3, <2>4, <2>5, <2>6 DEF Dispatch
<1> QED
  BY <1>1, <1>2, <1>3 DEF Next, vars

\* A job is never given up with an attempt left.
THEOREM Exhaustion == Spec => []DeadMeansExhausted
  BY TypeInit, FenceInit, DeadInit, TypeStep, FenceStep, DeadStep, PTL DEF Spec

-----------------------------------------------------------------------------
(* The queue of leased work                                                *)

LEMMA RefinesInit == Init => Work!Init
BY DEF Init, Work!Init, phase, entitled, Claiming

\* A worker is entitled exactly when its token is in the row of its job.
LEMMA Entitled ==
  ASSUME TypeOK, LeasesFence
  PROVE  entitled = {w \in Workers : job[w] \in Jobs /\ token[job[w]] = held[w]}
BY NoneAssumption
   DEF entitled, Holds, TypeOK, LeasesFence, RunningHasToken, ClaimantHolds

\* phase looks at the status of the jobs only.
LEMMA PhaseOf ==
  ASSUME TypeOK, NEW j \in Jobs
  PROVE  /\ status' = [status EXCEPT ![j] = "completed"] => phase' = [phase EXCEPT ![j] = "done"]
         /\ status' = [status EXCEPT ![j] = "dead"] => phase' = [phase EXCEPT ![j] = "dead"]
         /\ \A s \in {"pending", "running", "failed"} :
              status' = [status EXCEPT ![j] = s] => phase' = [phase EXCEPT ![j] = "open"]
BY DEF phase, TypeOK

\* The end of the lease of j takes the title from whoever works on j.
LEMMA EndingTakesTitle ==
  ASSUME TypeOK, LeasesFence, TypeOK', LeasesFence',
         NEW j \in Jobs, token' = [token EXCEPT ![j] = None],
         NEW w \in Workers,
         \/ UNCHANGED <<job, held>>
         \/ job[w] = j /\ Release(w)
  PROVE  entitled' = entitled \ Work!On(j)
<1>1. entitled' = {v \in Workers : job'[v] \in Jobs /\ token'[job'[v]] = held'[v]}
  BY Entitled, NoneAssumption
     DEF entitled, Holds, TypeOK, LeasesFence, RunningHasToken, ClaimantHolds
<1>2. \A v \in Workers : job[v] # None => held[v] # None
  BY DEF LeasesFence, ClaimantHolds
<1>3. \A v \in Workers :
        /\ job'[v] \in Jobs /\ token'[job'[v]] = held'[v]
        <=> job[v] \in Jobs /\ token[job[v]] = held[v] /\ job[v] # j
  BY <1>2, NoneAssumption DEF Release, TypeOK
<1> QED
  BY <1>1, <1>3, Entitled DEF Work!On

\* Each step of the table and of its dispatchers is a step of FencedWork.
LEMMA RefinesStep ==
  TypeOK /\ LeasesFence /\ TypeOK' /\ LeasesFence' /\ [Next]_vars
    => [Work!Next]_(Work!vars)
<1> SUFFICES ASSUME TypeOK, LeasesFence, TypeOK', LeasesFence', [Next]_vars
             PROVE  [Work!Next]_(Work!vars)
  OBVIOUS
<1> USE DEF rows, hands
<1>0. entitled' = {v \in Workers : job'[v] \in Jobs /\ token'[job'[v]] = held'[v]}
  BY NoneAssumption
     DEF entitled, Holds, TypeOK, LeasesFence, RunningHasToken, ClaimantHolds
<1>1. CASE UNCHANGED <<status, token, job, held>>
  BY <1>0, <1>1, Entitled DEF Work!vars, phase
<1>2. ASSUME NEW j \in Jobs,
             Enqueue(j) \/ ResetCompleted(j) \/ CompletePending(j) \/ Expire(j)
      PROVE  [Work!Next]_(Work!vars)
  <2>1. UNCHANGED <<job, held>>
    BY <1>2 DEF Enqueue, ResetCompleted, CompletePending, Expire
  <2>2. token' = token
    BY <1>2 DEF Enqueue, ResetCompleted, CompletePending, Expire,
                TypeOK, LeasesFence, RunningHasToken
  <2>3. entitled' = entitled
    BY <1>0, <2>1, <2>2, Entitled
  <2>4. CASE Enqueue(j)
    <3>1. phase[j] = "absent"
      BY <2>4 DEF Enqueue, phase
    <3>2. phase' = [phase EXCEPT ![j] = "open"]
      BY <2>4, PhaseOf DEF Enqueue
    <3>3. Work!Submit(j)
      BY <2>1, <2>3, <3>1, <3>2 DEF Work!Submit
    <3> QED
      BY <3>3 DEF Work!Next
  <2>5. CASE ResetCompleted(j)
    <3>1. phase[j] = "done"
      BY <2>5 DEF ResetCompleted, phase
    <3>2. phase' = [phase EXCEPT ![j] = "open"]
      BY <2>5, PhaseOf DEF ResetCompleted
    <3>3. Work!Reopen(j)
      BY <2>1, <2>3, <3>1, <3>2 DEF Work!Reopen
    <3> QED
      BY <3>3 DEF Work!Next
  <2>6. CASE CompletePending(j)
    <3>1. entitled \cap Work!On(j) = {}
      <4>1. token[j] = None
        BY <2>6 DEF CompletePending, TypeOK, LeasesFence, RunningHasToken
      <4> QED
        BY <4>1, Entitled, NoneAssumption DEF Work!On, LeasesFence, ClaimantHolds
    <3>2. phase[j] = "open"
      BY <2>6 DEF CompletePending, phase
    <3>3. phase' = [phase EXCEPT ![j] = "done"]
      BY <2>6, PhaseOf DEF CompletePending
    <3>4. Work!Skip(j)
      BY <2>1, <2>3, <3>1, <3>2, <3>3 DEF Work!Skip
    <3> QED
      BY <3>4 DEF Work!Next
  <2>7. CASE Expire(j)
    BY <2>7, <1>1 DEF Expire
  <2> QED
    BY <1>2, <2>4, <2>5, <2>6, <2>7
<1>3. ASSUME NEW w \in Workers, Dispatch(w) PROVE [Work!Next]_(Work!vars)
  <2>1. CASE \/ List(w) \/ EndBatch(w) \/ Start(w) \/ Handler(w) \/ Heartbeat(w)
             \/ HeartbeatLost(w) \/ CompleteLost(w) \/ \E j \in Jobs : ClaimMisses(w, j)
    BY <2>1, <1>1 DEF List, EndBatch, Start, Handler, Heartbeat, HeartbeatLost,
                      CompleteLost, ClaimMisses
  <2>2. ASSUME NEW j \in Jobs, Claim(w, j) PROVE Work!Take(w, j)
    <3>1. /\ token' = [token EXCEPT ![j] = NewToken]
          /\ held' = [held EXCEPT ![w] = NewToken]
          /\ job' = [job EXCEPT ![w] = j]
      BY <2>2 DEF Claim
    <3>2. \A v \in Workers : held[v] # NewToken
      BY <2>2, FreshToken DEF Claim, Fresh
    <3>3. job[w] = None
      BY <2>2 DEF Claim, TypeOK, LeasesFence, ClaimantHolds, Claiming
    <3>4. entitled' = (entitled \ Work!On(j)) \cup {w}
      BY <3>1, <3>2, <3>3, <1>0, Entitled, NoneAssumption DEF Work!On, TypeOK
    <3>5. phase[j] = "open" /\ phase' = phase
      BY <2>2 DEF Claim, Claimable, phase, TypeOK
    <3> QED
      BY <3>1, <3>3, <3>4, <3>5 DEF Work!Take
  <2>3. ASSUME NEW j \in Jobs, ClaimKills(w, j) PROVE Work!GiveUp(j)
    <3>1. entitled' = entitled \ Work!On(j)
      BY <2>3, EndingTakesTitle DEF ClaimKills
    <3>2. phase[j] = "open"
      BY <2>3 DEF ClaimKills, Exhausted, phase
    <3>3. phase' = [phase EXCEPT ![j] = "dead"]
      BY <2>3, PhaseOf DEF ClaimKills
    <3>4. job' = job
      BY <2>3 DEF ClaimKills
    <3> QED
      BY <3>1, <3>2, <3>3, <3>4 DEF Work!GiveUp
  <2>4. ASSUME ~ UNCHANGED <<status, token>>, Complete(w) \/ Fail(w) \/ Defer(w)
        PROVE  \E j \in Jobs : Work!Settle(w, j)
    <3>1. PICK j \in Jobs : j = job[w]
      BY <2>4 DEF TypeOK, LeasesFence, ClaimantHolds, Claiming, Complete, Fail, Defer
    <3>2. Holds(w) /\ Release(w)
      BY <2>4 DEF Complete, Fail, Defer
    <3>3. PICK s \in {"pending", "failed", "dead", "completed"} : EndLease(j, s)
      BY <2>4, <3>1 DEF Complete, Fail, Defer, FailedStatus
    <3>4. entitled' = entitled \ Work!On(j)
      BY <3>1, <3>2, <3>3, EndingTakesTitle DEF EndLease
    <3>5. w \in entitled
      BY <3>1, <3>2, Entitled DEF Holds
    <3>6. entitled \cap Work!On(j) = {w}
      BY <3>1, <3>5, Entitled, NoneAssumption
         DEF Work!On, LeasesFence, ClaimantHolds, OneHand
    <3>7. \E p \in {"open", "done", "dead"} : phase' = [phase EXCEPT ![j] = p]
      BY <3>3, PhaseOf DEF EndLease
    <3> QED
      BY <3>1, <3>2, <3>4, <3>5, <3>6, <3>7 DEF Work!Settle, Release
  <2>5. ASSUME UNCHANGED <<status, token>>,
               Complete(w) \/ Fail(w) \/ Defer(w) \/ Crash(w)
        PROVE  Work!Drop(w)
    <3>1. /\ job[w] # None
          /\ job' = [job EXCEPT ![w] = None] /\ held' = [held EXCEPT ![w] = None]
      BY <2>5 DEF Complete, Fail, Defer, Crash, Release,
                  LeasesFence, ClaimantHolds, Claiming
    <3>2. entitled' = entitled \ {w}
      BY <2>5, <3>1, <1>0, Entitled, NoneAssumption DEF TypeOK
    <3>3. phase' = phase
      BY <2>5 DEF phase
    <3> QED
      BY <3>1, <3>2, <3>3 DEF Work!Drop
  <2>6. Crash(w) => UNCHANGED <<status, token>>
    BY DEF Crash
  <2>7. CASE \E j \in Jobs : Claim(w, j) \/ ClaimKills(w, j)
    BY <2>7, <2>2, <2>3 DEF Work!Next
  <2>8. CASE Complete(w) \/ Fail(w) \/ Defer(w) \/ Crash(w)
    BY <2>8, <2>4, <2>5, <2>6 DEF Work!Next
  <2> QED
    BY <1>3, <2>1, <2>7, <2>8 DEF Dispatch
<1> QED
  BY <1>1, <1>2, <1>3 DEF Next, vars

\* Only the last to claim a job settles it: whoever was fenced off, by a lapsed
\* lease or a worker that took the group over, changes nothing any more.
THEOREM Refinement == Spec => ImplementsFencedWork
  BY TypeInit, FenceInit, TypeStep, FenceStep, RefinesInit, RefinesStep, PTL
     DEF Spec, ImplementsFencedWork, Work!Spec
=============================================================================
