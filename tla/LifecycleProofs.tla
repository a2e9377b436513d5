-------------------------- MODULE LifecycleProofs ---------------------------
(* Theorems about Lifecycle, for any number of groups and coroutines.      *)
EXTENDS Lifecycle, FiniteSetTheorems, TLAPS

\* A future in _hydrating or _evicting has an owner that is at work on that
\* group, and a coroutine evicts one group at a time.
Owners ==
  /\ \A g \in Groups : hydrating[g] # None => Hydrates(hydrating[g], g)
  /\ \A g \in Groups : evicting[g] # None =>
       /\ pc[evicting[g]] \in {"saving", "closing"}
       /\ op[evicting[g]] # "none"
       /\ op[evicting[g]] = "evict" => target[evicting[g]] = g
       /\ op[evicting[g]] = "hydrate" => target[evicting[g]] \in Groups
       /\ \A h \in Groups : evicting[h] = evicting[g] => h = g

\* A hydration under way holds the lock.
Hydrations ==
  \A c \in Threads, g \in Groups : Hydrates(c, g) =>
    /\ op[c] = "hydrate"
    /\ lock[g] = "mine"

\* What a group holds in each of its phases, and nothing outside them.
Leased ==
  /\ ActiveIsLeased
  /\ NoLeakedLease
  /\ \A g \in Groups : evicting[g] # None => lock[g] = "mine" /\ g \in registered

\* What the coroutines that wait, or are about to return, are waiting for.
Waiters ==
  \A c \in Threads :
    /\ pc[c] \in {"hWaitEvict", "hRetry"} => op[c] = "hydrate" /\ target[c] \in Groups
    /\ pc[c] \in {"eWaitHydrate", "eWoken", "eWaitEvict", "eReturn"} =>
         op[c] = "evict" /\ target[c] \in Groups
    /\ pc[c] = "sweeping" => op[c] = "sweep"
    /\ pc[c] = "eWoken" =>
         \/ target[c] \in active \/ evicting[target[c]] # None
         \/ c \in freed

\* The sweeper only sweeps.
Sweeping ==
  /\ pc[Sweeper] \in {"idle", "sweeping", "saving", "closing", "failed"}
  /\ op[Sweeper] \in {"none", "sweep"}

IInv == Owners /\ Hydrations /\ Leased /\ OnePhase /\ Waiters /\ Sweeping /\ EvictReleases

-----------------------------------------------------------------------------
(* Type correctness.                                                       *)

LEMMA TypeInit == Init => TypeOK
  BY DEF Init, TypeOK, PCs

LEMMA TouchedLastType ==
  ASSUME TypeOK, NEW g \in Groups
  PROVE  TouchedLast(g) \subseteq Groups \X Groups
  BY DEF TypeOK, TouchedLast, Forget

LEMMA HydrationWakesType ==
  ASSUME TypeOK, NEW g, NEW f \in PCs, NEW e \in PCs
  PROVE  HydrationWakes(g, f, e) \in [Threads -> PCs]
  BY DEF TypeOK, HydrationWakes

LEMMA EvictionWakesType ==
  ASSUME TypeOK, NEW g, NEW f \in PCs, NEW e \in PCs
  PROVE  EvictionWakes(g, f, e) \in [Threads -> PCs]
  BY DEF TypeOK, EvictionWakes

LEMMA HydrateLoopType ==
  ASSUME TypeOK, NEW c \in Threads, NEW g \in Groups, HydrateLoop(c, g)
  PROVE  /\ active' \subseteq Groups
         /\ older' \subseteq Groups \X Groups
         /\ hydrating' \in [Groups -> Threads \cup {None}]
         /\ evicting' \in [Groups -> Threads \cup {None}]
         /\ registered' \subseteq Groups
         /\ lock' \in [Groups -> {"free", "mine", "other"}]
         /\ stale' \subseteq Groups
         /\ cand' \subseteq Groups
         /\ touched' \subseteq Groups
         /\ pc' \in [Threads -> PCs]
<1> USE DEF TypeOK, PCs, phases, leases, sweep, Goto
<1>1. CASE UseActive(c, g)
  BY <1>1, TouchedLastType DEF UseActive, Fresh
<1>2. CASE AwaitEviction(c, g)
  BY <1>2 DEF AwaitEviction
<1>3. CASE Follow(c, g)
  BY <1>3 DEF Follow
<1>4. CASE Lead(c, g)
  BY <1>4 DEF Lead
<1>5. CASE Refused(c, g)
  BY <1>5 DEF Refused
<1> QED
  BY <1>1, <1>2, <1>3, <1>4, <1>5 DEF HydrateLoop

\* Every step keeps the types: RetryHydrate needs to know that it has a group.
LEMMA TypeStep ==
  ASSUME TypeOK, Waiters, Next
  PROVE  TypeOK'
<1>1. freed' \subseteq Threads /\ misled' \subseteq Threads
  BY DEF Next, Observe, TypeOK
<1> USE <1>1 DEF TypeOK, PCs, phases, leases, sweep, Goto, Waiters
<1>2. ASSUME NEW c \in Threads, Advance(c) PROVE TypeOK'
  <2>1. CASE RetryHydrate(c)
    BY <2>1, HydrateLoopType DEF RetryHydrate
  <2>2. CASE EvictAfterHydrate(c)
    <3>1. target[c] \in Groups
      BY <2>2 DEF EvictAfterHydrate
    <3>2. CASE EvictActive(c, target[c])
      BY <2>2, <3>1, <3>2 DEF EvictAfterHydrate, EvictActive, BeginEvict, Forget
    <3>3. ASSUME NEW l \in {"eWaitEvict", "eReturn"}, EvictOther(c, target[c], l)
          PROVE  TypeOK'
      BY <2>2, <3>3 DEF EvictAfterHydrate, EvictOther
    <3> QED
      BY <2>2, <3>2, <3>3 DEF EvictAfterHydrate
  <2>3. CASE Leave(c) \/ EndLoop(c)
    BY <2>3 DEF Leave, EndLoop
  <2>4. ASSUME NEW g \in Groups, HydrateFail(c, g) PROVE TypeOK'
    <3>1. pc' \in [Threads -> PCs]
      <4>1. HydrationWakes(g, "failed", "eReturn") \in [Threads -> PCs]
        BY HydrationWakesType
      <4> QED
        BY <2>4, <4>1 DEF HydrateFail
    <3>2. /\ hydrating' \in [Groups -> Threads \cup {None}]
          /\ lock' \in [Groups -> {"free", "mine", "other"}]
      BY <2>4 DEF HydrateFail
    <3> QED
      BY <2>4, <3>1, <3>2 DEF HydrateFail
  <2>5. ASSUME NEW g \in Groups, Resume(c, g) PROVE TypeOK'
    BY <2>5 DEF Resume
  <2>6. ASSUME NEW g \in Groups, FinishHydrate(c, g) PROVE TypeOK'
    <3>1. pc' \in [Threads -> PCs]
      <4>1. HydrationWakes(g, "body", "eWoken") \in [Threads -> PCs]
        BY HydrationWakesType
      <4> QED
        BY <2>6, <4>1 DEF FinishHydrate
    <3>2. older' \subseteq Groups \X Groups
      BY <2>6, TouchedLastType DEF FinishHydrate
    <3>3. hydrating' \in [Groups -> Threads \cup {None}]
      BY <2>6 DEF FinishHydrate
    <3> QED
      BY <2>6, <3>1, <3>2, <3>3 DEF FinishHydrate, Fresh
  <2>7. ASSUME NEW g \in Groups, NEW h \in Groups, FinishHydrateEvicting(c, g, h)
        PROVE  TypeOK'
    <3>1. older' \subseteq Groups \X Groups
      <4>1. TouchedLast(g) \subseteq Groups \X Groups
        BY TouchedLastType
      <4> QED
        BY <2>7, <4>1 DEF FinishHydrateEvicting
    <3>2. pc' \in [Threads -> PCs]
      BY <2>7, HydrationWakesType DEF FinishHydrateEvicting
    <3> QED
      BY <2>7, <3>1, <3>2 DEF FinishHydrateEvicting
  <2>8. ASSUME NEW g \in Groups, AbortTasks(c, g) PROVE TypeOK'
    <3>1. tasks' \in [Groups -> {"none", "running", "cancelled"}]
      BY <2>8 DEF AbortTasks
    <3>2. pc' \in [Threads -> PCs]
      BY <2>8 DEF AbortTasks
    <3> QED
      BY <2>8, <3>1, <3>2 DEF AbortTasks
  <2>9. ASSUME NEW g \in Groups, FinishEvict(c, g) PROVE TypeOK'
    <3>1. pc' \in [Threads -> PCs]
      <4>1. AfterEvict(c) \in PCs
        BY DEF AfterEvict
      <4> QED
        BY <2>9, <4>1, EvictionWakesType DEF FinishEvict
    <3> QED
      BY <2>9, <3>1 DEF FinishEvict, ReleaseLease
  <2>10. ASSUME NEW g \in Groups, FailEvict(c, g) PROVE TypeOK'
    <3>1. pc' \in [Threads -> PCs]
      <4>1. /\ HydrationWakes(target[c], "failed", "eReturn") \in [Threads -> PCs]
            /\ EvictionWakes(g, "failed", "failed") \in [Threads -> PCs]
        BY EvictionWakesType, HydrationWakesType
      <4> QED
        BY <2>10, <4>1 DEF FailEvict
    <3> QED
      BY <2>10, <3>1 DEF FailEvict, ReleaseLease
  <2> QED
    BY <1>2, <2>1, <2>2, <2>3, <2>4, <2>5, <2>6, <2>7, <2>8, <2>9, <2>10 DEF Advance
<1>3. ASSUME NEW c \in Callers, NEW g \in Groups, StartHydrate(c, g) PROVE TypeOK'
  BY <1>3, HydrateLoopType DEF StartHydrate, Threads
<1>4. ASSUME NEW c \in FrameLoops, SpawnTask(c) PROVE TypeOK'
  BY <1>4 DEF SpawnTask
<1>5. ASSUME NEW c \in FrameLoops, NEW g \in Groups, StartEvict(c, g) PROVE TypeOK'
  BY <1>5, FrameLoopsAssumption
     DEF StartEvict, EvictActive, EvictOther, BeginEvict, Forget, Threads
<1>6. CASE StartSweep
  BY <1>6 DEF StartSweep
<1>7. CASE EndSweep
  BY <1>7 DEF EndSweep
<1>8. ASSUME NEW g \in Groups, SweepOne(g) PROVE TypeOK'
  BY <1>8 DEF SweepOne, BeginEvict, Forget, Threads
<1>9. ASSUME NEW g \in Groups, EndTask(g) \/ Expire(g) \/ OtherProcess(g) PROVE TypeOK'
  BY <1>9 DEF EndTask, Expire, OtherProcess
<1> QED
  BY <1>2, <1>3, <1>4, <1>5, <1>6, <1>7, <1>8, <1>9 DEF Next, Step, AdvanceSweep

-----------------------------------------------------------------------------
(* The leases.                                                             *)

LEMMA SweeperThread == Sweeper \in Threads
  BY DEF Threads

LEMMA IInvInit == Init => IInv
  BY NoneAssumption, SweeperThread
  DEF Init, IInv, Owners, Hydrations, Hydrates, Leased, ActiveIsLeased, NoLeakedLease,
      OnePhase, Waiters, Sweeping, EvictReleases

\* What a step adds to the history variables.
Seen ==
  \A c \in Threads : op'[c] = "evict" =>
    /\ c \in freed' <=> c \in freed \/ lock'[target'[c]] # "mine"
    /\ c \in misled' <=> c \in misled \/ Orphaned(target[c])'

LEMMA Observed ==
  ASSUME TypeOK, TypeOK', Next
  PROVE  Seen
  BY DEF Next, Observe, TypeOK, Seen

\* hydrate()'s loop body, for a coroutine that owns nothing.
LEMMA IInvHydrateLoop ==
  ASSUME TypeOK, IInv, NEW c \in Threads, NEW g \in Groups,
         c # Sweeper, pc[c] \in {"idle", "hRetry"}, HydrateLoop(c, g), Seen,
         op' = [op EXCEPT ![c] = "hydrate"], target' = [target EXCEPT ![c] = g]
  PROVE  IInv'
<1> USE NoneAssumption, SweeperThread
    DEF TypeOK, PCs, IInv, Owners, Hydrations, Hydrates, Leased, ActiveIsLeased,
        NoLeakedLease, OnePhase, Waiters, Sweeping, EvictReleases, Seen, Orphaned,
        phases, leases, sweep, Goto
<1>1. CASE UseActive(c, g)
  BY <1>1 DEF UseActive
<1>2. CASE AwaitEviction(c, g)
  BY <1>2 DEF AwaitEviction
<1>3. CASE Follow(c, g)
  BY <1>3 DEF Follow
<1>4. CASE Lead(c, g)
  BY <1>4 DEF Lead
<1>5. CASE Refused(c, g)
  BY <1>5 DEF Refused
<1> QED
  BY <1>1, <1>2, <1>3, <1>4, <1>5 DEF HydrateLoop

\* evict()'s decision, for a coroutine that owns nothing and has op = "evict".
LEMMA IInvEvictActive ==
  ASSUME TypeOK, IInv, NEW c \in Threads, NEW g \in Groups,
         c # Sweeper, pc[c] \in {"idle", "eWoken"}, EvictActive(c, g), Seen,
         op' = [op EXCEPT ![c] = "evict"], target' = [target EXCEPT ![c] = g]
  PROVE  IInv'
  BY NoneAssumption, SweeperThread
  DEF TypeOK, PCs, IInv, Owners, Hydrations, Hydrates, Leased, ActiveIsLeased,
      NoLeakedLease, OnePhase, Waiters, Sweeping, EvictReleases, Seen, Orphaned,
        leases, Goto, EvictActive, BeginEvict

LEMMA IInvEvictOther ==
  ASSUME TypeOK, IInv, NEW c \in Threads, NEW g \in Groups,
         NEW l \in {"eWaitHydrate", "eWaitEvict", "eReturn"},
         l = "eReturn" => \/ c \in freed
                          \/ hydrating[g] = None /\ evicting[g] = None,
         c # Sweeper, pc[c] \in {"idle", "eWoken"}, EvictOther(c, g, l), Seen,
         op' = [op EXCEPT ![c] = "evict"], target' = [target EXCEPT ![c] = g]
  PROVE  IInv'
  BY NoneAssumption, SweeperThread
  DEF TypeOK, PCs, IInv, Owners, Hydrations, Hydrates, Leased, ActiveIsLeased,
      NoLeakedLease, OnePhase, Waiters, Sweeping, EvictReleases, Seen, Orphaned,
        phases, leases, sweep, Goto, EvictOther

\* The steps of a coroutine that are not one of these.
LEMMA IInvAdvance ==
  ASSUME TypeOK, IInv, NEW c \in Threads, Advance(c), Seen
  PROVE  IInv'
<1>1. CASE RetryHydrate(c)
  <2>1. /\ target[c] \in Groups /\ op' = [op EXCEPT ![c] = "hydrate"]
        /\ target' = [target EXCEPT ![c] = target[c]]
        /\ pc[c] = "hRetry" /\ c # Sweeper
    BY <1>1 DEF RetryHydrate, TypeOK, IInv, Waiters, Sweeping
  <2> QED
    BY <1>1, <2>1, IInvHydrateLoop DEF RetryHydrate
<1>2. CASE EvictAfterHydrate(c)
  <2>1. /\ target[c] \in Groups /\ op' = [op EXCEPT ![c] = "evict"]
        /\ target' = [target EXCEPT ![c] = target[c]]
        /\ pc[c] = "eWoken" /\ c # Sweeper
    BY <1>2 DEF EvictAfterHydrate, TypeOK, IInv, Waiters, Sweeping
  <2>2. CASE EvictActive(c, target[c])
    BY <2>1, <2>2, IInvEvictActive
  <2>3. CASE evicting[target[c]] # None /\ EvictOther(c, target[c], "eWaitEvict")
    BY <2>1, <2>3, IInvEvictOther
  <2>4. CASE evicting[target[c]] = None /\ EvictOther(c, target[c], "eReturn")
    <3>1. c \in freed
      BY <2>1, <2>4 DEF EvictOther, IInv, Waiters
    <3> QED
      BY <2>1, <2>4, <3>1, IInvEvictOther
  <2> QED
    BY <1>2, <2>2, <2>3, <2>4 DEF EvictAfterHydrate
<1> USE NoneAssumption, SweeperThread
    DEF TypeOK, PCs, IInv, Hydrates, phases, leases, sweep, Goto
<1>3. CASE Leave(c) \/ EndLoop(c)
  BY SMTT(60), <1>3, FrameLoopsAssumption, SweeperAssumption
     DEF Leave, EndLoop, Owners, Hydrations, Leased, ActiveIsLeased, NoLeakedLease,
         OnePhase, Waiters, Sweeping, EvictReleases, Seen, Orphaned
<1>4. ASSUME NEW g \in Groups, HydrateFail(c, g) PROVE IInv'
  <2> USE <1>4 DEF HydrateFail, HydrationWakes
  <2>1. Owners'
    BY DEF Owners, Hydrations, OnePhase
  <2>2. Hydrations'
    BY DEF Hydrations, OnePhase, Seen
  <2>3. Leased'
    <3>1. \A d \in Threads, h \in Groups : Hydrates(d, h) /\ d # c => Hydrates(d, h)'
      OBVIOUS
    <3>2. ActiveIsLeased'
      BY DEF Leased, ActiveIsLeased, Hydrations, OnePhase
    <3>3. NoLeakedLease'
      <4> SUFFICES ASSUME NEW h \in Groups, lock'[h] = "mine"
                   PROVE  \/ h \in active' \/ evicting'[h] # None
                          \/ \E d \in Threads : Hydrates(d, h)'
        BY DEF NoLeakedLease
      <4>1. CASE h = g
        BY <4>1
      <4>2. CASE h # g /\ \E d \in Threads : Hydrates(d, h)
        <5>1. PICK d \in Threads : Hydrates(d, h)
          BY <4>2
        <5>2. d # c
          BY <4>2, <5>1 DEF Owners
        <5> QED
          BY <3>1, <5>1, <5>2
      <4>3. CASE h # g /\ (h \in active \/ evicting[h] # None)
        BY <4>3
      <4>4. CASE h # g
        <5>1. lock[h] = "mine"
          BY <4>4
        <5>2. h \in active \/ evicting[h] # None \/ \E d \in Threads : Hydrates(d, h)
          BY <5>1 DEF Leased, NoLeakedLease
        <5> QED
          BY <4>2, <4>3, <4>4, <5>2
      <4> QED
        BY <4>1, <4>4
    <3>4. \A h \in Groups : evicting'[h] # None => lock'[h] = "mine" /\ h \in registered'
      BY DEF Leased, ActiveIsLeased, Hydrations, OnePhase, Owners
    <3> QED
      BY <3>2, <3>3, <3>4 DEF Leased
  <2>4. OnePhase'
    BY DEF OnePhase
  <2>5. Waiters'
    BY DEF Waiters, Seen
  <2>6. Sweeping'
    BY DEF Sweeping
  <2>7. EvictReleases'
    BY DEF EvictReleases, Seen, Orphaned, Waiters
  <2> QED
    BY <2>1, <2>2, <2>3, <2>4, <2>5, <2>6, <2>7 DEF IInv
<1>5. ASSUME NEW g \in Groups, Resume(c, g) PROVE IInv'
  BY <1>5 DEF Resume, Owners, Hydrations, Leased, ActiveIsLeased, NoLeakedLease,
     OnePhase, Waiters, Sweeping, EvictReleases, Seen, Orphaned
<1>6. ASSUME NEW g \in Groups, FinishHydrate(c, g) PROVE IInv'
  <2> USE <1>6 DEF FinishHydrate, HydrationWakes, Fresh
  <2>1. Owners'
    BY DEF Owners, Hydrations, Leased, OnePhase
  <2>2. Hydrations'
    BY DEF Hydrations, Owners, OnePhase, Seen
  <2>3. Leased'
    <3>1. \A d \in Threads, h \in Groups : Hydrates(d, h) /\ d # c => Hydrates(d, h)'
      OBVIOUS
    <3>2. ActiveIsLeased'
      BY DEF Leased, ActiveIsLeased, Hydrations, OnePhase
    <3>3. NoLeakedLease'
      <4> SUFFICES ASSUME NEW h \in Groups, lock'[h] = "mine"
                   PROVE  \/ h \in active' \/ evicting'[h] # None
                          \/ \E d \in Threads : Hydrates(d, h)'
        BY DEF NoLeakedLease
      <4>1. CASE h = g
        BY <4>1
      <4>2. CASE h # g /\ \E d \in Threads : Hydrates(d, h)
        <5>1. PICK d \in Threads : Hydrates(d, h)
          BY <4>2
        <5>2. d # c
          BY <4>2, <5>1 DEF Owners
        <5> QED
          BY <3>1, <5>1, <5>2
      <4>3. CASE h # g /\ (h \in active \/ evicting[h] # None)
        BY <4>3
      <4>4. CASE h # g
        <5>1. lock[h] = "mine"
          BY <4>4
        <5>2. h \in active \/ evicting[h] # None \/ \E d \in Threads : Hydrates(d, h)
          BY <5>1 DEF Leased, NoLeakedLease
        <5> QED
          BY <4>2, <4>3, <4>4, <5>2
      <4> QED
        BY <4>1, <4>4
    <3>4. \A h \in Groups : evicting'[h] # None => lock'[h] = "mine" /\ h \in registered'
      BY DEF Leased, ActiveIsLeased, Hydrations, OnePhase, Owners
    <3> QED
      BY <3>2, <3>3, <3>4 DEF Leased
  <2>4. OnePhase'
    BY DEF OnePhase, Owners, Hydrations
  <2>5. Waiters'
    BY DEF Waiters, Seen, Owners
  <2>6. Sweeping'
    BY DEF Sweeping, Owners
  <2>7. EvictReleases'
    BY DEF EvictReleases, Seen, Orphaned, Waiters, Owners
  <2> QED
    BY <2>1, <2>2, <2>3, <2>4, <2>5, <2>6, <2>7 DEF IInv
<1>7. ASSUME NEW g \in Groups, NEW h \in Groups, FinishHydrateEvicting(c, g, h)
      PROVE  IInv'
  <2> USE <1>7 DEF FinishHydrateEvicting, HydrationWakes, LruIdle
  <2>1. Owners'
    BY DEF Owners, Hydrations, Leased, OnePhase
  <2>2. Hydrations'
    BY DEF Hydrations, Owners, OnePhase, Seen
  <2>3. Leased'
    <3>1. \A d \in Threads, k \in Groups : Hydrates(d, k) /\ d # c => Hydrates(d, k)'
      OBVIOUS
    <3>2. ActiveIsLeased'
      BY DEF Leased, ActiveIsLeased, Hydrations, OnePhase
    <3>3. NoLeakedLease'
      <4> SUFFICES ASSUME NEW k \in Groups, lock'[k] = "mine"
                   PROVE  \/ k \in active' \/ evicting'[k] # None
                          \/ \E d \in Threads : Hydrates(d, k)'
        BY DEF NoLeakedLease
      <4>1. CASE k \in {g, h}
        BY <4>1
      <4>2. CASE k \notin {g, h} /\ \E d \in Threads : Hydrates(d, k)
        <5>1. PICK d \in Threads : Hydrates(d, k)
          BY <4>2
        <5>2. d # c
          BY <4>2, <5>1 DEF Owners
        <5> QED
          BY <3>1, <5>1, <5>2
      <4>3. CASE k \notin {g, h} /\ (k \in active \/ evicting[k] # None)
        BY <4>3
      <4>4. CASE k \notin {g, h}
        <5>1. lock[k] = "mine"
          BY <4>4
        <5>2. k \in active \/ evicting[k] # None \/ \E d \in Threads : Hydrates(d, k)
          BY <5>1 DEF Leased, NoLeakedLease
        <5> QED
          BY <4>2, <4>3, <4>4, <5>2
      <4> QED
        BY <4>1, <4>4
    <3>4. \A k \in Groups : evicting'[k] # None => lock'[k] = "mine" /\ k \in registered'
      BY DEF Leased, ActiveIsLeased, Hydrations, OnePhase, Owners
    <3> QED
      BY <3>2, <3>3, <3>4 DEF Leased
  <2>4. OnePhase'
    BY DEF OnePhase, Owners, Hydrations
  <2>5. Waiters'
    BY DEF Waiters, Seen, Owners
  <2>6. Sweeping'
    BY DEF Sweeping, Owners
  <2>7. EvictReleases'
    BY DEF EvictReleases, Seen, Orphaned, Waiters, Owners
  <2> QED
    BY <2>1, <2>2, <2>3, <2>4, <2>5, <2>6, <2>7 DEF IInv
<1>8. ASSUME NEW g \in Groups, AbortTasks(c, g) PROVE IInv'
  <2> USE <1>8 DEF AbortTasks
  <2>1. Owners'
    BY DEF Owners
  <2>2. Hydrations' /\ Leased'
    BY DEF Hydrations, Leased, ActiveIsLeased, NoLeakedLease, Seen
  <2>3. OnePhase' /\ Sweeping'
    BY DEF OnePhase, Sweeping, Owners
  <2>4. Waiters'
    BY DEF Waiters, Seen, Owners
  <2>5. EvictReleases'
    BY DEF EvictReleases, Seen, Orphaned, Waiters, Owners
  <2> QED
    BY <2>1, <2>2, <2>3, <2>4, <2>5 DEF IInv
<1>9. ASSUME NEW g \in Groups, FinishEvict(c, g) PROVE IInv'
  <2> USE <1>9 DEF FinishEvict, ReleaseLease, AfterEvict, EvictionWakes
  <2>1. Owners'
    BY DEF Owners, Hydrations, Leased, OnePhase
  <2>2. Hydrations'
    BY DEF Hydrations, Owners, OnePhase, Seen
  <2>3. Leased'
    <3>1. \A d \in Threads, h \in Groups : Hydrates(d, h) /\ d # c => Hydrates(d, h)'
      OBVIOUS
    <3>2. ActiveIsLeased'
      BY DEF Leased, ActiveIsLeased, Hydrations, OnePhase
    <3>3. NoLeakedLease'
      <4> SUFFICES ASSUME NEW h \in Groups, lock'[h] = "mine"
                   PROVE  \/ h \in active' \/ evicting'[h] # None
                          \/ \E d \in Threads : Hydrates(d, h)'
        BY DEF NoLeakedLease
      <4>1. CASE h = g
        BY <4>1 DEF Leased
      <4>2. CASE h # g /\ \E d \in Threads : Hydrates(d, h)
        <5>1. PICK d \in Threads : Hydrates(d, h)
          BY <4>2
        <5>2. d # c
          BY <4>2, <5>1 DEF Owners
        <5> QED
          BY <3>1, <5>1, <5>2
      <4>3. CASE h # g /\ (h \in active \/ evicting[h] # None)
        BY <4>3
      <4>4. CASE h # g
        <5>1. lock[h] = "mine"
          BY <4>4
        <5>2. h \in active \/ evicting[h] # None \/ \E d \in Threads : Hydrates(d, h)
          BY <5>1 DEF Leased, NoLeakedLease
        <5> QED
          BY <4>2, <4>3, <4>4, <5>2
      <4> QED
        BY <4>1, <4>4
    <3>4. \A h \in Groups : evicting'[h] # None => lock'[h] = "mine" /\ h \in registered'
      BY DEF Leased, ActiveIsLeased, Hydrations, OnePhase, Owners
    <3> QED
      BY <3>2, <3>3, <3>4 DEF Leased
  <2>4. OnePhase'
    BY DEF OnePhase, Owners, Hydrations
  <2>5. Waiters'
    BY DEF Waiters, Seen, Owners, Leased
  <2>6. Sweeping'
    BY DEF Sweeping, Owners
  <2>7. EvictReleases'
    BY DEF EvictReleases, Seen, Waiters, Owners, Leased
  <2> QED
    BY <2>1, <2>2, <2>3, <2>4, <2>5, <2>6, <2>7 DEF IInv
<1>10. ASSUME NEW g \in Groups, FailEvict(c, g) PROVE IInv'
  <2> USE <1>10 DEF FailEvict, PopsFuture, ReleaseLease, HydrationWakes, EvictionWakes
  <2>1. Owners'
    BY DEF Owners, Hydrations, Leased, OnePhase
  <2>2. Hydrations'
    BY DEF Hydrations, Owners, OnePhase, Seen
  <2>3. Leased'
    BY DEF Leased, ActiveIsLeased, NoLeakedLease, Hydrations, Owners, OnePhase
  <2>4. OnePhase'
    BY DEF OnePhase, Owners, Hydrations
  <2>5. Waiters'
    BY DEF Waiters, Seen, Owners, Leased
  <2>6. Sweeping'
    BY DEF Sweeping, Owners
  <2>7. EvictReleases'
    BY DEF EvictReleases, Seen, Orphaned, Waiters, Owners
  <2> QED
    BY <2>1, <2>2, <2>3, <2>4, <2>5, <2>6, <2>7 DEF IInv
<1> QED
  BY <1>1, <1>2, <1>3, <1>4, <1>5, <1>6, <1>7, <1>8, <1>9, <1>10 DEF Advance

\* Every step of the worker keeps the invariant.
LEMMA IInvStep ==
  ASSUME TypeOK, IInv, Next
  PROVE  IInv'
<1>1. Seen
  BY TypeStep, Observed DEF IInv
<1>2. ASSUME NEW c \in Threads, Advance(c) PROVE IInv'
  BY <1>1, <1>2, IInvAdvance
<1>3. ASSUME NEW c \in Callers, NEW g \in Groups, StartHydrate(c, g) PROVE IInv'
  BY <1>1, <1>3, IInvHydrateLoop, SweeperAssumption DEF StartHydrate, Threads
<1>4. ASSUME NEW c \in FrameLoops, NEW g \in Groups, StartEvict(c, g) PROVE IInv'
  <2>1. c \in Threads /\ c # Sweeper /\ pc[c] = "idle"
        /\ op' = [op EXCEPT ![c] = "evict"] /\ target' = [target EXCEPT ![c] = g]
    BY <1>4, FrameLoopsAssumption, SweeperAssumption DEF StartEvict, Threads
  <2>2. CASE EvictActive(c, g)
    BY <1>1, <2>1, <2>2, IInvEvictActive
  <2>3. ASSUME NEW l \in {"eWaitHydrate", "eWaitEvict", "eReturn"},
               l = "eReturn" => hydrating[g] = None /\ evicting[g] = None,
               EvictOther(c, g, l)
        PROVE  IInv'
    BY <1>1, <2>1, <2>3, IInvEvictOther
  <2> QED
    BY <1>4, <2>2, <2>3 DEF StartEvict
<1> USE <1>1, NoneAssumption, SweeperThread
    DEF TypeOK, PCs, IInv, Owners, Hydrations, Hydrates, Leased, ActiveIsLeased,
        NoLeakedLease, OnePhase, Waiters, Sweeping, EvictReleases, Seen, Orphaned,
        phases, leases, sweep, Goto
<1>5. ASSUME NEW c \in FrameLoops, SpawnTask(c) PROVE IInv'
  BY <1>5 DEF SpawnTask
<1>6. CASE StartSweep
  BY <1>6 DEF StartSweep, Threads
<1>7. CASE EndSweep
  BY <1>7 DEF EndSweep, Threads
<1>8. ASSUME NEW g \in Groups, SweepOne(g) PROVE IInv'
  BY <1>8 DEF SweepOne, StillInactive, BeginEvict, Threads
<1>9. ASSUME NEW g \in Groups, EndTask(g) \/ Expire(g) PROVE IInv'
  BY <1>9 DEF EndTask, Expire
<1>10. ASSUME NEW g \in Groups, OtherProcess(g) PROVE IInv'
  BY <1>10 DEF OtherProcess
<1> QED
  BY <1>2, <1>3, <1>4, <1>5, <1>6, <1>7, <1>8, <1>9, <1>10 DEF Next, Step, AdvanceSweep

LEMMA Inductive == (TypeOK /\ IInv) /\ [Next]_vars => (TypeOK /\ IInv)'
<1>1. CASE TypeOK /\ IInv /\ Next
  BY <1>1, TypeStep, IInvStep DEF IInv
<1>2. CASE TypeOK /\ IInv /\ UNCHANGED vars
  BY <1>2 DEF vars, phases, leases, sweep, TypeOK, IInv, Owners, Hydrations,
     Hydrates, Leased, ActiveIsLeased, NoLeakedLease, OnePhase, Waiters, Sweeping,
     EvictReleases
<1> QED
  BY <1>1, <1>2

-----------------------------------------------------------------------------
(* The theorems.                                                           *)

\* The variables of the manager keep their types in every run.
THEOREM Typing == Spec => []TypeOK
  BY TypeInit, IInvInit, Inductive, PTL DEF Spec

\* hydrate() and evict() of the same group never overlap, whatever else the
\* event loop runs between their awaits.
THEOREM Phases == Spec => []OnePhase
<1>1. IInv => OnePhase
  BY DEF IInv
<1> QED
  BY TypeInit, IInvInit, Inductive, <1>1, PTL DEF Spec

\* The worker holds group.lock for every group that is active, and for no group
\* that is neither active nor on its way in or out: no failure of hydrate() or
\* evict() leaves a lock behind.
THEOREM Leases == Spec => []LeaseFollowsUse
<1>1. IInv => LeaseFollowsUse
  BY DEF IInv, Leased, LeaseFollowsUse
<1> QED
  BY TypeInit, IInvInit, Inductive, <1>1, PTL DEF Spec

\* A normal return of evict(), which the worker reports as LEASE_RELEASED,
\* means that this process let go of the group during the call, unless the error
\* handler of an earlier hydrate() popped the future of the hydration under way.
THEOREM Released == Spec => []EvictReleases
<1>1. IInv => EvictReleases
  BY DEF IInv
<1> QED
  BY TypeInit, IInvInit, Inductive, <1>1, PTL DEF Spec

-----------------------------------------------------------------------------
(* LEASE_RELEASED.                                                         *)

\* The callers of hydrate() in a worker: its frame loop, which alone evicts,
\* and the startup hydration.
WorkerShape == \E f, s \in Callers : Callers = {f, s} /\ FrameLoops = {f}

\* Who evicts has not lost sight of a hydration: a hydration without its future
\* is either the frame loop's own or has cost the frame loop its life.
Undeceived ==
  /\ \A c \in Threads : op[c] = "evict" => c \in FrameLoops
  /\ \A c \in Threads : pc[c] = "ended" => op[c] = "none"
  /\ \A c \in Threads : pc[c] \in {"hInit", "hReady"} => target[c] \in Groups
  /\ \A c \in misled : pc[c] = "failed"
  /\ \A c \in FrameLoops, d \in Threads, g \in Groups :
       Hydrates(d, g) /\ hydrating[g] # d /\ c # d => pc[c] \in {"failed", "ended"}

\* The frame loop does not come back from an exception.
Steady ==
  /\ \A d \in Threads : op'[d] = "evict" => d \in FrameLoops
  /\ \A d \in Threads : pc'[d] = "ended" => op'[d] = "none"
  /\ \A d \in Threads : pc'[d] \in {"hInit", "hReady"} => target'[d] \in Groups
  /\ \A d \in FrameLoops : pc[d] \in {"failed", "ended"} => pc'[d] \in {"failed", "ended"}

\* No hydration loses its future.
NoNewOrphan ==
  \A e \in Threads, h \in Groups :
    Hydrates(e, h)' /\ hydrating'[h] # e => Hydrates(e, h) /\ hydrating[h] # e

LEMMA FrameLoopsThreads == FrameLoops \subseteq Threads
  BY FrameLoopsAssumption DEF Threads

LEMMA HydrateLoopSteady ==
  ASSUME TypeOK, Undeceived, NEW c \in Threads, NEW g \in Groups, HydrateLoop(c, g),
         pc[c] \in {"idle", "hRetry"}, op' = [op EXCEPT ![c] = "hydrate"],
         target' = [target EXCEPT ![c] = g]
  PROVE  Steady /\ NoNewOrphan
<1>1. PICK l \in {"body", "hWaitEvict", "hFollow", "hInit", "failed"} : Goto(c, l)
  BY DEF HydrateLoop, UseActive, AwaitEviction, Follow, Lead, Refused
<1>2. Steady
  BY <1>1, FrameLoopsThreads DEF Goto, TypeOK, Undeceived, Steady
<1>3. CASE Lead(c, g)
  <2> SUFFICES ASSUME NEW e \in Threads, NEW h \in Groups,
                      Hydrates(e, h)', hydrating'[h] # e
               PROVE  Hydrates(e, h) /\ hydrating[h] # e
    BY <1>2 DEF NoNewOrphan
  <2>1. e # c
    BY <1>3 DEF Lead, TypeOK, Hydrates
  <2> QED
    BY <1>3, <2>1, NoneAssumption DEF Lead, Goto, TypeOK, Hydrates
<1>4. CASE ~Lead(c, g)
  <2>1. hydrating' = hydrating
    BY <1>4 DEF HydrateLoop, UseActive, AwaitEviction, Follow, Refused, phases
  <2>2. PICK m \in {"body", "hWaitEvict", "hFollow", "failed"} : Goto(c, m)
    BY <1>4 DEF HydrateLoop, UseActive, AwaitEviction, Follow, Refused
  <2> SUFFICES ASSUME NEW e \in Threads, NEW h \in Groups, Hydrates(e, h)'
               PROVE  Hydrates(e, h)
    BY <1>2, <2>1 DEF NoNewOrphan
  <2>3. e # c
    BY <2>2 DEF Goto, TypeOK, Hydrates
  <2> QED
    BY <2>2, <2>3 DEF Goto, TypeOK, Hydrates
<1> QED
  BY <1>2, <1>3, <1>4

LEMMA EvictSteady ==
  ASSUME TypeOK, Undeceived, NEW c \in FrameLoops, NEW g \in Groups,
         pc[c] \in {"idle", "eWoken"},
         \/ EvictActive(c, g)
         \/ \E l \in {"eWaitHydrate", "eWaitEvict", "eReturn"} : EvictOther(c, g, l),
         op' = [op EXCEPT ![c] = "evict"], target' = [target EXCEPT ![c] = g]
  PROVE  Steady /\ NoNewOrphan
<1>1. PICK l \in {"saving", "eWaitHydrate", "eWaitEvict", "eReturn"} : Goto(c, l)
  BY DEF EvictActive, BeginEvict, EvictOther
<1>2. c \in Threads /\ hydrating' = hydrating
  BY FrameLoopsAssumption DEF EvictActive, EvictOther, phases, Threads
<1> QED
  BY <1>1, <1>2 DEF Goto, TypeOK, Undeceived, Steady, NoNewOrphan, Hydrates

\* The exception of an eviction: a coroutine that takes the future of another
\* one's hydration fails itself.
LEMMA FailEvictOrphans ==
  ASSUME WorkerShape, TypeOK, IInv, Undeceived,
         NEW c \in Threads, NEW g \in Groups, FailEvict(c, g)
  PROVE  /\ Steady
         /\ \A d \in FrameLoops, e \in Threads, h \in Groups :
              Hydrates(e, h)' /\ hydrating'[h] # e /\ d # e => pc'[d] \in {"failed", "ended"}
<1> USE DEF FailEvict, ReleaseLease, HydrationWakes, EvictionWakes, TypeOK, PCs
<1>1. PICK f \in Callers, s \in Callers : Callers = {f, s} /\ FrameLoops = {f}
  BY DEF WorkerShape
<1>2. \A d \in Threads : pc[d] \in {"failed", "ended"} => pc'[d] \in {"failed", "ended"}
  OBVIOUS
<1>3. \A d \in Threads : pc'[d] = "ended" => pc[d] = "ended"
  OBVIOUS
<1>4. Steady
  BY <1>2, <1>3, FrameLoopsAssumption DEF Steady, Undeceived, Threads
<1>5. ASSUME NEW d \in FrameLoops, NEW e \in Threads, NEW h \in Groups,
             Hydrates(e, h)', hydrating'[h] # e, d # e
      PROVE  pc'[d] \in {"failed", "ended"}
  <2>1. Hydrates(e, h) /\ e # c
    BY <1>5 DEF Hydrates
  <2>2. CASE hydrating[h] # e
    BY <1>2, <1>5, <2>1, <2>2, FrameLoopsAssumption DEF Threads, Undeceived
  <2>3. CASE hydrating[h] = e
    <3>1. op[c] = "hydrate" /\ op[e] = "hydrate"
      BY <1>5, <2>1, <2>3 DEF PopsFuture, IInv, Hydrations
    <3>2. c \in Callers /\ e \in Callers
      BY <3>1 DEF IInv, Sweeping, Threads
    <3>3. d = c
      BY <1>1, <1>5, <2>1, <3>2
    <3> QED
      BY <3>3
  <2> QED
    BY <2>2, <2>3
<1> QED
  BY <1>4, <1>5

LEMMA UndeceivedStep ==
  ASSUME WorkerShape, TypeOK, IInv, Undeceived, Next
  PROVE  Undeceived'
<1>1. TypeOK' /\ IInv' /\ Seen
  BY TypeStep, IInvStep, Observed DEF IInv
<1>2. /\ Steady
      /\ \/ NoNewOrphan
         \/ \E c \in Threads, g \in Groups : FailEvict(c, g)
  <2> USE SweeperAssumption, FrameLoopsThreads, NoneAssumption
      DEF TypeOK, PCs, Hydrates, Undeceived, Steady, NoNewOrphan, phases, Goto
  <2>1. ASSUME NEW c \in Threads, RetryHydrate(c) PROVE Steady /\ NoNewOrphan
    <3>1. /\ target[c] \in Groups /\ op' = [op EXCEPT ![c] = "hydrate"]
          /\ target' = [target EXCEPT ![c] = target[c]]
      BY <2>1 DEF RetryHydrate, IInv, Waiters
    <3> QED
      BY <2>1, <3>1, HydrateLoopSteady DEF RetryHydrate
  <2>2. ASSUME NEW c \in Threads, EvictAfterHydrate(c) PROVE Steady /\ NoNewOrphan
    <3>1. /\ target[c] \in Groups /\ c \in FrameLoops /\ op' = [op EXCEPT ![c] = "evict"]
          /\ target' = [target EXCEPT ![c] = target[c]]
      BY <2>2 DEF EvictAfterHydrate, IInv, Waiters
    <3>2. \/ EvictActive(c, target[c])
          \/ EvictOther(c, target[c], "eWaitEvict")
          \/ EvictOther(c, target[c], "eReturn")
      BY <2>2 DEF EvictAfterHydrate
    <3>3. pc[c] = "eWoken"
      BY <2>2 DEF EvictAfterHydrate
    <3> QED
      BY <3>1, <3>2, <3>3, EvictSteady
  <2>3. ASSUME NEW c \in Threads, Leave(c) \/ EndLoop(c) PROVE Steady /\ NoNewOrphan
    BY <2>3 DEF Leave, EndLoop
  <2>4. ASSUME NEW c \in Threads, NEW g \in Groups, HydrateFail(c, g)
        PROVE  Steady /\ NoNewOrphan
    BY <2>4 DEF HydrateFail, HydrationWakes, IInv, OnePhase
  <2>5. ASSUME NEW c \in Threads, NEW g \in Groups, FinishHydrate(c, g)
        PROVE  Steady /\ NoNewOrphan
    BY <2>5 DEF FinishHydrate, HydrationWakes, IInv, OnePhase
  <2>6. ASSUME NEW c \in Threads, NEW g \in Groups, NEW h \in Groups,
               FinishHydrateEvicting(c, g, h)
        PROVE  Steady /\ NoNewOrphan
    BY <2>6 DEF FinishHydrateEvicting, HydrationWakes, IInv, OnePhase
  <2>7. ASSUME NEW c \in Threads, NEW g \in Groups, Resume(c, g) \/ AbortTasks(c, g)
        PROVE  Steady /\ NoNewOrphan
    BY <2>7 DEF Resume, AbortTasks
  <2>8. ASSUME NEW c \in Threads, NEW g \in Groups, FinishEvict(c, g)
        PROVE  Steady /\ NoNewOrphan
    BY <2>8 DEF FinishEvict, ReleaseLease, AfterEvict, EvictionWakes
  <2>9. ASSUME NEW c \in Callers, NEW g \in Groups, StartHydrate(c, g)
        PROVE  Steady /\ NoNewOrphan
    BY <2>9, HydrateLoopSteady DEF StartHydrate, Threads
  <2>10. ASSUME NEW c \in FrameLoops, NEW g \in Groups, StartEvict(c, g)
         PROVE  Steady /\ NoNewOrphan
    BY <2>10, EvictSteady DEF StartEvict
  <2>11. ASSUME NEW g \in Groups, SweepOne(g) PROVE Steady /\ NoNewOrphan
    BY <2>11 DEF SweepOne, BeginEvict, Threads
  <2>12. CASE StartSweep \/ EndSweep
    BY <2>12 DEF StartSweep, EndSweep, Threads
  <2>13. CASE \/ \E c \in FrameLoops : SpawnTask(c)
              \/ \E g \in Groups : EndTask(g) \/ Expire(g) \/ OtherProcess(g)
    BY <2>13 DEF SpawnTask, EndTask, Expire, OtherProcess
  <2>14. ASSUME NEW c \in Threads, NEW g \in Groups, FailEvict(c, g) PROVE Steady
    BY <2>14, FailEvictOrphans
  <2> QED
    BY <2>1, <2>2, <2>3, <2>4, <2>5, <2>6, <2>7, <2>8, <2>9, <2>10, <2>11, <2>12,
       <2>13, <2>14 DEF Next, Step, Advance, AdvanceSweep
<1>3. \A d \in FrameLoops, e \in Threads, h \in Groups :
        Hydrates(e, h)' /\ hydrating'[h] # e /\ d # e => pc'[d] \in {"failed", "ended"}
  <2>1. CASE NoNewOrphan
    BY <1>2, <2>1 DEF NoNewOrphan, Steady, Undeceived
  <2>2. CASE \E c \in Threads, g \in Groups : FailEvict(c, g)
    BY <2>2, FailEvictOrphans
  <2> QED
    BY <1>2, <2>1, <2>2
<1>4. ASSUME NEW c \in misled' PROVE pc'[c] = "failed"
  <2>1. c \in Threads /\ op'[c] = "evict" /\ (c \in misled \/ Orphaned(target[c])')
    BY <1>4 DEF Next, Observe
  <2>2. c \in FrameLoops /\ pc'[c] # "ended"
    BY <1>2, <2>1 DEF Steady
  <2>3. CASE c \in misled
    BY <1>2, <2>2, <2>3 DEF Undeceived, Steady
  <2>4. CASE Orphaned(target[c])'
    <3>1. PICK d \in Threads : Hydrates(d, target[c])' /\ hydrating'[target'[c]] # d
      BY <2>4 DEF Orphaned
    <3>2. target'[c] \in Groups
      BY <1>2, <3>1 DEF Hydrates, Steady
    <3>3. op'[d] = "hydrate"
      BY <1>1, <3>1, <3>2 DEF IInv, Hydrations, Hydrates
    <3> QED
      BY <1>3, <2>1, <2>2, <3>1, <3>2, <3>3 DEF Hydrates
  <2> QED
    BY <2>1, <2>3, <2>4
<1> QED
  BY <1>2, <1>3, <1>4 DEF Undeceived, Steady

\* In a worker, a normal return of evict(), and so every LEASE_RELEASED, means
\* that the process let go of the group during the call, however many groups
\* it serves and whatever fails.
THEOREM Acknowledged == ASSUME WorkerShape PROVE Spec => []LeaseReleased
<1>1. Init => Undeceived
  BY DEF Init, Undeceived, Hydrates
<1>2. TypeOK /\ IInv /\ Undeceived /\ [Next]_vars => Undeceived'
  <2>1. CASE TypeOK /\ IInv /\ Undeceived /\ UNCHANGED vars
    BY <2>1 DEF vars, phases, Undeceived, Hydrates
  <2> QED
    BY <2>1, UndeceivedStep
<1>3. IInv /\ Undeceived => LeaseReleased
  BY DEF IInv, EvictReleases, Undeceived, LeaseReleased
<1> QED
  BY TypeInit, IInvInit, Inductive, <1>1, <1>2, <1>3, PTL DEF Spec

-----------------------------------------------------------------------------
(* Evictions nobody asked for.                                             *)

\* A candidate that is active and was not touched has still timed out.
Candidates == \A g \in cand \cap active : g \in stale \cup touched

LEMMA CandidatesStep ==
  ASSUME TypeOK, IInv, Candidates, Next
  PROVE  Candidates'
<1> USE DEF TypeOK, Candidates, phases, leases, sweep, Goto, Fresh
<1>1. ASSUME NEW c \in Threads, NEW g \in Groups, HydrateLoop(c, g) PROVE Candidates'
  BY <1>1 DEF HydrateLoop, UseActive, AwaitEviction, Follow, Lead, Refused
<1>2. ASSUME NEW c \in Threads, NEW g,
             \/ EvictActive(c, g)
             \/ \E l \in PCs : EvictOther(c, g, l)
      PROVE  Candidates'
  BY <1>2 DEF EvictActive, EvictOther, BeginEvict
<1>3. ASSUME NEW c \in Threads, Advance(c) PROVE Candidates'
  <2>1. CASE RetryHydrate(c)
    BY <1>1, <2>1 DEF RetryHydrate, IInv, Waiters
  <2>2. CASE EvictAfterHydrate(c)
    BY <1>2, <2>2 DEF EvictAfterHydrate, PCs
  <2>3. ASSUME NEW g \in Groups, FinishHydrate(c, g) PROVE Candidates'
    BY <2>3 DEF FinishHydrate
  <2>4. ASSUME NEW g \in Groups, NEW h \in Groups, FinishHydrateEvicting(c, g, h)
        PROVE  Candidates'
    BY <2>4 DEF FinishHydrateEvicting
  <2>5. CASE Leave(c) \/ EndLoop(c) \/ \E g \in Groups :
               HydrateFail(c, g) \/ Resume(c, g) \/ AbortTasks(c, g)
    BY <2>5 DEF Leave, EndLoop, HydrateFail, Resume, AbortTasks
  <2>6. ASSUME NEW g \in Groups, FinishEvict(c, g) \/ FailEvict(c, g) PROVE Candidates'
    BY <2>6 DEF FinishEvict, FailEvict, ReleaseLease
  <2> QED
    BY <1>3, <2>1, <2>2, <2>3, <2>4, <2>5, <2>6 DEF Advance
<1>4. ASSUME NEW c \in Callers, NEW g \in Groups, StartHydrate(c, g) PROVE Candidates'
  BY <1>1, <1>4 DEF StartHydrate, Threads
<1>5. ASSUME NEW c \in FrameLoops, NEW g \in Groups, StartEvict(c, g) PROVE Candidates'
  BY <1>2, <1>5, FrameLoopsAssumption DEF StartEvict, Threads, PCs
<1>6. CASE StartSweep
  BY <1>6 DEF StartSweep
<1>7. ASSUME NEW g \in Groups, SweepOne(g) PROVE Candidates'
  BY <1>7 DEF SweepOne, BeginEvict
<1>8. CASE EndSweep \/ (\E c \in FrameLoops : SpawnTask(c))
           \/ \E g \in Groups : EndTask(g) \/ Expire(g) \/ OtherProcess(g)
  BY <1>8 DEF EndSweep, SpawnTask, EndTask, Expire, OtherProcess
<1> QED
  BY <1>3, <1>4, <1>5, <1>6, <1>7, <1>8 DEF Next, Step, AdvanceSweep

\* Where an eviction comes from: an explicit evict(), a hydration at capacity
\* that found the group idle, or a sweep that found it idle and not used again.
LEMMA EvictionStarts ==
  ASSUME TypeOK, IInv, Next, NEW g \in Groups,
         evicting'[g] # evicting[g], evicting'[g] # None
  PROVE  \/ op'[evicting'[g]] = "evict" /\ evicting'[g] # Sweeper
         \/ evicting'[g] # Sweeper /\ ~Busy(g)
         \/ evicting'[g] = Sweeper /\ g \in cand /\ StillInactive(g)
<1> USE NoneAssumption, SweeperAssumption
    DEF TypeOK, PCs, IInv, Sweeping, phases, leases, sweep
<1>1. ASSUME NEW c \in Threads, NEW h \in Groups, HydrateLoop(c, h)
      PROVE  evicting' = evicting
  BY <1>1 DEF HydrateLoop, UseActive, AwaitEviction, Follow, Lead, Refused
<1>2. ASSUME NEW c \in Threads, EvictAfterHydrate(c)
      PROVE  op'[evicting'[g]] = "evict" /\ evicting'[g] # Sweeper
  BY <1>2 DEF EvictAfterHydrate, EvictActive, EvictOther, BeginEvict, Waiters
<1>3. ASSUME NEW c \in FrameLoops, NEW h \in Groups, StartEvict(c, h)
      PROVE  op'[evicting'[g]] = "evict" /\ evicting'[g] # Sweeper
  BY <1>3, FrameLoopsAssumption
     DEF StartEvict, EvictActive, EvictOther, BeginEvict, Threads
<1>4. ASSUME NEW c \in Threads, NEW h \in Groups, NEW k \in Groups,
             FinishHydrateEvicting(c, h, k)
      PROVE  evicting'[g] # Sweeper /\ ~Busy(g)
  BY <1>4 DEF FinishHydrateEvicting, LruIdle
<1>5. ASSUME NEW h \in Groups, SweepOne(h)
      PROVE  evicting'[g] = Sweeper /\ g \in cand /\ StillInactive(g)
  BY <1>5 DEF SweepOne, BeginEvict
<1>6. ASSUME \/ StartSweep \/ EndSweep
             \/ \E c \in FrameLoops : SpawnTask(c)
             \/ \E h \in Groups : EndTask(h) \/ Expire(h) \/ OtherProcess(h)
             \/ \E c \in Threads : Leave(c) \/ EndLoop(c) \/ \E h \in Groups :
                  \/ HydrateFail(c, h) \/ Resume(c, h) \/ FinishHydrate(c, h)
                  \/ AbortTasks(c, h) \/ FinishEvict(c, h) \/ FailEvict(c, h)
      PROVE  FALSE
  BY <1>6 DEF StartSweep, EndSweep, SpawnTask, EndTask, Expire, OtherProcess, Leave,
     EndLoop, HydrateFail, Resume, FinishHydrate, AbortTasks, FinishEvict, FailEvict, ReleaseLease
<1> QED
  BY <1>1, <1>2, <1>3, <1>4, <1>5, <1>6
     DEF Next, Step, Advance, AdvanceSweep, StartHydrate, RetryHydrate, Waiters, Threads

\* Eviction for capacity or for inactivity never takes a group that has tasks,
\* whatever happened between the decision and the eviction.
THEOREM IdleEvictions == Spec => IdleEvictionsOnly
<1>1. TypeOK /\ IInv /\ [Next]_vars =>
        [\A g \in Groups :
           (evicting[g] = None /\ evicting'[g] # None /\ op'[evicting'[g]] # "evict")
              => ~Busy(g)]_vars
  BY EvictionStarts DEF StillInactive
<1> QED
  BY TypeInit, IInvInit, Inductive, <1>1, PTL DEF Spec, IdleEvictionsOnly

\* A group used since the sweep listed it, and not idle again for the whole
\* timeout, is never evicted by that sweep: the list is checked when it is used.
THEOREM SweepSpares == Spec => SweepSparesUsedGroups
<1>1. Init => Candidates
  BY DEF Init, Candidates
<1>2. TypeOK /\ IInv /\ Candidates /\ [Next]_vars => Candidates'
  BY CandidatesStep DEF Candidates, vars, phases, sweep
<1>3. TypeOK /\ IInv /\ Candidates /\ [Next]_vars =>
        [\A g \in Groups :
           (evicting[g] # Sweeper /\ evicting'[g] = Sweeper) => g \in stale]_vars
  <2> SUFFICES ASSUME TypeOK, IInv, Candidates, Next, NEW g \in Groups,
                      evicting[g] # Sweeper, evicting'[g] = Sweeper
               PROVE  g \in stale
    OBVIOUS
  <2> QED
    BY EvictionStarts, NoneAssumption, SweeperThread DEF StillInactive, Candidates
<1> QED
  BY TypeInit, IInvInit, Inductive, <1>1, <1>2, <1>3, PTL
     DEF Spec, SweepSparesUsedGroups
-----------------------------------------------------------------------------
(* How many groups are active.                                             *)

\* Where _active_groups grows: the last section of a hydration.
LEMMA ActiveSteps ==
  ASSUME Next, NEW S, S = active'
  PROVE  \/ S \subseteq active
         \/ \E g \in Groups : S = active \cup {g} /\ (AtCapacity => \A h \in active : Busy(h))
         \/ \E g \in Groups, h \in active : S = (active \ {h}) \cup {g}
<1> USE DEF phases, leases, sweep
<1>1. ASSUME NEW c, NEW h, HydrateLoop(c, h)
      PROVE  active' = active
  BY <1>1 DEF HydrateLoop, UseActive, AwaitEviction, Follow, Lead, Refused
<1>2. ASSUME NEW c, NEW h, EvictActive(c, h) \/ \E l : EvictOther(c, h, l)
      PROVE  active' \subseteq active
  BY <1>2 DEF EvictActive, EvictOther, BeginEvict
<1>3. ASSUME NEW c \in Threads, Advance(c) PROVE
             \/ active' \subseteq active
             \/ \E g \in Groups : FinishHydrate(c, g)
             \/ \E g, h \in Groups : FinishHydrateEvicting(c, g, h)
  <2>1. CASE RetryHydrate(c)
    BY <1>1, <2>1 DEF RetryHydrate
  <2>2. CASE EvictAfterHydrate(c)
    BY <1>2, <2>2 DEF EvictAfterHydrate
  <2>3. CASE Leave(c) \/ EndLoop(c) \/ \E g \in Groups :
               \/ HydrateFail(c, g) \/ Resume(c, g) \/ AbortTasks(c, g)
               \/ FinishEvict(c, g) \/ FailEvict(c, g)
    BY <2>3 DEF Leave, EndLoop, HydrateFail, Resume, AbortTasks, FinishEvict, FailEvict, ReleaseLease
  <2> QED
    BY <1>3, <2>1, <2>2, <2>3 DEF Advance
<1>4. ASSUME NEW c, NEW g, StartHydrate(c, g) PROVE active' = active
  BY <1>1, <1>4 DEF StartHydrate
<1>5. ASSUME NEW c, NEW g, StartEvict(c, g) PROVE active' \subseteq active
  BY <1>2, <1>5 DEF StartEvict
<1>6. ASSUME NEW g, SweepOne(g) PROVE active' \subseteq active
  BY <1>6 DEF SweepOne, BeginEvict
<1>7. ASSUME \/ StartSweep \/ EndSweep \/ \E c \in FrameLoops : SpawnTask(c)
             \/ \E g \in Groups : EndTask(g) \/ Expire(g) \/ OtherProcess(g)
      PROVE  active' = active
  BY <1>7 DEF StartSweep, EndSweep, SpawnTask, EndTask, Expire, OtherProcess
<1>8. ASSUME NEW c \in Threads, NEW g \in Groups, FinishHydrate(c, g)
      PROVE  active' = active \cup {g} /\ (AtCapacity => \A h \in active : Busy(h))
  BY <1>8 DEF FinishHydrate
<1>9. ASSUME NEW c \in Threads, NEW g \in Groups, NEW h \in Groups,
             FinishHydrateEvicting(c, g, h)
      PROVE  h \in active /\ active' = (active \ {h}) \cup {g}
  BY <1>9 DEF FinishHydrateEvicting, LruIdle
<1> QED
  BY <1>3, <1>4, <1>5, <1>6, <1>7, <1>8, <1>9 DEF Next, Step, AdvanceSweep

\* An element that takes the place of another one adds nothing.
LEMMA Replacement ==
  ASSUME NEW S, IsFiniteSet(S), NEW h \in S, NEW g, NEW T, T = (S \ {h}) \cup {g}
  PROVE  IsFiniteSet(T) /\ Cardinality(T) <= Cardinality(S)
<1>1. Cardinality(S) \in Nat
  BY FS_CardinalityType
<1>2. PICK R : R = S \ {h} /\ IsFiniteSet(R) /\ Cardinality(R) = Cardinality(S) - 1
  BY FS_RemoveElement
<1>3. /\ IsFiniteSet(R \cup {g})
      /\ Cardinality(R \cup {g}) = IF g \in R THEN Cardinality(R) ELSE Cardinality(R) + 1
  BY <1>2, FS_AddElement
<1>4. T = R \cup {g}
  BY <1>2
<1> QED
  BY <1>1, <1>2, <1>3, <1>4

\* A worker holds finitely many groups, whatever the set it may be given, and
\* has more of them than max_groups only if none of those it had could go: a
\* hydration that finds a group without tasks takes its place.
THEOREM Capacity == Spec => OverCapacityOnlyWhenBusy
<1>1. Init => IsFiniteSet(active)
  BY FS_EmptySet DEF Init
<1>2. IsFiniteSet(active) /\ [Next]_vars => IsFiniteSet(active)'
  <2> SUFFICES ASSUME IsFiniteSet(active), Next, NEW S, S = active'
               PROVE  IsFiniteSet(S)
    BY DEF vars, phases
  <2>1. CASE S \subseteq active
    BY <2>1, FS_Subset
  <2>2. ASSUME NEW g, S = active \cup {g} PROVE IsFiniteSet(S)
    BY <2>2, FS_AddElement
  <2>3. ASSUME NEW g, NEW h \in active, S = (active \ {h}) \cup {g}
        PROVE  IsFiniteSet(S)
    BY <2>3, Replacement
  <2> QED
    BY <2>1, <2>2, <2>3, ActiveSteps
<1>3. IsFiniteSet(active) /\ [Next]_vars =>
        [(Cardinality(active') > Cardinality(active) /\ Cardinality(active') > MaxGroups)
            => \A g \in active : Busy(g)]_vars
  <2> SUFFICES ASSUME IsFiniteSet(active), Next, NEW S, S = active',
                      Cardinality(S) > Cardinality(active), Cardinality(S) > MaxGroups
               PROVE  \A g \in active : Busy(g)
    OBVIOUS
  <2>1. Cardinality(active) \in Nat
    BY FS_CardinalityType
  <2>2. CASE S \subseteq active
    <3>1. Cardinality(S) <= Cardinality(active) /\ IsFiniteSet(S)
      BY <2>2, FS_Subset
    <3>2. Cardinality(S) \in Nat
      BY <3>1, FS_CardinalityType
    <3> QED
      BY <2>1, <3>1, <3>2
  <2>3. ASSUME NEW g \in Groups, S = active \cup {g},
               AtCapacity => \A h \in active : Busy(h)
        PROVE  \A h \in active : Busy(h)
    <3>1. Cardinality(S) = IF g \in active THEN Cardinality(active) ELSE Cardinality(active) + 1
      BY <2>3, FS_AddElement
    <3>2. AtCapacity
      BY <2>1, <3>1, MaxGroupsAssumption DEF AtCapacity
    <3> QED
      BY <2>3, <3>2
  <2>4. ASSUME NEW g \in Groups, NEW h \in active, S = (active \ {h}) \cup {g}
        PROVE  FALSE
    <3>1. IsFiniteSet(S) /\ Cardinality(S) <= Cardinality(active)
      BY <2>4, Replacement
    <3>2. Cardinality(S) \in Nat
      BY <3>1, FS_CardinalityType
    <3> QED
      BY <2>1, <3>1, <3>2
  <2> QED
    BY <2>2, <2>3, <2>4, ActiveSteps
<1> QED
  BY <1>1, <1>2, <1>3, PTL DEF Spec, OverCapacityOnlyWhenBusy
=============================================================================
