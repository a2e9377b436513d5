--------------------------- MODULE AgentTaskProofs ---------------------------
(***************************************************************************)
(* The claims and the runs of AgentTask, and what its row tells of them,   *)
(* for any number of operators, requests, automatic retries and faults.    *)
(***************************************************************************)
EXTENDS AgentTask, SequenceTheorems, TLAPS

Kinds == {"none", "create", "retry", "abort", "delete", "terminate"}
Pcs == {"idle", "claim", "send", "waiting", "acked", "refused",
        "complete", "restore", "unwind", "write", "mark", "remove", "delete"}

RetryPcs == {"send", "waiting", "acked", "refused", "complete", "restore", "unwind"}

\* What a run may say of itself, and what a row may say of a run.
Heard == {"running", "aborted"} \cup Outcomes
Known == Statuses \ ({"incomplete"} \ Outcomes)

Retriers == Users \cup {Detector}
CallSet ==
  {c \in [kind : Kinds, pc : Pcs, prev : (Known \ {"retrying"}) \cup {None}, override : BOOLEAN] :
     /\ c.pc \in {"restore", "unwind"} => c.kind = "retry"
     /\ c.pc = "send" => c.kind \in {"retry", "abort", "terminate"}}
AdapterSet == [local : Statuses \cup {"none"}, active : BOOLEAN, held : BOOLEAN]
ProjSet == [pending : Heard \cup {None}, last : Heard \cup {None}]
FrameSet == {"start", None} \cup Retriers
EventSet == [status : Heard, old : BOOLEAN]

RetryingIn(all, o) == all[o].kind = "retry" /\ all[o].pc \notin {"idle", "claim"}

\* The database and the calls.  A retry under way has the claim, unless the row
\* is gone, and is the only one.
Calls ==
  /\ row \in Known \cup {"none"}
  /\ claim \in Claims \cup {None}
  /\ ops \in [Callers -> CallSet]
  /\ \A o \in Callers : Retrying(o) =>
       /\ o \in Retriers /\ ops[o].pc \in RetryPcs
       /\ ops[o].prev # None
       /\ row = "none" \/ (claim # None /\ claim.owner = o)
       /\ \A p \in Callers : Retrying(p) => p = o

\* The Supervisor's memory of the task.
Sound(a) == a \in AdapterSet /\ (a.active => a.local \notin Terminal \cup {"none"})
Dash ==
  /\ Sound(adapter)
  /\ adapter.held => \E o \in Callers : Retrying(o)
  /\ proj \in ProjSet
  /\ retries \in 0..MaxAutoRetries

\* The worker and its channels.
Wire ==
  /\ frames \in Seq(FrameSet)
  /\ live \in Nat
  /\ events \in Seq(EventSet)
  /\ mixed \subseteq {"creation", "retry", "news"}
  /\ requests \in 0..MaxRequests /\ faults \in 0..MaxFaults

Types == Calls /\ Dash /\ Wire

\* Whoever has a frame on its way waits for the answer, and has one.
Awaited ==
  \A i \in DOMAIN frames : frames[i] \in Callers =>
    /\ ops[frames[i]].pc = "waiting"
    /\ \A j \in DOMAIN frames : frames[j] = frames[i] => j = i

\* Every start is ahead of the abort of a retry, and gone once it is acknowledged.
Cleared ==
  "creation" \notin mixed =>
    \A o \in Callers : Retrying(o) =>
      /\ ops[o].pc = "waiting" =>
           \A i, j \in DOMAIN frames : frames[i] = o /\ frames[j] = "start" => j < i
      /\ ops[o].pc = "acked" => live = 0 /\ Starts = {}

\* Until the task's creation has dispatched it, nothing has happened.
Untouched ==
  /\ row = "created" /\ live = 0 /\ frames = <<>> /\ events = <<>>
  /\ adapter.local = "running" /\ proj.pending = None
  /\ \A o \in Retriers :
       ops[o].pc \in {"idle", "claim"} /\ ops[o].override = FALSE
       /\ (ops[o].pc = "claim" => o # Detector)
Created == "creation" \notin mixed /\ ops[Creator].pc = "acked" => Untouched

RunInv == Awaited /\ OneRun /\ Cleared /\ Created
IInv == Types /\ RunInv

-----------------------------------------------------------------------------
(* The calls                                                               *)

LEMMA ConstantFacts == 
  /\ Detector \in Retriers /\ Users \subseteq Retriers /\ Retriers \subseteq Callers
  /\ Creator \in Callers /\ Creator \notin Retriers
  /\ None \notin Callers /\ "start" \notin Callers /\ None # "start"
  /\ Heard \subseteq Known /\ Known \subseteq Statuses /\ None \notin Statuses
  /\ "none" \notin Statuses /\ None \notin Claims
BY CallersAssumption, NoneAssumption, OutcomesAssumption
DEF Retriers, Callers, Heard, Known, Statuses, Terminal

\* Only retries are restored and unwound; nobody goes back to sending.
Fits(o, pc) == pc \in Pcs \ {"send"} /\ (pc \in {"restore", "unwind"} => ops[o].kind = "retry")

\* Only o is at another place.
LEMMA AtFacts ==
  ASSUME Calls, NEW o \in Callers, NEW pc
  PROVE  /\ At(o, pc)[o].kind = ops[o].kind /\ At(o, pc)[o].pc = pc
         /\ At(o, pc)[o].prev = ops[o].prev /\ At(o, pc)[o].override = ops[o].override
         /\ \A p \in Callers : p # o => At(o, pc)[p] = ops[p]
         /\ Fits(o, pc) => At(o, pc) \in [Callers -> CallSet]
<1>1. ops[o] \in CallSet /\ ops \in [Callers -> CallSet]
  BY DEF Calls
<1>2. /\ [ops[o] EXCEPT !.pc = pc].kind = ops[o].kind
      /\ [ops[o] EXCEPT !.pc = pc].pc = pc
      /\ [ops[o] EXCEPT !.pc = pc].prev = ops[o].prev
      /\ [ops[o] EXCEPT !.pc = pc].override = ops[o].override
      /\ Fits(o, pc) => [ops[o] EXCEPT !.pc = pc] \in CallSet
  BY <1>1 DEF CallSet, Fits
<1> DEFINE c == [ops[o] EXCEPT !.pc = pc]
<1>3. At(o, pc) = [ops EXCEPT ![o] = c]
  BY DEF At
<1>4. At(o, pc)[o] = c
  BY <1>1, <1>3
<1>5. \A p \in Callers : p # o => At(o, pc)[p] = ops[p]
  BY <1>1, <1>3
<1>6. ASSUME Fits(o, pc) PROVE At(o, pc) \in [Callers -> CallSet]
  <2>1. c \in CallSet
    BY <1>2, <1>6
  <2> HIDE DEF c
  <2> QED
    BY <1>1, <1>3, <2>1
<1> QED
  BY <1>2, <1>4, <1>5, <1>6

\* What a step leaves of the retries: nobody else begins or ends one.
Keeps(all, gone) ==
  /\ all \in [Callers -> CallSet]
  /\ \A p \in Callers : RetryingIn(all, p) <=> (Retrying(p) /\ p # gone)
  /\ \A p \in Callers : RetryingIn(all, p) =>
       /\ all[p].prev = ops[p].prev /\ all[p].pc \in RetryPcs
       /\ all[p].pc = "send" => ops[p].pc = "send"

\* The detector's retry that has not heard of its claim.
Unheard(p) == p = Detector /\ ops[p].pc = "send"

\* What a step leaves of the retries when it may cancel the detector's.
Leaves(all, gone) ==
  /\ all \in [Callers -> CallSet]
  /\ \A p \in Callers : RetryingIn(all, p) =>
       Retrying(p) /\ p # gone /\ all[p].prev = ops[p].prev /\ all[p].pc \in RetryPcs
  /\ \A p \in Callers : Retrying(p) /\ p # gone => RetryingIn(all, p) \/ Unheard(p)

LEMMA KeepsLeaves ==
  ASSUME NEW all, NEW gone, Keeps(all, gone)
  PROVE  Leaves(all, gone)
BY DEF Keeps, Leaves

LEMMA IdleType == Idle \in CallSet /\ Idle.kind = "none" /\ Idle.pc = "idle"
BY DEF Idle, Call, CallSet, Kinds, Pcs

LEMMA KeepsSame == Calls => Keeps(ops, None)
BY ConstantFacts DEF Calls, Keeps, RetryingIn, Retrying

LEMMA KeepsAt ==
  ASSUME Calls, NEW o \in Callers, NEW pc \in Pcs \ {"idle", "claim"},
         Fits(o, pc), ops[o].kind = "retry" => Retrying(o) /\ pc \in RetryPcs
  PROVE  Keeps(At(o, pc), None)
<1>1. At(o, pc) \in [Callers -> CallSet]
  BY AtFacts
<1>2. ASSUME NEW p \in Callers
      PROVE  /\ RetryingIn(At(o, pc), p) <=> (Retrying(p) /\ p # None)
             /\ At(o, pc)[p].prev = ops[p].prev
             /\ RetryingIn(At(o, pc), p) =>
                  /\ At(o, pc)[p].pc \in RetryPcs
                  /\ At(o, pc)[p].pc = "send" => ops[p].pc = "send"
  <2>1. p # None
    BY ConstantFacts
  <2>2. CASE p = o
    BY <2>1, <2>2, AtFacts DEF RetryingIn, Retrying, RetryPcs, Fits
  <2>3. CASE p # o
    BY <2>1, <2>3, AtFacts DEF RetryingIn, Retrying, Calls
  <2> QED
    BY <2>2, <2>3
<1> QED
  BY <1>1, <1>2 DEF Keeps

\* A call that is no retry under way is replaced by another.
LEMMA KeepsNew ==
  ASSUME Calls, NEW o \in Callers, NEW c \in CallSet, ~Retrying(o),
         c.kind = "retry" => c.pc \in {"idle", "claim"}
  PROVE  Keeps([ops EXCEPT ![o] = c], None)
<1>1. ops \in [Callers -> CallSet]
  BY DEF Calls
<1>2. ASSUME NEW p \in Callers, p # o PROVE [ops EXCEPT ![o] = c][p] = ops[p]
  BY <1>1, <1>2
<1>3. [ops EXCEPT ![o] = c][o] = c /\ [ops EXCEPT ![o] = c] \in [Callers -> CallSet]
  BY <1>1
<1>4. None \notin Callers /\ \A p \in Callers : Retrying(p) => ops[p].pc \in RetryPcs
  BY ConstantFacts DEF Calls
<1> QED
  BY <1>2, <1>3, <1>4 DEF Keeps, RetryingIn, Retrying

LEMMA KeepsFinished ==
  ASSUME Calls, NEW o \in Callers
  PROVE  /\ Keeps(Finished(o), o)
         /\ Finished(o)[o] = Idle
         /\ \A p \in Callers : p # o => Finished(o)[p] = ops[p]
         /\ ~Retrying(o) => Keeps(Finished(o), None)
<1>1. ops \in [Callers -> CallSet]
  BY DEF Calls
<1>2. \A p \in Callers : p # o => Finished(o)[p] = ops[p]
  BY <1>1 DEF Finished
<1>3. Finished(o)[o] = Idle /\ Finished(o) \in [Callers -> CallSet]
  BY <1>1, IdleType DEF Finished
<1>4. Keeps(Finished(o), o)
  <2>1. \A p \in Callers : Retrying(p) => ops[p].pc \in RetryPcs
    BY DEF Calls
  <2> QED
    BY <1>2, <1>3, <2>1, IdleType DEF Keeps, RetryingIn, Retrying
<1>5. ~Retrying(o) => Keeps(Finished(o), None)
  BY <1>4, ConstantFacts DEF Keeps
<1> QED
  BY <1>2, <1>3, <1>4, <1>5

\* What becomes of the detector's call when it forgets the task.
LEMMA ForgottenFacts ==
  ASSUME NEW all \in [Callers -> CallSet],
         RetryingIn(all, Detector) => all[Detector].pc \in RetryPcs
  PROVE  /\ Forgotten(all) \in [Callers -> CallSet]
         /\ \A p \in Callers : p # Detector => Forgotten(all)[p] = all[p]
         /\ RetryingIn(Forgotten(all), Detector) <=>
              RetryingIn(all, Detector) /\ all[Detector].pc # "send"
         /\ RetryingIn(Forgotten(all), Detector) =>
              Forgotten(all)[Detector].prev = all[Detector].prev
         /\ Forgotten(all)[Detector].pc \in {"idle", "unwind", "restore"}
<1> DEFINE d == all[Detector]
           e == [d EXCEPT !.pc = "unwind"]
           f == CASE d.kind = "retry" /\ d.pc \in {"waiting", "acked", "refused", "complete"} -> e
                  [] d.pc \in {"restore", "unwind"} -> d
                  [] OTHER -> Idle
<1>1. d \in CallSet /\ Detector \in Callers
  BY ConstantFacts
<1>2. /\ d.kind = "retry" => e \in CallSet
      /\ e.pc = "unwind" /\ e.kind = d.kind /\ e.prev = d.prev
  BY <1>1 DEF CallSet, Pcs
<1>3. Forgotten(all) = [all EXCEPT ![Detector] = f]
  BY DEF Forgotten
<1>4. /\ f \in CallSet
      /\ (f.kind = "retry" /\ f.pc \notin {"idle", "claim"}) <=>
           RetryingIn(all, Detector) /\ d.pc # "send"
      /\ RetryingIn(all, Detector) /\ d.pc # "send" => f.prev = d.prev
      /\ f.pc \in {"idle", "unwind", "restore"}
  <2> HIDE DEF e
  <2>1. CASE d.kind = "retry" /\ d.pc \in {"waiting", "acked", "refused", "complete"}
    <3>1. f = e /\ RetryingIn(all, Detector)
      BY <2>1 DEF RetryingIn
    <3> HIDE DEF f
    <3> QED
      BY <1>2, <2>1, <3>1
  <2>2. CASE d.pc \in {"restore", "unwind"}
    <3>1. f = d
      BY <2>2
    <3> HIDE DEF f
    <3> QED
      BY <1>1, <2>2, <3>1 DEF RetryingIn
  <2>3. CASE /\ ~(d.kind = "retry" /\ d.pc \in {"waiting", "acked", "refused", "complete"})
             /\ d.pc \notin {"restore", "unwind"}
    <3>1. f = Idle /\ (RetryingIn(all, Detector) => d.pc = "send")
      BY <2>3 DEF RetryPcs, RetryingIn
    <3> HIDE DEF f
    <3> QED
      BY IdleType, <3>1
  <2> QED
    BY <2>1, <2>2, <2>3
<1> HIDE DEF f
<1>5. Forgotten(all)[Detector] = f /\ Forgotten(all) \in [Callers -> CallSet]
  BY <1>1, <1>3, <1>4
<1>6. \A p \in Callers : p # Detector => Forgotten(all)[p] = all[p]
  BY <1>3
<1> QED
  BY <1>4, <1>5, <1>6 DEF RetryingIn

LEMMA KeepsForgotten ==
  ASSUME NEW all, NEW gone, Keeps(all, gone)
  PROVE  Leaves(Forgotten(all), gone)
<1>1. /\ Detector \in Callers /\ all \in [Callers -> CallSet]
      /\ RetryingIn(all, Detector) => all[Detector].pc \in RetryPcs
  BY ConstantFacts DEF Keeps
<1>2. ASSUME NEW p \in Callers
      PROVE  /\ RetryingIn(Forgotten(all), p) =>
                  /\ Retrying(p) /\ p # gone
                  /\ Forgotten(all)[p].prev = ops[p].prev /\ Forgotten(all)[p].pc \in RetryPcs
             /\ Retrying(p) /\ p # gone => RetryingIn(Forgotten(all), p) \/ Unheard(p)
  <2>1. CASE p = Detector
    <3>1. /\ RetryingIn(Forgotten(all), p) <=> RetryingIn(all, p) /\ all[p].pc # "send"
          /\ RetryingIn(Forgotten(all), p) => Forgotten(all)[p].prev = all[p].prev
          /\ Forgotten(all)[p].pc \in {"idle", "unwind", "restore"}
      BY <1>1, <2>1, ForgottenFacts
    <3>2. RetryingIn(Forgotten(all), p) => Forgotten(all)[p].pc \in RetryPcs
      BY <3>1 DEF RetryingIn, RetryPcs
    <3>3. RetryingIn(all, p) /\ all[p].pc = "send" => Unheard(p)
      BY <2>1 DEF Keeps, Unheard
    <3> QED
      BY <3>1, <3>2, <3>3 DEF Keeps
  <2>2. CASE p # Detector
    <3>1. Forgotten(all)[p] = all[p]
      BY <1>1, <2>2, ForgottenFacts
    <3> QED
      BY <3>1 DEF Keeps, RetryingIn
  <2> QED
    BY <2>1, <2>2
<1>3. Forgotten(all) \in [Callers -> CallSet]
  BY <1>1, ForgottenFacts
<1> QED
  BY <1>2, <1>3 DEF Leaves

\* What a step may do to row and claim, given what it leaves of the retries.
Settled(gone) ==
  /\ row' \in Known \cup {"none"} /\ (row = "none" => row' = "none")
  /\ \/ row' # "retrying"
     \/ "incomplete" \in Outcomes
     \/ row' = row /\ claim' = claim /\ (claim # None => gone # claim.owner)
  /\ \/ claim' = claim
     \/ claim' = None /\ (row' = "none" \/ \A p \in Callers : ~Retrying(p))

\* A row is left in "retrying" only by the retry that has not heard of its claim.
GivesBack ==
  "incomplete" \notin Outcomes /\ RetryingHasOwner => RetryingHasOwner' \/ Unheard(claim.owner)

LEMMA CallsStep ==
  ASSUME Calls, NEW gone, Leaves(ops', gone), Settled(gone)
  PROVE  Calls' /\ GivesBack
<1>1. \A p \in Callers :
        /\ RetryingIn(ops', p) => Retrying(p) /\ p # gone
        /\ RetryingIn(ops', p) => ops'[p].prev = ops[p].prev /\ ops'[p].pc \in RetryPcs
        /\ Retrying(p) /\ p # gone => RetryingIn(ops', p) \/ Unheard(p)
  BY DEF Leaves
<1>2. ASSUME NEW o \in Callers, RetryingIn(ops', o)
      PROVE  /\ o \in Retriers /\ ops'[o].pc \in RetryPcs
             /\ ops'[o].prev # None
             /\ row' = "none" \/ (claim' # None /\ claim'.owner = o)
             /\ \A p \in Callers : RetryingIn(ops', p) => p = o
  <2>1. /\ Retrying(o) /\ ops'[o].prev = ops[o].prev /\ ops'[o].pc \in RetryPcs
        /\ o \in Retriers /\ ops[o].prev # None
        /\ \A p \in Callers : Retrying(p) => p = o
    BY <1>1, <1>2 DEF Calls
  <2>2. row = "none" \/ (claim # None /\ claim.owner = o)
    BY <2>1 DEF Calls
  <2>3. row' = "none" \/ (claim' # None /\ claim'.owner = o)
    BY <2>1, <2>2 DEF Settled
  <2> QED
    BY <1>1, <2>1, <2>3
<1>3. GivesBack
  <2> SUFFICES ASSUME "incomplete" \notin Outcomes, RetryingHasOwner, row' = "retrying",
                      ~Unheard(claim.owner)
               PROVE  claim' # None /\ RetryingIn(ops', claim'.owner)
    BY DEF GivesBack, RetryingHasOwner, Retrying, RetryingIn
  <2>1. row = "retrying" /\ claim' = claim /\ (claim # None => gone # claim.owner)
    BY DEF Settled
  <2>2. claim # None /\ Retrying(claim.owner)
    BY <2>1 DEF RetryingHasOwner
  <2>3. claim.owner \in Callers
    BY <2>2, ConstantFacts DEF Calls, Claims, Retriers
  <2> QED
    BY <1>1, <2>1, <2>2, <2>3
<1>4. row' \in Known \cup {"none"} /\ claim' \in Claims \cup {None}
  BY DEF Settled, Calls
<1>5. ops' \in [Callers -> CallSet]
  BY DEF Leaves
<1> QED
  BY <1>2, <1>3, <1>4, <1>5 DEF Calls, Retrying, RetryingIn

\* The common case.
LEMMA CallsKept ==
  ASSUME Calls, Leaves(ops', None), UNCHANGED database
  PROVE  Calls' /\ GivesBack
<1>1. claim # None => claim.owner # None
  BY ConstantFacts DEF Calls, Claims, Retriers
<1>2. Settled(None)
  BY <1>1 DEF Settled, Calls, database
<1> QED
  BY <1>2, CallsStep
-----------------------------------------------------------------------------
(* The dashboard and the channels                                          *)

LEMMA ShownFacts ==
  ASSUME NEW a, Sound(a), NEW s \in Statuses
  PROVE  Sound(Shown(a, s)) /\ Shown(a, s).held = a.held
<1>1. CASE Hears(a, s)
  <2> DEFINE b == [local |-> s, active |-> a.active /\ s \notin Terminal, held |-> a.held]
  <2>1. a.held \in BOOLEAN
    BY DEF Sound, AdapterSet
  <2>2. b \in AdapterSet /\ b.held = a.held
    BY <2>1 DEF AdapterSet
  <2>3. b.active => b.local \notin Terminal \cup {"none"}
    BY ConstantFacts
  <2>4. Shown(a, s) = b
    BY <1>1 DEF Shown
  <2> HIDE DEF b
  <2> QED
    BY <2>2, <2>3, <2>4 DEF Sound
<1>2. CASE ~Hears(a, s)
  BY <1>2 DEF Shown
<1> QED
  BY <1>1, <1>2

LEMMA FreedFacts ==
  ASSUME NEW a, Sound(a)
  PROVE  /\ Sound([a EXCEPT !.held = FALSE]) /\ [a EXCEPT !.held = FALSE].held = FALSE
         /\ [a EXCEPT !.held = FALSE].local = a.local
BY DEF Sound, AdapterSet

LEMMA ProjectedType ==
  ASSUME Dash, NEW s \in Heard
  PROVE  Projected(s) \in ProjSet
BY DEF Dash, Projected, ProjSet

\* The frames keep their places.
LEMMA UnawaitedFacts ==
  ASSUME NEW S, None \in S, frames \in Seq(S), NEW o
  PROVE  /\ Unawaited(o) \in Seq(S)
         /\ DOMAIN Unawaited(o) = DOMAIN frames
         /\ \A i \in DOMAIN frames : Unawaited(o)[i] = IF frames[i] = o THEN None ELSE frames[i]
<1>1. DOMAIN frames = 1..Len(frames) /\ Len(frames) \in Nat /\ frames \in [1..Len(frames) -> S]
  BY LenProperties, ElementOfSeq
<1>2. Unawaited(o) \in [1..Len(frames) -> S]
  BY <1>1 DEF Unawaited
<1>3. Unawaited(o) \in Seq(S)
  BY <1>1, <1>2, SeqDef
<1> QED
  BY <1>3 DEF Unawaited

\* What a step may do to the adapter, given what it leaves of the retries.
LEMMA DashStep ==
  ASSUME Calls, Dash, NEW gone, adapter'.held => Keeps(ops', gone), Sound(adapter'),
         adapter'.held => adapter.held /\ gone \notin Callers,
         proj' \in ProjSet, retries' \in 0..MaxAutoRetries
  PROVE  Dash'
<1>1. adapter'.held => \E o \in Callers : RetryingIn(ops', o)
  <2> SUFFICES ASSUME adapter'.held PROVE \E o \in Callers : RetryingIn(ops', o)
    OBVIOUS
  <2>1. PICK o \in Callers : Retrying(o)
    BY DEF Dash
  <2> QED
    BY <2>1 DEF Keeps
<1>2. adapter'.held => \E o \in Callers : Retrying(o)'
  BY <1>1 DEF Retrying, RetryingIn
<1> QED
  BY <1>2 DEF Dash, Sound

LEMMA DashKept ==
  ASSUME Calls, Dash, Keeps(ops', None), UNCHANGED dashboard
  PROVE  Dash'
<1>1. UNCHANGED <<adapter, proj, retries>>
  BY DEF dashboard
<1>2. Sound(adapter') /\ proj' \in ProjSet /\ retries' \in 0..MaxAutoRetries
  BY <1>1 DEF Dash, Sound
<1> QED
  BY <1>1, <1>2, DashStep, ConstantFacts

\* The status s reaches an adapter that holds back as much as before.
LEMMA ShowFacts ==
  ASSUME Types, NEW a, Sound(a), NEW s \in Statuses, NEW all, NEW gone, Keeps(all, gone),
         Show(a, s, all)
  PROVE  /\ Sound(adapter') /\ adapter'.held = a.held
         /\ retries' \in 0..MaxAutoRetries
         /\ Leaves(ops', gone)
         /\ adapter'.held => Keeps(ops', gone)
         /\ frames' \in Seq(FrameSet)
<1>1. adapter' = Shown(a, s)
  BY DEF Show
<1>2. 0 \in 0..MaxAutoRetries
  BY AutoRetriesAssumption
<1>3. frames \in Seq(FrameSet) /\ None \in FrameSet
  BY DEF Types, Wire, FrameSet
<1>4. Unawaited(Detector) \in Seq(FrameSet)
  BY <1>3, UnawaitedFacts
<1>5. CASE Retires(a, s)
  <2>1. retries' = 0 /\ ops' = Forgotten(all) /\ frames' = Unawaited(Detector)
    BY <1>5 DEF Show
  <2>2. ~a.held
    BY <1>5 DEF Retires, Hears, Terminal
  <2> QED
    BY <1>1, <1>2, <1>4, <2>1, <2>2, ShownFacts, KeepsForgotten
<1>6. CASE ~Retires(a, s)
  <2>1. ops' = all /\ retries' = retries /\ frames' = frames
    BY <1>6 DEF Show
  <2> QED
    BY <1>1, <1>3, <2>1, ShownFacts, KeepsLeaves DEF Types, Dash
<1> QED
  BY <1>5, <1>6

LEMMA FaultType == Wire /\ Fault => requests' \in 0..MaxRequests /\ faults' \in 0..MaxFaults
BY BoundsAssumption DEF Wire, Fault

LEMMA RequestType == Wire /\ Request => requests' \in 0..MaxRequests /\ faults' \in 0..MaxFaults
BY BoundsAssumption DEF Wire, Request

LEMMA DispatchingType == Dispatching \subseteq {"creation", "retry"}
BY DEF Dispatching

\* The channels as they were.
LEMMA WireKept ==
  ASSUME Wire, frames' \in Seq(FrameSet), UNCHANGED <<live, events>>,
         mixed' \subseteq mixed \cup {"creation", "retry", "news"},
         UNCHANGED bounds \/ Fault \/ Request
  PROVE  Wire'
<1>1. requests' \in 0..MaxRequests /\ faults' \in 0..MaxFaults
  BY FaultType, RequestType DEF Wire, bounds
<1> QED
  BY <1>1 DEF Wire
-----------------------------------------------------------------------------
(* Types, action by action                                                 *)

LEMMA CallType ==
  ASSUME NEW kind \in Kinds, NEW pc \in Pcs \ {"restore", "unwind"},
         pc = "send" => kind \in {"retry", "abort", "terminate"}
  PROVE  Call(kind, pc) \in CallSet /\ Call(kind, pc).kind = kind /\ Call(kind, pc).pc = pc
BY DEF Call, CallSet

\* A call begins, and changes nothing else.
LEMMA BeginTypes ==
  ASSUME Types, NEW o \in Callers, ~Busy(o), NEW c \in CallSet,
         c.kind = "retry" => c.pc \in {"idle", "claim"},
         ops' = [ops EXCEPT ![o] = c], retries' \in 0..MaxAutoRetries,
         UNCHANGED <<database, adapter, proj, worker>>,
         mixed' \subseteq mixed \cup Dispatching, UNCHANGED bounds \/ Request
  PROVE  Types' /\ GivesBack
<1>1. Keeps(ops', None)
  BY KeepsNew DEF Busy, Retrying, Types
<1>2. Calls' /\ GivesBack
  BY <1>1, CallsKept, KeepsLeaves DEF Types
<1>3. Dash'
  <2>1. Sound(adapter') /\ proj' \in ProjSet /\ None \notin Callers /\ adapter' = adapter
    BY ConstantFacts DEF Types, Dash, Sound
  <2> QED
    BY <1>1, <2>1, DashStep DEF Types
<1>4. Wire'
  BY WireKept, DispatchingType DEF worker, Types, Wire
<1> QED
  BY <1>2, <1>3, <1>4 DEF Types

LEMMA BeginningTypes ==
  ASSUME Types, NEW u \in Users, BeginRetry(u) \/ BeginAbort(u) \/ BeginDelete(u)
  PROVE  Types' /\ GivesBack
<1>0. u \in Callers /\ UNCHANGED <<database, adapter, proj, worker>> /\ retries' \in 0..MaxAutoRetries
  BY ConstantFacts DEF BeginRetry, BeginAbort, BeginDelete, dashboard, Types, Dash
<1>1. CASE BeginRetry(u)
  <2> DEFINE c == [kind |-> "retry", pc |-> "claim", prev |-> None,
                   override |-> adapter.local = "stuck"]
  <2>1. c \in CallSet /\ c.pc = "claim"
    BY DEF CallSet, Kinds, Pcs
  <2>2. /\ ops' = [ops EXCEPT ![u] = c] /\ ~Busy(u)
        /\ mixed' \subseteq mixed \cup Dispatching /\ Request
    BY <1>1 DEF BeginRetry
  <2> HIDE DEF c
  <2> QED
    BY <1>0, <2>1, <2>2, BeginTypes
<1>2. CASE BeginAbort(u)
  <2>1. Call("abort", "send") \in CallSet /\ Call("abort", "send").kind = "abort"
    BY CallType DEF Kinds, Pcs
  <2>2. /\ ops' = [ops EXCEPT ![u] = Call("abort", "send")] /\ ~Busy(u)
        /\ mixed' \subseteq mixed \cup Dispatching /\ Request
    BY <1>2 DEF BeginAbort
  <2> QED
    BY <1>0, <2>1, <2>2, BeginTypes
<1>3. CASE BeginDelete(u)
  <2>1. Call("delete", "remove") \in CallSet /\ Call("delete", "remove").kind = "delete"
    BY CallType DEF Kinds, Pcs
  <2>2. /\ ops' = [ops EXCEPT ![u] = Call("delete", "remove")] /\ ~Busy(u)
        /\ mixed' \subseteq mixed \cup Dispatching /\ Request
    BY <1>3 DEF BeginDelete
  <2> QED
    BY <1>0, <2>1, <2>2, BeginTypes
<1> QED
  BY <1>1, <1>2, <1>3

LEMMA FoundIdleTypes == Types /\ FoundIdle => Types' /\ GivesBack
<1> SUFFICES ASSUME Types, FoundIdle PROVE Types' /\ GivesBack
  OBVIOUS
<1>1. /\ Detector \in Callers /\ ~Busy(Detector)
      /\ UNCHANGED <<database, adapter, proj, worker, bounds>>
  BY ConstantFacts DEF FoundIdle
<1>2. CASE retries < MaxAutoRetries
  <2>1. Call("retry", "claim") \in CallSet /\ Call("retry", "claim").pc = "claim"
    BY CallType DEF Kinds, Pcs
  <2>2. /\ ops' = [ops EXCEPT ![Detector] = Call("retry", "claim")]
        /\ retries' = retries + 1 /\ mixed' = mixed
    BY <1>2 DEF FoundIdle
  <2>3. retries' \in 0..MaxAutoRetries
    BY <1>2, <2>2, AutoRetriesAssumption DEF Types, Dash
  <2> QED
    BY <1>1, <2>1, <2>2, <2>3, BeginTypes
<1>3. CASE ~(retries < MaxAutoRetries)
  <2>1. Call("terminate", "send") \in CallSet /\ Call("terminate", "send").kind = "terminate"
    BY CallType DEF Kinds, Pcs
  <2>2. /\ ops' = [ops EXCEPT ![Detector] = Call("terminate", "send")]
        /\ retries' = retries /\ mixed' = mixed \cup Dispatching
    BY <1>3 DEF FoundIdle
  <2>3. retries' \in 0..MaxAutoRetries
    BY <2>2 DEF Types, Dash
  <2> QED
    BY <1>1, <2>1, <2>2, <2>3, BeginTypes
<1> QED
  BY <1>2, <1>3

\* The retry that claims is the only one, and knows where to go back to.
LEMMA ClaimTypes ==
  ASSUME Types, NEW o \in Retriers, Claim(o)
  PROVE  Types' /\ GivesBack
<1> DEFINE c == [kind |-> "retry", pc |-> "send", prev |-> Recovered, override |-> ops[o].override]
           k == [owner |-> o, prev |-> Recovered]
<1>1. o \in Callers /\ ops[o] \in CallSet /\ ops[o].pc = "claim" /\ ops \in [Callers -> CallSet]
  BY ConstantFacts DEF Types, Calls, Claim
<1>2. /\ Recovered \in Known \ {"retrying"} /\ Recovered # None /\ Recovered \in Statuses
      /\ row # "none"
  <2>1. Recovered \in Eligible(o) /\ Recovered \in {row, "stuck"} /\ (row = "none" => Recovered = row)
    BY DEF Claim, Recovered
  <2>2. Recovered \notin {"retrying", "none"}
    BY <2>1 DEF Eligible
  <2>3. "stuck" \in Known /\ row \in Known \cup {"none"}
    BY OutcomesAssumption DEF Known, Statuses, Terminal, Types, Calls
  <2> QED
    BY <2>1, <2>2, <2>3, ConstantFacts
<1>3. c \in CallSet /\ c.kind = "retry" /\ c.pc = "send" /\ c.prev # None
  BY <1>1, <1>2 DEF CallSet, Kinds, Pcs
<1>4. k \in Claims /\ k # None /\ k.owner = o
  BY <1>2, ConstantFacts DEF Claims, Retriers
<1>5. row' = "retrying" /\ claim' = k /\ ops' = [ops EXCEPT ![o] = c]
  BY DEF Claim
<1> HIDE DEF c, k
<1>6. ops' \in [Callers -> CallSet] /\ ops'[o] = c /\ \A p \in Callers : p # o => ops'[p] = ops[p]
  BY <1>1, <1>3, <1>5
<1>7. \A p \in Callers : ~Retrying(p)
  <2> SUFFICES ASSUME NEW p \in Callers, Retrying(p) PROVE FALSE
    OBVIOUS
  <2>1. claim # None /\ claim.owner = p
    BY <1>2 DEF Types, Calls
  <2>2. ClaimsOpen = {}
    BY <2>1 DEF ClaimsOpen
  <2> QED
    BY <2>2 DEF Claim
<1>8. \A p \in Callers : RetryingIn(ops', p) <=> p = o
  BY <1>3, <1>6, <1>7 DEF RetryingIn, Retrying
<1>9. "retrying" \in Known
  BY OutcomesAssumption DEF Known, Statuses
<1>10. Calls' /\ GivesBack
  <2>1. ASSUME NEW p \in Callers, RetryingIn(ops', p)
        PROVE  /\ p \in Retriers /\ ops'[p].pc \in RetryPcs
               /\ ops'[p].prev # None
               /\ row' = "none" \/ (claim' # None /\ claim'.owner = p)
               /\ \A q \in Callers : RetryingIn(ops', q) => q = p
    BY <1>3, <1>4, <1>5, <1>6, <1>8, <2>1 DEF RetryPcs
  <2>2. claim' # None /\ RetryingIn(ops', claim'.owner)
    BY <1>1, <1>4, <1>5, <1>8
  <2>3. RetryingHasOwner'
    BY <2>2 DEF RetryingHasOwner, Retrying, RetryingIn
  <2> QED
    BY <1>4, <1>5, <1>6, <1>9, <2>1, <2>3 DEF Calls, Retrying, RetryingIn, GivesBack
<1>11. Dash'
  <2>1. UNCHANGED <<adapter, proj, retries>>
    BY DEF Claim, dashboard
  <2>2. Retrying(o)'
    BY <1>1, <1>8 DEF RetryingIn, Retrying
  <2> QED
    BY <1>1, <2>1, <2>2 DEF Types, Dash, Sound
<1>12. Wire'
  <2>1. /\ UNCHANGED <<frames, live, events, bounds>>
        /\ mixed' \subseteq mixed \cup {"creation", "retry", "news"}
    BY DEF Claim, worker
  <2> QED
    BY <2>1, WireKept DEF Types, Wire
<1> QED
  BY <1>10, <1>11, <1>12 DEF Types
\* A call goes on, and changes nothing else in the dashboard.
LEMMA StepTypes ==
  ASSUME Types, NEW gone, Keeps(ops', gone), Settled(gone), UNCHANGED dashboard,
         gone \notin Callers, Wire'
  PROVE  Types' /\ GivesBack
<1>1. Calls' /\ GivesBack
  BY CallsStep, KeepsLeaves DEF Types
<1>2. Sound(adapter') /\ proj' \in ProjSet /\ retries' \in 0..MaxAutoRetries
      /\ adapter' = adapter
  BY DEF dashboard, Types, Dash, Sound
<1>3. Dash'
  BY <1>2, DashStep DEF Types
<1> QED
  BY <1>1, <1>3 DEF Types

LEMMA SameDatabase ==
  ASSUME Types, UNCHANGED database
  PROVE  Settled(None)
<1>1. claim # None => claim.owner # None
  BY ConstantFacts DEF Types, Calls, Claims, Retriers
<1> QED
  BY <1>1 DEF Settled, Types, Calls, database

LEMMA ConflictTypes ==
  ASSUME Types, NEW o \in Retriers, Conflict(o)
  PROVE  Types' /\ GivesBack
<1>1. o \in Callers /\ ~Retrying(o)
  BY ConstantFacts DEF Conflict, Retrying
<1>2. Keeps(Finished(o), None)
  BY <1>1, KeepsFinished DEF Types
<1>3. Settled(None)
  <2>1. CASE UNCHANGED database
    BY <2>1, SameDatabase
  <2>2. CASE /\ claim \in ClaimsOpen /\ Recovered \notin Eligible(o)
             /\ row' = Recovered /\ claim' = None
    <3>1. "stuck" \in Known /\ row \in Known \cup {"none"}
      BY OutcomesAssumption DEF Known, Statuses, Terminal, Types, Calls
    <3>2. Recovered \in Known \cup {"none"} /\ (row = "none" => Recovered = "none")
      BY <3>1 DEF Recovered
    <3>3. row' = "none" \/ \A p \in Callers : ~Retrying(p)
      <4> SUFFICES ASSUME row # "none", NEW p \in Callers, Retrying(p) PROVE FALSE
        BY <2>2, <3>2
      <4>1. claim # None /\ claim.owner = p
        BY DEF Types, Calls
      <4> QED
        BY <2>2, <4>1 DEF ClaimsOpen
    <3>4. row' = "retrying" => row' = row /\ claim' = claim /\ claim = None
      BY <2>2 DEF Recovered
    <3> QED
      BY <2>2, <3>2, <3>3, <3>4 DEF Settled
  <2> QED
    BY <2>1, <2>2 DEF Conflict
<1>4. UNCHANGED <<proj, live, events, mixed, bounds>>
  BY DEF Conflict
<1>5. /\ Sound(adapter') /\ adapter'.held = adapter.held /\ retries' \in 0..MaxAutoRetries
      /\ Leaves(ops', None) /\ (adapter'.held => Keeps(ops', None))
      /\ frames' \in Seq(FrameSet)
  <2>1. CASE o = Detector
    <3>1. PICK s \in Terminal \cup {"retrying", "stuck"} : Show(adapter, s, Finished(o))
      BY <2>1 DEF Conflict
    <3>2. s \in Statuses /\ Sound(adapter)
      BY DEF Statuses, Types, Dash
    <3> QED
      BY <1>2, <3>1, <3>2, ShowFacts
  <2>2. CASE o # Detector
    <3>1. ops' = Finished(o) /\ UNCHANGED <<adapter, retries, frames>>
      BY <2>2 DEF Conflict
    <3> QED
      BY <1>2, <3>1, KeepsLeaves DEF Types, Dash, Wire, Sound
  <2> QED
    BY <2>1, <2>2
<1>6. Calls' /\ GivesBack
  BY <1>3, <1>5, CallsStep, KeepsLeaves DEF Types
<1>7. Dash'
  <2>1. None \notin Callers /\ proj' \in ProjSet
    BY <1>4, ConstantFacts DEF Types, Dash
  <2> QED
    BY <1>5, <2>1, DashStep DEF Types
<1>8. Wire'
  BY <1>4, <1>5, WireKept DEF Types, Wire
<1> QED
  BY <1>6, <1>7, <1>8 DEF Types

LEMMA HeldFacts ==
  ASSUME NEW a, Sound(a)
  PROVE  Sound(Held(a))
<1> DEFINE b == [local |-> "retrying", active |-> TRUE, held |-> TRUE]
<1>1. Sound(b)
  BY DEF Sound, AdapterSet, Statuses, Terminal
<1> QED
  BY <1>1 DEF Held

LEMMA SendAbortTypes ==
  ASSUME Types, NEW o \in Retriers, SendAbort(o)
  PROVE  Types' /\ GivesBack
<1>1. o \in Callers /\ ops[o].pc = "send"
  BY ConstantFacts DEF SendAbort
<1>2. PICK pc \in {"waiting", "refused"} : ops' = At(o, pc)
  BY DEF SendAbort
<1>3. ops[o].kind = "retry" => Retrying(o)
  BY <1>1 DEF Retrying
<1>4. pc \in Pcs \ {"idle", "claim"} /\ pc \in RetryPcs /\ Fits(o, pc)
  BY DEF Pcs, RetryPcs, Fits
<1>5. Keeps(ops', None)
  BY <1>1, <1>2, <1>3, <1>4, KeepsAt DEF Types
<1>6. Calls' /\ GivesBack
  BY <1>5, CallsKept, KeepsLeaves DEF Types, SendAbort
<1>7. Dash'
  <2>1. proj' = proj /\ retries' = retries
    BY DEF SendAbort
  <2>2. CASE ops[o].kind = "retry"
    <3>1. Sound(adapter')
      BY <2>2, HeldFacts DEF SendAbort, Types, Dash
    <3>2. Retrying(o)'
      BY <1>1, <1>3, <1>5, <2>2, ConstantFacts DEF Keeps, RetryingIn, Retrying
    <3> QED
      BY <1>1, <2>1, <3>1, <3>2 DEF Types, Dash, Sound
  <2>3. CASE ops[o].kind # "retry"
    <3>1. adapter' = adapter
      BY <2>3 DEF SendAbort
    <3>2. Sound(adapter') /\ proj' \in ProjSet /\ retries' \in 0..MaxAutoRetries
          /\ None \notin Callers
      BY <2>1, <3>1, ConstantFacts DEF Types, Dash, Sound
    <3> QED
      BY <1>5, <3>1, <3>2, DashStep DEF Types
  <2> QED
    BY <2>2, <2>3
<1>8. Wire'
  <2>1. o \in FrameSet /\ frames \in Seq(FrameSet)
    BY DEF FrameSet, Types, Wire
  <2>2. frames' \in Seq(FrameSet)
    BY <2>1, AppendProperties DEF SendAbort
  <2>3. UNCHANGED <<live, events, mixed>> /\ (UNCHANGED bounds \/ Fault)
    BY DEF SendAbort
  <2> QED
    BY <2>2, <2>3, WireKept DEF Types, Wire
<1> QED
  BY <1>6, <1>7, <1>8 DEF Types

LEMMA TimeOutTypes ==
  ASSUME Types, NEW o \in Retriers, TimeOut(o)
  PROVE  Types' /\ GivesBack
<1>1. o \in Callers /\ ops[o].pc = "waiting" /\ ops' = At(o, "refused")
  BY ConstantFacts DEF TimeOut
<1>2. "refused" \in Pcs \ {"idle", "claim"} /\ "refused" \in RetryPcs /\ Fits(o, "refused")
  BY DEF Pcs, RetryPcs, Fits
<1>3. Keeps(ops', None)
  BY <1>1, <1>2, KeepsAt DEF Types, Retrying
<1>4. Calls' /\ Dash' /\ GivesBack
  BY <1>3, CallsKept, KeepsLeaves, DashKept DEF Types, TimeOut
<1>5. Wire'
  <2>1. frames' \in Seq(FrameSet)
    BY UnawaitedFacts DEF TimeOut, Types, Wire, FrameSet
  <2>2. UNCHANGED <<live, events, mixed>> /\ (UNCHANGED bounds \/ Fault)
    BY DEF TimeOut
  <2> QED
    BY <2>1, <2>2, WireKept DEF Types, Wire
<1> QED
  BY <1>4, <1>5 DEF Types

\* A start makes old news of what was published before.
LEMMA SendStartTypes ==
  ASSUME Wire, SendStart
  PROVE  frames' \in Seq(FrameSet) /\ events' \in Seq(EventSet) /\ Len(events') = Len(events)
<1>1. frames' \in Seq(FrameSet)
  BY AppendProperties DEF Wire, SendStart, FrameSet
<1> DEFINE n == Len(events)
           e(i) == [events[i] EXCEPT !.old = TRUE]
<1>2. DOMAIN events = 1..n /\ n \in Nat /\ events \in [1..n -> EventSet]
  BY LenProperties, ElementOfSeq DEF Wire
<1>3. \A i \in 1..n : e(i) \in EventSet
  BY <1>2 DEF EventSet
<1>4. events' = [i \in 1..n |-> e(i)]
  BY <1>2 DEF SendStart
<1> HIDE DEF e, n
<1>5. events' \in [1..n -> EventSet]
  BY <1>3, <1>4
<1>6. events' \in Seq(EventSet)
  BY <1>2, <1>5, SeqDef
<1>7. Len(events') = n
  BY <1>2, <1>5, <1>6, LenProperties
<1> QED
  BY <1>1, <1>6, <1>7 DEF n

LEMMA DispatchTypes ==
  ASSUME Types, NEW o \in Retriers, Dispatch(o)
  PROVE  Types' /\ GivesBack
<1>1. o \in Callers /\ ops[o].pc = "acked" /\ ops[o].kind = "retry"
  BY ConstantFacts DEF Dispatch
<1>2. PICK pc \in {"complete", "restore"} : ops' = At(o, pc)
  BY DEF Dispatch
<1>3. pc \in Pcs \ {"idle", "claim"} /\ pc \in RetryPcs /\ Fits(o, pc)
  BY <1>1 DEF Pcs, RetryPcs, Fits
<1>4. Keeps(ops', None)
  BY <1>1, <1>2, <1>3, KeepsAt DEF Types, Retrying
<1>5. Calls' /\ Dash' /\ GivesBack
  BY <1>4, CallsKept, KeepsLeaves, DashKept DEF Types, Dispatch
<1>6. Wire'
  <2>1. frames' \in Seq(FrameSet) /\ events' \in Seq(EventSet)
    BY SendStartTypes DEF Dispatch, Types, Wire
  <2>2. UNCHANGED <<live, mixed>> /\ (UNCHANGED bounds \/ Fault)
    BY DEF Dispatch
  <2>3. requests' \in 0..MaxRequests /\ faults' \in 0..MaxFaults
    BY <2>2, FaultType DEF Types, Wire, bounds
  <2> QED
    BY <2>1, <2>2, <2>3 DEF Types, Wire
<1> QED
  BY <1>5, <1>6 DEF Types

LEMMA CompleteTypes ==
  ASSUME Types, NEW o \in Retriers, Complete(o)
  PROVE  Types' /\ GivesBack
<1>1. o \in Callers /\ Owns(o) /\ ops' = Finished(o) /\ row' = "running" /\ claim' = None
  BY ConstantFacts DEF Complete
<1>2. Keeps(ops', o)
  BY <1>1, KeepsFinished DEF Types
<1>3. Calls' /\ GivesBack
  <2>1. \A p \in Callers : ~RetryingIn(ops', p)
    <3> SUFFICES ASSUME NEW p \in Callers, RetryingIn(ops', p) PROVE FALSE
      OBVIOUS
    <3>1. Retrying(p) /\ p # o
      BY <1>2 DEF Keeps
    <3>2. claim.owner = o /\ row # "none"
      BY <1>1 DEF Owns
    <3> QED
      BY <3>1, <3>2 DEF Types, Calls
  <2>2. "running" \in Known
    BY OutcomesAssumption DEF Known, Statuses
  <2>3. ops' \in [Callers -> CallSet]
    BY <1>2 DEF Keeps
  <2>4. \A p \in Callers : ~Retrying(p)'
    BY <2>1 DEF RetryingIn, Retrying
  <2> QED
    BY <1>1, <2>2, <2>3, <2>4 DEF Calls, GivesBack, RetryingHasOwner
<1>4. Dash'
  <2>1. proj' = proj /\ retries' = retries
    BY DEF Complete
  <2> DEFINE b == [local |-> "running", active |-> TRUE, held |-> FALSE]
  <2>2. Sound(b) /\ b.held = FALSE
    BY DEF Sound, AdapterSet, Statuses, Terminal
  <2>3. Sound(adapter) /\ Sound([adapter EXCEPT !.held = FALSE])
        /\ [adapter EXCEPT !.held = FALSE].held = FALSE
    BY FreedFacts DEF Types, Dash
  <2>4. adapter' = b \/ adapter' = [adapter EXCEPT !.held = FALSE]
    BY DEF Complete
  <2> HIDE DEF b
  <2>5. Sound(adapter') /\ adapter'.held = FALSE
    BY <2>2, <2>3, <2>4
  <2> QED
    BY <2>1, <2>5 DEF Types, Dash, Sound
<1>5. Wire'
  BY WireKept DEF Types, Complete, worker, Wire
<1> QED
  BY <1>3, <1>4, <1>5 DEF Types

LEMMA RestoreTypes ==
  ASSUME Types, NEW o \in Retriers, Restore(o)
  PROVE  Types' /\ GivesBack
<1> DEFINE free == [adapter EXCEPT !.held = FALSE]
<1>1. o \in Callers /\ Keeps(Finished(o), o)
  BY ConstantFacts, KeepsFinished DEF Types
<1>2. Sound(free) /\ free.held = FALSE
  BY FreedFacts DEF Types, Dash
<1>3. UNCHANGED <<proj, live, events, mixed, bounds>>
  BY DEF Restore
<1>4. CASE Restorable(o)
  <2>1. row' = Fallback(o) /\ claim' = None /\ Show(free, Fallback(o), Finished(o))
    BY <1>4 DEF Restore
  <2>2. Owns(o) /\ claim # None /\ claim.owner = o /\ row = "retrying"
    BY <1>4 DEF Restorable, Owns
  <2>3. \A p \in Callers : Retrying(p) => p = o
    BY <2>2 DEF Types, Calls
  <2>4. ops[o] \in CallSet
    BY <1>1 DEF Types, Calls
  <2>5. Retrying(o)
    BY <2>2, <2>4 DEF Restore, Retrying, CallSet
  <2>6. ops[o].prev \in Known \ {"retrying"}
    BY <1>1, <2>4, <2>5 DEF Types, Calls, CallSet
  <2>7. Fallback(o) \in Known \ {"retrying"}
    BY <2>6, OutcomesAssumption DEF Fallback, Known, Statuses, Terminal
  <2>8. Fallback(o) \in Statuses /\ None \notin Callers
    BY <2>7, ConstantFacts
  <2>9. /\ Sound(adapter') /\ adapter'.held = FALSE /\ retries' \in 0..MaxAutoRetries
        /\ Leaves(ops', o) /\ frames' \in Seq(FrameSet)
    <3> HIDE DEF free
    <3> QED
      BY <1>1, <1>2, <2>1, <2>8, ShowFacts
  <2>10. \A p \in Callers : ~Retrying(p)'
    BY <2>3, <2>9 DEF Leaves, RetryingIn, Retrying
  <2>11. Calls' /\ GivesBack
    BY <2>1, <2>7, <2>9, <2>10 DEF Leaves, Calls, GivesBack, RetryingHasOwner
  <2>12. Dash'
    BY <1>3, <2>9 DEF Types, Dash, Sound
  <2>13. Wire'
    BY <1>3, <2>9, WireKept DEF Types, Wire
  <2> QED
    BY <2>11, <2>12, <2>13 DEF Types
<1>5. CASE ~Restorable(o)
  <2>1. /\ adapter' \in {Shown(free, "stuck"), free} /\ ops' = Finished(o)
        /\ UNCHANGED <<row, claim, retries, frames>>
    BY <1>5 DEF Restore, database
  <2>2. "stuck" \in Statuses
    BY DEF Statuses
  <2>3. Sound(adapter') /\ adapter'.held = FALSE
    <3> HIDE DEF free
    <3> QED
      BY <1>2, <2>1, <2>2, ShownFacts
  <2>4. row = "retrying" /\ claim # None /\ claim.owner = o => "incomplete" \in Outcomes
    <3> SUFFICES ASSUME row = "retrying", claim # None, claim.owner = o
                 PROVE  "incomplete" \in Outcomes
      OBVIOUS
    <3>1. Fallback(o) = "incomplete" /\ ops[o] \in CallSet
      BY <1>1, <1>5 DEF Restorable, Owns, Types, Calls
    <3>2. ops[o].prev = "incomplete"
      BY <3>1 DEF Fallback
    <3>3. None # "incomplete"
      BY ConstantFacts DEF Statuses, Terminal
    <3> QED
      BY <3>1, <3>2, <3>3 DEF CallSet, Known
  <2>5. Settled(o)
    BY <2>1, <2>4 DEF Settled, Types, Calls
  <2>6. Calls' /\ GivesBack
    BY <1>1, <2>1, <2>5, CallsStep, KeepsLeaves DEF Types
  <2>7. Dash'
    BY <1>3, <2>1, <2>3 DEF Types, Dash, Sound
  <2>8. Wire'
    BY <1>3, <2>1, WireKept DEF Types, Wire
  <2> QED
    BY <2>6, <2>7, <2>8 DEF Types
<1> QED
  BY <1>4, <1>5
\* A call that is no retry ends.
LEMMA EndingKeeps ==
  ASSUME Types, NEW o \in Callers, ops[o].kind # "retry", ops' = Finished(o)
  PROVE  Keeps(ops', None)
BY KeepsFinished DEF Types, Retrying

\* Or it goes on.
LEMMA GoingKeeps ==
  ASSUME Types, NEW o \in Callers, ops[o].kind # "retry",
         NEW pc \in Pcs \ {"idle", "claim", "send", "restore", "unwind"}
  PROVE  Keeps(At(o, pc), None)
BY KeepsAt DEF Types, Fits

\* The row changes to s, if it accepts it, under whatever claim there is.
LEMMA UpdatedSettles ==
  ASSUME Types, NEW s \in Known \ {"retrying"}, row' = Updated(s), claim' = claim
  PROVE  Settled(None)
<1>1. row' = row \/ (row' = s /\ row # "none")
  BY DEF Updated, Accepts
<1>2. claim # None => claim.owner # None
  BY ConstantFacts DEF Types, Calls, Claims, Retriers
<1> QED
  BY <1>1, <1>2 DEF Settled, Types, Calls

\* Every part of the step has been seen to.
LEMMA AllTypes ==
  ASSUME Types, Leaves(ops', None), adapter'.held => Keeps(ops', None), Settled(None),
         Sound(adapter'), adapter'.held = adapter.held,
         proj' \in ProjSet, retries' \in 0..MaxAutoRetries, Wire'
  PROVE  Types' /\ GivesBack
<1>1. Calls' /\ GivesBack
  BY CallsStep, KeepsLeaves DEF Types
<1>2. Dash'
  BY DashStep, ConstantFacts DEF Types
<1> QED
  BY <1>1, <1>2 DEF Types

LEMMA CreateDispatchTypes == Types /\ CreateDispatch => Types' /\ GivesBack
<1> SUFFICES ASSUME Types, CreateDispatch PROVE Types' /\ GivesBack
  OBVIOUS
<1>2. Creator \in Callers /\ ~Retrying(Creator) /\ ops[Creator].pc = "acked"
  BY ConstantFacts DEF Types, Calls, CreateDispatch
<1>3. ops[Creator].kind # "retry"
  BY <1>2 DEF Retrying
<1>4. CASE SendStart /\ ops' = At(Creator, "write") /\ UNCHANGED <<database, adapter, retries, bounds>>
  <2>1. "write" \in Pcs \ {"idle", "claim", "restore", "unwind"}
    BY DEF Pcs
  <2>2. Keeps(ops', None)
    BY <1>2, <1>3, <1>4, <2>1, GoingKeeps
  <2>3. Wire'
    BY <1>4, SendStartTypes DEF CreateDispatch, Types, Wire, bounds
  <2>4. Settled(None)
    BY <1>4, SameDatabase
  <2> QED
    BY <1>4, <2>2, <2>3, <2>4, AllTypes, KeepsLeaves DEF CreateDispatch, Types, Dash, Sound
<1>5. CASE /\ row' = "none" /\ claim' = None
           /\ adapter' = [local |-> "none", active |-> FALSE, held |-> FALSE]
           /\ retries' = 0 /\ ops' = Finished(Creator)
           /\ Fault /\ UNCHANGED <<frames, events>>
  <2>1. Keeps(ops', None)
    BY <1>2, <1>3, <1>5, EndingKeeps
  <2>2. Settled(None)
    BY <1>5 DEF Settled
  <2>3. Sound(adapter') /\ adapter'.held = FALSE
    BY <1>5 DEF Sound, AdapterSet
  <2>4. 0 \in 0..MaxAutoRetries
    BY AutoRetriesAssumption
  <2>5. Calls' /\ GivesBack
    BY <2>1, <2>2, CallsStep, KeepsLeaves DEF Types
  <2>6. Dash'
    BY <1>5, <2>3, <2>4 DEF CreateDispatch, Types, Dash, Sound
  <2>7. Wire'
    BY <1>5, WireKept DEF CreateDispatch, Types, Wire
  <2> QED
    BY <2>5, <2>6, <2>7 DEF Types
<1> QED
  BY <1>4, <1>5 DEF CreateDispatch

LEMMA CreateWriteTypes == Types /\ CreateWrite => Types' /\ GivesBack
<1> SUFFICES ASSUME Types, CreateWrite PROVE Types' /\ GivesBack
  OBVIOUS
<1>1. Creator \in Callers /\ ~Retrying(Creator) /\ ops[Creator].pc = "write"
  BY ConstantFacts DEF Types, Calls, CreateWrite
<1>2. Keeps(ops', None)
  BY <1>1, EndingKeeps DEF Retrying, CreateWrite
<1>3. Settled(None)
  <2>1. "dispatched" \in Known \ {"retrying"}
    BY OutcomesAssumption DEF Known, Statuses
  <2> QED
    BY <2>1, UpdatedSettles DEF CreateWrite
<1>4. Wire'
  BY WireKept DEF CreateWrite, worker, Types, Wire
<1>5. UNCHANGED <<adapter, proj, retries>>
  BY DEF CreateWrite, dashboard
<1> QED
  BY <1>2, <1>3, <1>4, <1>5, AllTypes, KeepsLeaves DEF Types, Dash, Sound

LEMMA AbortTypes ==
  ASSUME Types, NEW u \in Users, MarkAborted(u) \/ WriteAborted(u) \/ AbortRefused(u)
  PROVE  Types' /\ GivesBack
<1>1. u \in Callers /\ ops[u].kind # "retry"
  BY ConstantFacts DEF MarkAborted, WriteAborted, AbortRefused
<1>2. Sound(adapter) /\ proj \in ProjSet /\ retries \in 0..MaxAutoRetries
  BY DEF Types, Dash
<1>3. CASE MarkAborted(u)
  <2>1. "write" \in Pcs \ {"idle", "claim", "restore", "unwind"} /\ "aborted" \in Statuses
    BY DEF Pcs, Statuses, Terminal
  <2>2. Keeps(At(u, "write"), None)
    BY <1>1, <2>1, GoingKeeps
  <2>3. Show(adapter, "aborted", At(u, "write"))
    BY <1>3 DEF MarkAborted
  <2>4. /\ Sound(adapter') /\ adapter'.held = adapter.held /\ retries' \in 0..MaxAutoRetries
        /\ Leaves(ops', None) /\ (adapter'.held => Keeps(ops', None))
        /\ frames' \in Seq(FrameSet)
    BY <1>2, <2>1, <2>2, <2>3, ShowFacts
  <2>5. proj' \in ProjSet
    <3>1. "aborted" \in Heard
      BY DEF Heard
    <3> QED
      BY <1>2, <1>3, <3>1, ProjectedType DEF MarkAborted, Types
  <2>6. UNCHANGED database /\ UNCHANGED <<live, events, mixed, bounds>>
    BY <1>3 DEF MarkAborted
  <2>7. Wire'
    BY <2>4, <2>6, WireKept DEF Types
  <2>8. Settled(None)
    BY <2>6, SameDatabase
  <2> QED
    BY <2>4, <2>5, <2>7, <2>8, AllTypes, KeepsLeaves
<1>4. CASE WriteAborted(u)
  <2>1. "aborted" \in Known \ {"retrying"}
    BY OutcomesAssumption DEF Known, Statuses, Terminal
  <2>2. Settled(None)
    BY <1>4, <2>1, UpdatedSettles DEF WriteAborted
  <2>3. Keeps(ops', None)
    BY <1>1, <1>4, EndingKeeps DEF WriteAborted
  <2>4. Wire'
    <3>1. mixed' \subseteq mixed \cup {"creation", "retry", "news"}
      BY <1>4, DispatchingType DEF WriteAborted
    <3> QED
      BY <1>4, <3>1, WireKept DEF WriteAborted, worker, Types, Wire
  <2>5. UNCHANGED <<adapter, proj, retries>>
    BY <1>4 DEF WriteAborted, dashboard
  <2> QED
    BY <1>2, <2>2, <2>3, <2>4, <2>5, AllTypes, KeepsLeaves DEF Sound
<1>5. CASE AbortRefused(u)
  <2>1. Settled(None)
    BY <1>5, SameDatabase DEF AbortRefused
  <2>2. Keeps(ops', None)
    BY <1>1, <1>5, EndingKeeps DEF AbortRefused
  <2>3. Wire'
    BY <1>5, WireKept DEF AbortRefused, worker, Types, Wire
  <2>4. UNCHANGED <<adapter, proj, retries>>
    BY <1>5 DEF AbortRefused, dashboard
  <2> QED
    BY <1>2, <2>1, <2>2, <2>3, <2>4, AllTypes, KeepsLeaves DEF Sound
<1> QED
  BY <1>3, <1>4, <1>5

LEMMA TerminationTypes ==
  ASSUME Types, WriteTerminated \/ MarkTerminated \/ TerminateRefused
  PROVE  Types' /\ GivesBack
<1>1. Detector \in Callers /\ ops[Detector].kind # "retry"
  BY ConstantFacts DEF WriteTerminated, MarkTerminated, TerminateRefused
<1>2. Sound(adapter) /\ proj \in ProjSet /\ retries \in 0..MaxAutoRetries
  BY DEF Types, Dash
<1>3. Sound(Shown(adapter, "stuck")) /\ Shown(adapter, "stuck").held = adapter.held
  <2>1. "stuck" \in Statuses
    BY DEF Statuses
  <2> QED
    BY <1>2, <2>1, ShownFacts
<1>4. CASE WriteTerminated
  <2>1. "stuck_permanently" \in Known \ {"retrying"}
    BY OutcomesAssumption DEF Known, Statuses, Terminal
  <2>2. Settled(None)
    BY <1>4, <2>1, UpdatedSettles DEF WriteTerminated
  <2>3. Keeps(ops', None)
    <3>1. CASE ops' = At(Detector, "mark")
      <4>1. "mark" \in Pcs \ {"idle", "claim", "restore", "unwind"}
        BY DEF Pcs
      <4> QED
        BY <1>1, <3>1, <4>1, GoingKeeps
    <3>2. CASE ops' = Finished(Detector)
      BY <1>1, <3>2, EndingKeeps
    <3> QED
      BY <1>4, <3>1, <3>2 DEF WriteTerminated
  <2>4. Wire'
    <3>1. mixed' \subseteq mixed \cup {"creation", "retry", "news"}
      BY <1>4, DispatchingType DEF WriteTerminated
    <3> QED
      BY <1>4, <3>1, WireKept DEF WriteTerminated, worker, Types, Wire
  <2>5. adapter' = adapter \/ adapter' = Shown(adapter, "stuck")
    BY <1>4 DEF WriteTerminated
  <2>6. UNCHANGED <<proj, retries>>
    BY <1>4 DEF WriteTerminated
  <2> QED
    BY <1>2, <1>3, <2>2, <2>3, <2>4, <2>5, <2>6, AllTypes, KeepsLeaves
<1>5. CASE MarkTerminated
  <2>1. "stuck_permanently" \in Statuses
    BY DEF Statuses, Terminal
  <2>2. Keeps(Finished(Detector), None)
    BY <1>1, KeepsFinished DEF Types, Retrying
  <2>3. Show(adapter, "stuck_permanently", Finished(Detector))
    BY <1>5 DEF MarkTerminated
  <2>4. /\ Sound(adapter') /\ adapter'.held = adapter.held /\ retries' \in 0..MaxAutoRetries
        /\ Leaves(ops', None) /\ (adapter'.held => Keeps(ops', None))
        /\ frames' \in Seq(FrameSet)
    BY <1>2, <2>1, <2>2, <2>3, ShowFacts
  <2>5. UNCHANGED database /\ UNCHANGED <<proj, live, events, mixed, bounds>>
    BY <1>5 DEF MarkTerminated
  <2>6. Wire'
    BY <2>4, <2>5, WireKept DEF Types
  <2>7. Settled(None)
    BY <2>5, SameDatabase
  <2> QED
    BY <1>2, <2>4, <2>5, <2>6, <2>7, AllTypes, KeepsLeaves
<1>6. CASE TerminateRefused
  <2>1. Settled(None)
    BY <1>6, SameDatabase DEF TerminateRefused
  <2>2. Keeps(ops', None)
    BY <1>1, <1>6, EndingKeeps DEF TerminateRefused
  <2>3. Wire'
    BY <1>6, WireKept DEF TerminateRefused, worker, Types, Wire
  <2>4. adapter' = Shown(adapter, "stuck") /\ UNCHANGED <<proj, retries>>
    BY <1>6 DEF TerminateRefused
  <2> QED
    BY <1>2, <1>3, <2>1, <2>2, <2>3, <2>4, AllTypes, KeepsLeaves
<1> QED
  BY <1>4, <1>5, <1>6
LEMMA RemovalTypes ==
  ASSUME Types, NEW u \in Users, RemoveTask(u) \/ DeleteRow(u)
  PROVE  Types' /\ GivesBack
<1>1. u \in Callers /\ ops[u].kind # "retry"
  BY ConstantFacts DEF RemoveTask, DeleteRow
<1>2. CASE RemoveTask(u)
  <2>1. "delete" \in Pcs \ {"idle", "claim", "restore", "unwind"} /\ 0 \in 0..MaxAutoRetries
    BY AutoRetriesAssumption DEF Pcs
  <2>2. Leaves(ops', None)
    BY <1>1, <1>2, <2>1, GoingKeeps, KeepsForgotten DEF RemoveTask
  <2>3. Sound(adapter') /\ adapter'.held = FALSE
    BY <1>2 DEF RemoveTask, Sound, AdapterSet
  <2>4. Calls' /\ GivesBack
    BY <1>2, <2>2, CallsKept, KeepsLeaves DEF RemoveTask, Types
  <2>5. Dash'
    BY <1>2, <2>1, <2>3 DEF RemoveTask, Types, Dash, Sound
  <2>6. Wire'
    <3>1. mixed' \subseteq mixed \cup {"creation", "retry", "news"}
      BY <1>2, DispatchingType DEF RemoveTask
    <3>2. frames' \in Seq(FrameSet)
      BY <1>2, UnawaitedFacts DEF RemoveTask, Types, Wire, FrameSet
    <3> QED
      BY <1>2, <3>1, <3>2, WireKept DEF RemoveTask, Types
  <2> QED
    BY <2>4, <2>5, <2>6 DEF Types
<1>3. CASE DeleteRow(u)
  <2>1. Keeps(ops', None)
    BY <1>1, <1>3, EndingKeeps DEF DeleteRow
  <2>2. Settled(None)
    BY <1>3 DEF DeleteRow, Settled
  <2>3. Wire'
    <3>1. mixed' \subseteq mixed \cup {"creation", "retry", "news"}
      BY <1>3, DispatchingType DEF DeleteRow
    <3> QED
      BY <1>3, <3>1, WireKept DEF DeleteRow, worker, Types, Wire
  <2>4. UNCHANGED dashboard
    BY <1>3 DEF DeleteRow
  <2> QED
    BY <2>1, <2>2, <2>3, <2>4, StepTypes, ConstantFacts
<1> QED
  BY <1>2, <1>3

LEMMA ProjectTypes == Types /\ Project => Types' /\ GivesBack
<1> SUFFICES ASSUME Types, Project PROVE Types' /\ GivesBack
  OBVIOUS
<1>1. proj.pending \in Heard /\ Heard \subseteq Known \ {"retrying"}
  BY OutcomesAssumption DEF Project, Types, Dash, ProjSet, Heard, Known, Statuses, Terminal
<1>2. Settled(None)
  BY <1>1, UpdatedSettles DEF Project
<1>3. ops' = ops /\ Keeps(ops, None)
  BY KeepsSame DEF Project, Types
<1>4. Wire'
  BY WireKept DEF Project, worker, Types, Wire
<1>5. proj' \in ProjSet
  BY DEF Project, Types, Dash, ProjSet
<1>6. UNCHANGED <<adapter, retries>>
  BY DEF Project
<1> QED
  BY <1>2, <1>3, <1>4, <1>5, <1>6, AllTypes, KeepsLeaves DEF Types, Dash, Sound

LEMMA ObserveTypes == Types /\ Observe => Types' /\ GivesBack
<1> SUFFICES ASSUME Types, Observe PROVE Types' /\ GivesBack
  OBVIOUS
<1>1. /\ Head(events) \in EventSet /\ events' = Tail(events) /\ Tail(events) \in Seq(EventSet)
  BY HeadTailProperties DEF Observe, Types, Wire
<1>2. Keeps(ops, None) /\ Settled(None) /\ UNCHANGED <<live, bounds>>
  BY KeepsSame, SameDatabase DEF Observe, Types
<1>3. Sound(adapter) /\ proj \in ProjSet /\ retries \in 0..MaxAutoRetries
  BY DEF Types, Dash
<1> DEFINE e == Head(events)
<1>4. ASSUME frames' \in Seq(FrameSet), mixed' \subseteq {"creation", "retry", "news"} PROVE Wire'
  BY <1>1, <1>2, <1>4 DEF Types, Wire, bounds
<1>5. CASE UNCHANGED <<ops, adapter, proj, retries, frames, mixed>>
  <2>1. Wire'
    BY <1>4, <1>5 DEF Types, Wire
  <2> QED
    BY <1>2, <1>3, <1>5, <2>1, AllTypes, KeepsLeaves
<1>6. CASE /\ proj' = Projected(e.status)
           /\ Show(adapter, e.status, ops)
           /\ mixed' \in {mixed, mixed \cup {"news"}}
  <2>1. e.status \in Heard /\ e.status \in Statuses
    BY <1>1, ConstantFacts DEF EventSet
  <2> HIDE DEF e
  <2>2. /\ Sound(adapter') /\ adapter'.held = adapter.held /\ retries' \in 0..MaxAutoRetries
        /\ Leaves(ops', None) /\ (adapter'.held => Keeps(ops', None))
        /\ frames' \in Seq(FrameSet)
    BY <1>2, <1>3, <1>6, <2>1, ShowFacts
  <2>3. proj' \in ProjSet
    BY <1>6, <2>1, ProjectedType DEF Types
  <2>4. Wire'
    BY <1>4, <1>6, <2>2 DEF Types, Wire
  <2> QED
    BY <1>2, <2>2, <2>3, <2>4, AllTypes, KeepsLeaves
<1> QED
  BY <1>5, <1>6 DEF Observe

\* What the worker does to the channels.
LEMMA WorkerTypes ==
  ASSUME Types, UNCHANGED <<database, ops, dashboard, mixed>>, UNCHANGED bounds \/ Fault,
         frames' \in Seq(FrameSet), live' \in Nat, events' \in Seq(EventSet)
  PROVE  Types' /\ GivesBack
<1>1. Keeps(ops', None) /\ Settled(None) /\ None \notin Callers
  BY KeepsSame, SameDatabase, ConstantFacts DEF Types
<1>2. requests' \in 0..MaxRequests /\ faults' \in 0..MaxFaults
  BY FaultType DEF Types, Wire, bounds
<1>3. Wire'
  BY <1>2 DEF Types, Wire
<1> QED
  BY <1>1, <1>3, StepTypes

LEMMA Told ==
  ASSUME Types, NEW s \in Heard
  PROVE  Append(events, [status |-> s, old |-> FALSE]) \in Seq(EventSet)
<1>1. [status |-> s, old |-> FALSE] \in EventSet
  BY DEF EventSet
<1> QED
  BY <1>1, AppendProperties DEF Types, Wire

LEMMA StartTypes == Types /\ Start => Types' /\ GivesBack
<1> SUFFICES ASSUME Types, Start PROVE Types' /\ GivesBack
  OBVIOUS
<1>1. frames' \in Seq(FrameSet)
  BY HeadTailProperties DEF Start, Types, Wire
<1>2. "running" \in Heard
  BY DEF Heard
<1>3. events' \in Seq(EventSet)
  BY <1>2, Told DEF Start
<1>4. live' \in Nat
  BY DEF Start, Types, Wire
<1> QED
  BY <1>1, <1>3, <1>4, WorkerTypes DEF Start

LEMMA EndRunTypes == Types /\ EndRun => Types' /\ GivesBack
<1> SUFFICES ASSUME Types, EndRun PROVE Types' /\ GivesBack
  OBVIOUS
<1>1. PICK s \in Outcomes : events' = Append(events, [status |-> s, old |-> FALSE])
  BY DEF EndRun
<1>2. s \in Heard
  BY DEF Heard
<1>3. events' \in Seq(EventSet)
  BY <1>1, <1>2, Told
<1>4. frames' \in Seq(FrameSet) /\ live' \in Nat
  BY DEF EndRun, Types, Wire
<1> QED
  BY <1>3, <1>4, WorkerTypes DEF EndRun

LEMMA WorkerDiesTypes == Types /\ WorkerDies => Types' /\ GivesBack
<1> SUFFICES ASSUME Types, WorkerDies PROVE Types' /\ GivesBack
  OBVIOUS
<1>1. frames' \in Seq(FrameSet) /\ events' \in Seq(EventSet)
  BY EmptySeq DEF WorkerDies
<1>2. live' \in Nat
  BY DEF WorkerDies, Types, Wire
<1> QED
  BY <1>1, <1>2, WorkerTypes DEF WorkerDies

LEMMA WorkerAbortTypes == Types /\ Awaited /\ Abort => Types' /\ GivesBack
<1> SUFFICES ASSUME Types, Awaited, Abort PROVE Types' /\ GivesBack
  OBVIOUS
<1> DEFINE h == Head(frames)
<1>1. frames' \in Seq(FrameSet) /\ h \in {None} \cup Retriers /\ 1 \in DOMAIN frames /\ h = frames[1]
  BY HeadTailProperties, LenProperties DEF Abort, Types, Wire, FrameSet
<1>2. "aborted" \in Heard
  BY DEF Heard
<1>3. events' \in Seq(EventSet)
  BY <1>2, Told DEF Abort, Types, Wire
<1>4. live' \in Nat
  BY DEF Abort, Types, Wire
<1>5. UNCHANGED <<database, dashboard, mixed>> /\ (UNCHANGED bounds \/ Fault)
  BY DEF Abort
<1>6. requests' \in 0..MaxRequests /\ faults' \in 0..MaxFaults
  BY <1>5, FaultType DEF Types, Wire, bounds
<1>7. Wire'
  BY <1>1, <1>3, <1>4, <1>5, <1>6 DEF Types, Wire
<1>8. Keeps(ops', None)
  <2>1. ops' = ops \/ (h # None /\ \E pc \in {"acked", "refused"} : ops' = At(h, pc))
    BY DEF Abort
  <2>2. CASE ops' = ops
    BY <2>2, KeepsSame DEF Types
  <2>3. ASSUME h # None, NEW pc \in {"acked", "refused"}, ops' = At(h, pc) PROVE Keeps(ops', None)
    <3>1. h \in Callers /\ ops[h].pc = "waiting"
      BY <1>1, <2>3, ConstantFacts DEF Awaited
    <3>2. pc \in Pcs \ {"idle", "claim"} /\ pc \in RetryPcs /\ Fits(h, pc)
      BY <2>3 DEF Pcs, RetryPcs, Fits
    <3>3. ops[h].kind = "retry" => Retrying(h)
      BY <3>1 DEF Retrying
    <3> HIDE DEF h
    <3> QED
      BY <2>3, <3>1, <3>2, <3>3, KeepsAt DEF Types
  <2> QED
    BY <2>1, <2>2, <2>3
<1>9. Settled(None) /\ None \notin Callers
  BY <1>5, SameDatabase, ConstantFacts
<1> QED
  BY <1>5, <1>7, <1>8, <1>9, StepTypes

LEMMA CrashTypes == Types /\ Crash => Types' /\ GivesBack
<1> SUFFICES ASSUME Types, Crash PROVE Types' /\ GivesBack
  OBVIOUS
<1>1. ops' = [o \in Callers |-> Idle] /\ Idle \in CallSet /\ Idle.kind = "none"
  BY IdleType DEF Crash
<1>2. ops' \in [Callers -> CallSet] /\ \A o \in Callers : ops'[o] = Idle
  BY <1>1
<1>3. \A o \in Callers : ~Retrying(o)'
  BY <1>1, <1>2 DEF Retrying
<1>4. row' \in Known \cup {"none"} /\ row' # "retrying" /\ claim' \in Claims \cup {None}
  BY OutcomesAssumption DEF Crash, RowReconciled, ClaimReconciled, Types, Calls, Known, Statuses, Terminal
<1>5. Calls' /\ GivesBack
  BY <1>2, <1>3, <1>4 DEF Calls, GivesBack, RetryingHasOwner
<1>6. Sound(adapter') /\ adapter'.held = FALSE
  <2> DEFINE local == IF row' \in {"created", "dispatched"} THEN "running" ELSE row'
             a == [local |-> local, active |-> local \notin Terminal \cup {"none"}, held |-> FALSE]
  <2>1. adapter' = a
    BY DEF Crash, Hydrated
  <2>2. local \in Statuses \cup {"none"}
    BY <1>4 DEF Known, Statuses
  <2> HIDE DEF local
  <2>3. a \in AdapterSet /\ a.held = FALSE /\ (a.active => a.local \notin Terminal \cup {"none"})
    BY <2>2 DEF AdapterSet
  <2> QED
    BY <2>1, <2>3 DEF Sound
<1>7. Dash'
  <2>1. proj' = [pending |-> None, last |-> None] /\ retries' = 0
    BY DEF Crash
  <2>2. 0 \in 0..MaxAutoRetries /\ proj' \in ProjSet
    BY <2>1, AutoRetriesAssumption DEF ProjSet
  <2> QED
    BY <1>6, <2>1, <2>2 DEF Dash, Sound
<1>8. Wire'
  <2>1. frames' \in Seq(FrameSet) /\ events' \in Seq(EventSet)
    BY EmptySeq DEF Crash
  <2>2. live' \in Nat /\ mixed' = mixed
    BY DEF Crash, Types, Wire
  <2>3. requests' \in 0..MaxRequests /\ faults' \in 0..MaxFaults
    BY FaultType DEF Crash, Types
  <2> QED
    BY <2>1, <2>2, <2>3 DEF Types, Wire
<1> QED
  BY <1>5, <1>7, <1>8 DEF Types

LEMMA TypesStep == Types /\ Awaited /\ [Next]_vars => Types' /\ GivesBack
<1> SUFFICES ASSUME Types, Awaited, [Next]_vars PROVE Types' /\ GivesBack
  OBVIOUS
<1>1. CASE UNCHANGED vars
  <2>1. UNCHANGED <<database, ops, dashboard, worker, mixed, bounds>>
    BY <1>1 DEF vars
  <2> QED
    BY <2>1, WorkerTypes DEF worker, Types, Wire
<1>2. ASSUME NEW u \in Users, BeginRetry(u) \/ BeginAbort(u) \/ BeginDelete(u) \/ UserStep(u)
      PROVE  Types' /\ GivesBack
  BY <1>2, BeginningTypes, AbortTypes, RemovalTypes DEF UserStep
<1>3. ASSUME NEW o \in Retriers, Step(o) PROVE Types' /\ GivesBack
  BY <1>3, ClaimTypes, ConflictTypes, SendAbortTypes, TimeOutTypes, DispatchTypes,
     CompleteTypes, RestoreTypes DEF Step
<1>4. CASE FoundIdle \/ WriteTerminated \/ MarkTerminated \/ TerminateRefused
  BY <1>4, FoundIdleTypes, TerminationTypes
<1>5. CASE CreateDispatch \/ CreateWrite \/ Project \/ Observe
  BY <1>5, CreateDispatchTypes, CreateWriteTypes, ProjectTypes, ObserveTypes
<1>6. CASE Start \/ Abort \/ EndRun \/ WorkerDies \/ Crash
  BY <1>6, StartTypes, WorkerAbortTypes, EndRunTypes, WorkerDiesTypes, CrashTypes
<1> QED
  BY <1>1, <1>2, <1>3, <1>4, <1>5, <1>6 DEF Next, Retriers
-----------------------------------------------------------------------------
(* Runs                                                                    *)

\* A step that neither starts a run, nor asks for its end, nor answers.
Calm ==
  /\ DOMAIN frames' = DOMAIN frames
  /\ \A i \in DOMAIN frames : frames'[i] = frames[i] \/ (frames'[i] = None /\ frames[i] # "start")
  /\ \A i \in DOMAIN frames : frames'[i] \in Callers =>
       (ops[frames'[i]].pc = "waiting" => ops'[frames'[i]].pc = "waiting")
  /\ live' \in Nat /\ live' <= live
  /\ mixed \subseteq mixed'
  /\ \A p \in Callers : RetryingIn(ops', p) /\ ops'[p].pc \in {"waiting", "acked"} =>
       Retrying(p) /\ ops'[p].pc = ops[p].pc
  /\ ops'[Creator].pc = "acked" => ops[Creator].pc = "acked"

LEMMA CalmRuns ==
  ASSUME Types, RunInv, Calm
  PROVE  Awaited' /\ OneRun' /\ Cleared'
<1>0. None \notin Callers /\ "start" \notin Callers /\ None # "start"
  BY ConstantFacts
<1>1. Awaited'
  <2> SUFFICES ASSUME NEW i \in DOMAIN frames, frames'[i] \in Callers
               PROVE  /\ ops'[frames'[i]].pc = "waiting"
                      /\ \A j \in DOMAIN frames : frames'[j] = frames'[i] => j = i
    BY DEF Awaited, Calm
  <2>1. frames'[i] = frames[i]
    BY <1>0 DEF Calm
  <2>2. /\ ops[frames[i]].pc = "waiting"
        /\ \A j \in DOMAIN frames : frames[j] = frames[i] => j = i
    BY <2>1 DEF RunInv, Awaited
  <2>3. \A j \in DOMAIN frames : frames'[j] = frames'[i] => frames[j] = frames[i]
    BY <1>0, <2>1 DEF Calm
  <2> QED
    BY <2>1, <2>2, <2>3 DEF Calm
<1>2. Starts' = Starts
  BY <1>0 DEF Starts, Calm
<1>3. OneRun'
  BY <1>2 DEF RunInv, OneRun, Calm, Types, Wire
<1>4. Cleared'
  <2> SUFFICES ASSUME "creation" \notin mixed', NEW o \in Callers, RetryingIn(ops', o)
               PROVE  /\ ops'[o].pc = "waiting" =>
                           \A i, j \in DOMAIN frames' : frames'[i] = o /\ frames'[j] = "start" => j < i
                      /\ ops'[o].pc = "acked" => live' = 0 /\ Starts' = {}
    BY DEF Cleared, RetryingIn, Retrying
  <2>1. "creation" \notin mixed
    BY DEF Calm
  <2>2. CASE ops'[o].pc = "waiting"
    <3>1. Retrying(o) /\ ops[o].pc = "waiting"
      BY <2>2 DEF Calm
    <3>2. \A i, j \in DOMAIN frames : frames[i] = o /\ frames[j] = "start" => j < i
      BY <2>1, <3>1 DEF RunInv, Cleared
    <3> QED
      BY <1>0, <2>2, <3>2 DEF Calm
  <2>3. CASE ops'[o].pc = "acked"
    <3>1. Retrying(o) /\ ops[o].pc = "acked"
      BY <2>3 DEF Calm
    <3>2. live = 0 /\ Starts = {}
      BY <2>1, <3>1 DEF RunInv, Cleared
    <3> QED
      BY <1>2, <2>3, <3>2 DEF Calm
  <2> QED
    BY <2>2, <2>3
<1> QED
  BY <1>1, <1>3, <1>4

\* The calls go on so that nobody stops waiting, and nobody begins to wait or is
\* acknowledged.
Steady(all) ==
  /\ all \in [Callers -> CallSet]
  /\ RetryingIn(all, Detector) => all[Detector].pc \in RetryPcs
  /\ \A p \in Callers : ops[p].pc = "waiting" => all[p].pc = "waiting"
  /\ \A p \in Callers : RetryingIn(all, p) /\ all[p].pc \in {"waiting", "acked"} =>
       Retrying(p) /\ all[p].pc = ops[p].pc
  /\ all[Creator].pc = "acked" => ops[Creator].pc = "acked"

LEMMA SteadySame == Types => Steady(ops)
BY ConstantFacts DEF Types, Calls, Steady, RetryingIn, Retrying

\* One call moves on.
LEMMA SteadyMove ==
  ASSUME Types, NEW all \in [Callers -> CallSet], NEW o \in Callers,
         \A p \in Callers : p # o => all[p] = ops[p],
         ops[o].pc # "waiting", all[o].pc \notin {"waiting", "acked"},
         RetryingIn(all, o) => all[o].pc \in RetryPcs
  PROVE  Steady(all)
<1>1. RetryingIn(all, Detector) => all[Detector].pc \in RetryPcs
  BY ConstantFacts DEF Types, Calls, RetryingIn, Retrying
<1>2. Creator \in Callers
  BY ConstantFacts
<1> QED
  BY <1>1, <1>2 DEF Steady, RetryingIn, Retrying

LEMMA SteadyAt ==
  ASSUME Types, NEW o \in Callers, ops[o].pc # "waiting",
         NEW pc \in {"complete", "restore", "write", "mark", "delete", "refused"}, Fits(o, pc),
         ops[o].kind = "retry" => pc \in RetryPcs
  PROVE  Steady(At(o, pc))
<1>1. /\ At(o, pc) \in [Callers -> CallSet] /\ At(o, pc)[o].pc = pc /\ At(o, pc)[o].kind = ops[o].kind
      /\ \A p \in Callers : p # o => At(o, pc)[p] = ops[p]
  BY AtFacts DEF Types
<1>2. pc \notin {"waiting", "acked"} /\ (RetryingIn(At(o, pc), o) => At(o, pc)[o].pc \in RetryPcs)
  BY <1>1 DEF RetryingIn
<1> HIDE DEF Fits
<1> QED
  BY <1>1, <1>2, SteadyMove

LEMMA SteadyFinished ==
  ASSUME Types, NEW o \in Callers, ops[o].pc # "waiting"
  PROVE  Steady(Finished(o))
<1>1. /\ Finished(o) \in [Callers -> CallSet] /\ Finished(o)[o] = Idle
      /\ \A p \in Callers : p # o => Finished(o)[p] = ops[p]
  BY KeepsFinished DEF Types, Keeps
<1> QED
  BY <1>1, IdleType, SteadyMove DEF RetryingIn

LEMMA SteadyNew ==
  ASSUME Types, NEW o \in Callers, ops[o].pc # "waiting", NEW c \in CallSet,
         c.pc \notin {"waiting", "acked"},
         c.kind = "retry" /\ c.pc \notin {"idle", "claim"} => c.pc \in RetryPcs
  PROVE  Steady([ops EXCEPT ![o] = c])
<1> DEFINE all == [ops EXCEPT ![o] = c]
<1>1. /\ all \in [Callers -> CallSet] /\ all[o] = c
      /\ \A p \in Callers : p # o => all[p] = ops[p]
  BY DEF Types, Calls
<1> HIDE DEF all
<1>2. Steady(all)
  BY <1>1, SteadyMove DEF RetryingIn
<1> QED
  BY <1>2 DEF all

LEMMA CalmFrames ==
  ASSUME Types, Steady(ops'), frames' = frames, live' \in Nat, live' <= live, mixed \subseteq mixed'
  PROVE  Calm
BY DEF Calm, Steady

\* The detector forgets the task, and nobody waits for the answers to it.
LEMMA CalmForgotten ==
  ASSUME Types, NEW all, Steady(all), ops' = Forgotten(all), frames' = Unawaited(Detector),
         live' = live, mixed \subseteq mixed'
  PROVE  Calm
<1>1. /\ DOMAIN frames' = DOMAIN frames
      /\ \A i \in DOMAIN frames : frames'[i] = IF frames[i] = Detector THEN None ELSE frames[i]
  BY UnawaitedFacts DEF Types, Wire, FrameSet
<1>2. Detector # "start" /\ Detector # None /\ Creator # Detector /\ Creator \in Callers
      /\ Detector \in Callers /\ None \notin Callers
  BY ConstantFacts
<1>3. /\ \A p \in Callers : p # Detector => ops'[p] = all[p]
      /\ ops'[Detector].pc \in {"idle", "unwind", "restore"}
  BY ForgottenFacts DEF Steady
<1>4. \A i \in DOMAIN frames : frames'[i] \in Callers =>
        (ops[frames'[i]].pc = "waiting" => ops'[frames'[i]].pc = "waiting")
  BY <1>1, <1>2, <1>3 DEF Steady
<1>5. \A p \in Callers : RetryingIn(ops', p) /\ ops'[p].pc \in {"waiting", "acked"} =>
        Retrying(p) /\ ops'[p].pc = ops[p].pc
  BY <1>3 DEF Steady, RetryingIn
<1>6. ops'[Creator].pc = "acked" => ops[Creator].pc = "acked"
  BY <1>2, <1>3 DEF Steady
<1>7. live' \in Nat /\ live' <= live
  BY DEF Types, Wire
<1> QED
  BY <1>1, <1>2, <1>4, <1>5, <1>6, <1>7 DEF Calm

LEMMA CalmShow ==
  ASSUME Types, NEW a, NEW s, NEW all, Steady(all), Show(a, s, all), live' = live, mixed \subseteq mixed'
  PROVE  Calm
<1>1. live' \in Nat /\ live' <= live
  BY DEF Types, Wire
<1>2. CASE Retires(a, s)
  BY <1>2, CalmForgotten DEF Show
<1>3. CASE ~Retires(a, s)
  BY <1>1, <1>3, CalmFrames DEF Show
<1> QED
  BY <1>2, <1>3
\* Everybody but the senders and the worker.
CalmAction ==
  \/ \E u \in Users :
       \/ BeginRetry(u) \/ BeginAbort(u) \/ BeginDelete(u)
       \/ MarkAborted(u) \/ WriteAborted(u) \/ AbortRefused(u) \/ RemoveTask(u) \/ DeleteRow(u)
  \/ \E o \in Retriers : Claim(o) \/ Conflict(o) \/ TimeOut(o) \/ Complete(o) \/ Restore(o)
  \/ FoundIdle \/ WriteTerminated \/ MarkTerminated \/ TerminateRefused
  \/ CreateWrite \/ Project \/ Observe \/ EndRun \/ UNCHANGED vars

LEMMA CalmBeginnings ==
  ASSUME Types, NEW u \in Users, BeginRetry(u) \/ BeginAbort(u) \/ BeginDelete(u)
  PROVE  Calm
<1>1. /\ u \in Callers /\ ops[u].pc # "waiting" /\ mixed \subseteq mixed'
      /\ UNCHANGED <<frames, live>> /\ live' \in Nat /\ live' <= live
  BY ConstantFacts DEF BeginRetry, BeginAbort, BeginDelete, Busy, worker, Types, Wire
<1> DEFINE r == [kind |-> "retry", pc |-> "claim", prev |-> None, override |-> adapter.local = "stuck"]
<1>2. r \in CallSet /\ r.pc = "claim"
  BY DEF CallSet, Kinds, Pcs
<1>3. Call("abort", "send") \in CallSet /\ Call("abort", "send").pc = "send"
      /\ Call("abort", "send").kind = "abort"
  BY CallType DEF Kinds, Pcs
<1>4. Call("delete", "remove") \in CallSet /\ Call("delete", "remove").pc = "remove"
      /\ Call("delete", "remove").kind = "delete"
  BY CallType DEF Kinds, Pcs
<1>5. PICK c \in {r, Call("abort", "send"), Call("delete", "remove")} : ops' = [ops EXCEPT ![u] = c]
  BY DEF BeginRetry, BeginAbort, BeginDelete
<1> HIDE DEF r
<1>6. /\ c \in CallSet /\ c.pc \notin {"waiting", "acked"}
      /\ (c.kind = "retry" /\ c.pc \notin {"idle", "claim"} => c.pc \in RetryPcs)
  BY <1>2, <1>3, <1>4
<1>7. Steady(ops')
  BY <1>1, <1>5, <1>6, SteadyNew
<1> QED
  BY <1>1, <1>7, CalmFrames

LEMMA CalmUsers ==
  ASSUME Types, NEW u \in Users,
         MarkAborted(u) \/ WriteAborted(u) \/ AbortRefused(u) \/ RemoveTask(u) \/ DeleteRow(u)
  PROVE  Calm
<1>1. /\ u \in Callers /\ ops[u].kind # "retry" /\ ops[u].pc # "waiting" /\ mixed \subseteq mixed'
      /\ live' = live /\ live' \in Nat /\ live' <= live
  BY ConstantFacts
  DEF MarkAborted, WriteAborted, AbortRefused, RemoveTask, DeleteRow, Proven, worker, Types, Wire
<1>2. Steady(Finished(u))
  BY <1>1, SteadyFinished
<1>3. Fits(u, "write") /\ Fits(u, "delete")
  BY DEF Fits, Pcs
<1>4. Steady(At(u, "write")) /\ Steady(At(u, "delete"))
  BY <1>1, <1>3, SteadyAt
<1>5. CASE MarkAborted(u)
  <2>1. Show(adapter, "aborted", At(u, "write"))
    BY <1>5 DEF MarkAborted
  <2> QED
    BY <1>1, <1>4, <2>1, CalmShow
<1>6. CASE WriteAborted(u) \/ AbortRefused(u) \/ DeleteRow(u)
  BY <1>1, <1>2, <1>6, CalmFrames DEF WriteAborted, AbortRefused, DeleteRow, worker
<1>7. CASE RemoveTask(u)
  BY <1>1, <1>4, <1>7, CalmForgotten DEF RemoveTask
<1> QED
  BY <1>5, <1>6, <1>7

LEMMA CalmRetries ==
  ASSUME Types, NEW o \in Retriers, Claim(o) \/ Conflict(o) \/ TimeOut(o) \/ Complete(o) \/ Restore(o)
  PROVE  Calm
<1>1. /\ o \in Callers /\ ops[o] \in CallSet /\ live' = live /\ live' \in Nat /\ live' <= live
      /\ mixed \subseteq mixed'
  BY ConstantFacts DEF Claim, Conflict, TimeOut, Complete, Restore, worker, Types, Wire, Calls
<1>2. ops[o].pc # "waiting" => Steady(Finished(o))
  BY <1>1, SteadyFinished
<1>3. CASE Claim(o)
  <2> DEFINE c == [kind |-> "retry", pc |-> "send", prev |-> Recovered, override |-> ops[o].override]
  <2>1. ops' = [ops EXCEPT ![o] = c] /\ ops[o].pc = "claim" /\ frames' = frames
    BY <1>3 DEF Claim, worker
  <2>2. ops' \in [Callers -> CallSet]
    BY <1>3, ClaimTypes DEF Types, Calls
  <2>3. c.pc = "send" /\ c.kind = "retry"
    OBVIOUS
  <2> HIDE DEF c
  <2>4. ops'[o] = c /\ \A p \in Callers : p # o => ops'[p] = ops[p]
    BY <1>1, <2>1 DEF Types, Calls
  <2>5. Steady(ops')
    BY <1>1, <2>1, <2>2, <2>3, <2>4, SteadyMove DEF RetryPcs
  <2> QED
    BY <1>1, <2>1, <2>5, CalmFrames
<1>4. CASE Conflict(o)
  <2>1. ops[o].pc = "claim"
    BY <1>4 DEF Conflict
  <2>2. CASE o = Detector
    <3>1. \E s : Show(adapter, s, Finished(o))
      BY <1>4, <2>2 DEF Conflict
    <3> QED
      BY <1>1, <1>2, <2>1, <3>1, CalmShow
  <2>3. CASE o # Detector
    BY <1>1, <1>2, <1>4, <2>1, <2>3, CalmFrames DEF Conflict
  <2> QED
    BY <2>2, <2>3
<1>5. CASE TimeOut(o)
  <2>1. /\ ops' = At(o, "refused") /\ frames' = Unawaited(o) /\ o # "start" /\ o # None
        /\ o # Creator /\ Creator \in Callers
    BY <1>5, ConstantFacts DEF TimeOut
  <2>2. /\ DOMAIN frames' = DOMAIN frames
        /\ \A i \in DOMAIN frames : frames'[i] = IF frames[i] = o THEN None ELSE frames[i]
    BY <2>1, UnawaitedFacts DEF Types, Wire, FrameSet
  <2>3. ops'[o].pc = "refused" /\ \A p \in Callers : p # o => ops'[p] = ops[p]
    BY <1>1, <2>1, AtFacts DEF Types
  <2>4. None \notin Callers
    BY ConstantFacts
  <2> QED
    BY <1>1, <2>1, <2>2, <2>3, <2>4 DEF Calm, RetryingIn, Retrying
<1>6. CASE Complete(o)
  BY <1>1, <1>2, <1>6, CalmFrames DEF Complete, worker
<1>7. CASE Restore(o)
  <2>1. ops[o].pc # "waiting"
    BY <1>7 DEF Restore
  <2>2. (\E a, s : Show(a, s, Finished(o))) \/ (ops' = Finished(o) /\ frames' = frames)
    BY <1>7 DEF Restore
  <2> QED
    BY <1>1, <1>2, <2>1, <2>2, CalmShow, CalmFrames
<1> QED
  BY <1>3, <1>4, <1>5, <1>6, <1>7

LEMMA CalmDetector ==
  ASSUME Types, FoundIdle \/ WriteTerminated \/ MarkTerminated \/ TerminateRefused
  PROVE  Calm
<1>1. /\ Detector \in Callers /\ ops[Detector].pc # "waiting" /\ live' = live
      /\ live' \in Nat /\ live' <= live /\ mixed \subseteq mixed'
  BY ConstantFacts DEF FoundIdle, WriteTerminated, MarkTerminated, TerminateRefused, Busy, worker, Types, Wire
<1>2. Steady(Finished(Detector))
  BY <1>1, SteadyFinished
<1>3. CASE FoundIdle
  <2>1. Call("retry", "claim") \in CallSet /\ Call("retry", "claim").pc = "claim"
    BY CallType DEF Kinds, Pcs
  <2>2. /\ Call("terminate", "send") \in CallSet /\ Call("terminate", "send").pc = "send"
        /\ Call("terminate", "send").kind = "terminate"
    BY CallType DEF Kinds, Pcs
  <2>3. PICK c \in {Call("retry", "claim"), Call("terminate", "send")} : ops' = [ops EXCEPT ![Detector] = c]
    BY <1>3 DEF FoundIdle
  <2>4. /\ c \in CallSet /\ c.pc \notin {"waiting", "acked"}
        /\ (c.kind = "retry" /\ c.pc \notin {"idle", "claim"} => c.pc \in RetryPcs)
    BY <2>1, <2>2
  <2>5. Steady(ops')
    BY <1>1, <2>3, <2>4, SteadyNew
  <2> QED
    BY <1>1, <1>3, <2>5, CalmFrames DEF FoundIdle, worker
<1>4. CASE WriteTerminated
  <2>1. Fits(Detector, "mark") /\ ops[Detector].kind # "retry"
    BY <1>4 DEF Fits, Pcs, WriteTerminated
  <2>2. Steady(At(Detector, "mark"))
    BY <1>1, <2>1, SteadyAt
  <2> QED
    BY <1>1, <1>2, <1>4, <2>2, CalmFrames DEF WriteTerminated, worker
<1>5. CASE MarkTerminated
  <2>1. Show(adapter, "stuck_permanently", Finished(Detector))
    BY <1>5 DEF MarkTerminated
  <2> QED
    BY <1>1, <1>2, <2>1, CalmShow
<1>6. CASE TerminateRefused
  BY <1>1, <1>2, <1>6, CalmFrames DEF TerminateRefused, worker
<1> QED
  BY <1>3, <1>4, <1>5, <1>6

LEMMA CalmActions ==
  ASSUME Types, CalmAction
  PROVE  Calm
<1>1. CASE CreateWrite
  <2>1. Creator \in Callers /\ ops[Creator].pc # "waiting"
    BY <1>1, ConstantFacts DEF CreateWrite
  <2>2. Steady(Finished(Creator))
    BY <2>1, SteadyFinished
  <2> QED
    BY <1>1, <2>2, CalmFrames DEF CreateWrite, worker, Types, Wire
<1>2. CASE Project \/ EndRun \/ UNCHANGED vars
  <2>1. /\ ops' = ops /\ frames' = frames /\ mixed' = mixed
        /\ live' \in Nat /\ live' <= live
    BY <1>2 DEF Project, EndRun, vars, worker, Types, Wire
  <2> QED
    BY <2>1, SteadySame, CalmFrames
<1>3. CASE Observe
  <2>1. live' = live /\ mixed \subseteq mixed' /\ live' \in Nat /\ live' <= live
    BY <1>3 DEF Observe, Types, Wire
  <2>2. (\E s : Show(adapter, s, ops)) \/ UNCHANGED <<ops, frames>>
    BY <1>3 DEF Observe
  <2> QED
    BY <2>1, <2>2, SteadySame, CalmShow, CalmFrames
<1> QED
  BY <1>1, <1>2, <1>3, CalmBeginnings, CalmUsers, CalmRetries, CalmDetector DEF CalmAction
\* Before the creation has dispatched the task there is nothing to act on, except
\* for an operator whose retry is turned down.
LEMMA CreatedCalm ==
  ASSUME Types, RunInv, CalmAction
  PROVE  Created'
<1> SUFFICES ASSUME "creation" \notin mixed', ops'[Creator].pc = "acked"
             PROVE  Untouched'
  BY DEF Created
<1>1. "creation" \notin mixed /\ ops[Creator].pc = "acked"
  BY CalmActions DEF Calm
<1>2. Untouched
  BY <1>1 DEF RunInv, Created
<1> USE DEF Untouched
<1>3. /\ Detector \in Retriers /\ Users \subseteq Retriers /\ Retriers \subseteq Callers
      /\ Detector \notin Users /\ Creator \notin Retriers
  BY ConstantFacts, CallersAssumption
<1>4. Busy(Creator) /\ "creation" \in Dispatching
  BY <1>1 DEF Busy, Dispatching
<1>5. CASE UNCHANGED vars
  BY <1>2, <1>5 DEF vars, database, dashboard, worker
<1>6. ASSUME NEW u \in Users, BeginRetry(u) PROVE Untouched'
  <2> DEFINE c == [kind |-> "retry", pc |-> "claim", prev |-> None, override |-> adapter.local = "stuck"]
  <2>1. c.pc = "claim" /\ c.override = FALSE
    BY <1>2
  <2>2. ops' = [ops EXCEPT ![u] = c]
    BY <1>6 DEF BeginRetry
  <2> HIDE DEF c
  <2>3. ops'[u] = c /\ \A p \in Callers : p # u => ops'[p] = ops[p]
    BY <1>3, <2>2 DEF Types, Calls
  <2>4. UNCHANGED <<row, live, frames, events, adapter, proj>>
    BY <1>6 DEF BeginRetry, database, dashboard, worker
  <2> QED
    BY <1>2, <1>3, <2>1, <2>3, <2>4
<1>7. ASSUME NEW o \in Retriers, Conflict(o) PROVE Untouched'
  <2>1. o # Detector
    BY <1>2, <1>7 DEF Conflict
  <2>2. row' = "created"
    BY <1>2, <1>7 DEF Conflict, Recovered, database
  <2>3. ops' = Finished(o) /\ UNCHANGED <<live, frames, events, adapter, proj>>
    BY <1>7, <2>1 DEF Conflict
  <2>4. /\ ops'[o].pc = "idle" /\ ops'[o].override = FALSE
        /\ \A p \in Callers : p # o => ops'[p] = ops[p]
    BY <1>3, <2>3, KeepsFinished DEF Types, Idle, Call
  <2> QED
    BY <1>2, <1>3, <2>2, <2>3, <2>4
<1>8. ASSUME NEW u \in Users,
             \/ BeginAbort(u) \/ BeginDelete(u)
             \/ MarkAborted(u) \/ WriteAborted(u) \/ AbortRefused(u) \/ RemoveTask(u) \/ DeleteRow(u)
      PROVE  FALSE
  <2>1. ops[u].pc \in {"idle", "claim"}
    BY <1>2, <1>3
  <2> QED
    BY <1>2, <1>4, <1>8, <2>1
    DEF BeginAbort, BeginDelete, MarkAborted, WriteAborted, AbortRefused, RemoveTask, DeleteRow,
        Proven, Terminal
<1>9. ASSUME NEW o \in Retriers, Claim(o) \/ TimeOut(o) \/ Complete(o) \/ Restore(o)
      PROVE  FALSE
  <2>1. ops[o].pc \in {"idle", "claim"} /\ ops[o].override = FALSE /\ (ops[o].pc = "claim" => o # Detector)
    BY <1>2
  <2> QED
    BY <1>2, <1>9, <2>1 DEF Claim, TimeOut, Complete, Restore, Recovered, Eligible
<1>10. ASSUME FoundIdle \/ WriteTerminated \/ MarkTerminated \/ TerminateRefused
       PROVE  FALSE
  <2>1. ops[Detector].pc \in {"idle", "claim"}
    BY <1>2, <1>3
  <2> QED
    BY <1>4, <1>10, <2>1 DEF FoundIdle, WriteTerminated, MarkTerminated, TerminateRefused
<1>11. ASSUME CreateWrite \/ Project \/ Observe \/ EndRun PROVE FALSE
  BY <1>1, <1>2, <1>11 DEF CreateWrite, Project, Observe, EndRun
<1> QED
  BY <1>5, <1>6, <1>7, <1>8, <1>9, <1>10, <1>11 DEF CalmAction

LEMMA SendAbortRuns ==
  ASSUME Types, RunInv, NEW o \in Retriers, SendAbort(o)
  PROVE  RunInv'
<1>1. o \in Callers /\ ops[o].pc = "send" /\ o # "start" /\ o # Creator
  BY ConstantFacts DEF SendAbort
<1>2. UNCHANGED <<row, live, events, mixed>>
  BY DEF SendAbort, database
<1>3. ~Untouched
  BY <1>1 DEF Untouched
<1>4. CASE frames' = Append(frames, o) /\ ops' = At(o, "waiting")
  <2>1. /\ ops'[o].pc = "waiting" /\ ops'[o].kind = ops[o].kind
        /\ \A p \in Callers : p # o => ops'[p] = ops[p]
    BY <1>1, <1>4, AtFacts DEF Types
  <2> DEFINE n == Len(frames)
  <2>2. /\ n \in Nat /\ DOMAIN frames = 1..n /\ DOMAIN frames' = 1..(n + 1)
        /\ frames'[n + 1] = o /\ \A i \in 1..n : frames'[i] = frames[i]
    BY <1>1, <1>4, AppendProperties, LenProperties DEF Types, Wire, FrameSet
  <2> HIDE DEF n
  <2>3. \A i \in 1..n : frames[i] # o
    BY <1>1, <2>2 DEF RunInv, Awaited
  <2>4. Awaited'
    <3> SUFFICES ASSUME NEW i \in 1..(n + 1), frames'[i] \in Callers
                 PROVE  /\ ops'[frames'[i]].pc = "waiting"
                        /\ \A j \in 1..(n + 1) : frames'[j] = frames'[i] => j = i
      BY <2>2 DEF Awaited
    <3>1. CASE i = n + 1
      <4>1. \A j \in 1..(n + 1) : j # n + 1 => frames'[j] # o
        BY <2>2, <2>3
      <4> QED
        BY <2>1, <2>2, <3>1, <4>1
    <3>2. CASE i \in 1..n
      <4>1. /\ frames'[i] = frames[i] /\ frames[i] # o /\ ops[frames[i]].pc = "waiting"
            /\ \A j \in 1..n : frames[j] = frames[i] => j = i
        BY <2>2, <2>3, <3>2 DEF RunInv, Awaited
      <4>2. \A j \in 1..(n + 1) : j = n + 1 \/ j \in 1..n
        BY <2>2
      <4> QED
        BY <2>1, <2>2, <4>1, <4>2
    <3> QED
      BY <2>2, <3>1, <3>2
  <2>5. Starts' = Starts
    <3>1. \A i \in 1..(n + 1) : frames'[i] = "start" <=> (i \in 1..n /\ frames[i] = "start")
      BY <1>1, <2>2
    <3>2. \A i \in 1..n : i \in 1..(n + 1)
      BY <2>2
    <3> QED
      BY <2>2, <3>1, <3>2 DEF Starts
  <2>6. OneRun'
    BY <1>2, <2>5 DEF RunInv, OneRun
  <2>7. Cleared'
    <3> SUFFICES ASSUME "creation" \notin mixed, NEW p \in Callers, RetryingIn(ops', p)
                 PROVE  /\ ops'[p].pc = "waiting" =>
                             \A i, j \in 1..(n + 1) : frames'[i] = p /\ frames'[j] = "start" => j < i
                        /\ ops'[p].pc = "acked" => live = 0 /\ Starts = {}
      BY <1>2, <2>2, <2>5 DEF Cleared, RetryingIn, Retrying
    <3>1. CASE p = o
      <4>1. \A i, j \in 1..(n + 1) : frames'[i] = o /\ frames'[j] = "start" => i = n + 1 /\ j \in 1..n
        BY <1>1, <2>2, <2>3
      <4>2. \A j \in 1..n : j < n + 1
        BY <2>2
      <4> QED
        BY <2>1, <3>1, <4>1, <4>2
    <3>2. CASE p # o
      <4>1. Retrying(p) /\ ops'[p] = ops[p]
        BY <2>1, <3>2 DEF RetryingIn, Retrying
      <4>2. /\ ops[p].pc = "waiting" =>
                 \A i, j \in 1..n : frames[i] = p /\ frames[j] = "start" => j < i
            /\ ops[p].pc = "acked" => live = 0 /\ Starts = {}
        BY <2>2, <4>1 DEF RunInv, Cleared
      <4>3. \A i \in 1..(n + 1) : frames'[i] \in {p, "start"} => i \in 1..n
        BY <1>1, <2>2, <3>2
      <4> QED
        BY <2>2, <4>1, <4>2, <4>3
    <3> QED
      BY <3>1, <3>2
  <2>8. Created'
    <3>1. Creator \in Callers
      BY ConstantFacts
    <3> QED
      BY <1>1, <1>2, <1>3, <2>1, <3>1 DEF RunInv, Created
  <2> QED
    BY <2>4, <2>6, <2>7, <2>8 DEF RunInv
<1>5. CASE ops' = At(o, "refused") /\ frames' = frames
  <2>1. Fits(o, "refused") /\ "refused" \in RetryPcs
    BY DEF Fits, Pcs, RetryPcs
  <2>2. Steady(ops')
    BY <1>1, <1>5, <2>1, SteadyAt
  <2>3. Calm
    BY <1>2, <1>5, <2>2, CalmFrames DEF Types, Wire
  <2>4. Created'
    BY <1>2, <1>3, <2>3 DEF Calm, RunInv, Created
  <2> QED
    BY <2>3, <2>4, CalmRuns DEF RunInv
<1> QED
  BY <1>4, <1>5 DEF SendAbort
\* A start is sent: it is the last frame, and nobody waits for it.
LEMMA StartSent ==
  ASSUME Types, RunInv, SendStart,
         \A p \in Callers : ops[p].pc = "waiting" => ops'[p].pc = "waiting"
  PROVE  /\ Awaited'
         /\ Starts = {} => \A i, j \in Starts' : i = j
<1> DEFINE n == Len(frames)
<1>1. /\ n \in Nat /\ DOMAIN frames = 1..n /\ DOMAIN frames' = 1..(n + 1)
      /\ frames'[n + 1] = "start" /\ \A i \in 1..n : frames'[i] = frames[i]
  BY AppendProperties, LenProperties DEF Types, Wire, FrameSet, SendStart
<1> HIDE DEF n
<1>2. \A i \in 1..(n + 1) : i = n + 1 \/ i \in 1..n
  BY <1>1
<1>3. "start" \notin Callers
  BY ConstantFacts
<1>4. Awaited'
  <2> SUFFICES ASSUME NEW i \in 1..(n + 1), frames'[i] \in Callers
               PROVE  /\ ops'[frames'[i]].pc = "waiting"
                      /\ \A j \in 1..(n + 1) : frames'[j] = frames'[i] => j = i
    BY <1>1 DEF Awaited
  <2>1. i \in 1..n /\ frames'[i] = frames[i]
    BY <1>1, <1>2, <1>3
  <2>2. /\ ops[frames[i]].pc = "waiting"
        /\ \A j \in 1..n : frames[j] = frames[i] => j = i
    BY <1>1, <2>1 DEF RunInv, Awaited
  <2> QED
    BY <1>1, <1>2, <1>3, <2>1, <2>2
<1>5. Starts = {} => \A i \in 1..(n + 1) : frames'[i] = "start" => i = n + 1
  BY <1>1, <1>2 DEF Starts
<1> QED
  BY <1>1, <1>4, <1>5 DEF Starts

LEMMA DispatchRuns ==
  ASSUME Types, RunInv, NEW o \in Retriers, Dispatch(o)
  PROVE  RunInv'
<1>1. o \in Callers /\ ops[o].pc = "acked" /\ Retrying(o) /\ o # Creator
  BY ConstantFacts DEF Dispatch, Retrying
<1>2. UNCHANGED <<live, mixed>>
  BY DEF Dispatch
<1>3. ~Untouched
  BY <1>1 DEF Untouched
<1>4. PICK pc \in {"complete", "restore"} :
        ops' = At(o, pc) /\ (SendStart \/ (pc = "restore" /\ frames' = frames))
  BY DEF Dispatch
<1>5. /\ ops'[o].pc = pc /\ \A p \in Callers : p # o => ops'[p] = ops[p]
  BY <1>1, <1>4, AtFacts DEF Types
<1>6. Created'
  <2>1. Creator \in Callers
    BY ConstantFacts
  <2> QED
    BY <1>1, <1>2, <1>3, <1>5, <2>1 DEF RunInv, Created
<1>7. CASE SendStart
  <2>1. \A p \in Callers : ops[p].pc = "waiting" => ops'[p].pc = "waiting"
    BY <1>1, <1>5
  <2>2. Awaited' /\ (Starts = {} => \A i, j \in Starts' : i = j)
    BY <1>7, <2>1, StartSent
  <2>3. "creation" \notin mixed => live = 0 /\ Starts = {}
    BY <1>1 DEF RunInv, Cleared
  <2>4. OneRun'
    BY <1>2, <2>2, <2>3 DEF OneRun
  <2>5. \A p \in Callers : RetryingIn(ops', p) => p = o
    BY <1>1, <1>5 DEF Types, Calls, RetryingIn, Retrying
  <2>6. Cleared'
    BY <1>5, <2>5 DEF Cleared, RetryingIn, Retrying
  <2> QED
    BY <1>6, <2>2, <2>4, <2>6 DEF RunInv
<1>8. CASE pc = "restore" /\ frames' = frames
  <2>1. Fits(o, "restore") /\ "restore" \in RetryPcs
    BY <1>1 DEF Fits, Pcs, RetryPcs, Retrying
  <2>2. Steady(ops')
    BY <1>1, <1>4, <1>8, <2>1, SteadyAt
  <2>3. Calm
    BY <1>2, <1>8, <2>2, CalmFrames DEF Types, Wire
  <2> QED
    BY <1>6, <2>3, CalmRuns DEF RunInv
<1> QED
  BY <1>4, <1>7, <1>8
LEMMA CreateDispatchRuns ==
  ASSUME Types, RunInv, CreateDispatch
  PROVE  RunInv'
<1>1. Creator \in Callers /\ ops[Creator].pc = "acked" /\ ~Retrying(Creator)
  BY ConstantFacts DEF CreateDispatch, Types, Calls
<1>2. UNCHANGED <<live, mixed>>
  BY DEF CreateDispatch
<1>3. CASE SendStart /\ ops' = At(Creator, "write")
  <2>1. /\ ops'[Creator].pc = "write" /\ ops'[Creator].kind = ops[Creator].kind
        /\ \A p \in Callers : p # Creator => ops'[p] = ops[p]
    BY <1>1, <1>3, AtFacts DEF Types
  <2>2. \A p \in Callers : ops[p].pc = "waiting" => ops'[p].pc = "waiting"
    BY <1>1, <2>1
  <2>3. Awaited' /\ (Starts = {} => \A i, j \in Starts' : i = j)
    BY <1>3, <2>2, StartSent
  <2>4. "creation" \notin mixed => Untouched /\ live = 0 /\ Starts = {}
    BY <1>1 DEF RunInv, Created, Untouched, Starts
  <2>5. OneRun'
    BY <1>2, <2>3, <2>4 DEF OneRun
  <2>6. "creation" \notin mixed => \A p \in Callers : ~RetryingIn(ops', p)
    <3>1. ASSUME "creation" \notin mixed, NEW p \in Callers, RetryingIn(ops', p) PROVE FALSE
      <4>1. p # Creator /\ Retrying(p)
        BY <1>1, <2>1, <3>1 DEF RetryingIn, Retrying
      <4>2. p \in Retriers
        BY <4>1 DEF Types, Calls
      <4> QED
        BY <2>4, <3>1, <4>1, <4>2 DEF Untouched, Retrying
    <3> QED
      BY <3>1
  <2>7. Cleared'
    BY <1>2, <2>6 DEF Cleared, RetryingIn, Retrying
  <2>8. Created'
    BY <2>1 DEF Created
  <2> QED
    BY <2>3, <2>5, <2>7, <2>8 DEF RunInv
<1>4. CASE ops' = Finished(Creator) /\ frames' = frames
  <2>1. Steady(ops') /\ ops'[Creator] = Idle
    BY <1>1, <1>4, SteadyFinished, KeepsFinished DEF Types
  <2>2. Calm
    BY <1>2, <1>4, <2>1, CalmFrames DEF Types, Wire
  <2>3. Created'
    BY <2>1, IdleType DEF Created
  <2> QED
    BY <2>2, <2>3, CalmRuns DEF RunInv
<1> QED
  BY <1>3, <1>4 DEF CreateDispatch

\* The worker has read a frame: the others move up.
LEMMA FrameRead ==
  ASSUME Types, frames # <<>>, frames' = Tail(frames), NEW n \in Nat, n = Len(frames)
  PROVE  /\ n > 0 /\ 1 \in 1..n
         /\ DOMAIN frames = 1..n /\ DOMAIN frames' = 1..(n - 1)
         /\ Head(frames) = frames[1]
         /\ \A i \in 1..(n - 1) : i + 1 \in 1..n /\ i + 1 # 1 /\ frames'[i] = frames[i + 1]
<1>1. frames \in Seq(FrameSet)
  BY DEF Types, Wire
<1>2. n > 0 /\ DOMAIN frames = 1..n
  BY <1>1, LenProperties, EmptySeq
<1>3. /\ Tail(frames) \in Seq(FrameSet) /\ Len(Tail(frames)) = n - 1
      /\ \A i \in 1..Len(Tail(frames)) : Tail(frames)[i] = frames[i + 1]
  BY <1>1, HeadTailProperties
<1>4. DOMAIN frames' = 1..(n - 1) /\ Head(frames) = frames[1]
  BY <1>1, <1>3, LenProperties, HeadTailProperties
<1>5. 1 \in 1..n /\ \A i \in 1..(n - 1) : i + 1 \in 1..n /\ i + 1 # 1
  BY <1>2
<1> QED
  BY <1>2, <1>3, <1>4, <1>5

\* What is left of the invariant once a frame has been read: whoever still waits has
\* a frame, and the order of what is left is the same.
LEMMA FrameReadRuns ==
  ASSUME Types, RunInv, frames # <<>>, frames' = Tail(frames),
         \A p \in Callers : p # Head(frames) /\ ops[p].pc = "waiting" => ops'[p].pc = "waiting"
  PROVE  /\ Awaited'
         /\ \A p \in Callers :
              (\A i, j \in DOMAIN frames : frames[i] = p /\ frames[j] = "start" => j < i)
              => \A i, j \in DOMAIN frames' : frames'[i] = p /\ frames'[j] = "start" => j < i
         /\ Starts = {} => Starts' = {}
         /\ (\A i, j \in Starts : i = j) => \A i, j \in Starts' : i = j
         /\ (\A i, j \in Starts : i = j) /\ Head(frames) = "start" => Starts' = {}
<1> DEFINE n == Len(frames)
<1>0. n \in Nat
  BY LenProperties DEF Types, Wire
<1>1. /\ n > 0 /\ 1 \in 1..n
      /\ DOMAIN frames = 1..n /\ DOMAIN frames' = 1..(n - 1)
      /\ Head(frames) = frames[1]
      /\ \A i \in 1..(n - 1) : i + 1 \in 1..n /\ i + 1 # 1 /\ frames'[i] = frames[i + 1]
  BY <1>0, FrameRead
<1> HIDE DEF n
<1>2. \A i, j \in 1..(n - 1) : (i + 1 = j + 1 => i = j) /\ (i + 1 < j + 1 => i < j)
  BY <1>0
<1>3. Awaited'
  <2> SUFFICES ASSUME NEW i \in 1..(n - 1), frames'[i] \in Callers
               PROVE  /\ ops'[frames'[i]].pc = "waiting"
                      /\ \A j \in 1..(n - 1) : frames'[j] = frames'[i] => j = i
    BY <1>1 DEF Awaited
  <2>1. i + 1 \in 1..n /\ i + 1 # 1 /\ frames'[i] = frames[i + 1]
    BY <1>1
  <2>2. /\ ops[frames[i + 1]].pc = "waiting"
        /\ \A j \in 1..n : frames[j] = frames[i + 1] => j = i + 1
    BY <1>1, <2>1 DEF RunInv, Awaited
  <2>3. frames[i + 1] # Head(frames)
    BY <1>1, <2>1, <2>2
  <2>4. \A j \in 1..(n - 1) : frames'[j] = frames'[i] => j + 1 = i + 1
    BY <1>1, <2>1, <2>2
  <2> QED
    BY <1>2, <2>1, <2>2, <2>3, <2>4
<1>4. ASSUME NEW p \in Callers,
             \A i, j \in 1..n : frames[i] = p /\ frames[j] = "start" => j < i
      PROVE  \A i, j \in 1..(n - 1) : frames'[i] = p /\ frames'[j] = "start" => j < i
  BY <1>1, <1>2, <1>4
<1>5. \A i \in 1..(n - 1) : frames'[i] = "start" => i + 1 \in Starts /\ i + 1 # 1
  BY <1>1 DEF Starts
<1>6. Head(frames) = "start" => 1 \in Starts
  BY <1>1 DEF Starts
<1>7. \A i \in Starts' : i \in 1..(n - 1) /\ i + 1 \in Starts /\ i + 1 # 1
  BY <1>1, <1>5 DEF Starts
<1>8. Starts = {} => Starts' = {}
  BY <1>7
<1>9. (\A i, j \in Starts : i = j) => \A i, j \in Starts' : i = j
  BY <1>2, <1>7
<1>10. (\A i, j \in Starts : i = j) /\ Head(frames) = "start" => Starts' = {}
  BY <1>6, <1>7
<1> QED
  BY <1>1, <1>3, <1>4, <1>8, <1>9, <1>10
LEMMA HeadStart ==
  ASSUME Types, frames # <<>>
  PROVE  /\ 1 \in DOMAIN frames /\ Head(frames) = frames[1]
         /\ \A j \in DOMAIN frames : ~(j < 1)
         /\ Head(frames) = "start" => Starts # {}
<1>1. Len(frames) \in Nat
  BY LenProperties DEF Types, Wire
<1>2. DOMAIN frames = 1..Len(frames) /\ 1 \in 1..Len(frames) /\ Head(frames) = frames[1]
  <2>1. \A n \in Nat : n = Len(frames) => DOMAIN frames = 1..n /\ 1 \in 1..n
    BY LenProperties, EmptySeq DEF Types, Wire
  <2>2. Head(frames) = frames[1]
    BY HeadTailProperties DEF Types, Wire
  <2> QED
    BY <1>1, <2>1, <2>2
<1>3. \A j \in 1..Len(frames) : ~(j < 1)
  BY <1>1
<1> QED
  BY <1>2, <1>3 DEF Starts

LEMMA StartRuns ==
  ASSUME Types, RunInv, Start
  PROVE  RunInv'
<1>1. /\ frames # <<>> /\ Head(frames) = "start" /\ frames' = Tail(frames)
      /\ live' = live + 1 /\ UNCHANGED <<ops, mixed>>
  BY DEF Start
<1>2. /\ Starts # {} /\ "start" \notin Callers
  BY <1>1, HeadStart, ConstantFacts
<1>3. /\ Awaited'
      /\ \A p \in Callers :
           (\A i, j \in DOMAIN frames : frames[i] = p /\ frames[j] = "start" => j < i)
           => \A i, j \in DOMAIN frames' : frames'[i] = p /\ frames'[j] = "start" => j < i
      /\ (\A i, j \in Starts : i = j) => Starts' = {}
  BY <1>1, FrameReadRuns
<1>4. OneRun'
  <2>1. "creation" \notin mixed => live = 0 /\ Starts' = {}
    BY <1>2, <1>3 DEF RunInv, OneRun, Types, Wire
  <2> QED
    BY <1>1, <2>1 DEF OneRun
<1>5. Cleared'
  <2> SUFFICES ASSUME "creation" \notin mixed, NEW p \in Callers, Retrying(p)
               PROVE  /\ ops[p].pc = "waiting" =>
                           \A i, j \in DOMAIN frames' : frames'[i] = p /\ frames'[j] = "start" => j < i
                      /\ ops[p].pc # "acked"
    BY <1>1 DEF Cleared, Retrying
  <2> QED
    BY <1>2, <1>3 DEF RunInv, Cleared
<1>6. Created'
  BY <1>1 DEF RunInv, Created, Untouched
<1> QED
  BY <1>3, <1>4, <1>5, <1>6 DEF RunInv

LEMMA AbortRuns ==
  ASSUME Types, RunInv, Abort
  PROVE  RunInv'
<1> DEFINE h == Head(frames)
<1>1. /\ frames # <<>> /\ h # "start" /\ frames' = Tail(frames)
      /\ live' \in {0, live} /\ UNCHANGED <<row, adapter, proj, mixed>>
  BY DEF Abort, database, dashboard
<1>2. h \in {None} \cup Retriers
  BY <1>1, HeadTailProperties DEF Types, Wire, FrameSet
<1>3. \/ ops' = ops
      \/ h # None /\ live' = 0 /\ ops' = At(h, "acked")
      \/ h # None /\ ops' = At(h, "refused")
  BY DEF Abort
<1>4. \A p \in Callers : p # h => ops'[p] = ops[p]
  BY <1>2, <1>3, AtFacts, ConstantFacts DEF Types
<1>5. h \in Callers /\ ops' # ops =>
        /\ ops[h].pc = "waiting" /\ ops'[h].kind = ops[h].kind
        /\ ops'[h].pc = "refused" \/ (ops'[h].pc = "acked" /\ live' = 0)
  <2>1. h \in Callers => ops[h].pc = "waiting"
    BY <1>1, HeadStart DEF RunInv, Awaited
  <2> HIDE DEF h
  <2> QED
    BY <1>3, <2>1, AtFacts DEF Types
<1>6. 1 \in DOMAIN frames /\ frames[1] = h /\ \A j \in DOMAIN frames : ~(j < 1)
  BY <1>1, HeadStart
<1>7. /\ Awaited'
      /\ \A p \in Callers :
           (\A i, j \in DOMAIN frames : frames[i] = p /\ frames[j] = "start" => j < i)
           => \A i, j \in DOMAIN frames' : frames'[i] = p /\ frames'[j] = "start" => j < i
      /\ Starts = {} => Starts' = {}
      /\ (\A i, j \in Starts : i = j) => \A i, j \in Starts' : i = j
  BY <1>1, <1>4, FrameReadRuns
<1> HIDE DEF h
<1>8. OneRun'
  BY <1>1, <1>7 DEF RunInv, OneRun
<1>9. Cleared'
  <2> SUFFICES ASSUME "creation" \notin mixed, NEW p \in Callers, RetryingIn(ops', p)
               PROVE  /\ ops'[p].pc = "waiting" =>
                           \A i, j \in DOMAIN frames' : frames'[i] = p /\ frames'[j] = "start" => j < i
                      /\ ops'[p].pc = "acked" => live' = 0 /\ Starts' = {}
    BY <1>1 DEF Cleared, RetryingIn, Retrying
  <2>1. CASE ops'[p] = ops[p]
    <3>1. Retrying(p)
      BY <2>1 DEF RetryingIn, Retrying
    <3> QED
      BY <1>1, <1>7, <2>1, <3>1 DEF RunInv, Cleared
  <2>2. CASE ops'[p] # ops[p]
    <3>1. p = h /\ ops' # ops
      BY <1>4, <2>2
    <3>2. /\ ops[h].pc = "waiting" /\ ops'[h].kind = ops[h].kind
          /\ ops'[h].pc = "refused" \/ (ops'[h].pc = "acked" /\ live' = 0)
      BY <1>5, <3>1
    <3>3. Retrying(h)
      BY <3>1, <3>2 DEF RetryingIn, Retrying
    <3>4. \A i, j \in DOMAIN frames : frames[i] = h /\ frames[j] = "start" => j < i
      BY <3>1, <3>2, <3>3 DEF RunInv, Cleared
    <3>5. Starts = {}
      BY <1>6, <3>4 DEF Starts
    <3> QED
      BY <1>7, <3>1, <3>2, <3>5
  <2> QED
    BY <2>1, <2>2
<1>10. Created'
  <2>1. ops'[Creator] = ops[Creator]
    BY <1>2, <1>4, ConstantFacts
  <2> QED
    BY <1>1, <2>1 DEF RunInv, Created, Untouched
<1> QED
  BY <1>7, <1>8, <1>9, <1>10 DEF RunInv

LEMMA WorkerDiesRuns ==
  ASSUME Types, RunInv, WorkerDies
  PROVE  RunInv'
<1>1. /\ frames' = <<>> /\ events' = <<>> /\ live' <= 1 /\ (live = 0 => live' = 0)
      /\ UNCHANGED <<row, ops, adapter, proj, mixed>>
  BY DEF WorkerDies, database, dashboard
<1>2. Awaited' /\ Starts' = {}
  BY <1>1 DEF Awaited, Starts
<1>3. OneRun' /\ Cleared'
  BY <1>1, <1>2 DEF RunInv, OneRun, Cleared, Retrying
<1>4. Created'
  BY <1>1 DEF RunInv, Created, Untouched
<1> QED
  BY <1>2, <1>3, <1>4 DEF RunInv

LEMMA CrashRuns ==
  ASSUME Types, RunInv, Crash
  PROVE  RunInv'
<1>1. /\ frames' = <<>> /\ live' <= 1 /\ ops' = [o \in Callers |-> Idle]
  BY DEF Crash
<1>2. Awaited' /\ Starts' = {}
  BY <1>1 DEF Awaited, Starts
<1>3. \A o \in Callers : ops'[o].kind = "none" /\ ops'[o].pc = "idle"
  BY <1>1, IdleType
<1>4. OneRun' /\ Cleared' /\ Created'
  BY <1>1, <1>2, <1>3, ConstantFacts DEF OneRun, Cleared, Created, Retrying
<1> QED
  BY <1>2, <1>4 DEF RunInv

LEMMA RunStep == Types /\ RunInv /\ [Next]_vars => RunInv'
<1> SUFFICES ASSUME Types, RunInv, [Next]_vars PROVE RunInv'
  OBVIOUS
<1>1. CASE CalmAction
  <2>1. Calm /\ Created'
    BY <1>1, CalmActions, CreatedCalm
  <2> QED
    BY <2>1, CalmRuns DEF RunInv
<1>2. ASSUME NEW o \in Retriers, SendAbort(o) \/ Dispatch(o) PROVE RunInv'
  BY <1>2, SendAbortRuns, DispatchRuns
<1>3. CASE CreateDispatch \/ Start \/ Abort \/ WorkerDies \/ Crash
  BY <1>3, CreateDispatchRuns, StartRuns, AbortRuns, WorkerDiesRuns, CrashRuns
<1> QED
  BY <1>1, <1>2, <1>3 DEF Next, Step, UserStep, CalmAction, Retriers
-----------------------------------------------------------------------------
(* What the row tells                                                      *)

\* The run, if there ever was one, is over, and none is on its way.
Over == live = 0 /\ Starts = {}

\* Either the detector watches the task, or a person is asked to.
Watched == adapter.local = "stuck" \/ (adapter.active /\ adapter.local = "running")

Against == {"abort", "delete", "terminate"}

\* A retry has the row to itself: no news is on its way to the row, and nobody aborts
\* or removes the task; if it fails it shows a status that lets the task be retried.
Alone ==
  \A o \in Callers : Retrying(o) =>
    /\ row = "retrying" /\ proj.pending = None
    /\ ops[o].pc # "unwind"
    /\ Fallback(o) \in Terminal \cup {"stuck"}
    /\ \A p \in Retriers : ops[p].kind \notin Against

\* A start is sent when the worker has nothing left to read, since the abort of the
\* retry that sends it was the last frame before it.
Front ==
  /\ \A i \in Starts : i = 1
  /\ \A o \in Callers : Retrying(o) =>
       /\ ops[o].pc = "waiting" =>
            \A i, j \in DOMAIN frames : frames[i] = o => j <= i
       /\ ops[o].pc = "acked" => DOMAIN frames = {}

\* Somebody has recorded, or is about to record, that the task has ended.
Fresh(es) == \E i \in DOMAIN es : es[i].status \in Terminal /\ ~es[i].old
Claimed(o) == Retrying(o) /\ ops[o].pc # "complete" /\ Fallback(o) \in Terminal
Proved(o) == ops[o].kind \in {"abort", "terminate"} /\ ops[o].pc \in {"acked", "write", "mark"}
Ended ==
  \/ row \in Terminal \cup {"none"}
  \/ proj.pending \in Terminal
  \/ Fresh(events)
  \/ \E o \in Retriers : Claimed(o) \/ Proved(o)

\* Only a task that has ended is deleted, or shown as given up.
Removing(u) == ops[u].kind = "delete" /\ ops[u].pc = "delete"
Gone ==
  /\ \A u \in Users : ops[u].kind = "delete" => row \in Terminal \cup {"none"}
  /\ ops[Detector].kind = "terminate" /\ ops[Detector].pc = "mark" =>
       row \in Terminal \cup {"none"}
  /\ adapter.local = "none" => row = "none" \/ \E u \in Users : Removing(u)

\* What the dashboard shows of a row that says the task is under way, until the
\* projector has told the row; and what the projector remembers.
Shows ==
  /\ row \in {"created", "dispatched", "running"} => Watched \/ proj.pending \in Terminal
  /\ proj.pending = "running" => row # "retrying"
  /\ proj.last \in Terminal => proj.pending = proj.last
  /\ row = "retrying" /\ adapter.local = "running" =>
       \E o \in Callers : Retrying(o) /\ ops[o].pc = "send"

Tells == Alone /\ Front /\ (Ended => Over) /\ Gone /\ Shows
TellInv == mixed = {} => Tells

\* The calls but o's are as they were, or the detector's is over.
Others(all, o) ==
  \A p \in Callers : p # o =>
    all[p] = ops[p] \/ (p = Detector /\ ~Retrying(p) /\ all[p] = Idle)

\* Nobody begins to retry, to abort or to remove the task, or gets an answer.
Follows(c, b) ==
  /\ c.kind = "retry" /\ c.pc \notin {"idle", "claim"} =>
       /\ b.kind = "retry" /\ b.pc \notin {"idle", "claim"}
       /\ c.prev = b.prev /\ c.override = b.override
       /\ c.pc # "unwind" /\ (b.pc = "complete" => c.pc = "complete")
  /\ c.kind \in Against =>
       /\ c.kind = b.kind
       /\ c.pc \in {"acked", "write", "mark"} => b.pc \in {"acked", "write", "mark"}
       /\ c.pc = "mark" => b.pc = "mark"
Milder(all) == \A p \in Callers : ops[p].pc # "unwind" => Follows(all[p], ops[p])

LEMMA FollowsSame == ASSUME NEW b, b.pc # "unwind" PROVE Follows(b, b)
BY DEF Follows

LEMMA FollowsIdle == ASSUME NEW b PROVE Follows(Idle, b)
BY IdleType DEF Follows, Against

LEMMA MilderMove ==
  ASSUME NEW all, NEW o, Others(all, o), o \in Callers => Follows(all[o], ops[o])
  PROVE  Milder(all)
BY FollowsSame, FollowsIdle DEF Others, Milder

LEMMA MilderFinished ==
  ASSUME Calls, NEW o \in Callers
  PROVE  Others(Finished(o), o) /\ Milder(Finished(o)) /\ Finished(o)[o] = Idle
         /\ Finished(o) \in [Callers -> CallSet]
<1>1. Finished(o)[o] = Idle /\ Others(Finished(o), o) /\ Finished(o) \in [Callers -> CallSet]
  BY KeepsFinished DEF Others, Keeps
<1> QED
  BY <1>1, MilderMove, FollowsIdle

LEMMA OthersAt ==
  ASSUME Calls, NEW o \in Callers, NEW pc
  PROVE  Others(At(o, pc), o)
BY AtFacts DEF Others

\* A detector that does not retry just stops.
LEMMA ForgottenIdle ==
  ASSUME NEW all \in [Callers -> CallSet], ~RetryingIn(all, Detector)
  PROVE  /\ Forgotten(all)[Detector] = Idle
         /\ \A p \in Callers : p # Detector => Forgotten(all)[p] = all[p]
<1>1. Detector \in Callers /\ all[Detector] \in CallSet
  BY ConstantFacts
<1>2. \A p \in Callers : p # Detector => Forgotten(all)[p] = all[p]
  BY <1>1, ForgottenFacts
<1>3. all[Detector].pc \notin {"restore", "unwind"}
  BY <1>1 DEF CallSet, RetryingIn
<1>4. ~(/\ all[Detector].kind = "retry"
        /\ all[Detector].pc \in {"send", "waiting", "acked", "refused", "complete"})
  BY DEF RetryingIn
<1>5. Forgotten(all) = [all EXCEPT ![Detector] = Idle]
  BY <1>3, <1>4 DEF Forgotten
<1> QED
  BY <1>1, <1>2, <1>5

\* A status is shown while the detector does not retry.
LEMMA ShowMilder ==
  ASSUME NEW a, NEW s, NEW all \in [Callers -> CallSet], NEW o, Show(a, s, all),
         ~RetryingIn(all, Detector), Others(all, o), Milder(all)
  PROVE  /\ adapter' = Shown(a, s) /\ Others(ops', o) /\ Milder(ops')
         /\ o \in Callers => ops'[o] = all[o] \/ (o = Detector /\ ops'[o] = Idle)
<1>1. adapter' = Shown(a, s)
  BY DEF Show
<1>2. CASE Retires(a, s)
  <2>1. /\ ops'[Detector] = Idle
        /\ \A p \in Callers : p # Detector => ops'[p] = all[p]
    BY <1>2, ForgottenIdle DEF Show
  <2>2. Detector # o => ~Retrying(Detector)
    BY ConstantFacts DEF Others, RetryingIn, Retrying
  <2> QED
    BY <1>1, <2>1, <2>2, FollowsIdle DEF Others, Milder
<1>3. CASE ~Retires(a, s)
  BY <1>1, <1>3 DEF Show
<1> QED
  BY <1>2, <1>3

LEMMA NoUnwind ==
  ASSUME Calls, Alone
  PROVE  \A p \in Callers : ops[p].pc # "unwind"
BY DEF Calls, CallSet, Alone, Retrying

LEMMA MilderCalls ==
  ASSUME Calls, Alone, Milder(ops')
  PROVE  /\ \A p \in Callers : RetryingIn(ops', p) =>
              /\ Retrying(p) /\ ops'[p].prev = ops[p].prev /\ ops'[p].override = ops[p].override
              /\ ops'[p].pc # "unwind" /\ (ops[p].pc = "complete" => ops'[p].pc = "complete")
              /\ Fallback(p)' = Fallback(p)
         /\ \A p \in Callers : ops'[p].kind \in Against => ops'[p].kind = ops[p].kind
         /\ \A p \in Callers : Proved(p)' => Proved(p)
         /\ \A p \in Callers : ops'[p].kind = "terminate" /\ ops'[p].pc = "mark" =>
              ops[p].kind = "terminate" /\ ops[p].pc = "mark"
<1>1. \A p \in Callers : Follows(ops'[p], ops[p])
  BY NoUnwind DEF Milder
<1>2. \A p \in Callers : RetryingIn(ops', p) =>
        /\ Retrying(p) /\ ops'[p].prev = ops[p].prev /\ ops'[p].override = ops[p].override
        /\ ops'[p].pc # "unwind" /\ (ops[p].pc = "complete" => ops'[p].pc = "complete")
  BY <1>1 DEF Follows, RetryingIn, Retrying
<1>3. \A p \in Callers : RetryingIn(ops', p) => Fallback(p)' = Fallback(p)
  BY <1>2 DEF Fallback
<1> QED
  BY <1>1, <1>2, <1>3 DEF Follows, Proved, Against

\* The part about the calls, when they only go on.
LEMMA MilderAlone ==
  ASSUME Calls, Alone, Milder(ops'),
         (\E o \in Callers : RetryingIn(ops', o)) => row' = row /\ proj'.pending = proj.pending
  PROVE  Alone'
<1> SUFFICES ASSUME NEW o \in Callers, RetryingIn(ops', o)
             PROVE  /\ row' = "retrying" /\ proj'.pending = None
                    /\ ops'[o].pc # "unwind"
                    /\ Fallback(o)' \in Terminal \cup {"stuck"}
                    /\ \A p \in Retriers : ops'[p].kind \notin Against
  BY DEF Alone, Retrying, RetryingIn
<1>1. Retrying(o) /\ ops'[o].pc # "unwind" /\ Fallback(o)' = Fallback(o)
  BY MilderCalls
<1>2. \A p \in Retriers : ops'[p].kind \notin Against
  BY <1>1, MilderCalls, ConstantFacts DEF Alone
<1> QED
  BY <1>1, <1>2 DEF Alone

\* The run stays over.
LEMMA MilderEnded ==
  ASSUME Calls, Ended => Over, Over => Over', Alone, Milder(ops'),
         row' \in Terminal \cup {"none"} => Ended \/ Over',
         proj'.pending \in Terminal => Ended \/ Over',
         Fresh(events') => Fresh(events) \/ Over'
  PROVE  Ended' => Over'
<1>1. ASSUME NEW o \in Retriers, Claimed(o)' \/ Proved(o)' PROVE Claimed(o) \/ Proved(o)
  <2>1. o \in Callers
    BY ConstantFacts
  <2>2. CASE Proved(o)'
    BY <2>1, <2>2, MilderCalls
  <2>3. CASE Claimed(o)'
    <3>1. RetryingIn(ops', o) /\ ops'[o].pc # "complete" /\ Fallback(o)' \in Terminal
      BY <2>3 DEF Claimed, Retrying, RetryingIn
    <3>2. Retrying(o) /\ ops[o].pc # "complete" /\ Fallback(o) \in Terminal
      BY <2>1, <3>1, MilderCalls
    <3> QED
      BY <3>2 DEF Claimed
  <2> QED
    BY <1>1, <2>2, <2>3
<1>2. Fresh(events)' => Fresh(events) \/ Over'
  BY DEF Fresh
<1> QED
  BY <1>1, <1>2 DEF Ended

\* What is gone stays gone.
LEMMA MilderGone ==
  ASSUME Calls, Alone, Gone, Milder(ops'),
         row \in Terminal \cup {"none"} => row' \in Terminal \cup {"none"},
         adapter'.local = "none" =>
           \/ row' = "none" \/ \E u \in Users : Removing(u)'
           \/ /\ adapter.local = "none" /\ (row = "none" => row' = "none")
              /\ \A u \in Users : Removing(u) => Removing(u)'
  PROVE  Gone'
<1>1. Users \subseteq Callers /\ Detector \in Callers
  BY ConstantFacts
<1>2. \A u \in Users : ops'[u].kind = "delete" => ops[u].kind = "delete"
  BY <1>1, MilderCalls DEF Against
<1>3. ops'[Detector].kind = "terminate" /\ ops'[Detector].pc = "mark" =>
        ops[Detector].kind = "terminate" /\ ops[Detector].pc = "mark"
  BY <1>1, MilderCalls
<1> QED
  BY <1>2, <1>3 DEF Gone

\* The dashboard, when neither it nor the row has news.
LEMMA ShowsKept ==
  ASSUME Shows, row' = row, proj' = proj, UNCHANGED adapter,
         row = "retrying" /\ adapter.local = "running" =>
           \A p \in Callers : Retrying(p) /\ ops[p].pc = "send" => ops'[p] = ops[p]
  PROVE  Shows'
<1>1. (row = "retrying" /\ adapter.local = "running") =>
        \E o \in Callers : RetryingIn(ops', o) /\ ops'[o].pc = "send"
  BY DEF Shows, Retrying, RetryingIn
<1> QED
  BY <1>1 DEF Shows, Watched, Retrying, RetryingIn

\* The places of the frames, in the steps that send and read none.
LEMMA CalmFront ==
  ASSUME Types, Front, Calm
  PROVE  Front' /\ (Over => Over')
<1>1. None \notin Callers /\ "start" \notin Callers /\ None # "start"
  BY ConstantFacts
<1>2. Starts' = Starts
  BY <1>1 DEF Starts, Calm
<1>3. ASSUME NEW o \in Callers, RetryingIn(ops', o)
      PROVE  /\ ops'[o].pc = "waiting" =>
                  \A i, j \in DOMAIN frames' : frames'[i] = o => j <= i
             /\ ops'[o].pc = "acked" => DOMAIN frames' = {}
  <2>1. ops'[o].pc \in {"waiting", "acked"} => Retrying(o) /\ ops'[o].pc = ops[o].pc
    BY <1>3 DEF Calm
  <2>2. \A i \in DOMAIN frames : frames'[i] = o => frames[i] = o
    BY <1>1 DEF Calm
  <2> QED
    BY <2>1, <2>2 DEF Front, Calm
<1>4. Over => Over'
  BY <1>2 DEF Over, Calm, Types, Wire
<1> QED
  BY <1>2, <1>3, <1>4 DEF Front, Retrying, RetryingIn

\* What is to be shown of every action, apart from the places of the frames.
Kept == Alone' /\ (Ended' => Over') /\ Gone' /\ Shows'

\* A call begins, and has done nothing yet.
LEMMA NewCall ==
  ASSUME Calls, Alone, Ended => Over, Over => Over', Gone, Shows,
         NEW o \in Retriers, ~Busy(o), NEW c \in CallSet, ops' = [ops EXCEPT ![o] = c],
         c.pc \in {"claim", "send", "remove"},
         c.kind = "retry" => c.pc = "claim",
         c.kind # "retry" => \A p \in Callers : ~Retrying(p),
         c.kind = "delete" => row \in Terminal,
         row' = row, adapter' = adapter, proj' = proj, events' = events
  PROVE  Kept
<1>1. /\ ops'[o] = c /\ \A p \in Callers : p # o => ops'[p] = ops[p]
      /\ o \in Callers /\ ops[o].pc = "idle" /\ Users \subseteq Callers /\ Detector \in Callers
      /\ Retriers \subseteq Callers
  BY ConstantFacts DEF Calls, Busy
<1>2. \A p \in Callers : RetryingIn(ops', p) => Retrying(p) /\ p # o
  BY <1>1 DEF RetryingIn, Retrying
<1>3. Alone'
  <2> SUFFICES ASSUME NEW q \in Callers, RetryingIn(ops', q)
               PROVE  /\ row' = "retrying" /\ proj'.pending = None
                      /\ ops'[q].pc # "unwind"
                      /\ Fallback(q)' \in Terminal \cup {"stuck"}
                      /\ \A p \in Retriers : ops'[p].kind \notin Against
    BY DEF Alone, Retrying, RetryingIn
  <2>1. Retrying(q) /\ ops'[q] = ops[q]
    BY <1>1, <1>2
  <2>2. c.kind = "retry"
    BY <2>1
  <2>3. Fallback(q)' = Fallback(q)
    BY <2>1 DEF Fallback
  <2> QED
    BY <1>1, <2>1, <2>2, <2>3 DEF Alone, Against
<1>4. ASSUME NEW p \in Retriers, Claimed(p)' \/ Proved(p)' PROVE Claimed(p) \/ Proved(p)
  <2>1. p # o
    BY <1>1, <1>4 DEF Claimed, Proved, Retrying
  <2>2. ops'[p] = ops[p]
    BY <1>1, <2>1
  <2> QED
    BY <1>4, <2>2 DEF Claimed, Proved, Retrying, Fallback
<1>5. Ended' => Over'
  BY <1>4 DEF Ended, Fresh
<1>6. Gone'
  <2>1. \A u \in Users : ops'[u].kind = "delete" => row \in Terminal \cup {"none"}
    BY <1>1 DEF Gone
  <2>2. \A u \in Users : Removing(u) => Removing(u)'
    BY <1>1 DEF Removing
  <2>3. ops'[Detector].kind = "terminate" /\ ops'[Detector].pc = "mark" => row \in Terminal \cup {"none"}
    BY <1>1 DEF Gone
  <2> QED
    BY <2>1, <2>2, <2>3 DEF Gone
<1>7. Shows'
  BY <1>1, ShowsKept
<1> QED
  BY <1>3, <1>5, <1>6, <1>7 DEF Kept

\* The calls go on, and neither the row nor the dashboard changes.
LEMMA KeptCalls ==
  ASSUME Calls, Alone, Ended => Over, Over => Over', Gone, Shows, Milder(ops'),
         row' = row, adapter' = adapter, proj' = proj,
         Fresh(events') => Fresh(events) \/ Over',
         \A p \in Callers : Retrying(p) /\ ops[p].pc = "send" => ops'[p] = ops[p],
         \A u \in Users : Removing(u) => ops'[u] = ops[u]
  PROVE  Kept
<1>1. Alone'
  BY MilderAlone
<1>2. Ended' => Over'
  BY MilderEnded DEF Ended
<1>3. \A u \in Users : Removing(u) => Removing(u)'
  BY DEF Removing
<1>4. Gone'
  BY <1>3, MilderGone
<1>5. Shows'
  BY ShowsKept
<1> QED
  BY <1>1, <1>2, <1>4, <1>5 DEF Kept

LEMMA TellBeginnings ==
  ASSUME Types, Tells, Over => Over', mixed' = {},
         FoundIdle \/ \E u \in Users : BeginRetry(u) \/ BeginAbort(u) \/ BeginDelete(u)
  PROVE  Kept
<1> USE DEF Types, Tells, dashboard, database, worker
<1>0. Users \subseteq Retriers /\ Detector \in Retriers
  BY ConstantFacts
<1>1. Dispatching \subseteq mixed' => \A p \in Callers : ~Retrying(p)
  BY DEF Dispatching
<1>2. ASSUME NEW u \in Users, BeginRetry(u) PROVE Kept
  <2> DEFINE c == [kind |-> "retry", pc |-> "claim", prev |-> None, override |-> adapter.local = "stuck"]
  <2>1. c.kind = "retry" /\ c.pc = "claim" /\ c \in CallSet
    BY DEF CallSet, Kinds, Pcs
  <2>2. /\ ops' = [ops EXCEPT ![u] = c] /\ ~Busy(u)
        /\ row' = row /\ adapter' = adapter /\ proj' = proj /\ events' = events
    BY <1>2 DEF BeginRetry
  <2> HIDE DEF c
  <2> QED
    BY <1>0, <2>1, <2>2, NewCall
<1>3. ASSUME NEW u \in Users, BeginAbort(u) PROVE Kept
  <2> DEFINE c == Call("abort", "send")
  <2>1. c.kind = "abort" /\ c.pc = "send" /\ c \in CallSet
    BY CallType DEF Kinds, Pcs, Call
  <2>2. /\ ops' = [ops EXCEPT ![u] = c] /\ ~Busy(u) /\ Dispatching \subseteq mixed'
        /\ row' = row /\ adapter' = adapter /\ proj' = proj /\ events' = events
    BY <1>3 DEF BeginAbort
  <2> HIDE DEF c
  <2> QED
    BY <1>0, <1>1, <2>1, <2>2, NewCall
<1>4. ASSUME NEW u \in Users, BeginDelete(u) PROVE Kept
  <2> DEFINE c == Call("delete", "remove")
  <2>1. c.kind = "delete" /\ c.pc = "remove" /\ c \in CallSet
    BY CallType DEF Kinds, Pcs, Call
  <2>2. /\ ops' = [ops EXCEPT ![u] = c] /\ ~Busy(u) /\ row \in Terminal
        /\ row' = row /\ adapter' = adapter /\ proj' = proj /\ events' = events
    BY <1>4 DEF BeginDelete
  <2>3. \A p \in Callers : ~Retrying(p)
    BY <2>2 DEF Alone, Terminal
  <2> HIDE DEF c
  <2> QED
    BY <1>0, <2>1, <2>2, <2>3, NewCall
<1>5. CASE FoundIdle
  <2> DEFINE c == Call("retry", "claim")
             d == Call("terminate", "send")
  <2>1. /\ c.kind = "retry" /\ c.pc = "claim" /\ c \in CallSet
        /\ d.kind = "terminate" /\ d.pc = "send" /\ d \in CallSet
    BY CallType DEF Kinds, Pcs, Call
  <2>2. /\ ~Busy(Detector)
        /\ row' = row /\ adapter' = adapter /\ proj' = proj /\ events' = events
        /\ \/ ops' = [ops EXCEPT ![Detector] = c]
           \/ ops' = [ops EXCEPT ![Detector] = d] /\ Dispatching \subseteq mixed'
    BY <1>5 DEF FoundIdle
  <2> HIDE DEF c, d
  <2>3. CASE ops' = [ops EXCEPT ![Detector] = c]
    BY <1>0, <2>1, <2>2, <2>3, NewCall
  <2>4. CASE ops' = [ops EXCEPT ![Detector] = d] /\ Dispatching \subseteq mixed'
    BY <1>0, <1>1, <2>1, <2>2, <2>4, NewCall
  <2> QED
    BY <2>2, <2>3, <2>4
<1> QED
  BY <1>2, <1>3, <1>4, <1>5

\* The adapter hears of a task that the row says is under way.
LEMMA Heeded ==
  ASSUME Types, Alone, Gone, row \in {"created", "dispatched", "running", "retrying"}
  PROVE  /\ adapter.local # "none"
         /\ adapter.held => row = "retrying"
<1>1. row \notin Terminal \cup {"none"}
  BY DEF Terminal
<1>2. adapter.local # "none"
  BY <1>1 DEF Gone, Removing
<1> QED
  BY <1>2 DEF Alone, Types, Dash

LEMMA ShownLocal ==
  ASSUME NEW a, NEW s
  PROVE  /\ Shown(a, s).local = s \/ Shown(a, s) = a
         /\ a.local # "none" /\ ~a.held => Shown(a, s).local = s
BY DEF Shown, Hears

LEMMA TellClaim ==
  ASSUME Types, Tells, Over => Over', mixed' = {}, NEW o \in Retriers, Claim(o)
  PROVE  Kept
<1> USE DEF Types, Tells
<1>1. /\ row' = "retrying" /\ UNCHANGED <<adapter, proj, events>>
      /\ proj.pending = None
      /\ \A p \in Callers : ops[p].kind \notin Against
      /\ claim \in ClaimsOpen /\ Recovered \in Eligible(o)
  BY DEF Claim, dashboard, worker, Against
<1>2. o \in Callers /\ Users \subseteq Callers /\ Detector \in Callers /\ Retriers \subseteq Callers
      /\ None \notin Heard
  BY ConstantFacts
<1>3. \A p \in Callers : ~Retrying(p)
  BY <1>1 DEF Alone, Calls, ClaimsOpen
<1> DEFINE c == [kind |-> "retry", pc |-> "send", prev |-> Recovered, override |-> ops[o].override]
<1>4. c.kind = "retry" /\ c.pc = "send" /\ c.prev = Recovered /\ c.override = ops[o].override
  OBVIOUS
<1>5. ops' = [ops EXCEPT ![o] = c]
  BY DEF Claim
<1> HIDE DEF c
<1>6. ops'[o] = c /\ \A p \in Callers : p # o => ops'[p] = ops[p]
  BY <1>2, <1>5 DEF Calls
<1>7. \A p \in Callers : RetryingIn(ops', p) <=> p = o
  BY <1>2, <1>3, <1>4, <1>6 DEF RetryingIn, Retrying
<1>8. Fallback(o)' \in Terminal \cup {"stuck"} /\ (Fallback(o)' \in Terminal => row \in Terminal)
  <2>1. Recovered \in {row, "stuck"} /\ "stuck" \notin Terminal
    BY DEF Recovered, Terminal
  <2>2. Fallback(o)' = IF (o = Detector \/ ops[o].override) /\ Recovered \in {"dispatched", "running"}
                       THEN "stuck" ELSE Recovered
    BY <1>4, <1>6 DEF Fallback
  <2>3. \/ Recovered \in Terminal \cup {"stuck"}
        \/ (o = Detector \/ ops[o].override) /\ Recovered \in {"dispatched", "running"}
    BY <1>1 DEF Eligible, Terminal
  <2> QED
    BY <2>1, <2>2, <2>3
<1>9. \A p \in Callers : ops'[p].kind \notin Against
  BY <1>1, <1>4, <1>6 DEF Against
<1>10. Alone'
  BY <1>1, <1>2, <1>4, <1>6, <1>7, <1>8, <1>9 DEF Alone, RetryingIn, Retrying
<1>11. Ended' => Over'
  <2>1. ASSUME NEW p \in Retriers, Claimed(p)' \/ Proved(p)' PROVE Ended
    <3>1. ~Proved(p)'
      BY <1>2, <1>9 DEF Proved, Against
    <3>2. RetryingIn(ops', p) /\ Fallback(p)' \in Terminal
      BY <2>1, <3>1 DEF Claimed, RetryingIn, Retrying
    <3>3. p = o
      BY <1>2, <1>7, <3>2
    <3> QED
      BY <1>8, <3>2, <3>3 DEF Ended
  <2>2. row' \notin Terminal \cup {"none"}
    BY <1>1 DEF Terminal
  <2> QED
    BY <1>1, <2>1, <2>2 DEF Ended, Fresh
<1>12. Gone'
  <2>1. row # "none"
    BY <1>1 DEF Recovered, Eligible
  <2>2. adapter.local # "none"
    BY <1>1, <1>2, <2>1 DEF Gone, Removing, Against
  <2> QED
    BY <1>1, <1>2, <1>9, <2>2 DEF Gone, Against
<1>13. Shows'
  <2>1. RetryingIn(ops', o) /\ ops'[o].pc = "send"
    BY <1>2, <1>4, <1>6, <1>7
  <2>2. None # "running"
    BY <1>2 DEF Heard
  <2> QED
    BY <1>1, <1>2, <2>1, <2>2 DEF Shows, RetryingIn, Retrying
<1> QED
  BY <1>10, <1>11, <1>12, <1>13 DEF Kept

LEMMA TellConflict ==
  ASSUME Types, Tells, Over => Over', NEW o \in Retriers, Conflict(o)
  PROVE  Kept
<1> USE DEF Types, Tells
<1>1. /\ ops[o].pc = "claim" /\ UNCHANGED <<proj, events>>
      /\ row' = row \/ (row = "retrying" /\ row' = "stuck")
  BY DEF Conflict, database, Recovered
<1>2. o \in Callers /\ Users \subseteq Callers /\ Detector \in Callers /\ Detector \notin Users
  BY ConstantFacts, CallersAssumption
<1>3. ASSUME NEW p \in Callers, Retrying(p) PROVE row' = row
  <2>1. claim # None /\ claim.owner = p
    BY <1>3 DEF Alone, Calls
  <2>2. ClaimsOpen = {}
    BY <1>3, <2>1 DEF ClaimsOpen
  <2> QED
    BY <2>2 DEF Conflict, database
<1>4. /\ Others(Finished(o), o) /\ Milder(Finished(o)) /\ Finished(o)[o] = Idle
      /\ Finished(o) \in [Callers -> CallSet]
  BY <1>2, MilderFinished
<1> DEFINE s == IF row' \in Terminal \cup {"retrying"} THEN row' ELSE "stuck"
<1>5. /\ Others(ops', o) /\ Milder(ops')
      /\ adapter' = adapter \/ (o = Detector /\ adapter' = Shown(adapter, s))
      /\ o = Detector => adapter' = Shown(adapter, s)
  <2>1. CASE o = Detector
    <3>1. Show(adapter, s, Finished(o))
      BY <2>1 DEF Conflict
    <3>2. ~RetryingIn(Finished(o), Detector)
      BY <1>4, <2>1, IdleType DEF RetryingIn
    <3> HIDE DEF s
    <3> QED
      BY <1>4, <2>1, <3>1, <3>2, ShowMilder
  <2>2. CASE o # Detector
    BY <1>4, <2>2 DEF Conflict
  <2> QED
    BY <2>1, <2>2
<1>6. s # "none" /\ s # "running" /\ (row' \in {"created", "dispatched", "running"} => s = "stuck")
  BY DEF Terminal
<1>7. /\ adapter' = adapter \/ adapter'.local = s
      /\ o = Detector /\ adapter.local # "none" /\ ~adapter.held => adapter'.local = s
  <2> HIDE DEF s
  <2> QED
    BY <1>5, ShownLocal
<1>8. \A p \in Callers : Retrying(p) /\ ops[p].pc = "send" => RetryingIn(ops', p) /\ ops'[p].pc = "send"
  BY <1>1, <1>5 DEF Others, RetryingIn, Retrying
<1>9. \A u \in Users : Removing(u) => Removing(u)'
  BY <1>1, <1>2, <1>5 DEF Others, Removing
<1> HIDE DEF s
<1>10. Alone'
  <2>1. (\E p \in Callers : RetryingIn(ops', p)) => row' = row
    BY <1>3, <1>5, MilderCalls
  <2> QED
    BY <1>1, <1>5, <2>1, MilderAlone
<1>11. Ended' => Over'
  <2>1. "stuck" \notin Terminal \cup {"none"}
    BY DEF Terminal
  <2> QED
    BY <1>1, <1>5, <2>1, MilderEnded DEF Ended, Fresh
<1>12. Gone'
  <2>1. "retrying" \notin Terminal \cup {"none"}
    BY DEF Terminal
  <2> QED
    BY <1>1, <1>5, <1>6, <1>7, <1>9, <2>1, MilderGone
<1>13. Shows'
  <2>1. row' \in {"created", "dispatched", "running"} => Watched' \/ proj'.pending \in Terminal
    <3> SUFFICES ASSUME row' \in {"created", "dispatched", "running"}
                 PROVE  Watched' \/ proj'.pending \in Terminal
      OBVIOUS
    <3>1. row' = row /\ s = "stuck"
      BY <1>1, <1>6
    <3>2. adapter.local # "none" /\ ~adapter.held
      BY <3>1, Heeded
    <3>3. adapter' = adapter \/ adapter'.local = "stuck"
      BY <1>7, <3>1
    <3> QED
      BY <1>1, <3>1, <3>3 DEF Shows, Watched
  <2>2. row' = "retrying" /\ adapter'.local = "running" =>
          \E p \in Callers : RetryingIn(ops', p) /\ ops'[p].pc = "send"
    BY <1>1, <1>6, <1>7, <1>8 DEF Shows
  <2> QED
    BY <1>1, <2>1, <2>2 DEF Shows, RetryingIn, Retrying
<1> QED
  BY <1>10, <1>11, <1>12, <1>13 DEF Kept

LEMMA TellComplete ==
  ASSUME Types, Tells, Over => Over', NEW o \in Retriers, Complete(o)
  PROVE  Kept
<1> USE DEF Types, Tells
<1>1. /\ row = "retrying" /\ claim # None /\ claim.owner = o /\ ops[o].pc = "complete"
      /\ row' = "running" /\ ops' = Finished(o) /\ UNCHANGED <<proj, events>>
  BY DEF Complete, Owns, worker
<1>2. o \in Callers /\ Users \subseteq Callers
  BY ConstantFacts
<1>3. Others(ops', o) /\ Milder(ops') /\ ops'[o] = Idle
  BY <1>1, <1>2, MilderFinished
<1>4. ASSUME NEW p \in Callers, RetryingIn(ops', p) PROVE FALSE
  <2>1. p # o
    BY <1>3, <1>4, IdleType DEF RetryingIn
  <2>2. Retrying(p)
    BY <1>3, <1>4, MilderCalls
  <2> QED
    BY <1>1, <2>1, <2>2 DEF Calls
<1>5. adapter.local # "none"
  BY <1>1, Heeded
<1>6. adapter' = [local |-> "running", active |-> TRUE, held |-> FALSE]
  BY <1>5 DEF Complete
<1>7. Alone'
  BY <1>3, <1>4, MilderAlone
<1>8. Ended' => Over'
  <2>1. "running" \notin Terminal \cup {"none"}
    BY DEF Terminal
  <2> QED
    BY <1>1, <1>3, <2>1, MilderEnded DEF Ended, Fresh
<1>9. Gone'
  <2>1. "retrying" \notin Terminal \cup {"none"}
    BY DEF Terminal
  <2> QED
    BY <1>1, <1>3, <1>6, <2>1, MilderGone
<1>10. Shows'
  BY <1>1, <1>6 DEF Shows, Watched
<1> QED
  BY <1>7, <1>8, <1>9, <1>10 DEF Kept

LEMMA TellRestore ==
  ASSUME Types, Tells, Over => Over', NEW o \in Retriers, Restore(o)
  PROVE  Kept
<1> USE DEF Types, Tells
<1> DEFINE free == [adapter EXCEPT !.held = FALSE]
<1>1. /\ UNCHANGED <<proj, events>>
      /\ ops[o].pc \in {"restore", "unwind", "complete", "refused"}
      /\ \/ /\ Restorable(o) /\ row' = Fallback(o)
            /\ Show(free, Fallback(o), Finished(o))
         \/ /\ ~Restorable(o) /\ row' = row /\ ops' = Finished(o)
            /\ adapter' = Shown(free, "stuck") \/ adapter' = free
  BY DEF Restore, database
<1>2. o \in Callers /\ Users \subseteq Callers /\ Detector \in Callers /\ Detector \notin Users
  BY ConstantFacts, CallersAssumption
<1>3. /\ Others(Finished(o), o) /\ Milder(Finished(o)) /\ Finished(o)[o] = Idle
      /\ Finished(o) \in [Callers -> CallSet]
  BY <1>2, MilderFinished
<1>4. free.local = adapter.local /\ free.active = adapter.active
  BY DEF Dash, Sound, AdapterSet
<1> HIDE DEF free
<1>5. CASE Restorable(o)
  <2>1. /\ row = "retrying" /\ claim # None /\ claim.owner = o
        /\ row' = Fallback(o) /\ Show(free, Fallback(o), Finished(o))
    BY <1>1, <1>5 DEF Restorable, Owns
  <2>2. Retrying(o) /\ ops[o].pc # "complete"
    <3>1. ops[o].kind = "retry" /\ ops[o].pc # "complete"
      BY <1>2, <1>5 DEF Restore, Restorable, Calls, CallSet
    <3> QED
      BY <1>1, <3>1 DEF Retrying
  <2>3. Fallback(o) \in Terminal \cup {"stuck"}
    BY <1>2, <2>2 DEF Alone
  <2>4. ASSUME NEW p \in Callers, RetryingIn(Finished(o), p) PROVE FALSE
    <3>1. p # o
      BY <1>3, <2>4, IdleType DEF RetryingIn
    <3>2. Retrying(p)
      BY <1>3, <2>4, <3>1 DEF Others, RetryingIn, Retrying, Idle, Call
    <3> QED
      BY <2>1, <3>1, <3>2 DEF Calls
  <2>5. /\ adapter' = Shown(free, Fallback(o)) /\ Others(ops', o) /\ Milder(ops')
        /\ ops'[o] = Idle
    BY <1>2, <1>3, <2>1, <2>4, ShowMilder
  <2>6. ASSUME NEW p \in Callers, RetryingIn(ops', p) PROVE FALSE
    <3>1. p # o
      BY <2>5, <2>6, IdleType DEF RetryingIn
    <3>2. Retrying(p)
      BY <2>5, <2>6, MilderCalls
    <3> QED
      BY <2>1, <3>1, <3>2 DEF Calls
  <2>7. "retrying" \notin Terminal \cup {"none", "stuck"} /\ "none" \notin Terminal /\ "running" \notin Terminal
        /\ {"created", "dispatched"} \cap Terminal = {} /\ "stuck" \notin Terminal
    BY DEF Terminal
  <2>8. Alone'
    BY <2>5, <2>6, MilderAlone
  <2>9. Ended' => Over'
    <3>1. Fallback(o) \in Terminal => Ended
      BY <2>2 DEF Ended, Claimed
    <3>2. row' \in Terminal \cup {"none"} => Ended
      BY <2>1, <2>3, <2>7, <3>1
    <3> QED
      BY <1>1, <2>5, <3>2, MilderEnded DEF Ended, Fresh
  <2>10. Gone'
    <3>1. adapter.local # "none"
      BY <2>1, Heeded
    <3>2. adapter'.local # "none"
      BY <1>4, <2>3, <2>5, <2>7, <3>1, ShownLocal
    <3> QED
      BY <2>1, <2>5, <2>7, <3>2, MilderGone
  <2>11. Shows'
    <3>1. row' \notin {"created", "dispatched", "running", "retrying"}
      BY <2>1, <2>3, <2>7
    <3> QED
      BY <1>1, <3>1 DEF Shows
  <2> QED
    BY <2>8, <2>9, <2>10, <2>11 DEF Kept
<1>6. CASE ~Restorable(o)
  <2>1. /\ row' = row /\ ops' = Finished(o) /\ Others(ops', o) /\ Milder(ops')
        /\ adapter' = Shown(free, "stuck") \/ adapter' = free
    BY <1>1, <1>3, <1>6
  <2>2. adapter'.local = "stuck" \/ (adapter'.local = adapter.local /\ adapter'.active = adapter.active)
    BY <1>4, <2>1, ShownLocal
  <2>3. \A u \in Users : Removing(u) => Removing(u)'
    BY <1>1, <1>2, <2>1 DEF Others, Removing
  <2>4. \A p \in Callers : Retrying(p) /\ ops[p].pc = "send" => RetryingIn(ops', p) /\ ops'[p].pc = "send"
    BY <1>1, <2>1 DEF Others, RetryingIn, Retrying
  <2>5. Alone' /\ Gone'
    BY <1>1, <2>1, <2>2, <2>3, MilderAlone, MilderGone
  <2>6. Ended' => Over'
    BY <1>1, <2>1, MilderEnded DEF Ended, Fresh
  <2>7. Shows'
    BY <1>1, <2>1, <2>2, <2>4 DEF Shows, Watched, RetryingIn, Retrying
  <2> QED
    BY <2>5, <2>6, <2>7 DEF Kept
<1> QED
  BY <1>5, <1>6

\* What touches neither the row nor the dashboard.
LEMMA TellQuiet ==
  ASSUME Types, Tells, RunInv, Over => Over', mixed = {},
         \/ EndRun \/ UNCHANGED vars
         \/ \E o \in Retriers : TimeOut(o)
         \/ \E u \in Users : AbortRefused(u)
  PROVE  Kept
<1> USE DEF Types, Tells
<1>0. Users \subseteq Callers /\ Retriers \subseteq Callers
  BY ConstantFacts
<1>1. Milder(ops)
  BY FollowsSame DEF Milder
<1>2. CASE UNCHANGED vars
  BY <1>1, <1>2, KeptCalls DEF vars, database, dashboard, worker, Fresh
<1>3. CASE EndRun
  <2>1. /\ frames' = frames /\ live > 0 /\ live' = live - 1
        /\ ops' = ops /\ row' = row /\ adapter' = adapter /\ proj' = proj
    BY <1>3 DEF EndRun, database, dashboard
  <2>2. live = 1 /\ Starts = {}
    BY <2>1 DEF RunInv, OneRun, Wire
  <2>3. Over'
    BY <2>1, <2>2 DEF Over, Starts
  <2> QED
    BY <1>1, <2>1, <2>3, KeptCalls
<1>4. ASSUME NEW o \in Retriers, TimeOut(o) PROVE Kept
  <2>1. /\ ops[o].pc = "waiting" /\ ops' = At(o, "refused") /\ o \in Callers
        /\ row' = row /\ adapter' = adapter /\ proj' = proj /\ events' = events
    BY <1>0, <1>4 DEF TimeOut, database, dashboard
  <2>2. /\ ops'[o].kind = ops[o].kind /\ ops'[o].pc = "refused" /\ ops'[o].prev = ops[o].prev
        /\ ops'[o].override = ops[o].override /\ \A p \in Callers : p # o => ops'[p] = ops[p]
    BY <2>1, AtFacts
  <2>3. Follows(ops'[o], ops[o]) /\ Others(ops', o)
    BY <2>1, <2>2 DEF Follows, Others
  <2>4. Milder(ops')
    BY <2>3, MilderMove
  <2>5. \A p \in Callers : ops[p].pc # "waiting" => ops'[p] = ops[p]
    BY <2>1, <2>2
  <2> QED
    BY <1>0, <2>1, <2>4, <2>5, KeptCalls DEF Fresh, Removing
<1>5. ASSUME NEW u \in Users, AbortRefused(u) PROVE Kept
  <2>1. /\ ops[u].pc = "refused" /\ ops' = Finished(u) /\ u \in Callers
        /\ row' = row /\ adapter' = adapter /\ proj' = proj /\ events' = events
    BY <1>0, <1>5 DEF AbortRefused, database, dashboard, worker
  <2>2. /\ Milder(ops') /\ \A p \in Callers : p # u => ops'[p] = ops[p]
    BY <2>1, MilderFinished, KeepsFinished
  <2>3. \A p \in Callers : ops[p].pc # "refused" => ops'[p] = ops[p]
    BY <2>1, <2>2
  <2> QED
    BY <1>0, <2>1, <2>2, <2>3, KeptCalls DEF Fresh, Removing
<1> QED
  BY <1>2, <1>3, <1>4, <1>5

\* update_status.
LEMMA UpdatedRow ==
  ASSUME NEW s
  PROVE  /\ Updated(s) \in {row, s}
         /\ s = "dispatched" /\ Updated(s) # row => row = "created"
         /\ s = "running" /\ Updated(s) # row => row \in {"created", "dispatched", "retrying"}
         /\ s \in Terminal /\ row \in {"created", "dispatched", "running"} => Updated(s) = s
         /\ s \in Terminal \cup {"running", "dispatched"} /\ row \in Terminal \cup {"none"} =>
              Updated(s) \in Terminal \cup {"none"}
<1>1. Updated(s) \in {row, s}
  BY DEF Updated
<1>2. ASSUME s = "dispatched", Updated(s) # row PROVE row = "created"
  BY <1>2 DEF Updated, Accepts, Allowed, Terminal
<1>3. ASSUME s = "running", Updated(s) # row PROVE row \in {"created", "dispatched", "retrying"}
  BY <1>3 DEF Updated, Accepts, Allowed, Terminal
<1>4. ASSUME s \in Terminal, row \in {"created", "dispatched", "running"} PROVE Updated(s) = s
  BY <1>4 DEF Updated, Accepts, Allowed
<1>5. ASSUME s \in Terminal \cup {"running", "dispatched"}, row \in Terminal \cup {"none"}
      PROVE  Updated(s) \in Terminal \cup {"none"}
  BY <1>1, <1>2, <1>3, <1>5 DEF Terminal
<1> QED
  BY <1>1, <1>2, <1>3, <1>4, <1>5

LEMMA TellCreateWrite ==
  ASSUME Types, Tells, Over => Over', CreateWrite
  PROVE  Kept
<1> USE DEF Types, Tells
<1>1. /\ row' = Updated("dispatched") /\ ops' = Finished(Creator) /\ ops[Creator].pc = "write"
      /\ adapter' = adapter /\ proj' = proj /\ events' = events
  BY DEF CreateWrite, dashboard, worker
<1>2. Creator \in Callers /\ Creator \notin Retriers /\ Retriers \subseteq Callers /\ Users \subseteq Retriers
  BY ConstantFacts
<1>3. Milder(ops') /\ Others(ops', Creator) /\ ops'[Creator] = Idle
      /\ \A p \in Callers : p # Creator => ops'[p] = ops[p]
  BY <1>1, <1>2, MilderFinished, KeepsFinished
<1>4. row' = row \/ (row = "created" /\ row' = "dispatched")
  BY <1>1, UpdatedRow
<1>5. (\E o \in Callers : RetryingIn(ops', o)) => row' = row
  BY <1>3, <1>4, MilderCalls DEF Alone
<1>6. {"created", "dispatched"} \cap (Terminal \cup {"none"}) = {}
  BY DEF Terminal
<1>7. Alone'
  BY <1>1, <1>3, <1>5, MilderAlone
<1>8. Ended' => Over'
  BY <1>1, <1>3, <1>4, <1>6, MilderEnded DEF Ended, Fresh
<1>9. Gone'
  <2>1. \A u \in Users : Removing(u) => Removing(u)'
    BY <1>2, <1>3 DEF Removing
  <2> QED
    BY <1>1, <1>3, <1>4, <1>6, <2>1, MilderGone
<1>10. Shows'
  <2>1. \A p \in Callers : Retrying(p) /\ ops[p].pc = "send" => RetryingIn(ops', p) /\ ops'[p].pc = "send"
    BY <1>1, <1>3 DEF RetryingIn, Retrying
  <2> QED
    BY <1>1, <1>4, <2>1 DEF Shows, Watched, RetryingIn, Retrying
<1> QED
  BY <1>7, <1>8, <1>9, <1>10 DEF Kept

\* Nobody retries a task that is being aborted, given up or removed.
LEMMA AgainstAlone ==
  ASSUME Alone, NEW o \in Retriers, ops[o].kind \in Against
  PROVE  \A p \in Callers : ~Retrying(p)
BY DEF Alone

\* What the row may do while nobody retries the task.
LEMMA NobodyRetries ==
  ASSUME Calls, Alone, Milder(ops'), \A p \in Callers : ~Retrying(p)
  PROVE  Alone' /\ \A p \in Callers : ~RetryingIn(ops', p)
BY MilderCalls, MilderAlone

LEMMA NoneShowsRunning ==
  ASSUME Shows, \A p \in Callers : ~Retrying(p)
  PROVE  row = "retrying" => adapter.local # "running"
BY DEF Shows

LEMMA ProjectedFacts ==
  ASSUME Types, Shows, NEW s, proj' = Projected(s)
  PROVE  /\ proj'.pending \in {s, proj.pending}
         /\ s \in Terminal => proj'.pending = s
         /\ proj'.last \in Terminal => proj'.pending = proj'.last
<1>1. proj' = IF proj.last = s THEN proj ELSE [pending |-> s, last |-> s]
  BY DEF Projected
<1> QED
  BY <1>1 DEF Shows

LEMMA TellAborts ==
  ASSUME Types, Tells, Over => Over', NEW u \in Users, MarkAborted(u) \/ WriteAborted(u)
  PROVE  Kept
<1> USE DEF Types, Tells
<1>1. u \in Retriers /\ u \in Callers /\ Users \subseteq Callers /\ Detector \in Callers
      /\ Detector \notin Users /\ u # Detector
  BY ConstantFacts, CallersAssumption
<1>2. /\ ops[u].kind = "abort" /\ ops[u].pc \in {"acked", "write"}
      /\ claim' = claim /\ events' = events
  BY DEF MarkAborted, WriteAborted, Proven, database, worker
<1>3. \A p \in Callers : ~Retrying(p)
  BY <1>1, <1>2, AgainstAlone DEF Against
<1>4. Over /\ Over'
  BY <1>1, <1>2 DEF Ended, Proved
<1>5. "aborted" \in Terminal /\ "aborted" \notin {"none", "running", "retrying"}
      /\ {"created", "dispatched", "running", "retrying"} \cap Terminal = {}
  BY DEF Terminal
<1>6. CASE MarkAborted(u)
  <2>1. /\ row' = row /\ Show(adapter, "aborted", At(u, "write")) /\ ops[u].pc = "acked"
        /\ proj' = IF Hears(adapter, "aborted") THEN Projected("aborted") ELSE proj
    BY <1>6 DEF MarkAborted, Proven, database
  <2>2. /\ At(u, "write")[u].kind = "abort" /\ At(u, "write")[u].pc = "write"
        /\ At(u, "write")[u].prev = ops[u].prev
        /\ \A p \in Callers : p # u => At(u, "write")[p] = ops[p]
        /\ At(u, "write") \in [Callers -> CallSet]
    <3>1. Fits(u, "write")
      BY DEF Fits, Pcs
    <3> QED
      BY <1>1, <1>2, <3>1, AtFacts
  <2>3. Others(At(u, "write"), u) /\ Milder(At(u, "write"))
    <3>1. Follows(At(u, "write")[u], ops[u])
      BY <1>2, <2>1, <2>2 DEF Follows
    <3>2. Others(At(u, "write"), u)
      BY <2>2 DEF Others
    <3> QED
      BY <3>1, <3>2, MilderMove
  <2>4. ~RetryingIn(At(u, "write"), Detector)
    BY <1>1, <1>3, <2>2 DEF RetryingIn, Retrying
  <2>5. adapter' = Shown(adapter, "aborted") /\ Milder(ops') /\ Others(ops', u)
    BY <2>1, <2>2, <2>3, <2>4, ShowMilder
  <2>6. Alone'
    BY <1>3, <2>5, NobodyRetries
  <2>7. adapter' = adapter \/ adapter'.local = "aborted"
    BY <2>5, ShownLocal
  <2>8. Gone'
    <3>1. \A v \in Users : Removing(v) => Removing(v)'
      BY <1>1, <1>2, <2>5 DEF Others, Removing
    <3> QED
      BY <1>5, <2>1, <2>5, <2>7, <3>1, MilderGone
  <2>9. Shows'
    <3>1. row \in {"created", "dispatched", "running"} => proj'.pending \in Terminal
      <4> SUFFICES ASSUME row \in {"created", "dispatched", "running"} PROVE proj'.pending \in Terminal
        OBVIOUS
      <4>1. Hears(adapter, "aborted")
        BY Heeded DEF Hears
      <4> QED
        BY <1>5, <2>1, <4>1, ProjectedFacts
    <3>2. /\ proj'.pending = "running" => proj.pending = "running"
          /\ proj'.last \in Terminal => proj'.pending = proj'.last
      BY <1>5, <2>1, ProjectedFacts DEF Shows
    <3>3. row = "retrying" => adapter'.local # "running"
      BY <1>3, <1>5, <2>7, NoneShowsRunning
    <3> QED
      BY <2>1, <3>1, <3>2, <3>3 DEF Shows
  <2> QED
    BY <1>4, <2>6, <2>8, <2>9 DEF Kept
<1>7. CASE WriteAborted(u)
  <2>1. /\ row' = Updated("aborted") /\ ops' = Finished(u)
        /\ adapter' = adapter /\ proj' = proj
    BY <1>7 DEF WriteAborted, dashboard
  <2>2. Milder(ops') /\ \A p \in Callers : p # u => ops'[p] = ops[p]
    BY <1>1, <2>1, MilderFinished, KeepsFinished
  <2>3. Alone'
    BY <1>3, <2>2, NobodyRetries
  <2>4. /\ row' \in {row, "aborted"}
        /\ row \in Terminal \cup {"none"} => row' \in Terminal \cup {"none"}
    BY <1>5, <2>1, UpdatedRow
  <2>5. Gone'
    <3>1. \A v \in Users : Removing(v) => Removing(v)'
      BY <1>1, <1>2, <2>2 DEF Removing
    <3>2. row = "none" => row' = "none"
      BY <2>1 DEF Updated, Accepts
    <3> QED
      BY <2>1, <2>2, <2>4, <3>1, <3>2, MilderGone
  <2>6. Shows'
    <3>1. row = "retrying" => adapter.local # "running"
      BY <1>3, NoneShowsRunning
    <3> QED
      BY <1>5, <2>1, <2>4, <3>1 DEF Shows, Watched
  <2> QED
    BY <1>4, <2>3, <2>5, <2>6 DEF Kept
<1> QED
  BY <1>6, <1>7

LEMMA TellTermination ==
  ASSUME Types, Tells, Over => Over', WriteTerminated \/ MarkTerminated \/ TerminateRefused
  PROVE  Kept
<1> USE DEF Types, Tells
<1>1. Detector \in Retriers /\ Detector \in Callers /\ Users \subseteq Callers /\ Detector \notin Users
  BY ConstantFacts, CallersAssumption
<1>2. ops[Detector].kind = "terminate" /\ events' = events /\ proj' = proj
  BY DEF WriteTerminated, MarkTerminated, TerminateRefused, worker
<1>3. \A p \in Callers : ~Retrying(p)
  BY <1>1, <1>2, AgainstAlone DEF Against
<1>4. /\ "stuck_permanently" \in Terminal /\ "stuck_permanently" \notin {"none", "running", "retrying"}
      /\ {"created", "dispatched", "running", "retrying"} \cap (Terminal \cup {"none"}) = {}
  BY DEF Terminal
<1>5. row = "retrying" => adapter.local # "running"
  BY <1>3, NoneShowsRunning
<1>6. /\ Others(Finished(Detector), Detector) /\ Milder(Finished(Detector))
      /\ Finished(Detector)[Detector] = Idle /\ Finished(Detector) \in [Callers -> CallSet]
      /\ \A p \in Callers : p # Detector => Finished(Detector)[p] = ops[p]
  BY <1>1, MilderFinished, KeepsFinished
\* The adapter shows "stuck" and the call is over.
<1>7. ASSUME row' = row, ops' = Finished(Detector), adapter' = Shown(adapter, "stuck") PROVE Kept
  <2>1. Alone'
    BY <1>3, <1>6, <1>7, NobodyRetries
  <2>2. Ended' => Over'
    BY <1>2, <1>6, <1>7, MilderEnded DEF Ended, Fresh
  <2>3. adapter' = adapter \/ adapter'.local = "stuck"
    BY <1>7, ShownLocal
  <2>4. Gone'
    <3>1. \A v \in Users : Removing(v) => Removing(v)'
      BY <1>1, <1>6, <1>7 DEF Removing
    <3> QED
      BY <1>6, <1>7, <2>3, <3>1, MilderGone
  <2>5. Shows'
    BY <1>2, <1>5, <1>7, <2>3 DEF Shows, Watched
  <2> QED
    BY <2>1, <2>2, <2>4, <2>5 DEF Kept
<1>8. CASE TerminateRefused
  BY <1>7, <1>8 DEF TerminateRefused, database
<1>9. CASE MarkTerminated
  <2>1. row' = row /\ Show(adapter, "stuck_permanently", Finished(Detector)) /\ ops[Detector].pc = "mark"
    BY <1>9 DEF MarkTerminated, database
  <2>2. row \in Terminal \cup {"none"}
    BY <1>2, <2>1 DEF Gone
  <2>3. Over /\ Over'
    BY <1>1, <1>2, <2>1 DEF Ended, Proved
  <2>4. ~RetryingIn(Finished(Detector), Detector)
    BY <1>6, IdleType DEF RetryingIn
  <2>5. adapter' = Shown(adapter, "stuck_permanently") /\ Milder(ops') /\ Others(ops', Detector)
    BY <1>6, <2>1, <2>4, ShowMilder
  <2>6. Alone'
    BY <1>3, <2>5, NobodyRetries
  <2>7. adapter' = adapter \/ adapter'.local = "stuck_permanently"
    BY <2>5, ShownLocal
  <2>8. Gone'
    <3>1. \A v \in Users : Removing(v) => Removing(v)'
      BY <1>1, <2>5 DEF Others, Removing
    <3> QED
      BY <1>4, <2>1, <2>5, <2>7, <3>1, MilderGone
  <2>9. Shows'
    BY <1>2, <1>4, <2>1, <2>2 DEF Shows
  <2> QED
    BY <2>3, <2>6, <2>8, <2>9 DEF Kept
<1>10. CASE WriteTerminated
  <2>1. /\ row' = Updated("stuck_permanently") /\ ops[Detector].pc = "acked"
        /\ \/ Accepts("stuck_permanently") /\ ops' = At(Detector, "mark") /\ adapter' = adapter
           \/ /\ ~Accepts("stuck_permanently")
              /\ ops' = Finished(Detector) /\ adapter' = Shown(adapter, "stuck")
    BY <1>10 DEF WriteTerminated
  <2>2. CASE ~Accepts("stuck_permanently")
    BY <1>7, <2>1, <2>2 DEF Updated
  <2>3. CASE Accepts("stuck_permanently")
    <3>1. row' = "stuck_permanently" /\ ops' = At(Detector, "mark") /\ adapter' = adapter
      BY <2>1, <2>3 DEF Updated
    <3>2. /\ ops'[Detector].kind = "terminate" /\ ops'[Detector].pc = "mark"
          /\ \A p \in Callers : p # Detector => ops'[p] = ops[p]
      BY <1>1, <1>2, <3>1, AtFacts
    <3>3. \A p \in Callers : ~RetryingIn(ops', p)
      BY <1>3, <3>2 DEF RetryingIn, Retrying
    <3>4. Alone'
      BY <3>3 DEF Alone, Retrying, RetryingIn
    <3>5. Over /\ Over'
      BY <1>1, <1>2, <2>1 DEF Ended, Proved
    <3>6. Gone'
      <4>1. \A v \in Users : Removing(v) => Removing(v)'
        BY <1>1, <3>2 DEF Removing
      <4>2. row # "none"
        BY <2>3 DEF Accepts
      <4> QED
        BY <1>4, <3>1, <4>1, <4>2 DEF Gone
    <3>7. Shows'
      BY <1>2, <1>4, <3>1 DEF Shows
    <3> QED
      BY <3>4, <3>5, <3>6, <3>7 DEF Kept
  <2> QED
    BY <2>2, <2>3
<1> QED
  BY <1>8, <1>9, <1>10

LEMMA TellRemoval ==
  ASSUME Types, Tells, Over => Over', NEW u \in Users, RemoveTask(u) \/ DeleteRow(u)
  PROVE  Kept
<1> USE DEF Types, Tells
<1>1. u \in Retriers /\ u \in Callers /\ Users \subseteq Callers /\ Detector \in Callers
      /\ Detector \notin Users /\ u # Detector
  BY ConstantFacts, CallersAssumption
<1>2. ops[u].kind = "delete" /\ events' = events /\ proj' = proj
  BY DEF RemoveTask, DeleteRow, dashboard, worker
<1>3. \A p \in Callers : ~Retrying(p)
  BY <1>1, <1>2, AgainstAlone DEF Against
<1>4. row \in Terminal \cup {"none"}
  BY <1>2 DEF Gone
<1>5. Over /\ Over'
  BY <1>4 DEF Ended
<1>6. {"created", "dispatched", "running", "retrying"} \cap (Terminal \cup {"none"}) = {}
  BY DEF Terminal
<1>7. CASE RemoveTask(u)
  <2>1. /\ row' = row /\ ops' = Forgotten(At(u, "delete")) /\ adapter'.local = "none"
    BY <1>7 DEF RemoveTask, database
  <2>2. /\ At(u, "delete")[u].kind = "delete" /\ At(u, "delete")[u].pc = "delete"
        /\ \A p \in Callers : p # u => At(u, "delete")[p] = ops[p]
        /\ At(u, "delete") \in [Callers -> CallSet]
    <3>1. Fits(u, "delete")
      BY DEF Fits, Pcs
    <3> QED
      BY <1>1, <1>2, <3>1, AtFacts
  <2>3. ~RetryingIn(At(u, "delete"), Detector)
    BY <1>1, <1>3, <2>2 DEF RetryingIn, Retrying
  <2>4. /\ ops'[Detector] = Idle
        /\ \A p \in Callers : p # Detector => ops'[p] = At(u, "delete")[p]
    BY <2>1, <2>2, <2>3, ForgottenIdle
  <2>5. Milder(ops')
    <3>1. Follows(ops'[u], ops[u])
      BY <1>1, <1>2, <2>2, <2>4 DEF Follows
    <3>2. Others(ops', u)
      BY <1>1, <1>3, <2>2, <2>4 DEF Others
    <3> QED
      BY <3>1, <3>2, MilderMove
  <2>6. Alone'
    BY <1>3, <2>5, NobodyRetries
  <2>7. Gone'
    <3>1. Removing(u)'
      BY <1>1, <2>2, <2>4 DEF Removing
    <3> QED
      BY <1>4, <2>1, <2>5, <3>1, MilderGone
  <2>8. Shows'
    BY <1>2, <1>4, <1>6, <2>1 DEF Shows
  <2> QED
    BY <1>5, <2>6, <2>7, <2>8 DEF Kept
<1>8. CASE DeleteRow(u)
  <2>1. row' = "none" /\ ops' = Finished(u) /\ adapter' = adapter
    BY <1>8 DEF DeleteRow, dashboard
  <2>2. Milder(ops')
    BY <1>1, <2>1, MilderFinished
  <2>3. Alone'
    BY <1>3, <2>2, NobodyRetries
  <2>4. Gone'
    BY <2>1, <2>2, MilderGone
  <2>5. Shows'
    BY <1>2, <2>1 DEF Shows
  <2> QED
    BY <1>5, <2>3, <2>4, <2>5 DEF Kept
<1> QED
  BY <1>7, <1>8

\* The projector tells the row.
LEMMA TellProject ==
  ASSUME Types, Tells, Over => Over', Project
  PROVE  Kept
<1> USE DEF Types, Tells
<1> DEFINE s == proj.pending
<1>1. /\ s \in Heard /\ row' = Updated(s) /\ ops' = ops /\ adapter' = adapter /\ events' = events
      /\ proj'.pending = None
      /\ proj'.last = IF proj.last = s /\ (s \in Terminal \/ ~Accepts(s)) THEN None ELSE proj.last
  BY DEF Project, Dash, ProjSet, worker
<1>2. s \in Terminal \cup {"running"} /\ None \notin Terminal \cup {"running"}
  BY <1>1, OutcomesAssumption, ConstantFacts DEF Heard, Terminal, Statuses
<1>3. \A p \in Callers : ~Retrying(p)
  BY <1>1, ConstantFacts DEF Project, Alone
<1>4. Milder(ops')
  BY <1>1, FollowsSame DEF Milder
<1>5. {"created", "dispatched", "running", "retrying"} \cap (Terminal \cup {"none"}) = {}
  BY DEF Terminal
<1>6. /\ row' \in {row, s}
      /\ s = "running" /\ row' # row => row \in {"created", "dispatched", "retrying"}
      /\ s \in Terminal /\ row \in {"created", "dispatched", "running"} => row' = s
      /\ row \in Terminal \cup {"none"} => row' \in Terminal \cup {"none"}
      /\ row = "none" => row' = "none"
  BY <1>1, <1>2, UpdatedRow DEF Updated, Accepts
<1>7. s = "running" => row # "retrying"
  BY DEF Shows
<1>8. row' \in {"created", "dispatched", "running"} => Watched
  <2> SUFFICES ASSUME row' \in {"created", "dispatched", "running"} PROVE Watched
    OBVIOUS
  <2>1. row \in {"created", "dispatched", "running"} /\ s \notin Terminal
    BY <1>2, <1>5, <1>6, <1>7
  <2> QED
    BY <2>1 DEF Shows
<1>9. proj'.last \notin Terminal
  BY <1>1, <1>2 DEF Shows
<1>10. row' = "retrying" => row = "retrying"
  BY <1>2, <1>5, <1>6
<1>11. Ended' => Over'
  BY <1>1, <1>2, <1>4, <1>6, MilderEnded DEF Ended, Fresh
<1> HIDE DEF s
<1>12. Alone'
  BY <1>3, <1>4, NobodyRetries
<1>13. Gone'
  <2>1. \A u \in Users : Removing(u) => Removing(u)'
    BY <1>1 DEF Removing
  <2> QED
    BY <1>1, <1>4, <1>6, <2>1, MilderGone
<1>14. Shows'
  <2>1. row = "retrying" => adapter.local # "running"
    BY <1>3, NoneShowsRunning
  <2> QED
    BY <1>1, <1>2, <1>8, <1>9, <1>10, <2>1 DEF Shows, Watched
<1> QED
  BY <1>11, <1>12, <1>13, <1>14 DEF Kept

\* The first event is one of those there are.
LEMMA FirstEvent ==
  ASSUME Types, events # <<>>
  PROVE  /\ Head(events) \in EventSet
         /\ Head(events).status \in Terminal /\ ~Head(events).old => Fresh(events)
         /\ Fresh(Tail(events)) => Fresh(events)
<1>1. events \in Seq(EventSet)
  BY DEF Types, Wire
<1>2. PICK n \in Nat : n = Len(events) /\ n > 0 /\ DOMAIN events = 1..n
  BY <1>1, LenProperties, EmptySeq
<1>3. Head(events) = events[1] /\ 1 \in 1..n
  BY <1>1, <1>2, HeadTailProperties
<1>4. /\ DOMAIN Tail(events) = 1..(n - 1)
      /\ \A i \in 1..(n - 1) : Tail(events)[i] = events[i + 1] /\ i + 1 \in 1..n
  <2>1. /\ Tail(events) \in Seq(EventSet) /\ Len(Tail(events)) = n - 1
        /\ \A i \in 1..Len(Tail(events)) : Tail(events)[i] = events[i + 1]
    BY <1>1, <1>2, HeadTailProperties
  <2>2. DOMAIN Tail(events) = 1..(n - 1)
    BY <2>1, LenProperties
  <2>3. \A i \in 1..(n - 1) : i + 1 \in 1..n
    BY <1>2
  <2> QED
    BY <2>1, <2>2, <2>3
<1>5. events[1] \in EventSet
  BY <1>1, <1>2, <1>3, ElementOfSeq
<1> QED
  BY <1>2, <1>3, <1>4, <1>5 DEF Fresh

LEMMA TellObserve ==
  ASSUME Types, Tells, Over => Over', mixed' = {}, Observe
  PROVE  Kept
<1> USE DEF Types, Tells
<1> DEFINE e == Head(events)
           deaf == ~adapter.active \/ (e.status = "running" /\ adapter.local # "running")
                     \/ ~Hears(adapter, e.status)
<1>1. events # <<>> /\ events' = Tail(events) /\ row' = row
  BY DEF Observe, database
<1>2. /\ e \in EventSet /\ (e.status \in Terminal /\ ~e.old => Fresh(events))
      /\ Fresh(events') => Fresh(events)
  BY <1>1, FirstEvent
<1>3. CASE deaf
  <2>1. UNCHANGED <<ops, adapter, proj>>
    BY <1>3 DEF Observe
  <2>2. Milder(ops')
    BY <2>1, FollowsSame DEF Milder
  <2> HIDE DEF deaf, e
  <2> QED
    BY <1>1, <1>2, <2>1, <2>2, KeptCalls
<1>4. CASE ~deaf
  <2> DEFINE s == e.status
  <2>1. /\ proj' = Projected(s) /\ Show(adapter, s, ops)
        /\ mixed' = IF e.old \/ \E o \in Callers : Retrying(o) THEN mixed \cup {"news"} ELSE mixed
        /\ adapter.active /\ (s = "running" => adapter.local = "running") /\ Hears(adapter, s)
    BY <1>4 DEF Observe
  <2>2. s \in Heard /\ s \in Terminal \cup {"running"} /\ "running" \notin Terminal
        /\ s \notin {"none", "retrying"} /\ {"created", "dispatched", "running", "retrying"} \cap Terminal = {}
    BY <1>2, OutcomesAssumption DEF EventSet, Heard, Terminal
  <2>3. ~e.old /\ \A p \in Callers : ~Retrying(p)
    BY <2>1
  <2>4. s \in Terminal => Fresh(events)
    BY <1>2, <2>3
  <2> HIDE DEF s, e, deaf
  <2>5. /\ ops \in [Callers -> CallSet] /\ Detector \in Callers /\ None \notin Callers
        /\ Users \subseteq Callers /\ Detector \notin Users
    BY ConstantFacts, CallersAssumption DEF Calls
  <2>6. Milder(ops) /\ Others(ops, None) /\ ~RetryingIn(ops, Detector)
    BY <2>3, <2>5, FollowsSame DEF Milder, Others, RetryingIn, Retrying
  <2>7. adapter' = Shown(adapter, s) /\ Milder(ops') /\ Others(ops', None)
    BY <2>1, <2>5, <2>6, ShowMilder
  <2>8. adapter'.local = s /\ (s = "running" => adapter'.active)
    BY <2>1, <2>2, <2>7 DEF Shown
  <2>9. /\ proj'.pending \in {s, proj.pending}
        /\ s \in Terminal => proj'.pending = s
        /\ proj'.last \in Terminal => proj'.pending = proj'.last
    BY <2>1, ProjectedFacts
  <2>10. Alone'
    BY <2>3, <2>7, NobodyRetries
  <2>11. Ended' => Over'
    <3>1. s \in Terminal => Ended
      BY <2>4 DEF Ended
    <3> QED
      BY <1>1, <1>2, <2>7, <2>9, <3>1, MilderEnded DEF Ended
  <2>12. Gone'
    BY <1>1, <2>2, <2>7, <2>8, MilderGone
  <2>13. Shows'
    <3>1. row = "retrying" => adapter.local # "running"
      BY <2>3, NoneShowsRunning
    <3> QED
      BY <1>1, <2>1, <2>2, <2>8, <2>9, <3>1 DEF Shows, Watched
  <2> QED
    BY <2>10, <2>11, <2>12, <2>13 DEF Kept
<1> QED
  BY <1>3, <1>4

-----------------------------------------------------------------------------
(* The steps that send frames or read them                                 *)

LEMMA FrameSent ==
  ASSUME Types, NEW f \in FrameSet, frames' = Append(frames, f), NEW n, n = Len(frames)
  PROVE  /\ n \in Nat /\ DOMAIN frames = 1..n /\ DOMAIN frames' = 1..(n + 1)
         /\ frames'[n + 1] = f /\ \A i \in 1..n : frames'[i] = frames[i]
         /\ \A i \in 1..(n + 1) : i = n + 1 \/ i \in 1..n
<1>1. /\ n \in Nat /\ DOMAIN frames = 1..n /\ DOMAIN frames' = 1..(n + 1)
      /\ frames'[n + 1] = f /\ \A i \in 1..n : frames'[i] = frames[i]
  BY AppendProperties, LenProperties DEF Types, Wire
<1> QED
  BY <1>1

\* A call moves on from one place to the next, short of an answer.
LEMMA MilderAt ==
  ASSUME Calls, NEW o \in Callers, NEW pc \in {"waiting", "refused", "complete", "restore", "write"},
         ops[o].kind = "retry" => Retrying(o) /\ ops[o].pc # "complete",
         pc = "write" => ops[o].pc \in {"acked", "write", "mark"}
  PROVE  /\ Milder(At(o, pc)) /\ At(o, pc)[o].pc = pc /\ At(o, pc)[o].kind = ops[o].kind
         /\ \A p \in Callers : p # o => At(o, pc)[p] = ops[p]
<1>1. /\ At(o, pc)[o].kind = ops[o].kind /\ At(o, pc)[o].pc = pc
      /\ At(o, pc)[o].prev = ops[o].prev /\ At(o, pc)[o].override = ops[o].override
      /\ \A p \in Callers : p # o => At(o, pc)[p] = ops[p]
  BY AtFacts
<1>2. Others(At(o, pc), o)
  BY OthersAt
<1>3. Follows(At(o, pc)[o], ops[o])
  BY <1>1 DEF Follows, Retrying
<1> QED
  BY <1>1, <1>2, <1>3, MilderMove

LEMMA TellSendAbort ==
  ASSUME Types, Tells, RunInv, NEW o \in Retriers, SendAbort(o)
  PROVE  Front' /\ Kept
<1> USE DEF Types, Tells
<1>1. /\ ops[o].pc = "send" /\ row' = row /\ proj' = proj /\ events' = events /\ live' = live
      /\ adapter' = IF ops[o].kind = "retry" THEN Held(adapter) ELSE adapter
      /\ \/ frames' = Append(frames, o) /\ ops' = At(o, "waiting")
         \/ ops' = At(o, "refused") /\ frames' = frames
  BY DEF SendAbort, database
<1>2. /\ o \in Callers /\ Users \subseteq Callers /\ Users \subseteq Retriers /\ Retriers \subseteq Callers
      /\ o # "start" /\ o \in FrameSet
  BY ConstantFacts DEF FrameSet
<1>3. ops[o].kind \in {"retry"} \cup Against
  BY <1>1, <1>2 DEF Calls, CallSet, Against
<1>4. ops[o].kind = "retry" => Retrying(o)
  BY <1>1 DEF Retrying
<1>5. /\ Milder(ops') /\ ops'[o].pc \in {"waiting", "refused"} /\ ops'[o].kind = ops[o].kind
      /\ \A p \in Callers : p # o => ops'[p] = ops[p]
  BY <1>1, <1>2, <1>4, MilderAt
<1>6. ASSUME NEW p \in Callers, RetryingIn(ops', p) PROVE p = o
  <2>1. Retrying(p)
    BY <1>5, <1>6, MilderCalls
  <2>2. ops[o].kind = "retry"
    BY <1>3, <2>1 DEF Alone
  <2> QED
    BY <1>2, <1>4, <2>1, <2>2 DEF Calls
<1>7. Front' /\ (Over => Over')
  <2>1. CASE frames' = frames /\ ops'[o].pc = "refused"
    BY <1>1, <1>6, <2>1 DEF Front, Over, Starts, Retrying, RetryingIn
  <2>2. CASE frames' = Append(frames, o) /\ ops'[o].pc = "waiting"
    <3> DEFINE n == Len(frames)
    <3>1. /\ n \in Nat /\ DOMAIN frames = 1..n /\ DOMAIN frames' = 1..(n + 1)
          /\ frames'[n + 1] = o /\ \A i \in 1..n : frames'[i] = frames[i]
          /\ \A i \in 1..(n + 1) : i = n + 1 \/ i \in 1..n
      BY <1>2, <2>2, FrameSent
    <3> HIDE DEF n
    <3>2. \A i \in 1..n : frames[i] # o
      BY <1>1, <1>2, <3>1 DEF RunInv, Awaited
    <3>3. \A i, j \in 1..(n + 1) : frames'[i] = o => j <= i
      BY <3>1, <3>2
    <3>4. Starts' = Starts
      <4>1. \A i \in 1..(n + 1) : frames'[i] = "start" <=> (i \in 1..n /\ frames[i] = "start")
        BY <1>2, <3>1
      <4>2. \A i \in 1..n : i \in 1..(n + 1)
        BY <3>1
      <4> QED
        BY <3>1, <4>1, <4>2 DEF Starts
    <3> QED
      BY <1>1, <1>6, <2>2, <3>1, <3>3, <3>4 DEF Front, Over, Retrying, RetryingIn
  <2> QED
    BY <1>1, <1>2, <2>1, <2>2, AtFacts
<1>8. \A u \in Users : Removing(u) => ops'[u] = ops[u]
  BY <1>1, <1>2, <1>5 DEF Removing
<1>9. CASE ops[o].kind # "retry"
  <2>1. adapter' = adapter /\ \A p \in Callers : Retrying(p) => ops'[p] = ops[p]
    BY <1>1, <1>5, <1>9 DEF Retrying
  <2> QED
    BY <1>1, <1>5, <1>7, <1>8, <2>1, KeptCalls DEF Fresh
<1>10. CASE ops[o].kind = "retry"
  <2>1. adapter' = Held(adapter) /\ row = "retrying"
    BY <1>1, <1>2, <1>4, <1>10 DEF Alone
  <2>2. adapter.local # "none" /\ adapter'.local = "retrying"
    BY <2>1, Heeded DEF Held
  <2>3. Alone'
    BY <1>1, <1>5, MilderAlone
  <2>4. Ended' => Over'
    BY <1>1, <1>5, <1>7, MilderEnded DEF Ended, Fresh
  <2>5. Gone'
    BY <1>1, <1>5, <2>2, MilderGone
  <2>6. Shows'
    BY <1>1, <2>1, <2>2 DEF Shows
  <2> QED
    BY <1>7, <2>3, <2>4, <2>5, <2>6 DEF Kept
<1> QED
  BY <1>9, <1>10

\* A start that finds the worker's channel empty.
LEMMA FirstStart ==
  ASSUME Types, SendStart, DOMAIN frames = {}
  PROVE  (\A i \in Starts' : i = 1) /\ ~Fresh(events')
<1> DEFINE n == Len(frames)
<1>1. "start" \in FrameSet
  BY DEF FrameSet
<1>2. /\ n \in Nat /\ DOMAIN frames = 1..n /\ DOMAIN frames' = 1..(n + 1)
  BY <1>1, FrameSent DEF SendStart
<1> HIDE DEF n
<1>3. n = 0
  <2>1. n > 0 => 1 \in 1..n
    BY <1>2
  <2> QED
    BY <1>2, <2>1
<1>4. \A i \in Starts' : i = 1
  BY <1>2, <1>3 DEF Starts
<1>5. events \in Seq(EventSet)
  BY DEF Types, Wire
<1>6. \A i \in DOMAIN events' : events'[i].old = TRUE
  <2> SUFFICES ASSUME NEW i \in DOMAIN events' PROVE events'[i].old = TRUE
    OBVIOUS
  <2>1. events' = [j \in DOMAIN events |-> [events[j] EXCEPT !.old = TRUE]]
    BY DEF SendStart
  <2>2. i \in DOMAIN events /\ events'[i] = [events[i] EXCEPT !.old = TRUE]
    BY <2>1
  <2>3. events[i] \in EventSet
    BY <1>5, <2>2, LenProperties, ElementOfSeq
  <2> QED
    BY <2>2, <2>3 DEF EventSet
<1>7. ~Fresh(events')
  BY <1>6 DEF Fresh
<1> QED
  BY <1>4, <1>7

LEMMA TellDispatch ==
  ASSUME Types, Tells, RunInv, mixed = {}, NEW o \in Retriers, Dispatch(o)
  PROVE  Front' /\ Kept
<1> USE DEF Types, Tells
<1>1. /\ ops[o].pc = "acked" /\ ops[o].kind = "retry" /\ row' = row /\ adapter' = adapter
      /\ proj' = proj /\ live' = live
      /\ \/ SendStart /\ ops' = At(o, "complete")
         \/ ops' = At(o, "restore") /\ UNCHANGED <<frames, events>>
  BY DEF Dispatch, database, dashboard
<1>2. o \in Callers /\ Users \subseteq Callers /\ Retriers \subseteq Callers /\ Retrying(o)
  BY <1>1, ConstantFacts DEF Retrying
<1>3. DOMAIN frames = {}
  BY <1>1, <1>2 DEF Front
<1>4. /\ Milder(ops') /\ ops'[o].pc \in {"complete", "restore"}
      /\ \A p \in Callers : p # o => ops'[p] = ops[p]
  BY <1>1, <1>2, MilderAt
<1>5. \A p \in Callers : RetryingIn(ops', p) => p = o
  BY <1>2, <1>4, MilderCalls DEF Calls
<1>6. /\ \A p \in Callers : ops[p].pc \in {"send", "delete"} => ops'[p] = ops[p]
      /\ \A u \in Users : Removing(u) => ops'[u] = ops[u]
  BY <1>1, <1>2, <1>4 DEF Removing
<1>7. CASE SendStart /\ ops' = At(o, "complete")
  <2>1. ops'[o].pc = "complete"
    BY <1>2, <1>7, AtFacts
  <2>2. (\A i \in Starts' : i = 1) /\ ~Fresh(events')
    BY <1>3, <1>7, FirstStart
  <2>3. Front'
    BY <1>4, <1>5, <2>2 DEF Front, Retrying, RetryingIn
  <2>4. row' = "retrying" /\ proj'.pending = None /\ None \notin Terminal
        /\ "retrying" \notin Terminal \cup {"none"}
    BY <1>1, <1>2, ConstantFacts DEF Alone, Terminal, Statuses
  <2>5. Alone'
    BY <1>1, <1>4, MilderAlone
  <2>6. ASSUME NEW p \in Retriers, Claimed(p)' \/ Proved(p)' PROVE FALSE
    <3>1. p \in Callers
      BY <1>2
    <3>2. ops'[p].kind \notin Against
      BY <1>2, <2>5, <1>4, <3>1, MilderCalls DEF Alone
    <3>3. RetryingIn(ops', p) /\ ops'[p].pc # "complete"
      BY <2>6, <3>2 DEF Claimed, Proved, Against, RetryingIn, Retrying
    <3> QED
      BY <1>5, <2>1, <3>1, <3>3
  <2>7. ~Ended'
    BY <2>2, <2>4, <2>6 DEF Ended, Fresh
  <2>8. Gone'
    BY <1>1, <1>4, <1>6, MilderGone DEF Removing
  <2>9. Shows'
    BY <1>1, <1>6, ShowsKept
  <2> QED
    BY <2>3, <2>5, <2>7, <2>8, <2>9 DEF Kept
<1>8. CASE ops' = At(o, "restore") /\ UNCHANGED <<frames, events>>
  <2>1. ops'[o].pc = "restore"
    BY <1>2, <1>8, AtFacts
  <2>2. Front' /\ (Over => Over')
    BY <1>1, <1>5, <1>8, <2>1 DEF Front, Over, Starts, Retrying, RetryingIn
  <2> QED
    BY <1>1, <1>4, <1>6, <1>8, <2>2, KeptCalls DEF Fresh
<1> QED
  BY <1>1, <1>7, <1>8

LEMMA TellCreateDispatch ==
  ASSUME Types, Tells, RunInv, mixed = {}, CreateDispatch
  PROVE  Front' /\ Kept
<1> USE DEF Types, Tells
<1>1. Creator \in Callers /\ ops[Creator].pc = "acked" /\ ~Retrying(Creator)
  BY ConstantFacts DEF CreateDispatch, Calls
<1>2. ops[Creator].kind # "retry"
  BY <1>1 DEF Retrying
<1>3. Untouched
  BY <1>1 DEF RunInv, Created
<1>4. DOMAIN frames = {} /\ Starts = {} /\ live = 0 /\ Over
  BY <1>3 DEF Untouched, Starts, Over
<1>5. ASSUME NEW p \in Callers PROVE ~Retrying(p)
  BY <1>1, <1>3, <1>5 DEF Untouched, Retrying, Calls
<1>6. proj' = proj /\ live' = live /\ proj.pending = None /\ None \notin Terminal
  BY <1>3, ConstantFacts DEF CreateDispatch, Untouched, Statuses
<1>7. CASE SendStart /\ ops' = At(Creator, "write") /\ UNCHANGED <<database, adapter, retries, bounds>>
  <2>1. row' = row /\ adapter' = adapter
    BY <1>7 DEF database
  <2>2. Milder(ops') /\ ops'[Creator].pc = "write" /\ \A p \in Callers : p # Creator => ops'[p] = ops[p]
    BY <1>1, <1>2, <1>7, MilderAt
  <2>3. \A p \in Callers : ~RetryingIn(ops', p)
    BY <1>5, <2>2, MilderCalls
  <2>4. (\A i \in Starts' : i = 1) /\ ~Fresh(events')
    BY <1>4, <1>7, FirstStart
  <2>5. Front'
    BY <2>3, <2>4 DEF Front, Retrying, RetryingIn
  <2>6. Alone'
    BY <2>3 DEF Alone, Retrying, RetryingIn
  <2>7. ~Ended'
    <3>1. ASSUME NEW p \in Retriers PROVE ~Claimed(p)' /\ ~Proved(p)'
      <4>1. p \in Callers /\ p # Creator
        BY ConstantFacts
      <4>2. ~Claimed(p)'
        BY <2>3, <4>1 DEF Claimed, Retrying, RetryingIn
      <4>3. ops'[p].pc \in {"idle", "claim"}
        BY <1>3, <2>2, <4>1 DEF Untouched
      <4> QED
        BY <4>2, <4>3 DEF Proved
    <3>2. row' \notin Terminal \cup {"none"}
      BY <1>3, <2>1 DEF Untouched, Terminal
    <3> QED
      BY <1>6, <2>4, <3>1, <3>2 DEF Ended, Fresh
  <2>8. Users \subseteq Callers /\ Creator \notin Users
    BY ConstantFacts
  <2>9. \A u \in Users : Removing(u) => Removing(u)'
    BY <2>2, <2>8 DEF Removing
  <2>10. Gone'
    BY <2>1, <2>2, <2>9, MilderGone
  <2>11. Shows'
    BY <1>5, <1>6, <2>1, ShowsKept
  <2> QED
    BY <2>5, <2>6, <2>7, <2>10, <2>11 DEF Kept
<1>8. CASE /\ row' = "none"
           /\ adapter' = [local |-> "none", active |-> FALSE, held |-> FALSE]
           /\ ops' = Finished(Creator) /\ UNCHANGED <<frames, events>>
  <2>1. \A p \in Callers : ~RetryingIn(ops', p)
    BY <1>1, <1>5, <1>8, KeepsFinished DEF Keeps
  <2>2. Front' /\ Over'
    BY <1>4, <1>6, <1>8, <2>1 DEF Front, Over, Starts, Retrying, RetryingIn
  <2>3. Alone'
    BY <2>1 DEF Alone, Retrying, RetryingIn
  <2>4. Gone'
    BY <1>8 DEF Gone
  <2>5. Shows'
    BY <1>6, <1>8 DEF Shows
  <2> QED
    BY <2>2, <2>3, <2>4, <2>5 DEF Kept
<1> QED
  BY <1>7, <1>8 DEF CreateDispatch

LEMMA TellWorkerDies ==
  ASSUME Types, Tells, WorkerDies
  PROVE  Front' /\ Kept
<1> USE DEF Types, Tells
<1>1. /\ frames' = <<>> /\ events' = <<>> /\ (live = 0 => live' = 0)
      /\ ops' = ops /\ row' = row /\ adapter' = adapter /\ proj' = proj
  BY DEF WorkerDies, database, dashboard
<1>2. DOMAIN frames' = {} /\ Starts' = {} /\ ~Fresh(events')
  BY <1>1 DEF Starts, Fresh
<1>3. Front' /\ (Over => Over')
  BY <1>1, <1>2 DEF Front, Over, Retrying
<1>4. Milder(ops')
  BY <1>1, FollowsSame DEF Milder
<1>5. Kept
  BY <1>1, <1>2, <1>3, <1>4, KeptCalls
<1> QED
  BY <1>3, <1>5

LEMMA TellCrash ==
  ASSUME Types, Tells, Crash
  PROVE  Front' /\ Kept
<1> USE DEF Types, Tells
<1>1. /\ frames' = <<>> /\ events' = <<>> /\ (live = 0 => live' = 0)
      /\ ops' = [o \in Callers |-> Idle] /\ row' = RowReconciled /\ adapter' = Hydrated(row')
      /\ proj' = [pending |-> None, last |-> None]
  BY DEF Crash
<1>2. \A o \in Callers : ops'[o].kind = "none"
  BY <1>1, IdleType
<1>3. \A o \in Callers : ~RetryingIn(ops', o)
  BY <1>2 DEF RetryingIn
<1>4. DOMAIN frames' = {} /\ Starts' = {} /\ ~Fresh(events')
  BY <1>1 DEF Starts, Fresh
<1>5. None \notin Terminal /\ Users \subseteq Callers /\ Detector \in Callers /\ Retriers \subseteq Callers
  BY ConstantFacts DEF Statuses
<1>6. proj'.pending = None /\ proj'.last = None /\ None # "running"
  BY <1>1, ConstantFacts DEF Statuses
<1>7. Front' /\ Alone'
  BY <1>3, <1>4 DEF Front, Alone, Retrying, RetryingIn
<1>8. row' # "retrying" /\ (row' \in Terminal \cup {"none"} => row' = row)
  BY <1>1 DEF RowReconciled, Terminal
<1>9. Ended' => Over'
  <2>1. ASSUME NEW o \in Retriers PROVE ~Claimed(o)' /\ ~Proved(o)'
    BY <1>2, <1>3, <1>5, <2>1 DEF Claimed, Proved, Retrying, RetryingIn
  <2>2. Ended' => row' \in Terminal \cup {"none"}
    BY <1>4, <1>5, <1>6, <2>1 DEF Ended, Fresh
  <2>3. Over => Over'
    BY <1>1, <1>4 DEF Over
  <2> QED
    BY <1>8, <2>2, <2>3 DEF Ended
<1>10. adapter'.local = IF row' \in {"created", "dispatched"} THEN "running" ELSE row'
  BY <1>1 DEF Hydrated
<1>11. adapter'.local = "running" => adapter'.active
  BY <1>1 DEF Hydrated, Terminal
<1>12. Gone'
  BY <1>2, <1>5, <1>10 DEF Gone
<1>13. Shows'
  BY <1>5, <1>6, <1>8, <1>10, <1>11 DEF Shows, Watched
<1> QED
  BY <1>7, <1>9, <1>12, <1>13 DEF Kept

\* What is left on the way once the worker has read a frame.
LEMMA FrontRead ==
  ASSUME Types, frames # <<>>, frames' = Tail(frames), \A i \in Starts : i = 1
  PROVE  /\ Starts' = {} /\ (Head(frames) = "start" \/ Starts = {})
         /\ \A p : (\A i, j \in DOMAIN frames : frames[i] = p => j <= i) =>
              /\ \A i, j \in DOMAIN frames' : frames'[i] = p => j <= i
              /\ Head(frames) = p => DOMAIN frames' = {}
<1> DEFINE n == Len(frames)
<1>0. n \in Nat
  BY LenProperties DEF Types, Wire
<1>1. /\ n > 0 /\ 1 \in 1..n
      /\ DOMAIN frames = 1..n /\ DOMAIN frames' = 1..(n - 1)
      /\ Head(frames) = frames[1]
      /\ \A i \in 1..(n - 1) : i + 1 \in 1..n /\ i + 1 # 1 /\ frames'[i] = frames[i + 1]
  BY <1>0, FrameRead
<1> HIDE DEF n
<1>2. Starts' = {}
  BY <1>1 DEF Starts
<1>3. Head(frames) = "start" \/ Starts = {}
  BY <1>1 DEF Starts
<1>4. ASSUME NEW p, \A i, j \in 1..n : frames[i] = p => j <= i
      PROVE  /\ \A i, j \in 1..(n - 1) : frames'[i] = p => j <= i
             /\ frames[1] = p => 1..(n - 1) = {}
  <2>1. ASSUME NEW i \in 1..(n - 1), NEW j \in 1..(n - 1), frames'[i] = p PROVE j <= i
    <3>1. i + 1 \in 1..n /\ j + 1 \in 1..n /\ frames[i + 1] = p
      BY <1>1, <2>1
    <3>2. j + 1 <= i + 1
      BY <1>4, <3>1
    <3> QED
      BY <1>0, <3>2
  <2>2. ASSUME frames[1] = p, NEW i \in 1..(n - 1) PROVE FALSE
    <3>1. i + 1 \in 1..n /\ i + 1 # 1
      BY <1>1
    <3>2. i + 1 <= 1
      BY <1>1, <1>4, <2>2, <3>1
    <3> QED
      BY <1>0, <3>1, <3>2
  <2> QED
    BY <2>1, <2>2
<1> QED
  BY <1>1, <1>2, <1>3, <1>4

\* An event that is no end of a run tells of none.
LEMMA FreshAppended ==
  ASSUME Types, NEW e, e.status \notin Terminal, events' = Append(events, e), e \in EventSet
  PROVE  Fresh(events') => Fresh(events)
<1> SUFFICES ASSUME NEW i \in DOMAIN events', events'[i].status \in Terminal, ~events'[i].old
             PROVE  Fresh(events)
  BY DEF Fresh
<1> DEFINE n == Len(events)
<1>1. /\ n \in Nat /\ DOMAIN events = 1..n /\ DOMAIN events' = 1..(n + 1)
      /\ events'[n + 1] = e /\ \A j \in 1..n : events'[j] = events[j]
  BY AppendProperties, LenProperties DEF Types, Wire
<1> HIDE DEF n
<1>2. i \in 1..n
  <2>1. i = n + 1 \/ i \in 1..n
    BY <1>1
  <2> QED
    BY <1>1, <2>1
<1> QED
  BY <1>1, <1>2 DEF Fresh

LEMMA TellStart ==
  ASSUME Types, Tells, Start
  PROVE  Front' /\ Kept
<1> USE DEF Types, Tells
<1> DEFINE e == [status |-> "running", old |-> FALSE]
<1>1. /\ frames # <<>> /\ Head(frames) = "start" /\ frames' = Tail(frames)
      /\ ops' = ops /\ row' = row /\ adapter' = adapter /\ proj' = proj
      /\ events' = Append(events, e)
  BY DEF Start, database, dashboard
<1>2. e \in EventSet /\ e.status \notin Terminal
  BY DEF EventSet, Heard, Terminal
<1> HIDE DEF e
<1>3. Fresh(events') => Fresh(events)
  BY <1>1, <1>2, FreshAppended
<1>4. Starts # {} /\ 1 \in DOMAIN frames
  BY <1>1, HeadStart
<1>5. Starts' = {}
      /\ \A p : (\A i, j \in DOMAIN frames : frames[i] = p => j <= i) =>
           \A i, j \in DOMAIN frames' : frames'[i] = p => j <= i
  BY <1>1, FrontRead DEF Front
<1>6. Front'
  BY <1>1, <1>4, <1>5 DEF Front, Retrying
<1>7. Milder(ops')
  BY <1>1, FollowsSame DEF Milder
<1>8. Over => Over'
  BY <1>4 DEF Over
<1> QED
  BY <1>1, <1>3, <1>6, <1>7, <1>8, KeptCalls

LEMMA TellAbort ==
  ASSUME Types, Tells, RunInv, Abort
  PROVE  Front' /\ Kept
<1> USE DEF Types, Tells
<1> DEFINE h == Head(frames)
<1>1. /\ frames # <<>> /\ h # "start" /\ frames' = Tail(frames) /\ live' \in {0, live}
      /\ row' = row /\ adapter' = adapter /\ proj' = proj
      /\ events' = events \/ live' = 0
  BY DEF Abort, database, dashboard, Wire
<1>2. h \in {None} \cup Retriers
  BY <1>1, HeadTailProperties DEF Wire, FrameSet
<1>3. \/ ops' = ops
      \/ h # None /\ live' = 0 /\ ops' = At(h, "acked")
      \/ h # None /\ ops' = At(h, "refused")
  BY DEF Abort
<1>4. h # None => h \in Callers /\ h \in Retriers /\ ops[h].pc = "waiting"
  <2>1. 1 \in DOMAIN frames /\ h = frames[1]
    BY <1>1, HeadStart
  <2>2. h # None => h \in Retriers
    BY <1>2
  <2> HIDE DEF h
  <2> QED
    BY <2>1, <2>2, ConstantFacts DEF RunInv, Awaited
<1>5. 1 \in DOMAIN frames
  BY <1>1, HeadStart
<1>6. /\ Starts' = {} /\ Starts = {}
      /\ \A p : (\A i, j \in DOMAIN frames : frames[i] = p => j <= i) =>
           /\ \A i, j \in DOMAIN frames' : frames'[i] = p => j <= i
           /\ h = p => DOMAIN frames' = {}
  BY <1>1, FrontRead DEF Front
<1> HIDE DEF h
<1>7. (Over => Over') /\ (live' = 0 => Over') /\ (Fresh(events') => Fresh(events) \/ Over')
  BY <1>1, <1>6 DEF Over
<1>8. /\ \A p \in Callers : p # h => ops'[p] = ops[p]
      /\ h # None /\ ops' # ops =>
           /\ ops'[h].kind = ops[h].kind
           /\ ops'[h].pc = "refused" \/ (ops'[h].pc = "acked" /\ live' = 0)
      /\ None \notin Callers
  BY <1>3, <1>4, AtFacts, ConstantFacts
<1>9. \A p \in Callers : ops'[p].kind = ops[p].kind
  BY <1>4, <1>8
<1>10. Users \subseteq Callers /\ Retriers \subseteq Callers /\ Detector \in Callers
  BY ConstantFacts
<1>11. Front'
  <2> SUFFICES ASSUME NEW p \in Callers, RetryingIn(ops', p)
               PROVE  /\ ops'[p].pc = "waiting" =>
                           \A i, j \in DOMAIN frames' : frames'[i] = p => j <= i
                      /\ ops'[p].pc = "acked" => DOMAIN frames' = {}
    BY <1>6 DEF Front, Retrying, RetryingIn
  <2>1. Retrying(p)
    BY <1>4, <1>8, <1>9 DEF Retrying, RetryingIn
  <2>2. CASE ops'[p] = ops[p]
    BY <1>5, <1>6, <2>1, <2>2 DEF Front
  <2>3. CASE ops'[p] # ops[p]
    <3>1. p = h /\ ops[p].pc = "waiting" /\ ops'[p].pc # "waiting"
      BY <1>4, <1>8, <2>3
    <3> QED
      BY <1>6, <2>1, <3>1 DEF Front
  <2> QED
    BY <2>2, <2>3
<1>12. \A u \in Users : Removing(u) => ops'[u] = ops[u]
  BY <1>4, <1>8, <1>10 DEF Removing
<1>13. \A p \in Callers : Retrying(p) /\ ops[p].pc = "send" => ops'[p] = ops[p]
  BY <1>4, <1>8
<1>14. CASE Milder(ops')
  BY <1>1, <1>7, <1>11, <1>12, <1>13, <1>14, KeptCalls
<1>15. CASE ~Milder(ops')
  <2>1. h # None /\ live' = 0 /\ ops' = At(h, "acked")
    <3>1. ops' # ops
      BY <1>15, FollowsSame DEF Milder
    <3>2. h # None /\ ops' = At(h, "refused") => Milder(ops')
      BY <1>4, MilderAt DEF Retrying
    <3> QED
      BY <1>3, <1>15, <3>1, <3>2
  <2>2. ops[h].kind \in Against
    <3>1. /\ At(h, "acked")[h].kind = ops[h].kind /\ At(h, "acked")[h].pc = "acked"
          /\ At(h, "acked")[h].prev = ops[h].prev /\ At(h, "acked")[h].override = ops[h].override
          /\ Others(At(h, "acked"), h)
      BY <1>4, <2>1, AtFacts, OthersAt
    <3>2. ops[h].kind \notin Against => Follows(At(h, "acked")[h], ops[h])
      BY <1>4, <2>1, <3>1 DEF Follows
    <3> QED
      BY <1>15, <2>1, <3>1, <3>2, MilderMove
  <2>3. \A p \in Callers : ~Retrying(p)
    BY <1>4, <2>1, <2>2 DEF Alone
  <2>4. \A p \in Callers : ~RetryingIn(ops', p)
    BY <1>4, <1>8, <1>9, <2>1, <2>3 DEF Retrying, RetryingIn
  <2>5. Alone'
    BY <2>4 DEF Alone, Retrying, RetryingIn
  <2>6. Over'
    BY <1>7, <2>1
  <2>7. Gone'
    <3>1. \A u \in Users : Removing(u) => Removing(u)'
      BY <1>12 DEF Removing
    <3>2. ops'[Detector].kind = "terminate" /\ ops'[Detector].pc = "mark" =>
            ops[Detector].kind = "terminate" /\ ops[Detector].pc = "mark"
      BY <1>4, <1>8, <1>10, <2>1, AtFacts
    <3> QED
      BY <1>1, <1>9, <1>10, <3>1, <3>2 DEF Gone
  <2>8. Shows'
    BY <1>1, <2>3, ShowsKept
  <2> QED
    BY <1>11, <2>5, <2>6, <2>7, <2>8 DEF Kept
<1> QED
  BY <1>14, <1>15

LEMMA TellStep == Types /\ RunInv /\ TellInv /\ [Next]_vars => TellInv'
<1> SUFFICES ASSUME Types, RunInv, TellInv, [Next]_vars, mixed' = {} PROVE Tells'
  BY DEF TellInv
<1> USE DEF Retriers
<1>1. CASE CalmAction
  <2>1. Calm
    BY <1>1, CalmActions
  <2>2. mixed = {} /\ Tells
    BY <2>1 DEF Calm, TellInv
  <2>3. Front' /\ (Over => Over')
    BY <2>1, <2>2, CalmFront DEF Tells
  <2>4. Kept
    <3>1. CASE FoundIdle \/ \E u \in Users : BeginRetry(u) \/ BeginAbort(u) \/ BeginDelete(u)
      BY <2>2, <2>3, <3>1, TellBeginnings
    <3>2. CASE CreateWrite \/ Project \/ Observe \/ WriteTerminated \/ MarkTerminated \/ TerminateRefused
      BY <2>2, <2>3, <3>2, TellCreateWrite, TellProject, TellObserve, TellTermination
    <3>3. CASE \E u \in Users : MarkAborted(u) \/ WriteAborted(u) \/ RemoveTask(u) \/ DeleteRow(u)
      BY <2>2, <2>3, <3>3, TellAborts, TellRemoval
    <3>4. CASE \E o \in Users \cup {Detector} : Claim(o) \/ Conflict(o) \/ Complete(o) \/ Restore(o)
      BY <2>2, <2>3, <3>4, TellClaim, TellConflict, TellComplete, TellRestore
    <3>5. CASE \/ EndRun \/ UNCHANGED vars
               \/ \E o \in Users \cup {Detector} : TimeOut(o)
               \/ \E u \in Users : AbortRefused(u)
      BY <2>2, <2>3, <3>5, TellQuiet
    <3> QED
      BY <1>1, <3>1, <3>2, <3>3, <3>4, <3>5 DEF CalmAction
  <2> QED
    BY <2>3, <2>4 DEF Kept, Tells
<1>2. ASSUME NEW o \in Retriers, SendAbort(o) \/ Dispatch(o) PROVE Tells'
  <2>1. mixed = {} /\ Tells
    BY <1>2 DEF SendAbort, Dispatch, TellInv
  <2> QED
    BY <1>2, <2>1, TellSendAbort, TellDispatch DEF Kept, Tells
<1>3. CASE CreateDispatch \/ Start \/ Abort \/ WorkerDies \/ Crash
  <2>1. mixed = {} /\ Tells
    BY <1>3 DEF CreateDispatch, Start, Abort, WorkerDies, Crash, TellInv
  <2>2. Front' /\ Kept
    BY <1>3, <2>1, TellCreateDispatch, TellStart, TellAbort, TellWorkerDies, TellCrash
  <2> QED
    BY <2>2 DEF Kept, Tells
<1> QED
  BY <1>1, <1>2, <1>3 DEF Next, Step, UserStep, CalmAction

LEMMA TellInit == Init => TellInv
<1> SUFFICES ASSUME Init PROVE Tells
  BY DEF TellInv
<1>1. \A o \in Callers : o # Creator => ops[o] = Idle
  BY DEF Init
<1>2. \A o \in Callers : ops[o].kind # "retry" /\ (o \in Retriers => ops[o].kind = "none")
  <2>1. ops[Creator].kind = "create"
    BY ConstantFacts DEF Init, Call
  <2> QED
    BY <1>1, <2>1, IdleType, ConstantFacts
<1>3. /\ row = "created" /\ adapter.local = "running" /\ adapter.active
      /\ proj.pending = None /\ proj.last = None
      /\ frames = <<>> /\ live = 0 /\ events = <<>>
  BY DEF Init
<1>4. None \notin Terminal /\ None # "running" /\ Retriers \subseteq Callers
      /\ Users \subseteq Retriers /\ Detector \in Retriers
  BY ConstantFacts DEF Statuses
<1>5. Alone /\ Front /\ Over
  BY <1>2, <1>3 DEF Alone, Front, Retrying, Starts, Over
<1>6. Gone
  BY <1>2, <1>3, <1>4 DEF Gone
<1>7. Shows
  BY <1>3, <1>4 DEF Shows, Watched
<1> QED
  BY <1>5, <1>6, <1>7 DEF Tells

-----------------------------------------------------------------------------
(* The invariant and the theorems                                          *)

LEMMA IInvInit == Init => IInv
<1> SUFFICES ASSUME Init PROVE IInv
  OBVIOUS
<1>1. /\ ops \in [Callers -> CallSet]
      /\ \A o \in Callers : o # Creator => ops[o] = Idle
      /\ ops[Creator].kind = "create"
  <2>1. Call("create", "acked") \in CallSet /\ Call("create", "acked").kind = "create"
    BY CallType DEF Kinds, Pcs
  <2>2. ops = [o \in Callers |-> IF o = Creator THEN Call("create", "acked") ELSE Idle]
    BY DEF Init
  <2> QED
    BY <2>1, <2>2, IdleType, ConstantFacts
<1>2. \A o \in Callers : ~Retrying(o)
  BY <1>1, IdleType DEF Retrying
<1>3. row = "created" /\ claim = None
  BY DEF Init
<1>4. Calls
  BY <1>1, <1>2, <1>3 DEF Calls, Known, Statuses
<1>5. Dash
  <2>1. adapter = [local |-> "running", active |-> TRUE, held |-> FALSE]
        /\ proj = [pending |-> None, last |-> None] /\ retries = 0
    BY DEF Init
  <2>2. Sound(adapter) /\ adapter.held = FALSE
    BY <2>1 DEF Sound, AdapterSet, Statuses, Terminal
  <2>3. 0 \in 0..MaxAutoRetries /\ proj \in ProjSet
    BY <2>1, AutoRetriesAssumption DEF ProjSet
  <2> QED
    BY <2>1, <2>2, <2>3 DEF Dash
<1>6. Wire
  <2>1. /\ frames = <<>> /\ events = <<>> /\ live = 0 /\ mixed = {}
        /\ requests = 0 /\ faults = 0
    BY DEF Init
  <2>2. 0 \in 0..MaxRequests /\ 0 \in 0..MaxFaults
    BY BoundsAssumption
  <2>3. frames \in Seq(FrameSet) /\ events \in Seq(EventSet)
    BY <2>1, EmptySeq
  <2> QED
    BY <2>1, <2>2, <2>3 DEF Wire
<1>7. Untouched
  <2>1. \A o \in Retriers : ops[o].pc = "idle" /\ ops[o].override = FALSE
    BY <1>1, ConstantFacts DEF Idle, Call
  <2> QED
    BY <2>1 DEF Init, Untouched
<1>8. RunInv
  <2>1. frames = <<>> /\ live = 0 /\ Starts = {}
    BY DEF Init, Starts
  <2> QED
    BY <1>2, <1>7, <2>1 DEF RunInv, Awaited, OneRun, Cleared, Created
<1> QED
  BY <1>4, <1>5, <1>6, <1>8 DEF IInv, Types

LEMMA InvHolds == Spec => []IInv
<1>1. IInv /\ [Next]_vars => IInv'
  BY TypesStep, RunStep DEF IInv, RunInv
<1> QED
  BY <1>1, IInvInit, PTL DEF Spec

\* Types (AgentTask): whatever the operators, the detector, the worker and the
\* crashes do to one task, its row, claim, calls and adapter stay well-formed; the
\* adapter keeps a retry's hold only while a retry is under way, and never watches a
\* task it shows as ended.
THEOREM Typing == Spec => []TypeOK
<1>1. IInv => TypeOK
  <2> SUFFICES ASSUME Types PROVE TypeOK
    BY DEF IInv
  <2>1. /\ FrameSet \subseteq {"start"} \cup (Callers \cup {None})
        /\ EventSet \subseteq [status : Statuses, old : BOOLEAN]
        /\ CallSet \subseteq
             [kind : {"none", "create", "retry", "abort", "delete", "terminate"},
              pc : {"idle", "claim", "send", "waiting", "acked", "refused",
                    "complete", "restore", "unwind", "write", "mark", "remove", "delete"},
              prev : Statuses \cup {None}, override : BOOLEAN]
    BY ConstantFacts DEF FrameSet, EventSet, CallSet, Kinds, Pcs
  <2>2. ops \in [Callers -> CallSet] /\ frames \in Seq(FrameSet) /\ events \in Seq(EventSet)
    BY DEF Types, Calls, Wire
  <2>3. /\ frames \in Seq({"start"} \cup (Callers \cup {None}))
        /\ events \in Seq([status : Statuses, old : BOOLEAN])
    <3>1. ASSUME NEW S, NEW T, S \subseteq T, NEW s \in Seq(S) PROVE s \in Seq(T)
      <4>1. \A n \in Nat : [1..n -> S] \subseteq [1..n -> T]
        BY <3>1
      <4> QED
        BY <4>1, SeqDef
    <3> QED
      BY <2>1, <2>2, <3>1
  <2>4. proj \in [pending : Statuses \cup {None}, last : Statuses \cup {None}]
    BY ConstantFacts DEF Types, Dash, ProjSet
  <2>5. row \in Statuses \cup {"none"} /\ claim \in Claims \cup {None}
    BY ConstantFacts DEF Types, Calls
  <2>6. /\ adapter \in [local : Statuses \cup {"none"}, active : BOOLEAN, held : BOOLEAN]
        /\ adapter.held => \E o \in Callers : Retrying(o)
        /\ adapter.active => adapter.local \notin Terminal \cup {"none"}
        /\ retries \in 0..MaxAutoRetries
    BY DEF Types, Dash, Sound, AdapterSet
  <2>7. ops \in [Callers ->
               [kind : {"none", "create", "retry", "abort", "delete", "terminate"},
                pc : {"idle", "claim", "send", "waiting", "acked", "refused",
                      "complete", "restore", "unwind", "write", "mark", "remove", "delete"},
                prev : Statuses \cup {None}, override : BOOLEAN]]
    BY <2>1, <2>2
  <2> QED
    BY <2>3, <2>4, <2>5, <2>6, <2>7 DEF Types, Wire, TypeOK
<1> QED
  BY <1>1, InvHolds, PTL

\* One run (AgentTask): for any number of operators, retries, lost answers and
\* crashes, a retry's START_WORKFLOW never reaches a worker that still runs the task
\* or has another start on its way: the claim is exclusive, and the ABORT_ACK comes
\* after every start sent before the ABORT_REQUEST.
THEOREM SingleRun == Spec => []OneRun
<1>1. IInv => OneRun
  BY DEF IInv, RunInv
<1> QED
  BY <1>1, InvHolds, PTL

\* Owned retries (AgentTask): as long as no run can end "incomplete", a retry that
\* fails, is cancelled or loses its answer never leaves the row in "retrying": the
\* one that does has been cancelled before it heard that its claim is committed.
THEOREM OwnedRetries ==
  ASSUME "incomplete" \notin Outcomes
  PROVE  Spec => RetriesGiveBack
<1>1. IInv /\ [Next]_vars =>
        [RetryingHasOwner /\ ~RetryingHasOwner' =>
           claim.owner = Detector /\ ops[Detector].pc = "send"]_vars
  <2> SUFFICES ASSUME IInv, [Next]_vars, RetryingHasOwner, ~RetryingHasOwner'
               PROVE  claim.owner = Detector /\ ops[Detector].pc = "send"
    OBVIOUS
  <2>1. GivesBack
    BY TypesStep DEF IInv, RunInv
  <2>2. Unheard(claim.owner)
    BY <2>1 DEF GivesBack
  <2> QED
    BY <2>2 DEF Unheard
<1> QED
  BY <1>1, InvHolds, PTL DEF Spec, RetriesGiveBack

\* The row (AgentTask): for any number of operators, retries, lost answers and
\* crashes, once everything has come to rest a task that still runs is not recorded
\* as ended, and one recorded as running is watched by the detector or shown as
\* stuck, unless a retry has met an abort, a removal or the news of an older run.
\* What records the end of a task always comes after the worker's own word for it.
THEOREM RowTells == Spec => []RowTellsTheRun
<1>1. IInv /\ TellInv /\ [Next]_vars => TellInv'
  BY TellStep DEF IInv
<1>2. IInv /\ TellInv => RowTellsTheRun
  <2> SUFFICES ASSUME IInv, Tells, Quiet
               PROVE  /\ live > 0 => row \notin Terminal \cup {"none"}
                      /\ row \in {"dispatched", "running"} /\ live = 0 =>
                           adapter.local = "stuck" \/ (adapter.active /\ adapter.local = "running")
    BY DEF TellInv, RowTellsTheRun
  <2>1. row \in Terminal \cup {"none"} => live = 0
    BY DEF Tells, Ended, Over
  <2>2. proj.pending = None /\ None \notin Terminal
    BY ConstantFacts DEF Quiet, Statuses
  <2> QED
    BY <2>1, <2>2 DEF Tells, Shows, Watched
<1> QED
  BY <1>1, <1>2, TellInit, InvHolds, PTL DEF Spec
=============================================================================
