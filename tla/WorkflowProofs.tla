--------------------------- MODULE WorkflowProofs ---------------------------
(***************************************************************************)
(* The types, the gates and the order of commits and effects in Workflow,  *)
(* for any stages, gates, pools, faults and bounds.                        *)
(***************************************************************************)
EXTENDS Workflow, FiniteSetTheorems, SequenceTheorems, TLAPS

-----------------------------------------------------------------------------
(* Sequences of the elements of a set                                      *)

LEMMA SetToSeqType == ASSUME NEW S, IsFiniteSet(S) PROVE SetToSeq(S) \in Seq(S)
<1>1. Cardinality(S) \in Nat
  BY FS_CardinalityType
<1>2. ExistsBijection(1..Cardinality(S), S)
  BY FS_CardinalityType
<1>3. PICK f : f \in Bijection(1..Cardinality(S), S)
  BY <1>2 DEF ExistsBijection
<1>4. f \in [1..Cardinality(S) -> S]
  BY <1>3 DEF Bijection, Injection
<1>5. IsInjective(f)
  BY <1>3, <1>4 DEF Bijection, Injection, IsInjective
<1>6. SetToSeq(S) \in [1..Cardinality(S) -> S]
  BY <1>4, <1>5 DEF SetToSeq
<1> QED
  BY <1>1, <1>6

\* The units that some transition hands to the bots of a set.
UnitsOf(B, n) == {[bot |-> b, by |-> n] : b \in B}

LEMMA UnitsOfFinite == ASSUME NEW B, IsFiniteSet(B), NEW n PROVE IsFiniteSet(UnitsOf(B, n))
<1> DEFINE u == [b \in B |-> [bot |-> b, by |-> n]]
<1>1. u \in [B -> UnitsOf(B, n)]
  BY DEF UnitsOf
<1>2. \A t \in UnitsOf(B, n) : \E b \in B : u[b] = t
  BY DEF UnitsOf
<1>3. u \in Surjection(B, UnitsOf(B, n))
  BY <1>1, <1>2 DEF Surjection
<1> QED
  BY <1>3, FS_Surjection

Performers == Bots \cup Stages

LEMMA UnitsOfType ==
  ASSUME NEW B, IsFiniteSet(B), B \subseteq Performers, NEW n
  PROVE  SetToSeq(UnitsOf(B, n)) \in Seq([bot : Performers, by : {n}])
<1>1. SetToSeq(UnitsOf(B, n)) \in Seq(UnitsOf(B, n))
  BY UnitsOfFinite, SetToSeqType
<1>2. UnitsOf(B, n) \subseteq [bot : Performers, by : {n}]
  BY DEF UnitsOf
<1> QED
  BY <1>1, <1>2, SeqMonotonic

-----------------------------------------------------------------------------
(* Transitions                                                             *)

\* A human has let the workflow leave every gated stage behind it.
Approved(f) == \A s \in Gated : s < f.current => s \in f.approved

Sound(f) ==
  /\ f \in Flow
  /\ Approved(f)
  /\ f.gate # None => f.current \in Stages

\* What a transition may bring about.
Fresh(o) ==
  /\ o.flow \in Flow
  /\ Approved(o.flow)
  /\ o.flow.gate # None => o.flow.current \in Stages
  /\ o.units \in Seq([bot : Performers, by : {clock + 1}])
  /\ o.card = None \/ (o.card \in Card /\ o.card.by = clock + 1)

LEMMA AtType ==
  ASSUME NEW f \in Flow, NEW s \in 0..NStages, NEW B \in SUBSET Bots, NEW n \in 0..MaxTickets
  PROVE  /\ At(f, s, B, n) \in Flow
         /\ At(f, s, B, n).current = s
         /\ At(f, s, B, n).gate = None
         /\ At(f, s, B, n).approved = f.approved
BY DEF At, Flow

LEMMA AssignmentsType ==
  ASSUME NEW a \in Assignments
  PROVE  /\ a[1] \in SUBSET Bots
         /\ a[2] - Cardinality(a[1]) \in 0..MaxTickets
<1>1. a[1] \in SUBSET Bots /\ a[2] \in 1..MaxTickets
  BY DEF Assignments
<1>2. Cardinality(Bots) \in Nat
  BY BotsAssumption, FS_CardinalityType
<1>3. Cardinality(a[1]) = IF a[2] < Cardinality(Bots) THEN a[2] ELSE Cardinality(Bots)
  BY DEF Assignments
<1> QED
  BY <1>1, <1>2, <1>3, BoundsAssumption

LEMMA EnterFresh ==
  ASSUME NEW f \in Flow, NEW s \in Stages, clock \in Nat,
         \A r \in Gated : r < s => r \in f.approved,
         NEW o \in Enter(f, s)
  PROVE  Fresh(o)
<1>1. s \in 0..NStages
  BY StagesAssumption DEF Stages
<1>2. CASE s # Pool
  <2>1. o = Outcome(At(f, s, {}, 0), <<Work(s)>>)
    BY <1>2 DEF Enter
  <2>2. 0 \in 0..MaxTickets
    BY BoundsAssumption
  <2>3. Work(s) \in [bot : Performers, by : {clock + 1}]
    BY DEF Work, Performers
  <2>4. <<Work(s)>> \in Seq([bot : Performers, by : {clock + 1}])
    BY <2>3
  <2>5. /\ At(f, s, {}, 0) \in Flow
        /\ At(f, s, {}, 0).current = s
        /\ At(f, s, {}, 0).gate = None
        /\ At(f, s, {}, 0).approved = f.approved
    BY <1>1, <2>2, AtType
  <2>6. o.flow = At(f, s, {}, 0) /\ o.units = <<Work(s)>> /\ o.card = None
    BY <2>1 DEF Outcome
  <2> QED
    BY <2>4, <2>5, <2>6 DEF Fresh, Approved
<1>3. CASE s = Pool
  <2>1. PICK a \in Assignments :
          o = Outcome(At(f, s, a[1], a[2] - Cardinality(a[1])),
                      SetToSeq({Work(b) : b \in a[1]}))
    BY <1>3 DEF Enter
  <2> DEFINE at == At(f, s, a[1], a[2] - Cardinality(a[1]))
  <2>2. /\ at \in Flow /\ at.current = s /\ at.gate = None /\ at.approved = f.approved
    BY <1>1, AtType, AssignmentsType
  <2>3. {Work(b) : b \in a[1]} = UnitsOf(a[1], clock + 1)
    BY DEF Work, UnitsOf
  <2>4. IsFiniteSet(a[1]) /\ a[1] \subseteq Performers
    BY AssignmentsType, BotsAssumption, FS_Subset DEF Performers
  <2>5. SetToSeq({Work(b) : b \in a[1]}) \in Seq([bot : Performers, by : {clock + 1}])
    BY <2>3, <2>4, UnitsOfType
  <2>6. o.flow = at /\ o.units = SetToSeq({Work(b) : b \in a[1]}) /\ o.card = None
    BY <2>1 DEF Outcome
  <2> QED
    BY <2>2, <2>5, <2>6 DEF Fresh, Approved
<1> QED
  BY <1>2, <1>3

LEMMA AdvanceFresh ==
  ASSUME NEW f \in Flow, clock \in Nat,
         \A r \in Gated : r < f.current + 1 => r \in f.approved,
         NEW o \in Advance(f)
  PROVE  Fresh(o)
<1>1. f.current \in 0..NStages /\ f.busy \in SUBSET Bots /\ f.tickets \in 0..MaxTickets
  BY DEF Flow
<1>2. CASE f.current + 1 < NStages
  <2>1. f.current + 1 \in Stages
    BY <1>1, <1>2, StagesAssumption DEF Stages
  <2>2. o \in Enter(f, f.current + 1)
    BY <1>2 DEF Advance
  <2> QED
    BY <2>1, <2>2, EnterFresh
<1>3. CASE ~(f.current + 1 < NStages)
  <2> DEFINE at == At(f, NStages, f.busy, f.tickets)
  <2>1. o = Outcome(at, <<>>)
    BY <1>3 DEF Advance
  <2>2. NStages \in 0..NStages
    BY StagesAssumption
  <2>3. at \in Flow /\ at.current = NStages /\ at.gate = None /\ at.approved = f.approved
    BY <1>1, <2>2, AtType
  <2>4. o.flow = at /\ o.units = <<>> /\ o.card = None
    BY <2>1 DEF Outcome
  <2>5. \A r \in Gated : r < NStages => r < f.current + 1
    BY <1>1, <1>3, StagesAssumption, GatedAssumption DEF Stages
  <2> QED
    BY <2>3, <2>4, <2>5 DEF Fresh, Approved
<1> QED
  BY <1>2, <1>3

LEMMA RaiseGateFresh ==
  ASSUME NEW f \in Flow, Approved(f), f.current \in Stages, clock \in Nat, clock < MaxSteps,
         NEW to \in Stages \cup {None}, NEW o \in RaiseGate(f, to)
  PROVE  Fresh(o)
<1> DEFINE gate == [stage |-> f.current, to |-> to, by |-> clock + 1]
           card == [stage |-> f.current, rework |-> to # None, by |-> clock + 1]
<1>1. o.flow = [f EXCEPT !.gate = gate] /\ o.units = <<>> /\ o.card = card
  BY DEF RaiseGate
<1>2. clock + 1 \in Clock
  BY BoundsAssumption DEF Clock
<1>3. gate \in Gate
  BY <1>2 DEF Gate
<1>4. card \in Card /\ card.by = clock + 1
  BY <1>2 DEF Card
<1>5. /\ [f EXCEPT !.gate = gate] \in Flow
      /\ [f EXCEPT !.gate = gate].current = f.current
      /\ [f EXCEPT !.gate = gate].approved = f.approved
  <2> HIDE DEF gate
  <2> QED
    BY <1>3 DEF Flow
<1>6. <<>> \in Seq([bot : Performers, by : {clock + 1}])
  OBVIOUS
<1> QED
  BY <1>1, <1>4, <1>5, <1>6 DEF Fresh, Approved

LEMMA TicketsChange ==
  ASSUME NEW f \in Flow, NEW n \in 0..MaxTickets
  PROVE  /\ [f EXCEPT !.tickets = n] \in Flow
         /\ [f EXCEPT !.tickets = n].current = f.current
         /\ [f EXCEPT !.tickets = n].approved = f.approved
BY DEF Flow

LEMMA BusyChange ==
  ASSUME NEW f \in Flow, NEW B \in SUBSET Bots
  PROVE  /\ [f EXCEPT !.busy = B] \in Flow
         /\ [f EXCEPT !.busy = B].current = f.current
         /\ [f EXCEPT !.busy = B].approved = f.approved
BY DEF Flow

LEMMA ClaimFresh ==
  ASSUME NEW f \in Flow, Approved(f), f.current = Pool, f.current \in Stages,
         clock \in Nat, NEW b, NEW o \in Claim(f, b)
  PROVE  Fresh(o)
<1>1. b \in f.busy /\ f.busy \in SUBSET Bots /\ f.tickets \in 0..MaxTickets
  BY DEF Claim, Flow
<1>2. CASE TicketsLeft(f)
  <2>1. o.flow = [f EXCEPT !.tickets = @ - 1] /\ o.units = <<Work(b)>> /\ o.card = None
    BY <1>1, <1>2 DEF Claim, Outcome
  <2>2. f.tickets - 1 \in 0..MaxTickets
    BY <1>1, <1>2, BoundsAssumption DEF TicketsLeft
  <2>3. o.flow \in Flow /\ o.flow.current = f.current /\ o.flow.approved = f.approved
    BY <2>1, <2>2, TicketsChange
  <2>4. Work(b) \in [bot : Performers, by : {clock + 1}]
    BY <1>1 DEF Work, Performers
  <2>5. <<Work(b)>> \in Seq([bot : Performers, by : {clock + 1}])
    BY <2>4
  <2> QED
    BY <2>1, <2>3, <2>5 DEF Fresh, Approved
<1>3. CASE ~TicketsLeft(f) /\ f.busy # {b}
  <2>0. o = Outcome([f EXCEPT !.busy = @ \ {b}], <<>>)
    BY <1>1, <1>3 DEF Claim
  <2>1. o.flow = [f EXCEPT !.busy = f.busy \ {b}] /\ o.units = <<>> /\ o.card = None
    BY <2>0 DEF Outcome
  <2>2. f.busy \ {b} \in SUBSET Bots
    BY <1>1
  <2>3. o.flow \in Flow /\ o.flow.current = f.current /\ o.flow.approved = f.approved
    BY <2>1, <2>2, BusyChange
  <2> QED
    BY <2>1, <2>3 DEF Fresh, Approved
<1>4. CASE ~TicketsLeft(f) /\ f.busy = {b}
  <2> DEFINE g == [f EXCEPT !.busy = {}]
  <2>1. o \in Advance(g)
    BY <1>1, <1>4 DEF Claim
  <2>2. g \in Flow /\ g.current = f.current /\ g.approved = f.approved
    BY DEF Flow
  <2>3. \A r \in Gated : r < g.current + 1 => r \in g.approved
    BY <2>2, PoolAssumption, GatedAssumption DEF Approved, Stages
  <2> QED
    BY <2>1, <2>2, <2>3, AdvanceFresh
<1> QED
  BY <1>2, <1>3, <1>4

\* Signals of a bot, or its text.
LEMMA DoneFresh ==
  ASSUME NEW f \in Flow, Approved(f), f.current \in Stages, clock \in Nat, clock < MaxSteps,
         NEW b, NEW o \in Done(f, b)
  PROVE  Fresh(o)
<1>1. CASE f.current = Pool
  BY <1>1, ClaimFresh DEF Done
<1>2. CASE f.current # Pool /\ f.current \in Gated
  BY <1>2, RaiseGateFresh DEF Done
<1>3. CASE f.current # Pool /\ f.current \notin Gated
  <2>1. o \in Advance(f)
    BY <1>3 DEF Done
  <2>2. \A r \in Gated : r < f.current + 1 => r \in f.approved
    BY <1>3, GatedAssumption DEF Approved, Stages
  <2> QED
    BY <2>1, <2>2, AdvanceFresh
<1> QED
  BY <1>1, <1>2, <1>3

LEMMA ObservedFresh ==
  ASSUME NEW f \in Flow, Approved(f), f.current \in Stages, clock \in Nat, clock < MaxSteps,
         NEW b, NEW o \in Observed(f, b) \cup ObservedText(f, b)
  PROVE  Fresh(o)
<1>1. o \in Done(f, b) \/ \E s \in Stages \cup {None} : o \in RaiseGate(f, s)
  BY DEF Observed, ObservedText
<1> QED
  BY <1>1, DoneFresh, RaiseGateFresh

LEMMA ApproveType ==
  ASSUME NEW f \in Flow, NEW s \in Nat
  PROVE  /\ Approve(f, s) \in Flow
         /\ Approve(f, s).current = f.current
         /\ Approved(f) => \A r \in Gated : r < s => r \in Approve(f, s).approved
<1> DEFINE A == {r \in Stages : (r \in f.approved /\ r < s) \/ (f.current <= r /\ r < s)}
<1>1. Approve(f, s) = [f EXCEPT !.approved = A]
  BY DEF Approve
<1>2. A \in SUBSET Stages
  OBVIOUS
<1>3. /\ [f EXCEPT !.approved = A] \in Flow
      /\ [f EXCEPT !.approved = A].current = f.current
      /\ [f EXCEPT !.approved = A].approved = A
  <2> HIDE DEF A
  <2> QED
    BY <1>2 DEF Flow
<1>4. ASSUME Approved(f), NEW r \in Gated, r < s PROVE r \in A
  <2>1. r \in Stages /\ r \in Int /\ f.current \in Int
    BY GatedAssumption, StagesAssumption DEF Stages, Flow
  <2>2. r < f.current => r \in f.approved
    BY <1>4 DEF Approved
  <2> QED
    BY <1>4, <2>1, <2>2
<1> QED
  BY <1>1, <1>3, <1>4

LEMMA ConfirmedFresh ==
  ASSUME NEW f \in Flow, Approved(f), f.gate # None, f.current \in Stages, clock \in Nat,
         NEW revise \in BOOLEAN, NEW o \in Confirmed(f, revise)
  PROVE  Fresh(o)
<1>1. f.gate.to \in Stages \cup {None}
  BY DEF Flow, Gate
<1>2. CASE f.gate.to # None
  <2>1. f.gate.to \in Stages /\ f.gate.to \in Nat
    BY <1>1, <1>2, StagesAssumption DEF Stages
  <2>2. o \in Enter(Approve(f, f.gate.to), f.gate.to)
    BY <1>2 DEF Confirmed
  <2> QED
    BY <2>1, <2>2, ApproveType, EnterFresh
<1>3. CASE f.gate.to = None /\ revise
  BY <1>3, EnterFresh DEF Confirmed, Approved
<1>4. CASE f.gate.to = None /\ ~revise
  <2>1. f.current + 1 \in Nat
    BY StagesAssumption DEF Stages
  <2>2. o \in Advance(Approve(f, f.current + 1))
    BY <1>4 DEF Confirmed
  <2> QED
    BY <2>1, <2>2, ApproveType, AdvanceFresh
<1> QED
  BY <1>2, <1>3, <1>4

-----------------------------------------------------------------------------
(* Steps and writes                                                        *)

Keeps(f) == f = None \/ Sound(f)

\* The gates behind every workflow in memory, in the database, and on its way.
GateInv ==
  /\ Keeps(mem)
  /\ Keeps(row)
  /\ \A t \in Tasks : step[t] # None => Keeps(step[t].flow)

Inv == TypeOK /\ GateInv

\* Everyone at the write lock waits once, with something to write.
WaitInv ==
  /\ \A i \in 1..Len(writers) :
       step[writers[i]] # None /\ step[writers[i]].write # "none"
  /\ \A i, j \in 1..Len(writers) : writers[i] = writers[j] => i = j

LEMMA KeepsType == ASSUME NEW f, Keeps(f) PROVE f \in Flow \cup {None}
BY DEF Keeps, Sound

LEMMA QueuedType == ASSUME TypeOK, NEW t \in Tasks PROVE Queued(t) \in Seq(Tasks)
BY AppendProperties DEF TypeOK, Queued

LEMMA UnqueuedType == ASSUME TypeOK, NEW t \in Tasks PROVE Unqueued(t) \in Seq(Tasks)
<1>1. writers \in Seq(Tasks)
  BY DEF TypeOK
<1>2. CASE \E i \in DOMAIN writers : writers[i] = t
  <2> DEFINE i == CHOOSE j \in DOMAIN writers : writers[j] = t
  <2>1. i \in 1..Len(writers) /\ Len(writers) \in Nat
    BY <1>1, <1>2
  <2>2. SubSeq(writers, 1, i - 1) \in Seq(Tasks) /\ SubSeq(writers, i + 1, Len(writers)) \in Seq(Tasks)
    <3> HIDE DEF i
    <3>1. i - 1 \in 0..Len(writers) /\ i + 1 \in 1..Len(writers) + 1
      BY <2>1
    <3>2. 1 \in 1..Len(writers) + 1 /\ Len(writers) \in (i + 1) - 1 .. Len(writers)
      BY <2>1
    <3> QED
      BY <1>1, <3>1, <3>2, SubSeqProperties
  <2>3. RemoveAt(writers, i) \in Seq(Tasks)
    BY <2>2, ConcatProperties DEF RemoveAt
  <2> QED
    BY <1>2, <2>3 DEF Unqueued
<1>3. CASE ~ \E i \in DOMAIN writers : writers[i] = t
  BY <1>1, <1>3 DEF Unqueued
<1> QED
  BY <1>2, <1>3

LEMMA SubmitType ==
  ASSUME NEW f \in Flow \cup {None}, NEW us \in Seq(Unit), NEW c \in Card \cup {None},
         NEW n \in Clock
  PROVE  /\ Submit(f, us, c, n) \in Step
         /\ Submit(f, us, c, n).flow = f
BY DEF Submit, Step

LEMMA FollowType ==
  ASSUME NEW s \in Step \cup {None}, NEW f, Sound(f), s # None => Keeps(s.flow)
  PROVE  /\ Follow(s, f) \in Step \cup {None}
         /\ Follow(s, f) # None => Keeps(Follow(s, f).flow)
<1>1. CASE Follow(s, f) = s
  BY <1>1
<1>2. CASE s # None /\ Follow(s, f) = [s EXCEPT !.flow = f]
  <2>1. s \in Step /\ f \in Flow
    BY <1>2 DEF Sound
  <2>2. [s EXCEPT !.flow = f] \in Step /\ [s EXCEPT !.flow = f].flow = f
    BY <2>1 DEF Step
  <2> QED
    BY <1>2, <2>2 DEF Keeps
<1> QED
  BY <1>1, <1>2 DEF Follow

LEMMA FreshUnits ==
  ASSUME NEW o, Fresh(o), clock + 1 \in Clock
  PROVE  o.units \in Seq(Unit) /\ o.card \in Card \cup {None} /\ Sound(o.flow)
<1>1. [bot : Performers, by : {clock + 1}] \subseteq Unit
  BY DEF Unit, Performers
<1>2. o.units \in Seq(Unit)
  BY <1>1, SeqMonotonic DEF Fresh
<1> QED
  BY <1>2 DEF Fresh, Sound

\* What a transition leaves.
LEMMA ApplyKeeps ==
  ASSUME Inv, NEW t \in Tasks, NEW o, Fresh(o), Apply(t, o)
  PROVE  /\ clock' \in Clock
         /\ Keeps(mem')
         /\ step' \in [Tasks -> Step \cup {None}]
         /\ \A u \in Tasks : step'[u] # None => Keeps(step'[u].flow)
         /\ writers' \in Seq(Tasks)
<1> DEFINE saved == IF o.flow.current = NStages THEN None ELSE o.flow
           sub == Submit(saved, o.units, o.card, clock + 1)
<1>1. clock + 1 \in Clock
  BY BoundsAssumption DEF Apply, Inv, TypeOK, Clock
<1>2. Keeps(saved) /\ saved \in Flow \cup {None} /\ Sound(o.flow)
  BY <1>1, FreshUnits, KeepsType DEF Keeps
<1>3. sub \in Step /\ sub.flow = saved
  BY <1>1, <1>2, FreshUnits, SubmitType
<1>4. step' = [u \in Tasks |-> IF u = t THEN sub ELSE Follow(step[u], o.flow)]
  BY DEF Apply
<1>5. ASSUME NEW u \in Tasks
      PROVE  step'[u] \in Step \cup {None} /\ (step'[u] # None => Keeps(step'[u].flow))
  <2>1. CASE u = t
    <3> HIDE DEF sub, saved
    <3> QED
      BY <1>2, <1>3, <1>4, <2>1
  <2>2. CASE u # t
    <3>1. step'[u] = Follow(step[u], o.flow)
      BY <1>4, <2>2
    <3>2. step[u] \in Step \cup {None} /\ (step[u] # None => Keeps(step[u].flow))
      BY DEF Inv, TypeOK, GateInv
    <3> QED
      BY <1>2, <3>1, <3>2, FollowType
  <2> QED
    BY <2>1, <2>2
<1>6. step' \in [Tasks -> Step \cup {None}]
  <2> HIDE DEF sub
  <2> QED
    BY <1>4, <1>5
<1>7. mem' = saved /\ clock' = clock + 1 /\ writers' = Queued(t)
  BY DEF Apply
<1>8. writers' \in Seq(Tasks)
  BY <1>7, QueuedType DEF Inv
<1> QED
  BY <1>1, <1>2, <1>5, <1>6, <1>7, <1>8

LEMMA WriteKeeps ==
  ASSUME Inv, NEW t \in Tasks, NEW f, Keeps(f), NEW failed \in BOOLEAN, Write(t, f, failed)
  PROVE  /\ step' \in [Tasks -> Step \cup {None}]
         /\ \A u \in Tasks : step'[u] # None => Keeps(step'[u].flow)
         /\ writers' \in Seq(Tasks)
<1> DEFINE sub == Submit(f, <<>>, None, 0)
           s == [sub EXCEPT !.failed = failed]
<1>1. 0 \in Clock
  BY BoundsAssumption DEF Clock
<1>2. sub \in Step /\ sub.flow = f
  <2>1. f \in Flow \cup {None}
    BY KeepsType
  <2>2. <<>> \in Seq(Unit) /\ None \in Card \cup {None}
    OBVIOUS
  <2> QED
    BY <1>1, <2>1, <2>2, SubmitType
<1>3. s \in Step /\ s.flow = f
  <2> HIDE DEF sub
  <2> QED
    BY <1>2 DEF Step
<1>4. step' = [step EXCEPT ![t] = s] /\ writers' = Queued(t)
  BY DEF Write
<1>5. step \in [Tasks -> Step \cup {None}] /\ \A u \in Tasks : step[u] # None => Keeps(step[u].flow)
  BY DEF Inv, TypeOK, GateInv
<1> HIDE DEF s
<1>6. /\ step' \in [Tasks -> Step \cup {None}]
      /\ \A u \in Tasks : step'[u] # None => Keeps(step'[u].flow)
  BY <1>3, <1>4, <1>5
<1> QED
  BY <1>4, <1>6, QueuedType DEF Inv

LEMMA CommittedKeeps ==
  ASSUME Inv, NEW s \in Step, Keeps(s.flow), Committed(s)
  PROVE  Keeps(row') /\ durable' \in Clock /\ adrift' \in BOOLEAN
<1>0. durable \in Clock
  BY DEF Inv, TypeOK
<1>1. s.by \in Clock
  BY DEF Step
<1>2. Keeps(row')
  BY DEF Committed
<1>3. durable' \in Clock
  BY <1>1 DEF Committed, Inv, TypeOK
<1>4. adrift' \in BOOLEAN
  BY DEF Committed
<1> QED
  BY <1>2, <1>3, <1>4

LEMMA CancelKeeps ==
  ASSUME Inv, Cancel
  PROVE  /\ queue' \in Seq(Unit) /\ run' = None /\ sessions' \subseteq Unit
         /\ step' \in [Tasks -> Step \cup {None}]
         /\ \A u \in Tasks : step'[u] # None => Keeps(step'[u].flow)
         /\ writers' \in Seq(Tasks)
         /\ Keeps(row') /\ durable' \in Clock /\ adrift' \in BOOLEAN
<1>1. queue' = <<>> /\ run' = None /\ sessions' \subseteq Unit
  BY DEF Cancel, Inv, TypeOK
<1>2. step \in [Tasks -> Step \cup {None}] /\ \A u \in Tasks : step[u] # None => Keeps(step[u].flow)
  BY DEF Inv, TypeOK, GateInv
<1>3. step' = [step EXCEPT !["run"] = None]
  BY DEF Cancel
<1>4. /\ step' \in [Tasks -> Step \cup {None}]
      /\ \A u \in Tasks : step'[u] # None => Keeps(step'[u].flow)
  BY <1>2, <1>3
<1>5. "run" \in Tasks
  BY DEF Tasks
<1>6. writers' \in Seq(Tasks)
  BY <1>5, UnqueuedType DEF Cancel, Inv
<1>7. Keeps(row') /\ durable' \in Clock /\ adrift' \in BOOLEAN
  <2> DEFINE s == step["run"]
             writing == s # None /\ s.write # "none"
  <2>1. CASE row' = row /\ durable' = durable /\ adrift' = (adrift \/ writing)
    BY <2>1 DEF Inv, TypeOK, GateInv
  <2>2. CASE writing /\ Committed(s)
    <3>1. s \in Step /\ Keeps(s.flow)
      BY <1>2, <1>5, <2>2
    <3> QED
      BY <2>2, <3>1, CommittedKeeps
  <2> QED
    BY <2>1, <2>2 DEF Cancel
<1> QED
  BY <1>1, <1>4, <1>6, <1>7

-----------------------------------------------------------------------------
(* Frames                                                                  *)

LEMMA MovedKeeps == ASSUME Inv, NEW o, Fresh(o), Moved(o) PROVE Inv'
<1>1. "frame" \in Tasks
  BY DEF Tasks
<1>2. /\ clock' \in Clock
      /\ Keeps(mem')
      /\ step' \in [Tasks -> Step \cup {None}]
      /\ \A u \in Tasks : step'[u] # None => Keeps(step'[u].flow)
      /\ writers' \in Seq(Tasks)
  BY <1>1, ApplyKeeps DEF Moved
<1>3. mem' \in Flow \cup {None}
  BY <1>2, KeepsType
<1>4. UNCHANGED <<row, queue, run, recovered, cards, sessions, serving, messages, durable,
                  adrift, left>>
  BY DEF Moved, history
<1> QED
  BY <1>2, <1>3, <1>4 DEF Inv, TypeOK, GateInv

\* What a human decides makes a sound transition.
LEMMA StartMoves == Inv /\ Start => \E o : Fresh(o) /\ Moved(o)
<1> SUFFICES ASSUME Inv, Start PROVE \E o : Fresh(o) /\ Moved(o)
  OBVIOUS
<1> DEFINE f == [id |-> clock + 1, current |-> 0, gate |-> None, busy |-> {}, tickets |-> 0,
                 approved |-> {}]
           o == Outcome(f, <<>>)
<1>1. Moved(o)
  BY DEF Start
<1>2. clock + 1 \in Clock
  BY <1>1, BoundsAssumption DEF Moved, Apply, Clock, Inv, TypeOK
<1>3. 0 \in 0..NStages /\ 0 \in 0..MaxTickets
  BY StagesAssumption, BoundsAssumption
<1>4. f \in Flow
  BY <1>2, <1>3 DEF Flow
<1>5. \A s \in Gated : ~(s < 0)
  BY GatedAssumption DEF Stages
<1>6. f.gate = None /\ Approved(f)
  BY <1>5 DEF Approved
<1>7. o.flow = f /\ o.units = <<>> /\ o.card = None
  BY DEF Outcome
<1>8. Fresh(o)
  <2> HIDE DEF f, o
  <2>1. <<>> \in Seq([bot : Performers, by : {clock + 1}])
    OBVIOUS
  <2> QED
    BY <1>4, <1>6, <1>7, <2>1 DEF Fresh
<1> HIDE DEF o
<1> QED
  BY <1>1, <1>8

LEMMA NextStageMoves == Inv /\ NextStage => \E o : Fresh(o) /\ Moved(o)
<1> SUFFICES ASSUME Inv, NextStage PROVE \E o : Fresh(o) /\ Moved(o)
  OBVIOUS
<1>1. PICK o \in Advance(Approve(mem, mem.current + 1)) : Moved(o)
  BY DEF NextStage
<1>2. mem \in Flow /\ Approved(mem) /\ clock \in Nat
  BY BoundsAssumption DEF NextStage, Inv, GateInv, Keeps, Sound, TypeOK, Clock
<1>3. mem.current + 1 \in Nat
  BY <1>2, StagesAssumption DEF Flow
<1>4. Fresh(o)
  BY <1>2, <1>3, ApproveType, AdvanceFresh
<1> QED
  BY <1>1, <1>4

LEMMA ConfirmMoves ==
  ASSUME Inv, NEW revise \in BOOLEAN, Confirm(revise)
  PROVE  \E o : Fresh(o) /\ Moved(o)
<1>1. PICK o \in Confirmed(mem, revise) : Moved(o)
  BY DEF Confirm
<1>2. /\ mem \in Flow /\ Approved(mem) /\ clock \in Nat
      /\ mem.gate # None /\ mem.current \in Stages
  BY BoundsAssumption DEF Confirm, Inv, GateInv, Keeps, Sound, TypeOK, Clock
<1>3. Fresh(o)
  BY <1>2, ConfirmedFresh
<1> QED
  BY <1>1, <1>3

LEMMA EndKeeps == Inv /\ End => Inv'
<1> SUFFICES ASSUME Inv, End PROVE Inv'
  OBVIOUS
<1>1. "frame" \in Tasks /\ Keeps(None)
  BY DEF Tasks, Keeps
<1>2. /\ step' \in [Tasks -> Step \cup {None}]
      /\ \A u \in Tasks : step'[u] # None => Keeps(step'[u].flow)
      /\ writers' \in Seq(Tasks)
  BY <1>1, WriteKeeps DEF End
<1>3. mem' = None /\ clock' = clock
  BY DEF End, Write
<1>4. UNCHANGED <<row, queue, run, recovered, cards, sessions, serving, messages, durable,
                  adrift, left>>
  BY DEF End, history
<1> QED
  BY <1>1, <1>2, <1>3, <1>4 DEF Inv, TypeOK, GateInv

LEMMA ParticipantsType ==
  ASSUME NEW f \in Flow, f.current \in Stages
  PROVE  IsFiniteSet(Participants(f)) /\ Participants(f) \subseteq Performers
<1>1. CASE f.current # Pool
  BY <1>1, FS_Singleton DEF Participants, Performers
<1>2. CASE f.current = Pool
  <2>1. Participants(f) \in SUBSET Bots
    BY <1>2 DEF Participants, Flow
  <2> QED
    BY <2>1, BotsAssumption, FS_Subset DEF Performers
<1> QED
  BY <1>1, <1>2

LEMMA MessageKeeps == Inv /\ Message => Inv'
<1> SUFFICES ASSUME Inv, Message PROVE Inv'
  OBVIOUS
<1> DEFINE us == SetToSeq({[bot |-> b, by |-> 0] : b \in Participants(mem)})
<1>1. mem \in Flow /\ mem.current \in Stages
  <2>1. mem \in Flow /\ mem.current \in 0..NStages /\ mem.current < NStages
    BY DEF Message, Staged, Inv, TypeOK, Flow
  <2> QED
    BY <2>1, StagesAssumption DEF Stages
<1>2. us \in Seq([bot : Performers, by : {0}])
  BY <1>1, ParticipantsType, UnitsOfType DEF UnitsOf
<1>3. [bot : Performers, by : {0}] \subseteq Unit
  <2>1. 0 \in Clock
    BY BoundsAssumption DEF Clock
  <2> QED
    BY <2>1 DEF Unit, Performers
<1>4. us \in Seq(Unit)
  BY <1>2, <1>3, SeqMonotonic
<1>5. queue' = queue \o us
  BY DEF Message
<1>6. queue' \in Seq(Unit)
  <2> HIDE DEF us
  <2> QED
    BY <1>4, <1>5, ConcatProperties DEF Inv, TypeOK
<1>7. messages' \in 0..MaxMessages
  BY BoundsAssumption DEF Message, Inv, TypeOK
<1>8. UNCHANGED <<mem, row, run, recovered, step, writers, cards, sessions, serving, clock,
                  durable, adrift, left>>
  BY DEF Message, history
<1> QED
  BY <1>6, <1>7, <1>8 DEF Inv, TypeOK, GateInv

-----------------------------------------------------------------------------
(* Units, commits and effects                                              *)

LEMMA BeginKeeps == Inv /\ Begin => Inv'
<1> SUFFICES ASSUME Inv, Begin PROVE Inv'
  OBVIOUS
<1>1. queue \in Seq(Unit) /\ queue # <<>>
  BY DEF Begin, Inv, TypeOK
<1>2. Head(queue) \in Unit /\ Tail(queue) \in Seq(Unit)
  BY <1>1, HeadTailProperties
<1>3. run' \in Unit \cup {None} /\ sessions' \subseteq Unit /\ queue' \in Seq(Unit)
  BY <1>2 DEF Begin, Inv, TypeOK
<1>4. UNCHANGED <<mem, row, recovered, step, writers, cards, serving, messages, clock,
                  durable, adrift, left>>
  BY DEF Begin, history
<1> QED
  BY <1>3, <1>4 DEF Inv, TypeOK, GateInv

LEMMA StagedType ==
  ASSUME Inv, Staged(mem)
  PROVE  mem \in Flow /\ Approved(mem) /\ mem.current \in Stages /\ clock \in Nat
<1>1. mem \in Flow /\ Approved(mem) /\ clock \in Nat
  BY BoundsAssumption DEF Staged, Inv, GateInv, Keeps, Sound, TypeOK, Clock
<1>2. mem.current \in 0..NStages /\ mem.current < NStages
  BY <1>1 DEF Staged, Flow
<1> QED
  BY <1>1, <1>2, StagesAssumption DEF Stages

LEMMA ObserveKeeps == Inv /\ Observe => Inv'
<1> SUFFICES ASSUME Inv, Observe PROVE Inv'
  OBVIOUS
<1>1. PICK o \in Observed(mem, run.bot) : Apply("run", o)
  BY DEF Observe
<1>2. Fresh(o)
  <2>1. clock < MaxSteps
    BY <1>1 DEF Apply
  <2> QED
    BY <1>1, <2>1, StagedType, ObservedFresh DEF Observe
<1>3. "run" \in Tasks
  BY DEF Tasks
<1>4. /\ clock' \in Clock
      /\ Keeps(mem')
      /\ step' \in [Tasks -> Step \cup {None}]
      /\ \A u \in Tasks : step'[u] # None => Keeps(step'[u].flow)
      /\ writers' \in Seq(Tasks)
  BY <1>1, <1>2, <1>3, ApplyKeeps
<1>5. mem' \in Flow \cup {None}
  BY <1>4, KeepsType
<1>6. sessions' \subseteq Unit
      /\ UNCHANGED <<row, queue, run, recovered, cards, serving, messages, durable, adrift, left>>
  BY DEF Observe, history, Inv, TypeOK
<1> QED
  BY <1>4, <1>5, <1>6 DEF Inv, TypeOK, GateInv

LEMMA PauseKeeps == Inv /\ (Pause \/ Fail) => Inv'
<1> SUFFICES ASSUME Inv, Pause \/ Fail PROVE Inv'
  OBVIOUS
<1>1. "run" \in Tasks /\ Keeps(None) /\ Keeps(mem)
  BY DEF Tasks, Keeps, Inv, GateInv
<1>2. /\ step' \in [Tasks -> Step \cup {None}]
      /\ \A u \in Tasks : step'[u] # None => Keeps(step'[u].flow)
      /\ writers' \in Seq(Tasks)
      /\ clock' = clock
  <2>1. CASE Pause
    <3>1. Write("run", mem, FALSE)
      BY <2>1 DEF Pause
    <3> QED
      BY <1>1, <3>1, WriteKeeps DEF Write
  <2>2. CASE Fail
    <3>1. Write("run", None, TRUE)
      BY <2>2 DEF Fail
    <3> QED
      BY <1>1, <3>1, WriteKeeps DEF Write
  <2> QED
    BY <2>1, <2>2
<1>3. sessions' \subseteq Unit
      /\ UNCHANGED <<mem, row, queue, run, recovered, cards, serving, messages, durable,
                     adrift, left>>
  BY DEF Pause, Fail, history, Inv, TypeOK
<1> QED
  BY <1>2, <1>3 DEF Inv, TypeOK, GateInv

LEMMA QuitKeeps == Inv /\ Quit => Inv'
<1>1. ASSUME Inv, Quit PROVE Inv'
  BY <1>1 DEF Quit, LockFree, history, Inv, TypeOK, GateInv
<1> QED
  BY <1>1

LEMMA CommitKeeps == Inv /\ WaitInv /\ Commit => Inv'
<1> SUFFICES ASSUME Inv, WaitInv, Commit PROVE Inv'
  OBVIOUS
<1> DEFINE t == Head(writers)
<1>1. writers \in Seq(Tasks) /\ writers # <<>>
  BY DEF Commit, Inv, TypeOK
<1>2. t \in Tasks /\ Tail(writers) \in Seq(Tasks) /\ t = writers[1] /\ 1 \in 1..Len(writers)
  BY <1>1, HeadTailProperties
<1>3. step \in [Tasks -> Step \cup {None}] /\ \A u \in Tasks : step[u] # None => Keeps(step[u].flow)
  BY DEF Inv, TypeOK, GateInv
<1>4. Committed(step[t]) /\ step' = [step EXCEPT ![t].write = "none"] /\ writers' = Tail(writers)
  BY DEF Commit
<1>5. UNCHANGED <<mem, queue, run, recovered, cards, sessions, serving, messages, clock, left>>
  BY DEF Commit
<1> HIDE DEF t
<1>6. step[t] \in Step /\ Keeps(step[t].flow)
  BY <1>2, <1>3 DEF WaitInv
<1>7. Keeps(row') /\ durable' \in Clock /\ adrift' \in BOOLEAN
  BY <1>4, <1>6, CommittedKeeps
<1>8. row' \in Flow \cup {None}
  BY <1>7, KeepsType
<1>9. /\ [step[t] EXCEPT !.write = "none"] \in Step
      /\ [step[t] EXCEPT !.write = "none"].flow = step[t].flow
  BY <1>6 DEF Step
<1>10. step' = [step EXCEPT ![t] = [step[t] EXCEPT !.write = "none"]]
  BY <1>4
<1>11. /\ step' \in [Tasks -> Step \cup {None}]
       /\ \A u \in Tasks : step'[u] # None => Keeps(step'[u].flow)
  BY <1>3, <1>6, <1>9, <1>10
<1> QED
  BY <1>2, <1>4, <1>5, <1>7, <1>8, <1>11 DEF Inv, TypeOK, GateInv

LEMMA DeliverKeeps == ASSUME Inv, NEW t \in Tasks, Deliver(t) PROVE Inv'
<1>1. step \in [Tasks -> Step \cup {None}] /\ \A u \in Tasks : step[u] # None => Keeps(step[u].flow)
  BY DEF Inv, TypeOK, GateInv
<1>2. step[t] \in Step
  BY <1>1 DEF Deliver, Ready
<1>3. step[t].units \in Seq(Unit) /\ step[t].card \in Card \cup {None}
  BY <1>2 DEF Step
<1>4. cards' \subseteq Card
  BY <1>3 DEF Deliver, Inv, TypeOK
<1>5. queue' \in Seq(Unit)
  BY <1>3, ConcatProperties DEF Deliver, Inv, TypeOK
<1>6. step' = [step EXCEPT ![t] = None]
  BY DEF Deliver
<1>7. /\ step' \in [Tasks -> Step \cup {None}]
      /\ \A u \in Tasks : step'[u] # None => Keeps(step'[u].flow)
  BY <1>1, <1>6
<1>8. run' \in Unit \cup {None}
  BY DEF Deliver, Inv, TypeOK
<1>9. UNCHANGED <<mem, row, recovered, writers, sessions, serving, messages, clock, durable,
                  adrift, left>>
  BY DEF Deliver, history
<1> QED
  BY <1>4, <1>5, <1>7, <1>8, <1>9 DEF Inv, TypeOK, GateInv

-----------------------------------------------------------------------------
(* Aborts, releases, crashes and recoveries                                *)

LEMMA AbortKeeps == Inv /\ Abort => Inv'
<1> SUFFICES ASSUME Inv, Abort PROVE Inv'
  OBVIOUS
<1>1. Cancel /\ UNCHANGED <<mem, recovered, cards, serving, messages, clock, left>>
  BY DEF Abort
<1>2. row' \in Flow \cup {None}
  BY <1>1, CancelKeeps, KeepsType
<1> QED
  BY <1>1, <1>2, CancelKeeps DEF Inv, TypeOK, GateInv

LEMMA ReleaseKeeps == Inv /\ Release => Inv'
<1> SUFFICES ASSUME Inv, Release PROVE Inv'
  OBVIOUS
<1>1. /\ Cancel /\ serving' = FALSE /\ left' = mem
      /\ UNCHANGED <<mem, recovered, cards, messages, clock>>
  BY DEF Release
<1>2. row' \in Flow \cup {None}
  BY <1>1, CancelKeeps, KeepsType
<1> QED
  BY <1>1, <1>2, CancelKeeps DEF Inv, TypeOK, GateInv

LEMMA CrashKeeps == Inv /\ Crash => Inv'
<1> SUFFICES ASSUME Inv, Crash PROVE Inv'
  OBVIOUS
<1>1. /\ mem' = None /\ queue' = <<>> /\ run' = None /\ recovered' = {}
      /\ step' = [t \in Tasks |-> None] /\ writers' = <<>>
      /\ serving' = FALSE /\ left' = None
      /\ UNCHANGED <<row, cards, sessions, messages, clock, durable, adrift>>
  BY DEF Crash
<1>2. <<>> \in Seq(Unit) /\ <<>> \in Seq(Tasks)
  OBVIOUS
<1>3. /\ step' \in [Tasks -> Step \cup {None}]
      /\ \A u \in Tasks : step'[u] # None => Keeps(step'[u].flow)
  BY <1>1
<1>4. Keeps(mem')
  BY <1>1 DEF Keeps
<1> QED
  BY <1>1, <1>2, <1>3, <1>4 DEF Inv, TypeOK, GateInv

LEMMA HydrateKeeps == Inv /\ Hydrate => Inv'
<1> SUFFICES ASSUME Inv, Hydrate PROVE Inv'
  OBVIOUS
<1>1. /\ serving' = TRUE /\ sessions' = {} /\ left' = None
      /\ mem' = row \/ mem' = mem
      /\ recovered' \subseteq sessions
      /\ UNCHANGED <<row, queue, run, step, writers, cards, messages, clock, durable>>
  BY DEF Hydrate
<1>2. adrift' \in BOOLEAN
  BY DEF Hydrate
<1> QED
  BY <1>1, <1>2 DEF Inv, TypeOK, GateInv

LEMMA ResumedKeeps == ASSUME Inv, NEW u \in recovered, Resumed(u) PROVE Inv'
<1>1. sessions' \subseteq Unit
  BY DEF Resumed, Inv, TypeOK
<1>2. UNCHANGED <<mem, row, queue, run, recovered, step, writers, cards, serving, messages,
                  clock, durable, adrift, left>>
  BY DEF Resumed, tasks, history
<1> QED
  BY <1>1, <1>2 DEF Inv, TypeOK, GateInv

LEMMA ObserveRecoveredKeeps ==
  ASSUME Inv, NEW u \in recovered, ObserveRecovered(u) PROVE Inv'
<1>1. PICK o \in ObservedText(mem, u.bot) : Apply("recovery", o)
  BY DEF ObserveRecovered
<1>2. Fresh(o)
  <2>1. clock < MaxSteps
    BY <1>1 DEF Apply
  <2> QED
    BY <1>1, <2>1, StagedType, ObservedFresh DEF ObserveRecovered
<1>3. "recovery" \in Tasks
  BY DEF Tasks
<1>4. /\ clock' \in Clock
      /\ Keeps(mem')
      /\ step' \in [Tasks -> Step \cup {None}]
      /\ \A v \in Tasks : step'[v] # None => Keeps(step'[v].flow)
      /\ writers' \in Seq(Tasks)
  BY <1>1, <1>2, <1>3, ApplyKeeps
<1>5. mem' \in Flow \cup {None}
  BY <1>4, KeepsType
<1>6. recovered' \subseteq Unit /\ sessions' \subseteq Unit
  BY DEF ObserveRecovered, Inv, TypeOK
<1>7. UNCHANGED <<row, queue, run, cards, serving, messages, durable, adrift, left>>
  BY DEF ObserveRecovered, history
<1> QED
  BY <1>4, <1>5, <1>6, <1>7 DEF Inv, TypeOK, GateInv

LEMMA QuitRecoveredKeeps == ASSUME Inv, NEW u \in recovered, QuitRecovered(u) PROVE Inv'
<1>1. recovered' \subseteq Unit /\ sessions' \subseteq Unit
  BY DEF QuitRecovered, Inv, TypeOK
<1>2. UNCHANGED <<mem, row, queue, run, step, writers, cards, serving, messages, clock,
                  durable, adrift, left>>
  BY DEF QuitRecovered, history
<1> QED
  BY <1>1, <1>2 DEF Inv, TypeOK, GateInv

-----------------------------------------------------------------------------
(* The queue at the write lock                                             *)

\* Task t, which has no step, comes to the lock.
LEMMA ComesToWait ==
  ASSUME Inv, WaitInv, NEW t \in Tasks, step[t] = None,
         writers' = Queued(t),
         step'[t] # None, step'[t].write # "none",
         \A u \in Tasks \ {t} :
           step[u] # None => step'[u] # None /\ step'[u].write = step[u].write
  PROVE  WaitInv'
<1>1. writers \in Seq(Tasks)
  BY DEF Inv, TypeOK
<1>2. /\ Len(writers') = Len(writers) + 1 /\ Len(writers) \in Nat
      /\ \A i \in 1..Len(writers) : writers'[i] = writers[i]
      /\ writers'[Len(writers) + 1] = t
  BY <1>1, AppendProperties DEF Queued
<1>3. \A i \in 1..Len(writers) : writers[i] \in Tasks /\ writers[i] # t
  BY <1>1, ElementOfSeq DEF WaitInv
<1>4. ASSUME NEW i \in 1..Len(writers')
      PROVE  step'[writers'[i]] # None /\ step'[writers'[i]].write # "none"
  <2>1. CASE i = Len(writers) + 1
    BY <1>2, <2>1
  <2>2. CASE i \in 1..Len(writers)
    <3>1. writers'[i] \in Tasks \ {t} /\ writers'[i] = writers[i]
      BY <1>2, <1>3, <2>2
    <3>2. step[writers[i]] # None /\ step[writers[i]].write # "none"
      BY <2>2 DEF WaitInv
    <3> QED
      BY <3>1, <3>2
  <2> QED
    BY <1>2, <2>1, <2>2
<1>5. ASSUME NEW i \in 1..Len(writers'), NEW j \in 1..Len(writers'), writers'[i] = writers'[j]
      PROVE  i = j
  <2>1. CASE i \in 1..Len(writers) /\ j \in 1..Len(writers)
    BY <1>2, <1>5, <2>1 DEF WaitInv
  <2>2. CASE i = Len(writers) + 1 \/ j = Len(writers) + 1
    BY <1>2, <1>3, <1>5, <2>2
  <2> QED
    BY <1>2, <2>1, <2>2
<1> QED
  BY <1>4, <1>5 DEF WaitInv

LEMMA FollowWrite ==
  ASSUME NEW s \in Step, NEW f \in Flow
  PROVE  Follow(s, f) # None /\ Follow(s, f).write = s.write
<1>1. Follow(s, f) \in {s, [s EXCEPT !.flow = f]}
  BY DEF Follow
<1>2. [s EXCEPT !.flow = f] \in Step /\ [s EXCEPT !.flow = f].write = s.write
  BY DEF Step
<1> QED
  BY <1>1, <1>2, NoneAssumption

LEMMA ApplyWaits ==
  ASSUME Inv, WaitInv, NEW t \in Tasks, step[t] = None, NEW o, Fresh(o), Apply(t, o)
  PROVE  WaitInv'
<1> DEFINE saved == IF o.flow.current = NStages THEN None ELSE o.flow
           sub == Submit(saved, o.units, o.card, clock + 1)
<1>1. clock + 1 \in Clock
  BY BoundsAssumption DEF Apply, Inv, TypeOK, Clock
<1>2. sub \in Step
  <2>1. saved \in Flow \cup {None}
    BY DEF Fresh
  <2> QED
    BY <1>1, <2>1, FreshUnits, SubmitType
<1>3. sub.write # "none"
  BY DEF Submit
<1>4. step' = [u \in Tasks |-> IF u = t THEN sub ELSE Follow(step[u], o.flow)]
  BY DEF Apply
<1>5. step'[t] # None /\ step'[t].write # "none"
  <2> HIDE DEF sub
  <2> QED
    BY <1>2, <1>3, <1>4, NoneAssumption
<1>6. ASSUME NEW u \in Tasks \ {t}, step[u] # None
      PROVE  step'[u] # None /\ step'[u].write = step[u].write
  <2>1. step[u] \in Step /\ o.flow \in Flow
    BY <1>6 DEF Inv, TypeOK, Fresh
  <2>2. step'[u] = Follow(step[u], o.flow)
    BY <1>4
  <2> QED
    BY <2>1, <2>2, FollowWrite
<1> QED
  BY <1>5, <1>6, ComesToWait DEF Apply

LEMMA WriteWaits ==
  ASSUME Inv, WaitInv, NEW t \in Tasks, step[t] = None, NEW f, Keeps(f),
         NEW failed \in BOOLEAN, Write(t, f, failed)
  PROVE  WaitInv'
<1> DEFINE sub == Submit(f, <<>>, None, 0)
           s == [sub EXCEPT !.failed = failed]
<1>1. sub \in Step
  <2>1. 0 \in Clock
    BY BoundsAssumption DEF Clock
  <2>2. f \in Flow \cup {None}
    BY KeepsType
  <2>3. <<>> \in Seq(Unit) /\ None \in Card \cup {None}
    OBVIOUS
  <2> QED
    BY <2>1, <2>2, <2>3, SubmitType
<1>2. sub.write # "none"
  BY DEF Submit
<1>3. s \in Step /\ s.write = sub.write
  <2> HIDE DEF sub
  <2> QED
    BY <1>1 DEF Step
<1>4. step' = [step EXCEPT ![t] = s] /\ writers' = Queued(t)
  BY DEF Write
<1>5. step \in [Tasks -> Step \cup {None}]
  BY DEF Inv, TypeOK
<1>6. s # None /\ s.write # "none"
  BY <1>2, <1>3, NoneAssumption
<1> HIDE DEF s
<1>7. /\ step'[t] # None /\ step'[t].write # "none"
      /\ \A u \in Tasks \ {t} : step'[u] = step[u]
  BY <1>4, <1>5, <1>6
<1> QED
  BY <1>4, <1>7, ComesToWait

LEMMA CommitWaits == Inv /\ WaitInv /\ Commit => WaitInv'
<1> SUFFICES ASSUME Inv, WaitInv, Commit PROVE WaitInv'
  OBVIOUS
<1> DEFINE t == Head(writers)
<1>1. writers \in Seq(Tasks) /\ writers # <<>> /\ step \in [Tasks -> Step \cup {None}]
  BY DEF Commit, Inv, TypeOK
<1>2. /\ t = writers[1] /\ Len(writers) \in Nat \ {0}
      /\ Len(Tail(writers)) = Len(writers) - 1
      /\ \A i \in 1..Len(Tail(writers)) : Tail(writers)[i] = writers[i + 1]
  BY <1>1, EmptySeq, HeadTailProperties
<1>3. step' = [step EXCEPT ![t].write = "none"] /\ writers' = Tail(writers)
  BY DEF Commit
<1> HIDE DEF t
<1>4. ASSUME NEW i \in 1..Len(writers')
      PROVE  /\ i + 1 \in 1..Len(writers) /\ writers'[i] = writers[i + 1]
             /\ step'[writers'[i]] = step[writers'[i]]
  <2>1. i + 1 \in 1..Len(writers) /\ 1 \in 1..Len(writers) /\ writers'[i] = writers[i + 1]
    BY <1>2, <1>3
  <2>2. writers[i + 1] # writers[1]
    BY <2>1 DEF WaitInv
  <2>3. writers[i + 1] \in Tasks
    BY <1>1, <2>1, ElementOfSeq
  <2> QED
    BY <1>1, <1>2, <1>3, <2>1, <2>2, <2>3
<1>5. ASSUME NEW i \in 1..Len(writers')
      PROVE  step'[writers'[i]] # None /\ step'[writers'[i]].write # "none"
  BY <1>4 DEF WaitInv
<1>6. ASSUME NEW i \in 1..Len(writers'), NEW j \in 1..Len(writers'), writers'[i] = writers'[j]
      PROVE  i = j
  <2>1. i + 1 = j + 1
    BY <1>4, <1>6 DEF WaitInv
  <2> QED
    BY <2>1
<1> QED
  BY <1>5, <1>6 DEF WaitInv

LEMMA DeliverWaits == ASSUME Inv, WaitInv, NEW t \in Tasks, Deliver(t) PROVE WaitInv'
<1>1. writers' = writers /\ step' = [step EXCEPT ![t] = None] /\ step[t].write = "none"
  BY DEF Deliver, Ready
<1>2. writers \in Seq(Tasks) /\ step \in [Tasks -> Step \cup {None}]
  BY DEF Inv, TypeOK
<1>3. \A i \in 1..Len(writers) : writers[i] \in Tasks /\ writers[i] # t
  BY <1>1, <1>2, ElementOfSeq DEF WaitInv
<1> QED
  BY <1>1, <1>2, <1>3 DEF WaitInv

\* What is left of the queue when the run leaves it.
LEMMA UnqueuedProperties ==
  ASSUME Inv, WaitInv, NEW t \in Tasks
  PROVE  \E at \in [1..Len(Unqueued(t)) -> 1..Len(writers)] :
           /\ \A i \in 1..Len(Unqueued(t)) :
                Unqueued(t)[i] = writers[at[i]] /\ writers[at[i]] # t
           /\ \A i, j \in 1..Len(Unqueued(t)) : at[i] = at[j] => i = j
<1>1. writers \in Seq(Tasks) /\ Len(writers) \in Nat
  BY DEF Inv, TypeOK
<1>2. CASE \E i \in DOMAIN writers : writers[i] = t
  <2> DEFINE k == CHOOSE j \in DOMAIN writers : writers[j] = t
             left1 == SubSeq(writers, 1, k - 1)
             right == SubSeq(writers, k + 1, Len(writers))
             at == [i \in 1..Len(writers) - 1 |-> IF i < k THEN i ELSE i + 1]
  <2>1. k \in 1..Len(writers) /\ writers[k] = t
    BY <1>1, <1>2
  <2> HIDE DEF k
  <2>2. /\ left1 \in Seq(Tasks) /\ Len(left1) = k - 1
        /\ \A i \in 1..k - 1 : left1[i] = writers[i]
    <3>1. \A i \in 1..k - 1 : writers[i] \in Tasks
      BY <1>1, <2>1, ElementOfSeq
    <3>2. 1 \in Int /\ k - 1 \in Int /\ k - 1 - 1 + 1 = k - 1
      BY <2>1
    <3> QED
      BY <2>1, <3>1, <3>2, SubSeqProperties
  <2>3. /\ right \in Seq(Tasks) /\ Len(right) = Len(writers) - k
        /\ \A i \in 1..Len(writers) - k : right[i] = writers[k + i]
    <3>1. \A i \in k + 1 .. Len(writers) : writers[i] \in Tasks
      BY <1>1, <2>1, ElementOfSeq
    <3>2. k + 1 \in Int /\ Len(writers) \in Int
      BY <1>1, <2>1
    <3>3. /\ right \in Seq(Tasks)
          /\ Len(right) = IF k + 1 <= Len(writers) THEN Len(writers) - (k + 1) + 1 ELSE 0
          /\ \A i \in 1 .. Len(writers) - (k + 1) + 1 : right[i] = writers[k + 1 + i - 1]
      BY <3>1, <3>2, SubSeqProperties
    <3> QED
      BY <1>1, <2>1, <3>3
  <2> HIDE DEF left1, right
  <2>4. Unqueued(t) = left1 \o right
    BY <1>2 DEF Unqueued, RemoveAt, k, left1, right
  <2>5. /\ Len(Unqueued(t)) = Len(writers) - 1
        /\ \A i \in 1..Len(writers) - 1 :
             Unqueued(t)[i] = IF i < k THEN writers[i] ELSE writers[i + 1]
    <3>1. /\ Len(Unqueued(t)) = Len(left1) + Len(right)
          /\ \A i \in 1..Len(left1) + Len(right) :
               Unqueued(t)[i] = IF i <= Len(left1) THEN left1[i] ELSE right[i - Len(left1)]
      <4>1. left1 \in Seq(Tasks) /\ right \in Seq(Tasks)
        BY <2>2, <2>3
      <4>2. /\ Len(left1 \o right) = Len(left1) + Len(right)
            /\ \A i \in 1..Len(left1) + Len(right) :
                 (left1 \o right)[i] = IF i <= Len(left1) THEN left1[i]
                                       ELSE right[i - Len(left1)]
        BY <4>1, ConcatProperties
      <4> QED
        BY <2>4, <4>2
    <3>2. Len(Unqueued(t)) = Len(writers) - 1
      BY <1>1, <2>1, <2>2, <2>3, <3>1
    <3>3. ASSUME NEW i \in 1..Len(writers) - 1, i < k PROVE Unqueued(t)[i] = writers[i]
      BY <1>1, <2>1, <2>2, <2>3, <3>1, <3>3
    <3>4. ASSUME NEW i \in 1..Len(writers) - 1, ~(i < k)
          PROVE  Unqueued(t)[i] = writers[i + 1]
      <4>1. i - (k - 1) \in 1..Len(writers) - k /\ k + (i - (k - 1)) = i + 1
        BY <1>1, <2>1, <3>4
      <4>2. Unqueued(t)[i] = right[i - (k - 1)]
        BY <1>1, <2>1, <2>2, <2>3, <3>1, <3>4
      <4> QED
        BY <2>3, <4>1, <4>2
    <3> QED
      BY <3>2, <3>3, <3>4
  <2>6. /\ at \in [1..Len(Unqueued(t)) -> 1..Len(writers)]
        /\ \A i, j \in 1..Len(Unqueued(t)) : at[i] = at[j] => i = j
    BY <1>1, <2>1, <2>5
  <2>7. ASSUME NEW i \in 1..Len(Unqueued(t))
        PROVE  Unqueued(t)[i] = writers[at[i]] /\ writers[at[i]] # t
    <3>1. at[i] \in 1..Len(writers) /\ at[i] # k /\ Unqueued(t)[i] = writers[at[i]]
      BY <1>1, <2>1, <2>5
    <3> QED
      BY <2>1, <3>1 DEF WaitInv
  <2> QED
    BY <2>6, <2>7
<1>3. CASE ~ \E i \in DOMAIN writers : writers[i] = t
  <2> DEFINE at == [i \in 1..Len(writers) |-> i]
  <2>1. Unqueued(t) = writers
    BY <1>3 DEF Unqueued
  <2>2. at \in [1..Len(Unqueued(t)) -> 1..Len(writers)]
    BY <2>1
  <2>3. \A i \in 1..Len(Unqueued(t)) : Unqueued(t)[i] = writers[at[i]] /\ writers[at[i]] # t
    BY <1>1, <1>3, <2>1
  <2> QED
    BY <2>1, <2>2, <2>3
<1> QED
  BY <1>2, <1>3

LEMMA CancelWaits == Inv /\ WaitInv /\ Cancel => WaitInv'
<1> SUFFICES ASSUME Inv, WaitInv, Cancel PROVE WaitInv'
  OBVIOUS
<1>1. "run" \in Tasks /\ step' = [step EXCEPT !["run"] = None] /\ writers' = Unqueued("run")
  BY DEF Cancel, Tasks
<1>2. PICK at \in [1..Len(writers') -> 1..Len(writers)] :
        /\ \A i \in 1..Len(writers') : writers'[i] = writers[at[i]] /\ writers[at[i]] # "run"
        /\ \A i, j \in 1..Len(writers') : at[i] = at[j] => i = j
  BY <1>1, UnqueuedProperties
<1>3. ASSUME NEW i \in 1..Len(writers')
      PROVE  step'[writers'[i]] # None /\ step'[writers'[i]].write # "none"
  <2>1. at[i] \in 1..Len(writers) /\ writers[at[i]] \in Tasks
    BY <1>2, ElementOfSeq DEF Inv, TypeOK
  <2>2. step'[writers'[i]] = step[writers[at[i]]]
    BY <1>1, <1>2, <2>1 DEF Inv, TypeOK
  <2> QED
    BY <2>1, <2>2 DEF WaitInv
<1>4. \A i, j \in 1..Len(writers') : writers'[i] = writers'[j] => i = j
  BY <1>2 DEF WaitInv
<1> QED
  BY <1>3, <1>4 DEF WaitInv

-----------------------------------------------------------------------------
(* The specification                                                       *)

IInv == Inv /\ WaitInv

LEMMA InvInit == Init => IInv
<1> SUFFICES ASSUME Init PROVE IInv
  OBVIOUS
<1>1. 0 \in Clock /\ 0 \in 0..MaxMessages
  BY BoundsAssumption DEF Clock
<1>2. <<>> \in Seq(Unit) /\ <<>> \in Seq(Tasks) /\ Len(<<>>) = 0
  OBVIOUS
<1>3. TypeOK
  BY <1>1, <1>2 DEF Init, TypeOK
<1>4. GateInv
  BY DEF Init, GateInv, Keeps
<1>5. WaitInv
  BY <1>2 DEF Init, WaitInv
<1> QED
  BY <1>3, <1>4, <1>5 DEF IInv, Inv

LEMMA FrameStep == IInv /\ Frame => IInv'
<1> SUFFICES ASSUME Inv, WaitInv, Frame PROVE Inv' /\ WaitInv'
  BY DEF IInv
<1>1. "frame" \in Tasks
  BY DEF Tasks
<1>2. CASE Message
  BY <1>2, MessageKeeps DEF Message, WaitInv
<1>3. CASE End
  <2>1. step["frame"] = None /\ Write("frame", None, FALSE) /\ Keeps(None)
    BY <1>3 DEF End, FrameLoopFree, Keeps
  <2> QED
    BY <1>1, <1>3, <2>1, EndKeeps, WriteWaits
<1>4. ASSUME NEW o, Fresh(o), Moved(o) PROVE Inv' /\ WaitInv'
  <2>1. step["frame"] = None /\ Apply("frame", o)
    BY <1>4 DEF Moved, FrameLoopFree
  <2> QED
    BY <1>1, <1>4, <2>1, MovedKeeps, ApplyWaits
<1>5. CASE Start \/ NextStage \/ \E revise \in BOOLEAN : Confirm(revise)
  BY <1>4, <1>5, StartMoves, NextStageMoves, ConfirmMoves
<1> QED
  BY <1>2, <1>3, <1>5 DEF Frame

LEMMA RunStep == IInv /\ (RunUnit \/ Fail) => IInv'
<1> SUFFICES ASSUME Inv, WaitInv, RunUnit \/ Fail PROVE Inv' /\ WaitInv'
  BY DEF IInv
<1>1. Inv'
  BY BeginKeeps, ObserveKeeps, PauseKeeps, QuitKeeps DEF RunUnit
<1>2. "run" \in Tasks
  BY DEF Tasks
<1>3. CASE Begin \/ Quit
  BY <1>1, <1>3 DEF Begin, Quit, WaitInv
<1>4. CASE Observe
  <2>1. step["run"] = None
    BY <1>4 DEF Observe, Working
  <2>2. PICK o \in Observed(mem, run.bot) : Apply("run", o)
    BY <1>4 DEF Observe
  <2>3. clock < MaxSteps
    BY <2>2 DEF Apply
  <2>4. Fresh(o)
    BY <1>4, <2>2, <2>3, StagedType, ObservedFresh DEF Observe
  <2> QED
    BY <1>1, <1>2, <2>1, <2>2, <2>4, ApplyWaits
<1>5. CASE Pause
  <2>1. step["run"] = None /\ Write("run", mem, FALSE) /\ Keeps(mem)
    BY <1>5 DEF Pause, Working, Inv, GateInv
  <2> QED
    BY <1>1, <1>2, <2>1, WriteWaits
<1>6. CASE Fail
  <2>1. step["run"] = None /\ Write("run", None, TRUE) /\ Keeps(None)
    BY <1>6 DEF Fail, Working, Keeps
  <2> QED
    BY <1>1, <1>2, <2>1, WriteWaits
<1> QED
  BY <1>1, <1>3, <1>4, <1>5, <1>6 DEF RunUnit

LEMMA RecoveryStep ==
  ASSUME IInv, NEW u \in recovered, Resumed(u) \/ ObserveRecovered(u) \/ QuitRecovered(u)
  PROVE  IInv'
<1> USE DEF IInv
<1>1. Inv'
  BY ResumedKeeps, ObserveRecoveredKeeps, QuitRecoveredKeeps
<1>2. CASE Resumed(u) \/ QuitRecovered(u)
  BY <1>1, <1>2 DEF Resumed, QuitRecovered, WaitInv, tasks
<1>3. CASE ObserveRecovered(u)
  <2>1. "recovery" \in Tasks /\ step["recovery"] = None
    BY <1>3 DEF ObserveRecovered, Tasks
  <2>2. PICK o \in ObservedText(mem, u.bot) : Apply("recovery", o)
    BY <1>3 DEF ObserveRecovered
  <2>3. clock < MaxSteps
    BY <2>2 DEF Apply
  <2>4. Fresh(o)
    BY <1>3, <2>2, <2>3, StagedType, ObservedFresh DEF ObserveRecovered
  <2> QED
    BY <1>1, <2>1, <2>2, <2>4, ApplyWaits
<1> QED
  BY <1>1, <1>2, <1>3

LEMMA FaultStep == IInv /\ (Abort \/ Release \/ Crash \/ Hydrate) => IInv'
<1> SUFFICES ASSUME Inv, WaitInv, Abort \/ Release \/ Crash \/ Hydrate PROVE Inv' /\ WaitInv'
  BY DEF IInv
<1>1. Inv'
  BY AbortKeeps, ReleaseKeeps, CrashKeeps, HydrateKeeps
<1>2. CASE Abort \/ Release
  BY <1>1, <1>2, CancelWaits DEF Abort, Release
<1>3. CASE Crash
  <2>1. writers' = <<>> /\ Len(<<>>) = 0
    BY <1>3 DEF Crash
  <2> QED
    BY <1>1, <2>1 DEF WaitInv
<1>4. CASE Hydrate
  BY <1>1, <1>4 DEF Hydrate, WaitInv
<1> QED
  BY <1>1, <1>2, <1>3, <1>4

LEMMA InvStep == IInv /\ [Next]_vars => IInv'
<1> SUFFICES ASSUME IInv, [Next]_vars PROVE IInv'
  OBVIOUS
<1>1. CASE Commit
  BY <1>1, CommitKeeps, CommitWaits DEF IInv
<1>2. ASSUME NEW t \in Tasks, Deliver(t) PROVE IInv'
  BY <1>2, DeliverKeeps, DeliverWaits DEF IInv
<1>3. CASE UNCHANGED vars
  BY <1>3 DEF vars, tasks, history, IInv, Inv, WaitInv, TypeOK, GateInv
<1> QED
  BY <1>1, <1>2, <1>3, FrameStep, RunStep, RecoveryStep, FaultStep DEF Next

\* The state machine, the queue at the write lock and the row keep their types:
\* a transition of a workflow that is over, a card of no stage or a unit of
\* nobody would break them.
THEOREM Typing == Spec => []TypeOK
<1>1. IInv => TypeOK
  BY DEF IInv, Inv
<1> QED
  BY <1>1, InvInit, InvStep, PTL DEF Spec

\* No bot alone takes a workflow past a gate (DeclarativeOrchestrator.observe
\* and confirm), in memory or in the row, through faults and recoveries.
THEOREM Gates == Spec => []GatesNeedHumans
<1>1. IInv => GatesNeedHumans
  BY DEF IInv, Inv, GateInv, Keeps, Sound, Approved, GatesNeedHumans
<1> QED
  BY <1>1, InvInit, InvStep, PTL DEF Spec

-----------------------------------------------------------------------------
(* Commits come before effects                                             *)

UpTo(n) == [bot : Performers, by : 0..n]

\* What a step shows when it is done is no newer than what it commits first.
Backed(s, d) ==
  /\ s.units \in Seq(UpTo(s.by))
  /\ s.card # None => s.card.by <= s.by
  /\ s.write = "none" => s.by <= d

\* What is shown, what is handed over, and what each step is about to show.
Shown == queue \in Seq(UpTo(durable)) /\ (run # None => run.by <= durable)
Carded == \A c \in cards : c.by <= durable
Coming == \A t \in Tasks : step[t] # None => Backed(step[t], durable)

DurableInv == Shown /\ Carded /\ Coming

LEMMA UpToGrows ==
  ASSUME NEW m \in Nat, NEW n \in Nat, m <= n, NEW us \in Seq(UpTo(m))
  PROVE  us \in Seq(UpTo(n))
<1>1. 0..m \subseteq 0..n
  OBVIOUS
<1>2. UpTo(m) \subseteq UpTo(n)
  BY <1>1 DEF UpTo
<1> QED
  BY <1>2, SeqMonotonic

LEMMA DurableGrows == Inv /\ WaitInv /\ [Next]_vars => durable \in Nat /\ durable' \in Nat /\ durable <= durable'
<1> SUFFICES ASSUME Inv, WaitInv, [Next]_vars
             PROVE  durable \in Nat /\ durable' \in Nat /\ durable <= durable'
  OBVIOUS
<1>1. durable \in Nat
  BY BoundsAssumption DEF Inv, TypeOK, Clock
<1>2. durable' \in Nat
  BY InvStep, BoundsAssumption DEF IInv, Inv, TypeOK, Clock
<1>3. CASE durable' = durable
  BY <1>1, <1>3
<1>4. ASSUME NEW t \in Tasks, step[t] # None, Committed(step[t])
      PROVE  durable <= durable'
  <2>1. step[t].by \in Nat
    BY <1>4, BoundsAssumption DEF Inv, TypeOK, Step, Clock
  <2> QED
    BY <1>1, <1>4, <2>1 DEF Committed
<1>5. CASE Commit
  <2>1. Head(writers) = writers[1] /\ 1 \in 1..Len(writers) /\ Head(writers) \in Tasks
    BY <1>5, HeadTailProperties DEF Commit, Inv, TypeOK
  <2>2. step[Head(writers)] # None /\ Committed(step[Head(writers)])
    BY <1>5, <2>1 DEF Commit, WaitInv
  <2> QED
    BY <1>1, <1>2, <1>4, <2>1, <2>2
<1>6. CASE Cancel
  <2>1. "run" \in Tasks
    BY DEF Tasks
  <2>2. durable' = durable \/ (step["run"] # None /\ Committed(step["run"]))
    BY <1>6 DEF Cancel
  <2> QED
    BY <1>1, <1>2, <1>3, <1>4, <2>1, <2>2
<1>7. CASE Frame
  <2>1. durable' = durable
    BY <1>7 DEF Frame, Start, Confirm, NextStage, Moved, End, Message, history
  <2> QED
    BY <1>3, <2>1
<1>8. CASE \/ RunUnit \/ Fail \/ Crash \/ Hydrate \/ UNCHANGED vars
           \/ \E u \in recovered : Resumed(u) \/ ObserveRecovered(u) \/ QuitRecovered(u)
           \/ \E t \in Tasks : Deliver(t)
  <2>1. durable' = durable
    BY <1>8 DEF RunUnit, Begin, Observe, Pause, Quit, Fail, Resumed, ObserveRecovered,
                QuitRecovered, Crash, Hydrate, Deliver, vars, history
  <2> QED
    BY <1>3, <2>1
<1> QED
  BY <1>1, <1>2, <1>5, <1>6, <1>7, <1>8 DEF Next, Abort, Release

LEMMA BackedGrows ==
  ASSUME NEW s, NEW d \in Nat, NEW e \in Nat, d <= e, s.by \in Nat, Backed(s, d)
  PROVE  Backed(s, e)
BY DEF Backed

\* Nothing new is shown.
LEMMA NothingShown ==
  ASSUME Inv, WaitInv, DurableInv, [Next]_vars,
         queue' = queue \/ queue' = <<>>, run' = run \/ run' = None,
         cards' = cards, Coming'
  PROVE  DurableInv'
<1>1. durable \in Nat /\ durable' \in Nat /\ durable <= durable'
  BY DurableGrows
<1>2. queue' \in Seq(UpTo(durable'))
  <2>1. <<>> \in Seq(UpTo(durable'))
    OBVIOUS
  <2>2. queue \in Seq(UpTo(durable'))
    BY <1>1, UpToGrows DEF DurableInv, Shown
  <2> QED
    BY <2>1, <2>2
<1>3. run' # None => run'.by <= durable'
  <2>1. run # None => run.by \in Nat
    BY BoundsAssumption DEF Inv, TypeOK, Unit, Clock
  <2> QED
    BY <1>1, <2>1 DEF DurableInv, Shown
<1>4. \A c \in cards : c.by \in Nat
  BY BoundsAssumption DEF Inv, TypeOK, Card, Clock
<1>5. Carded'
  BY <1>1, <1>4 DEF DurableInv, Carded
<1> QED
  BY <1>2, <1>3, <1>5 DEF DurableInv, Shown

\* A task without a new step keeps what it has.
LEMMA KeepsBacking ==
  ASSUME Inv, WaitInv, DurableInv, [Next]_vars, NEW u \in Tasks, step[u] # None
  PROVE  Backed(step[u], durable')
<1>1. step[u].by \in Nat
  BY BoundsAssumption DEF Inv, TypeOK, Step, Clock
<1> QED
  BY <1>1, DurableGrows, BackedGrows DEF DurableInv, Coming

LEMMA FollowBacked ==
  ASSUME NEW s \in Step, NEW f \in Flow, NEW d, Backed(s, d)
  PROVE  Backed(Follow(s, f), d)
<1>1. Follow(s, f) \in {s, [s EXCEPT !.flow = f]}
  BY DEF Follow
<1>2. /\ [s EXCEPT !.flow = f].units = s.units /\ [s EXCEPT !.flow = f].card = s.card
      /\ [s EXCEPT !.flow = f].by = s.by /\ [s EXCEPT !.flow = f].write = s.write
  BY DEF Step
<1> QED
  BY <1>1, <1>2 DEF Backed

LEMMA ApplyBacked ==
  ASSUME Inv, WaitInv, DurableInv, [Next]_vars, NEW t \in Tasks, NEW o, Fresh(o), Apply(t, o)
  PROVE  Coming'
<1> DEFINE saved == IF o.flow.current = NStages THEN None ELSE o.flow
           sub == Submit(saved, o.units, o.card, clock + 1)
<1>1. clock + 1 \in Nat
  BY BoundsAssumption DEF Inv, TypeOK, Clock
<1>2. sub.units = o.units /\ sub.card = o.card /\ sub.by = clock + 1 /\ sub.write # "none"
  BY DEF Submit
<1>3. o.units \in Seq(UpTo(clock + 1))
  <2>1. clock + 1 \in 0..clock + 1
    BY <1>1
  <2>2. [bot : Performers, by : {clock + 1}] \subseteq UpTo(clock + 1)
    BY <2>1 DEF UpTo
  <2> QED
    BY <2>2, SeqMonotonic DEF Fresh
<1>4. Backed(sub, durable')
  <2>1. o.card # None => o.card.by <= clock + 1
    BY <1>1 DEF Fresh
  <2> HIDE DEF sub
  <2> QED
    BY <1>2, <1>3, <2>1 DEF Backed
<1>5. step' = [u \in Tasks |-> IF u = t THEN sub ELSE Follow(step[u], o.flow)]
  BY DEF Apply
<1> HIDE DEF sub
<1>6. ASSUME NEW u \in Tasks, step'[u] # None PROVE Backed(step'[u], durable')
  <2>1. CASE u = t
    BY <1>4, <1>5, <2>1
  <2>2. CASE u # t
    <3>1. step'[u] = Follow(step[u], o.flow)
      BY <1>5, <2>2
    <3>2. step[u] # None
      BY <1>6, <3>1 DEF Follow
    <3>3. step[u] \in Step /\ o.flow \in Flow
      BY <3>2 DEF Inv, TypeOK, Fresh
    <3> QED
      BY <3>1, <3>2, <3>3, KeepsBacking, FollowBacked
  <2> QED
    BY <2>1, <2>2
<1> QED
  BY <1>6 DEF Coming

LEMMA WriteBacked ==
  ASSUME Inv, WaitInv, DurableInv, [Next]_vars, NEW t \in Tasks, NEW f, Keeps(f),
         NEW failed \in BOOLEAN, Write(t, f, failed)
  PROVE  Coming'
<1> DEFINE sub == Submit(f, <<>>, None, 0)
           s == [sub EXCEPT !.failed = failed]
<1>1. sub \in Step
  <2>1. 0 \in Clock
    BY BoundsAssumption DEF Clock
  <2>2. f \in Flow \cup {None}
    BY KeepsType
  <2>3. <<>> \in Seq(Unit) /\ None \in Card \cup {None}
    OBVIOUS
  <2> QED
    BY <2>1, <2>2, <2>3, SubmitType
<1>2. sub.units = <<>> /\ sub.card = None /\ sub.by = 0 /\ sub.write # "none"
  BY DEF Submit
<1>3. s.units = sub.units /\ s.card = sub.card /\ s.by = sub.by /\ s.write = sub.write
  <2> HIDE DEF sub
  <2> QED
    BY <1>1 DEF Step
<1>4. step' = [step EXCEPT ![t] = s]
  BY DEF Write
<1> HIDE DEF s, sub
<1>5. Backed(s, durable')
  <2>1. <<>> \in Seq(UpTo(0))
    OBVIOUS
  <2> QED
    BY <1>2, <1>3, <2>1 DEF Backed
<1>6. ASSUME NEW u \in Tasks, step'[u] # None PROVE Backed(step'[u], durable')
  <2>1. CASE u = t
    BY <1>4, <1>5, <2>1 DEF Inv, TypeOK
  <2>2. CASE u # t
    <3>1. step'[u] = step[u]
      BY <1>4, <2>2 DEF Inv, TypeOK
    <3> QED
      BY <1>6, <3>1, KeepsBacking
  <2> QED
    BY <2>1, <2>2
<1> QED
  BY <1>6 DEF Coming

\* Steps stay, or end.
LEMMA StepsStay ==
  ASSUME Inv, WaitInv, DurableInv, [Next]_vars,
         \A u \in Tasks : step'[u] = step[u] \/ step'[u] = None
  PROVE  Coming'
BY KeepsBacking DEF Coming

LEMMA CommitBacked ==
  ASSUME Inv, WaitInv, DurableInv, [Next]_vars, Commit PROVE Coming'
<1> DEFINE t == Head(writers)
           s == [step[t] EXCEPT !.write = "none"]
<1>1. t \in Tasks /\ t = writers[1] /\ 1 \in 1..Len(writers)
  BY HeadTailProperties DEF Commit, Inv, TypeOK
<1>2. step' = [step EXCEPT ![t].write = "none"] /\ Committed(step[t])
  BY DEF Commit
<1> HIDE DEF t
<1>3. step[t] \in Step /\ step[t] # None
  BY <1>1 DEF WaitInv, Inv, TypeOK
<1>4. s.units = step[t].units /\ s.card = step[t].card /\ s.by = step[t].by
  BY <1>3 DEF Step
<1>5. step[t].by <= durable'
  <2>1. step[t].by \in Nat /\ durable \in Nat
    BY <1>3, BoundsAssumption DEF Step, Clock, Inv, TypeOK
  <2> QED
    BY <1>2, <2>1 DEF Committed
<1>6. Backed(s, durable')
  <2>1. Backed(step[t], durable)
    BY <1>1, <1>3 DEF DurableInv, Coming
  <2> HIDE DEF s
  <2> QED
    BY <1>4, <1>5, <2>1 DEF Backed
<1>7. step' = [step EXCEPT ![t] = s]
  BY <1>2
<1> HIDE DEF s
<1>8. ASSUME NEW u \in Tasks, step'[u] # None PROVE Backed(step'[u], durable')
  <2>1. CASE u = t
    BY <1>6, <1>7, <2>1 DEF Inv, TypeOK
  <2>2. CASE u # t
    <3>1. step'[u] = step[u]
      BY <1>7, <2>2 DEF Inv, TypeOK
    <3> QED
      BY <1>8, <3>1, KeepsBacking
  <2> QED
    BY <2>1, <2>2
<1> QED
  BY <1>8 DEF Coming

LEMMA DeliverBacked ==
  ASSUME Inv, WaitInv, DurableInv, [Next]_vars, NEW t \in Tasks, Deliver(t)
  PROVE  DurableInv'
<1>1. step[t] \in Step /\ step[t] # None /\ step[t].write = "none"
  BY DEF Deliver, Ready, Inv, TypeOK
<1>2. durable' = durable /\ durable \in Nat
  BY BoundsAssumption DEF Deliver, history, Inv, TypeOK, Clock
<1>3. step[t].by \in Nat /\ step[t].by <= durable /\ Backed(step[t], durable)
  BY <1>1, BoundsAssumption DEF Step, Clock, DurableInv, Coming, Backed
<1>4. step[t].units \in Seq(UpTo(durable))
  BY <1>2, <1>3, UpToGrows DEF Backed
<1>5. queue' \in Seq(UpTo(durable))
  BY <1>4, ConcatProperties DEF Deliver, DurableInv, Shown
<1>6. run' # None => run'.by <= durable
  BY DEF Deliver, DurableInv, Shown
<1>7. \A c \in cards' : c.by <= durable
  <2>1. step[t].card # None => step[t].card.by <= durable
    <3>1. step[t].card # None => step[t].card.by \in Nat /\ step[t].card.by <= step[t].by
      BY <1>1, <1>3, BoundsAssumption DEF Step, Card, Clock, Backed
    <3> QED
      BY <1>2, <1>3, <3>1
  <2> QED
    BY <2>1 DEF Deliver, DurableInv, Carded
<1>8. Coming'
  <2>1. \A u \in Tasks : step'[u] = step[u] \/ step'[u] = None
    BY DEF Deliver, Inv, TypeOK
  <2> QED
    BY <2>1, StepsStay
<1> QED
  BY <1>2, <1>5, <1>6, <1>7, <1>8 DEF DurableInv, Shown, Carded

LEMMA BeginBacked ==
  ASSUME Inv, WaitInv, DurableInv, [Next]_vars, Begin PROVE DurableInv'
<1>1. queue \in Seq(UpTo(durable)) /\ queue # <<>>
  BY DEF Begin, DurableInv, Shown
<1>2. Head(queue) \in UpTo(durable) /\ Tail(queue) \in Seq(UpTo(durable))
  BY <1>1, HeadTailProperties
<1>3. /\ run' = Head(queue) /\ queue' = Tail(queue) /\ durable' = durable
      /\ cards' = cards /\ step' = step
  BY DEF Begin, history
<1>4. Head(queue).by <= durable
  BY <1>2, BoundsAssumption DEF UpTo, Inv, TypeOK, Clock
<1>5. Coming'
  BY <1>3, StepsStay
<1> QED
  BY <1>2, <1>3, <1>4, <1>5 DEF DurableInv, Shown, Carded

LEMMA MessageBacked ==
  ASSUME Inv, WaitInv, DurableInv, [Next]_vars, Message PROVE DurableInv'
<1> DEFINE us == SetToSeq({[bot |-> b, by |-> 0] : b \in Participants(mem)})
<1>1. mem \in Flow /\ mem.current \in Stages
  BY StagedType DEF Message
<1>2. us \in Seq([bot : Performers, by : {0}])
  BY <1>1, ParticipantsType, UnitsOfType DEF UnitsOf
<1>3. [bot : Performers, by : {0}] \subseteq UpTo(durable)
  <2>1. 0 \in 0..durable
    BY BoundsAssumption DEF Inv, TypeOK, Clock
  <2> QED
    BY <2>1 DEF UpTo
<1>4. us \in Seq(UpTo(durable))
  BY <1>2, <1>3, SeqMonotonic
<1>5. /\ queue' = queue \o us /\ run' = run /\ durable' = durable
      /\ cards' = cards /\ step' = step
  BY DEF Message, history
<1>6. queue' \in Seq(UpTo(durable))
  <2> HIDE DEF us
  <2> QED
    BY <1>4, <1>5, ConcatProperties DEF DurableInv, Shown
<1>7. Coming'
  BY <1>5, StepsStay
<1> QED
  BY <1>5, <1>6, <1>7 DEF DurableInv, Shown, Carded

LEMMA DurableStep == IInv /\ DurableInv /\ [Next]_vars => DurableInv'
<1> SUFFICES ASSUME Inv, WaitInv, DurableInv, [Next]_vars PROVE DurableInv'
  BY DEF IInv
<1>1. "run" \in Tasks /\ "frame" \in Tasks /\ "recovery" \in Tasks
  BY DEF Tasks
<1>2. ASSUME NEW t \in Tasks, NEW o, Fresh(o), Apply(t, o),
             queue' = queue, run' = run, cards' = cards
      PROVE  DurableInv'
  BY <1>2, ApplyBacked, NothingShown
<1>3. ASSUME NEW t \in Tasks, NEW f, Keeps(f), NEW failed \in BOOLEAN, Write(t, f, failed),
             queue' = queue, run' = run, cards' = cards
      PROVE  DurableInv'
  BY <1>3, WriteBacked, NothingShown
<1>4. ASSUME \A u \in Tasks : step'[u] = step[u] \/ step'[u] = None,
             queue' = queue \/ queue' = <<>>, run' = run \/ run' = None, cards' = cards
      PROVE  DurableInv'
  BY <1>4, StepsStay, NothingShown
<1>5. CASE Start \/ NextStage \/ \E revise \in BOOLEAN : Confirm(revise)
  <2>1. PICK o : Fresh(o) /\ Moved(o)
    BY <1>5, StartMoves, NextStageMoves, ConfirmMoves
  <2> QED
    BY <1>1, <1>2, <2>1 DEF Moved
<1>6. CASE End
  BY <1>1, <1>3, <1>6 DEF End, Keeps
<1>7. CASE Observe \/ \E u \in recovered : ObserveRecovered(u)
  <2>1. PICK t, b, o : /\ t \in Tasks /\ Apply(t, o)
                       /\ o \in Observed(mem, b) \cup ObservedText(mem, b)
    BY <1>1, <1>7 DEF Observe, ObserveRecovered
  <2>2. clock < MaxSteps
    BY <2>1 DEF Apply
  <2>3. Staged(mem) /\ queue' = queue /\ run' = run /\ cards' = cards
    BY <1>7 DEF Observe, ObserveRecovered
  <2>4. Fresh(o)
    BY <2>1, <2>2, <2>3, StagedType, ObservedFresh
  <2> QED
    BY <1>2, <2>1, <2>3, <2>4
<1>8. CASE Pause \/ Fail
  <2>1. Keeps(None) /\ Keeps(mem)
    BY DEF Keeps, Inv, GateInv
  <2>2. queue' = queue /\ run' = run /\ cards' = cards
    BY <1>8 DEF Pause, Fail
  <2>3. Write("run", mem, FALSE) \/ Write("run", None, TRUE)
    BY <1>8 DEF Pause, Fail
  <2> QED
    BY <1>1, <1>3, <2>1, <2>2, <2>3
<1>9. CASE \/ Quit \/ Crash \/ Hydrate \/ UNCHANGED vars
           \/ \E u \in recovered : Resumed(u) \/ QuitRecovered(u)
  <2>1. /\ \A u \in Tasks : step'[u] = step[u] \/ step'[u] = None
        /\ queue' = queue \/ queue' = <<>>
        /\ run' = run \/ run' = None
        /\ cards' = cards
    BY <1>9 DEF Quit, LockFree, Resumed, QuitRecovered, Crash, Hydrate, vars, tasks
  <2> QED
    BY <1>4, <2>1
<1>10. CASE Abort \/ Release
  <2>1. Cancel /\ cards' = cards
    BY <1>10 DEF Abort, Release
  <2>2. /\ \A u \in Tasks : step'[u] = step[u] \/ step'[u] = None
        /\ queue' = <<>> /\ run' = None
    BY <2>1 DEF Cancel, Inv, TypeOK
  <2> QED
    BY <1>4, <2>1, <2>2
<1>11. CASE Commit
  <2>1. queue' = queue /\ run' = run /\ cards' = cards
    BY <1>11 DEF Commit
  <2> QED
    BY <1>11, <2>1, CommitBacked, NothingShown
<1> QED
  BY <1>5, <1>6, <1>7, <1>8, <1>9, <1>10, <1>11, BeginBacked, MessageBacked, DeliverBacked
  DEF Next, Frame, RunUnit

LEMMA DurableInit == Init => DurableInv
<1> SUFFICES ASSUME Init PROVE DurableInv
  OBVIOUS
<1>1. <<>> \in Seq(UpTo(durable))
  OBVIOUS
<1> QED
  BY <1>1 DEF Init, DurableInv, Shown, Carded, Coming

\* What others see of a transition, its units and its confirm card, follows its
\* commit (apply_step commits, then broadcasts and spawns).
THEOREM Effects == Spec => []EffectsAreDurable
<1>1. IInv /\ DurableInv => EffectsAreDurable
  <2> SUFFICES ASSUME Inv, DurableInv PROVE EffectsAreDurable
    BY DEF IInv
  <2>1. ASSUME NEW i \in DOMAIN queue PROVE queue[i].by <= durable
    <3>1. queue[i] \in UpTo(durable)
      BY DEF DurableInv, Shown
    <3> QED
      BY <3>1, BoundsAssumption DEF UpTo, Inv, TypeOK, Clock
  <2> QED
    BY <2>1 DEF DurableInv, Shown, Carded, EffectsAreDurable
<1> QED
  BY <1>1, InvInit, InvStep, DurableInit, DurableStep, PTL DEF Spec

-----------------------------------------------------------------------------
(* The row and the memory                                                  *)

\* Nobody is at work on a group that was given up, or that died.
Quiet == queue = <<>> /\ run = None /\ recovered = {}
           /\ \A t \in Tasks : step[t] = None

\* The last write that waits brings the memory to the row.
LastWrites ==
  IF writers = <<>> THEN ~adrift => row = mem
  ELSE LET s == step[writers[Len(writers)]]
       IN s.flow = mem \/ s.failed \/ adrift

RowInv ==
  /\ ~serving => Quiet
  /\ serving => LastWrites

LEMMA QuietWriters == Inv /\ WaitInv /\ Quiet => writers = <<>>
<1> SUFFICES ASSUME Inv, WaitInv, Quiet, writers # <<>> PROVE FALSE
  OBVIOUS
<1>1. writers \in Seq(Tasks) /\ 1 \in 1..Len(writers)
  BY DEF Inv, TypeOK
<1>2. writers[1] \in Tasks /\ step[writers[1]] # None
  BY <1>1, ElementOfSeq DEF WaitInv
<1> QED
  BY <1>2 DEF Quiet

LEMMA LastQueued ==
  ASSUME Inv, NEW t \in Tasks, writers' = Queued(t)
  PROVE  writers' # <<>> /\ writers'[Len(writers')] = t
BY AppendProperties DEF Inv, TypeOK, Queued

LEMMA ApplyLast ==
  ASSUME Inv, NEW t \in Tasks, NEW o, Apply(t, o) PROVE LastWrites'
<1> DEFINE saved == IF o.flow.current = NStages THEN None ELSE o.flow
           sub == Submit(saved, o.units, o.card, clock + 1)
<1>1. sub.flow = saved
  BY DEF Submit
<1>2. /\ mem' = saved /\ writers' = Queued(t)
      /\ step' = [u \in Tasks |-> IF u = t THEN sub ELSE Follow(step[u], o.flow)]
  BY DEF Apply
<1> HIDE DEF sub, saved
<1>3. step'[t].flow = mem'
  BY <1>1, <1>2
<1> QED
  BY <1>2, <1>3, LastQueued DEF LastWrites

LEMMA WriteLast ==
  ASSUME Inv, NEW t \in Tasks, NEW f, Keeps(f), NEW failed \in BOOLEAN, Write(t, f, failed),
         f = mem' \/ failed
  PROVE  LastWrites'
<1> DEFINE sub == Submit(f, <<>>, None, 0)
           s == [sub EXCEPT !.failed = failed]
<1>1. sub \in Step
  <2>1. 0 \in Clock
    BY BoundsAssumption DEF Clock
  <2>2. f \in Flow \cup {None}
    BY KeepsType
  <2>3. <<>> \in Seq(Unit) /\ None \in Card \cup {None}
    OBVIOUS
  <2> QED
    BY <2>1, <2>2, <2>3, SubmitType
<1>2. sub.flow = f
  BY DEF Submit
<1>3. s.flow = f /\ s.failed = failed
  <2> HIDE DEF sub
  <2> QED
    BY <1>1, <1>2 DEF Step
<1>4. step' = [step EXCEPT ![t] = s] /\ writers' = Queued(t)
  BY DEF Write
<1> HIDE DEF s, sub
<1>5. step'[t] = s
  BY <1>4 DEF Inv, TypeOK
<1> QED
  BY <1>3, <1>4, <1>5, LastQueued DEF LastWrites

\* Task t, the first in the queue, has written.
LEMMA CommittedLast ==
  ASSUME Inv, WaitInv, LastWrites, writers # <<>>, NEW t, t = Head(writers),
         Committed(step[t]), writers' = Tail(writers), mem' = mem,
         \A u \in Tasks \ {t} : step'[u] = step[u]
  PROVE  LastWrites'
<1>1. writers \in Seq(Tasks) /\ Len(writers) \in Nat \ {0}
  BY EmptySeq DEF Inv, TypeOK
<1>2. /\ t = writers[1] /\ Len(writers') = Len(writers) - 1
      /\ \A i \in 1..Len(writers') : writers'[i] = writers[i + 1]
      /\ writers' \in Seq(Tasks)
  BY <1>1, HeadTailProperties
<1>3. /\ row' = step[t].flow
      /\ adrift' = ((adrift \/ step[t].failed) /\ (step[t].flow # mem \/ Tail(writers) # <<>>))
  BY DEF Committed
<1>4. CASE writers' = <<>>
  <2>1. Len(writers) = 1
    <3>0. Len(<<>>) = 0
      OBVIOUS
    <3>1. Len(writers') = 0
      BY <1>4, <3>0, Zenon
    <3>2. Len(writers') = Len(writers) - 1
      BY <1>2
    <3> QED
      BY <1>1, <3>1, <3>2
  <2>2. step[t].flow = mem \/ step[t].failed \/ adrift
    BY <1>2, <2>1 DEF LastWrites
  <2>3. ~adrift' => row' = mem
    BY <1>3, <1>4, <2>2
  <2> QED
    BY <1>4, <2>3 DEF LastWrites
<1>5. CASE writers' # <<>>
  <2> DEFINE n == Len(writers)
             u == writers[n]
  <2>1. n - 1 \in 1..Len(writers') /\ n \in 1..n /\ 1 \in 1..n /\ n # 1
    BY <1>1, <1>2, <1>5, EmptySeq
  <2>2. writers'[Len(writers')] = u
    BY <1>1, <1>2, <2>1
  <2>3. u \in Tasks /\ u # t
    BY <1>1, <1>2, <2>1, ElementOfSeq DEF WaitInv
  <2>4. step'[u] = step[u]
    BY <2>3
  <2>5. step[u].flow = mem \/ step[u].failed \/ adrift
    BY DEF LastWrites
  <2>6. adrift => adrift'
    BY <1>3, <1>5
  <2> QED
    BY <1>5, <2>2, <2>4, <2>5, <2>6 DEF LastWrites
<1> QED
  BY <1>4, <1>5

\* The run leaves the queue, or the commit it was at takes place.
LEMMA CancelLast ==
  ASSUME Inv, WaitInv, LastWrites, Cancel, mem' = mem PROVE LastWrites'
<1> DEFINE s == step["run"]
           writing == s # None /\ s.write # "none"
<1>1. writers \in Seq(Tasks) /\ Len(writers) \in Nat /\ "run" \in Tasks
  BY DEF Inv, TypeOK, Tasks
<1>2. step' = [step EXCEPT !["run"] = None] /\ writers' = Unqueued("run")
  BY DEF Cancel
<1>3. CASE ~writing
  <2>1. \A i \in DOMAIN writers : writers[i] \in Tasks /\ writers[i] # "run"
    BY <1>1, <1>3, ElementOfSeq DEF WaitInv
  <2>2. writers' = writers
    BY <1>2, <2>1 DEF Unqueued
  <2>3. row' = row /\ adrift' = adrift
    BY <1>3 DEF Cancel, Inv, TypeOK
  <2>4. writers # <<>> => step'[writers[Len(writers)]] = step[writers[Len(writers)]]
    <3>1. writers # <<>> => Len(writers) \in DOMAIN writers
      BY <1>1, EmptySeq
    <3> QED
      BY <1>2, <2>1, <3>1 DEF Inv, TypeOK
  <2> QED
    BY <2>2, <2>3, <2>4 DEF LastWrites
<1>4. CASE writing /\ adrift' = (adrift \/ writing)
  BY <1>4 DEF LastWrites
<1>5. CASE writing /\ writers # <<>> /\ Head(writers) = "run" /\ Committed(s)
  <2>1. 1 \in DOMAIN writers /\ writers[1] = "run"
    BY <1>1, <1>5, EmptySeq, HeadTailProperties
  <2>2. writers' = Tail(writers)
    <3> DEFINE k == CHOOSE i \in DOMAIN writers : writers[i] = "run"
    <3>1. k \in 1..Len(writers) /\ writers[k] = "run"
      BY <1>1, <2>1
    <3>2. k = 1
      BY <1>1, <2>1, <3>1 DEF WaitInv
    <3>3. writers' = RemoveAt(writers, 1)
      BY <1>2, <2>1, <3>2 DEF Unqueued
    <3>4. SubSeq(writers, 1, 1 - 1) = <<>>
      BY SubSeqEmpty
    <3>5. Tail(writers) = SubSeq(writers, 1 + 1, Len(writers))
      BY <1>1, <1>5, TailIsSubSeq
    <3>6. Tail(writers) \in Seq(Tasks)
      BY <1>1, <1>5, HeadTailProperties
    <3> QED
      BY <3>3, <3>4, <3>5, <3>6, ConcatEmptySeq DEF RemoveAt
  <2>3. \A u \in Tasks \ {"run"} : step'[u] = step[u]
    BY <1>2 DEF Inv, TypeOK
  <2> QED
    BY <1>5, <2>1, <2>2, <2>3, CommittedLast
<1> QED
  BY <1>3, <1>4, <1>5 DEF Cancel

LEMMA RowStep == IInv /\ RowInv /\ [Next]_vars => RowInv'
<1> SUFFICES ASSUME Inv, WaitInv, RowInv, [Next]_vars, WaitInv', Inv' PROVE RowInv'
  BY InvStep DEF IInv
<1>1. "run" \in Tasks /\ "frame" \in Tasks /\ "recovery" \in Tasks
  BY DEF Tasks
\* A step of a group that is served.
<1>2. ASSUME serving, serving' = serving, LastWrites' PROVE RowInv'
  BY <1>2 DEF RowInv
<1>3. ASSUME serving, serving' = serving, NEW t \in Tasks, NEW o, Fresh(o), Apply(t, o)
      PROVE  RowInv'
  BY <1>2, <1>3, ApplyLast
<1>4. ASSUME serving, serving' = serving, NEW t \in Tasks, NEW f, Keeps(f),
             NEW failed \in BOOLEAN, Write(t, f, failed), f = mem' \/ failed
      PROVE  RowInv'
  BY <1>2, <1>4, WriteLast
\* A step that leaves the writes alone.
<1>5. ASSUME serving, serving' = serving,
             UNCHANGED <<mem, row, step, writers, adrift>>
      PROVE  RowInv'
  BY <1>2, <1>5 DEF RowInv, LastWrites
<1>6. CASE Start \/ NextStage \/ \E revise \in BOOLEAN : Confirm(revise)
  <2>1. PICK o : Fresh(o) /\ Moved(o)
    BY <1>6, StartMoves, NextStageMoves, ConfirmMoves
  <2> QED
    BY <1>1, <1>3, <2>1 DEF Moved, FrameLoopFree
<1>7. CASE End
  <2>1. Keeps(None) /\ Write("frame", None, FALSE) /\ mem' = None
    BY <1>7 DEF Keeps, End
  <2> QED
    BY <1>1, <1>4, <1>7, <2>1 DEF End, FrameLoopFree
<1>8. CASE Message
  BY <1>5, <1>8 DEF Message, FrameLoopFree, history, RowInv
<1>9. CASE Begin \/ Quit \/ \E u \in recovered : Resumed(u) \/ QuitRecovered(u)
  <2>1. serving
    BY <1>9 DEF Begin, Quit, Working, RowInv, Quiet
  <2> QED
    BY <1>5, <1>9, <2>1 DEF Begin, Quit, Resumed, QuitRecovered, tasks, history
<1>10. CASE Observe \/ \E u \in recovered : ObserveRecovered(u)
  <2>1. PICK t, b, o : /\ t \in Tasks /\ Apply(t, o)
                       /\ o \in Observed(mem, b) \cup ObservedText(mem, b)
    BY <1>1, <1>10 DEF Observe, ObserveRecovered
  <2>2. clock < MaxSteps
    BY <2>1 DEF Apply
  <2>3. Staged(mem) /\ serving' = serving
    BY <1>10 DEF Observe, ObserveRecovered
  <2>4. Fresh(o)
    BY <2>1, <2>2, <2>3, StagedType, ObservedFresh
  <2>5. serving
    BY <1>10 DEF Observe, Working, RowInv, Quiet
  <2> QED
    BY <1>3, <2>1, <2>3, <2>4, <2>5
<1>11. CASE Pause \/ Fail
  <2>1. Keeps(None) /\ Keeps(mem)
    BY DEF Keeps, Inv, GateInv
  <2>2. serving /\ serving' = serving /\ mem' = mem
    BY <1>11 DEF Pause, Fail, Working, RowInv, Quiet
  <2>3. Write("run", mem, FALSE) \/ Write("run", None, TRUE)
    BY <1>11 DEF Pause, Fail
  <2> QED
    BY <1>1, <1>4, <2>1, <2>2, <2>3
<1>12. CASE Commit
  <2>1. serving
    BY <1>12, QuietWriters DEF Commit, RowInv
  <2> DEFINE t == Head(writers)
  <2>2. /\ writers # <<>> /\ Committed(step[t]) /\ writers' = Tail(writers) /\ mem' = mem
        /\ step' = [step EXCEPT ![t].write = "none"]
        /\ serving' = serving
    BY <1>12 DEF Commit
  <2>3. t \in Tasks /\ t = writers[1] /\ 1 \in 1..Len(writers)
    BY <2>2, HeadTailProperties DEF Inv, TypeOK
  <2> HIDE DEF t
  <2>5. \A u \in Tasks \ {t} : step'[u] = step[u]
    BY <2>2 DEF Inv, TypeOK
  <2>6. LastWrites'
    BY <2>1, <2>2, <2>5, CommittedLast DEF t, RowInv
  <2> QED
    BY <1>2, <2>1, <2>2, <2>6
<1>13. ASSUME NEW t \in Tasks, Deliver(t) PROVE RowInv'
  <2>1. step[t] # None /\ step[t].write = "none"
    BY <1>13 DEF Deliver, Ready
  <2>2. serving /\ serving' = serving
    BY <1>13, <2>1 DEF Deliver, RowInv, Quiet
  <2>3. /\ UNCHANGED <<mem, row, writers, adrift>> /\ step' = [step EXCEPT ![t] = None]
    BY <1>13 DEF Deliver, history
  <2>5. writers # <<>> => step'[writers[Len(writers)]] = step[writers[Len(writers)]]
    <3> SUFFICES ASSUME writers # <<>>
                 PROVE  step'[writers[Len(writers)]] = step[writers[Len(writers)]]
      OBVIOUS
    <3>1. writers \in Seq(Tasks) /\ Len(writers) \in 1..Len(writers)
      BY EmptySeq DEF Inv, TypeOK
    <3>2. writers[Len(writers)] \in Tasks /\ writers[Len(writers)] # t
      BY <2>1, <3>1, ElementOfSeq DEF WaitInv
    <3> QED
      BY <2>3, <3>2 DEF Inv, TypeOK
  <2>6. LastWrites'
    BY <2>2, <2>3, <2>5 DEF RowInv, LastWrites
  <2> QED
    BY <1>2, <2>2, <2>6
<1>14. CASE Abort
  <2>1. serving /\ serving' = serving /\ Cancel /\ mem' = mem
    BY <1>14 DEF Abort, FrameLoopFree
  <2> QED
    BY <1>2, <2>1, CancelLast DEF RowInv
<1>15. CASE Release
  <2>1. /\ serving' = FALSE /\ recovered' = {} /\ queue' = <<>> /\ run' = None
        /\ step' = [step EXCEPT !["run"] = None]
        /\ step["frame"] = None /\ step["recovery"] = None
    BY <1>15 DEF Release, Cancel, FrameLoopFree
  <2>3. \A u \in Tasks : step'[u] = None
    BY <2>1 DEF Inv, TypeOK, Tasks
  <2> QED
    BY <1>1, <2>1, <2>3 DEF RowInv, Quiet
<1>16. CASE Crash
  BY <1>1, <1>16 DEF Crash, RowInv, Quiet
<1>17. CASE Hydrate
  <2>1. Quiet /\ writers = <<>> /\ serving'
    BY <1>17, QuietWriters DEF Hydrate, RowInv
  <2>2. /\ mem' = IF row = None THEN mem ELSE row
        /\ adrift' = (row = None /\ mem # None)
        /\ row' = row /\ writers' = writers /\ step' = step
    BY <1>17 DEF Hydrate
  <2>3. ~adrift' => row' = mem'
    BY <2>2
  <2> QED
    BY <2>1, <2>2, <2>3 DEF RowInv, LastWrites
<1>18. CASE UNCHANGED vars
  BY <1>18 DEF vars, tasks, history, RowInv, LastWrites, Quiet
<1> QED
  BY <1>6, <1>7, <1>8, <1>9, <1>10, <1>11, <1>12, <1>13, <1>14, <1>15, <1>16, <1>17, <1>18
  DEF Next, Frame, RunUnit

LEMMA RowInit == Init => RowInv
BY DEF Init, RowInv, LastWrites, Tasks

\* Three tasks change one live dict, and each hands a snapshot of it to the write
\* lock (serialize, write_connect): when nobody waits to write, the row is what
\* the memory is, unless a run was cancelled at its commit, or raised.
THEOREM RowMemory == Spec => []RowFollowsMemory
<1>1. RowInv => RowFollowsMemory
  BY DEF RowInv, LastWrites, RowFollowsMemory
<1> QED
  BY <1>1, InvInit, InvStep, RowInit, RowStep, PTL DEF Spec
=============================================================================
