----------------------- MODULE ProjectionOutboxProofs -----------------------
(***************************************************************************)
(* The acknowledgements of ProjectionOutbox for any records, drains and    *)
(* bounds.                                                                 *)
(***************************************************************************)
EXTENDS ProjectionOutbox, TLAPS

-----------------------------------------------------------------------------
(* Types                                                                   *)

LEMMA TypeInit == Init => TypeOK
BY BoundsAssumption DEF Init, TypeOK, Nothing

\* What NextRow leaves is well-typed.
LEMMA NextRowType ==
  ASSUME TypeOK, NEW d \in Drains, NextRow(d)
  PROVE  /\ todo' \in [Drains -> [Events -> 0..MaxVersion]]
         /\ cur' \in [Drains -> Events \cup {None}]
         /\ pc' \in [Drains -> {"none", "writing", "written", "raised"}]
         /\ stray' = stray
<1>1. [todo[d] EXCEPT ![cur[d]] = 0] \in [Events -> 0..MaxVersion]
  <2>1. 0 \in 0..MaxVersion
    BY BoundsAssumption
  <2>2. todo[d] \in [Events -> 0..MaxVersion]
    BY DEF TypeOK
  <2> QED
    BY <2>1, <2>2
<1>2. todo' \in [Drains -> [Events -> 0..MaxVersion]]
  BY <1>1 DEF TypeOK, NextRow
<1> QED
  BY <1>2 DEF TypeOK, NextRow

\* A drain is between two rows, or at work on one that it has claimed.
CurClaimed ==
  \A d \in Drains :
    IF pc[d] = "none" THEN cur[d] = None
    ELSE cur[d] \in Events /\ todo[d][cur[d]] # 0

TypeInv == TypeOK /\ CurClaimed

LEMMA CurInit == Init => CurClaimed
BY DEF Init, CurClaimed

LEMMA CurStep == TypeInv /\ [Next]_vars => CurClaimed'
<1> SUFFICES ASSUME TypeOK, CurClaimed, [Next]_vars PROVE CurClaimed'
  BY DEF TypeInv
<1> USE DEF TypeOK, CurClaimed, row, hand, index
<1>1. CASE UNCHANGED <<todo, cur, pc>>
  BY <1>1
<1>2. ASSUME NEW e \in Events, Enqueue(e) \/ Expire(e) \/ EndBackoff(e)
      PROVE  CurClaimed'
  BY <1>2 DEF Enqueue, Expire, EndBackoff
<1>3. ASSUME NEW e \in Events, NEW v \in Versions, LandStray(e, v) PROVE CurClaimed'
  BY <1>3 DEF LandStray
<1>4. ASSUME NEW d \in Drains, Drain(d) PROVE CurClaimed'
  <2>1. ASSUME NEW rows \in SUBSET Events, Claim(d, rows) PROVE CurClaimed'
    <3>1. pc[d] = "none"
      BY <2>1 DEF Claim, Idle, Nothing
    <3> QED
      BY <2>1, <3>1 DEF Claim
  <2>2. ASSUME NEW e \in Events, Deliver(d, e) PROVE CurClaimed'
    BY <2>2 DEF Deliver
  <2>3. CASE Land(d) \/ Raise(d)
    BY <2>3 DEF Land, Raise
  <2>4. CASE Complete(d) \/ Fail(d) \/ TooLate(d)
    BY <2>4 DEF Complete, Fail, TooLate, NextRow
  <2>5. CASE Abort(d)
    BY <2>5 DEF Abort
  <2> QED
    BY <1>4, <2>1, <2>2, <2>3, <2>4, <2>5 DEF Drain
<1> QED
  BY <1>1, <1>2, <1>3, <1>4 DEF Next, vars

LEMMA TypeStep == TypeInv /\ [Next]_vars => TypeOK'
<1> SUFFICES ASSUME TypeOK, CurClaimed, [Next]_vars PROVE TypeOK'
  BY DEF TypeInv
<1> USE BoundsAssumption DEF row, hand, index
<1>1. CASE UNCHANGED vars
  BY <1>1 DEF TypeOK, vars
<1>2. ASSUME NEW e \in Events, Enqueue(e) PROVE TypeOK'
  <2>1. version' \in [Events -> 0..MaxVersion]
    BY <1>2 DEF Enqueue, TypeOK, Versions
  <2>2. edits' \in 0..MaxEdits
    BY <1>2 DEF Enqueue, TypeOK
  <2>3. overtaken' \subseteq Events
    BY <1>2 DEF Enqueue, TypeOK
  <2> QED
    BY <1>2, <2>1, <2>2, <2>3 DEF Enqueue, TypeOK
<1>3. ASSUME NEW e \in Events, Expire(e) PROVE TypeOK'
  <2>1. slow' \in 0..MaxSlow
    BY <1>3 DEF Expire, TypeOK
  <2> QED
    BY <1>3, <2>1 DEF Expire, TypeOK
<1>4. ASSUME NEW e \in Events, EndBackoff(e) PROVE TypeOK'
  BY <1>4 DEF EndBackoff, TypeOK
<1>5. ASSUME NEW e \in Events, NEW v \in Versions, LandStray(e, v) PROVE TypeOK'
  BY <1>5 DEF LandStray, Write, TypeOK, Versions
<1>6. ASSUME NEW d \in Drains, Drain(d) PROVE TypeOK'
  <2>0. pc[d] # "none" => cur[d] \in Events /\ todo[d][cur[d]] \in Versions
    BY DEF CurClaimed, TypeOK, Versions
  <2>1. ASSUME NEW rows \in SUBSET Events, Claim(d, rows) PROVE TypeOK'
    <3>1. todo' \in [Drains -> [Events -> 0..MaxVersion]]
      BY <2>1 DEF Claim, TypeOK
    <3>2. status' \in [Events -> {"none", "pending", "processing", "completed"}]
      BY <2>1 DEF Claim, TypeOK
    <3>3. lease' \in [Events -> Drains \cup {None}]
      BY <2>1 DEF Claim, TypeOK
    <3>4. overtaken' \subseteq Events /\ lapsed' \subseteq Events
      BY <2>1 DEF Claim, TypeOK
    <3> QED
      BY <2>1, <3>1, <3>2, <3>3, <3>4 DEF Claim, TypeOK
  <2>2. ASSUME NEW e \in Events, Deliver(d, e) PROVE TypeOK'
    BY <2>2 DEF Deliver, TypeOK
  <2>3. CASE Land(d)
    BY <2>3, <2>0 DEF Land, Write, TypeOK, Versions
  <2>4. CASE Raise(d)
    BY <2>4 DEF Raise, TypeOK
  <2>5. CASE Complete(d)
    BY <2>5, <2>0, NextRowType DEF Complete, EndLease, TypeOK
  <2>6. CASE Fail(d)
    BY <2>6, <2>0, NextRowType DEF Fail, EndLease, TypeOK
  <2>7. CASE TooLate(d)
    BY <2>7, NextRowType DEF TooLate, TypeOK
  <2>8. CASE Abort(d)
    <3>1. stray' \subseteq Events \X Versions
      BY <2>8, <2>0 DEF Abort, TypeOK
    <3>2. todo' \in [Drains -> [Events -> 0..MaxVersion]]
      BY <2>8 DEF Abort, TypeOK, Nothing
    <3> QED
      BY <2>8, <3>1, <3>2 DEF Abort, TypeOK
  <2> QED
    BY <1>6, <2>1, <2>2, <2>3, <2>4, <2>5, <2>6, <2>7, <2>8 DEF Drain
<1> QED
  BY <1>1, <1>2, <1>3, <1>4, <1>5, <1>6 DEF Next

LEMMA TypeInvStep == TypeInv /\ [Next]_vars => TypeInv'
BY TypeStep, CurStep DEF TypeInv

LEMMA TypeInvariant == Spec => []TypeInv
<1>1. Init => TypeInv
  BY TypeInit, CurInit DEF TypeInv
<1> QED
  BY <1>1, TypeInvStep, PTL DEF Spec

\* The table, the drains and the index keep their types.
THEOREM Typing == Spec => []TypeOK
<1>1. TypeInv => TypeOK
  BY DEF TypeInv
<1> QED
  BY <1>1, TypeInvariant, PTL

-----------------------------------------------------------------------------
(* Acknowledgements                                                        *)

\* What a drain is about to acknowledge has been written.
WrittenLanded ==
  \A d \in Drains : pc[d] = "written" => <<cur[d], todo[d][cur[d]]>> \in landed

AckInv == WrittenLanded /\ AckIsCurrent

LEMMA AckInit == Init => AckInv
BY DEF Init, AckInv, WrittenLanded, AckIsCurrent

LEMMA AckStep == TypeInv /\ AckInv /\ [Next]_vars => AckInv'
<1> SUFFICES ASSUME TypeOK, CurClaimed, AckInv, [Next]_vars PROVE AckInv'
  BY DEF TypeInv
<1> USE DEF TypeOK, AckInv, row, hand, index
<1>1. CASE UNCHANGED vars
  BY <1>1 DEF vars, WrittenLanded, AckIsCurrent
<1>2. ASSUME NEW e \in Events, Enqueue(e) \/ Expire(e) \/ EndBackoff(e)
      PROVE  AckInv'
  BY <1>2 DEF Enqueue, Expire, EndBackoff, WrittenLanded, AckIsCurrent
<1>3. ASSUME NEW e \in Events, NEW v \in Versions, LandStray(e, v) PROVE AckInv'
  BY <1>3 DEF LandStray, Write, WrittenLanded, AckIsCurrent
<1>4. ASSUME NEW d \in Drains, Drain(d) PROVE AckInv'
  <2>1. ASSUME NEW rows \in SUBSET Events, Claim(d, rows) PROVE AckInv'
    <3>1. pc[d] = "none"
      BY <2>1 DEF Claim, Idle, Nothing, CurClaimed
    <3>2. WrittenLanded'
      BY <2>1, <3>1 DEF Claim, WrittenLanded
    <3>3. AckIsCurrent'
      BY <2>1 DEF Claim, AckIsCurrent
    <3> QED
      BY <3>2, <3>3
  <2>2. ASSUME NEW e \in Events, Deliver(d, e) PROVE AckInv'
    BY <2>2 DEF Deliver, WrittenLanded, AckIsCurrent
  <2>3. CASE Land(d)
    BY <2>3 DEF Land, Write, WrittenLanded, AckIsCurrent
  <2>4. CASE Raise(d)
    BY <2>4 DEF Raise, WrittenLanded, AckIsCurrent
  <2>5. CASE Complete(d) \/ Fail(d) \/ TooLate(d)
    <3>1. cur[d] \in Events
      BY <2>5 DEF CurClaimed, Complete, Fail, TooLate
    <3>2. WrittenLanded'
      BY <2>5 DEF Complete, Fail, TooLate, NextRow, WrittenLanded
    <3>3. AckIsCurrent'
      BY <2>5, <3>1
         DEF Complete, Fail, TooLate, EndLease, Holds, WrittenLanded, AckIsCurrent
    <3> QED
      BY <3>2, <3>3
  <2>6. CASE Abort(d)
    BY <2>6 DEF Abort, WrittenLanded, AckIsCurrent
  <2> QED
    BY <1>4, <2>1, <2>2, <2>3, <2>4, <2>5, <2>6 DEF Drain
<1> QED
  BY <1>1, <1>2, <1>3, <1>4 DEF Next

\* However many drains overtake each other, a completed row names a version
\* that the index has taken.
THEOREM Acknowledged == Spec => []AckIsCurrent
<1>1. AckInv => AckIsCurrent
  BY DEF AckInv
<1> QED
  BY <1>1, AckInit, AckStep, TypeInvariant, PTL DEF Spec
-----------------------------------------------------------------------------
(* The index                                                               *)

\* While nobody was overtaken at row e: whoever has it in hand holds its lease
\* and its current version, and left no write behind.
Holder(e) ==
  \A d \in Drains :
    todo[d][e] # 0 =>
      /\ status[e] = "processing" /\ lease[e] = d /\ todo[d][e] = version[e]
      /\ \A v \in Versions : <<e, v>> \notin stray

\* A write left behind keeps the row leased,
Strays(e) == \A v \in Versions : <<e, v>> \in stray => status[e] = "processing"

\* and what is written or completed is what the index has.
UpToDate(e) ==
  /\ status[e] = "completed" => indexed[e] = version[e]
  /\ \A d \in Drains : pc[d] = "written" /\ cur[d] = e => indexed[e] = version[e]

Sole(e) == Holder(e) /\ Strays(e) /\ UpToDate(e)

SoleInv == \A e \in Events : e \notin overtaken => Sole(e)

LEMMA SoleInit == Init => SoleInv
BY DEF Init, SoleInv, Sole, Holder, Strays, UpToDate, Nothing

\* A row that a step does not concern stays as it is.
LEMMA Untouched ==
  ASSUME NEW e \in Events, Sole(e),
         status'[e] = status[e], version'[e] = version[e], lease'[e] = lease[e],
         indexed'[e] = indexed[e],
         \A d \in Drains :
           /\ todo'[d][e] \in {0, todo[d][e]}
           /\ pc'[d] = "written" /\ cur'[d] = e => pc[d] = "written" /\ cur[d] = e,
         \A v \in Versions : <<e, v>> \in stray' => <<e, v>> \in stray
  PROVE  Sole(e)'
<1>1. Holder(e)'
  BY DEF Sole, Holder
<1>2. Strays(e)'
  BY DEF Sole, Strays
<1>3. UpToDate(e)'
  BY DEF Sole, UpToDate
<1> QED
  BY <1>1, <1>2, <1>3 DEF Sole

\* Once the drain that holds e goes on to its next row, nobody has e in hand.
LEMMA HandedBack ==
  ASSUME TypeOK, NEW d \in Drains, NEW e \in Events, Sole(e),
         cur[d] = e, todo[d][e] # 0, NextRow(d),
         version' = version, indexed' = indexed,
         status'[e] = "completed" => pc[d] = "written"
  PROVE  Sole(e)'
<1>1. \A c \in Drains : todo'[c][e] = 0
  BY DEF NextRow, TypeOK, Sole, Holder
<1>2. \A v \in Versions : <<e, v>> \notin stray'
  BY DEF NextRow, Sole, Holder
<1>3. \A c \in Drains : ~(pc'[c] = "written" /\ cur'[c] = e) \/ indexed[e] = version[e]
  BY DEF NextRow, TypeOK, Sole, UpToDate
<1>4. status'[e] = "completed" => indexed[e] = version[e]
  BY DEF Sole, UpToDate
<1> QED
  BY <1>1, <1>2, <1>3, <1>4 DEF Sole, Holder, Strays, UpToDate

LEMMA SoleStep == TypeInv /\ SoleInv /\ [Next]_vars => SoleInv'
<1> SUFFICES ASSUME TypeOK, CurClaimed, SoleInv, [Next]_vars,
                    NEW e \in Events, e \notin overtaken'
             PROVE  Sole(e)'
  BY DEF TypeInv, SoleInv
<1> USE DEF row, hand, index
<1>0. overtaken \subseteq overtaken'
  <2>1. ASSUME NEW d \in Drains, Drain(d) PROVE overtaken \subseteq overtaken'
    BY <2>1 DEF Drain, Claim, Deliver, Land, Raise, Complete, Fail, TooLate, Abort
  <2> QED
    BY <2>1 DEF Next, vars, Enqueue, Expire, EndBackoff, LandStray
<1>a. Sole(e)
  BY <1>0 DEF SoleInv
<1>1. CASE UNCHANGED vars
  BY <1>1, <1>a, Untouched DEF vars
<1>2. ASSUME NEW f \in Events, Enqueue(f) PROVE Sole(e)'
  <2>1. CASE f # e
    BY <1>2, <2>1, <1>a, Untouched DEF Enqueue, TypeOK
  <2>2. CASE f = e
    <3>1. ~ InHand(e) /\ stray' = stray /\ todo' = todo /\ pc' = pc /\ cur' = cur
      BY <1>2, <2>2 DEF Enqueue, TypeOK
    <3>2. status'[e] = "pending"
      BY <1>2, <2>2 DEF Enqueue, TypeOK
    <3>3. \A d \in Drains : ~(pc[d] = "written" /\ cur[d] = e)
      BY <3>1 DEF InHand, CurClaimed
    <3> QED
      BY <3>1, <3>2, <3>3 DEF InHand, Sole, Holder, Strays, UpToDate
  <2> QED
    BY <2>1, <2>2
<1>3. ASSUME NEW f \in Events, Expire(f) \/ EndBackoff(f) PROVE Sole(e)'
  BY <1>3, <1>a, Untouched DEF Expire, EndBackoff
<1>4. ASSUME NEW f \in Events, NEW v \in Versions, LandStray(f, v) PROVE Sole(e)'
  <2>1. CASE f # e
    BY <1>4, <2>1, <1>a, Untouched DEF LandStray, Write, TypeOK
  <2>2. CASE f = e
    <3>1. <<e, v>> \in stray /\ stray' \subseteq stray
          /\ UNCHANGED <<status, version, lease, todo, pc, cur>>
      BY <1>4, <2>2 DEF LandStray
    <3>2. status[e] = "processing" /\ \A d \in Drains : todo[d][e] = 0
      BY <3>1, <1>a DEF Sole, Holder, Strays
    <3>3. \A d \in Drains : ~(pc[d] = "written" /\ cur[d] = e)
      BY <3>2 DEF CurClaimed
    <3> QED
      BY <3>1, <3>2, <3>3 DEF Sole, Holder, Strays, UpToDate
  <2> QED
    BY <2>1, <2>2
<1>5. ASSUME NEW d \in Drains, Drain(d) PROVE Sole(e)'
  <2>1. ASSUME NEW rows \in SUBSET Events, Claim(d, rows) PROVE Sole(e)'
    <3>1. CASE e \notin rows
      <4>1. \A c \in Drains : todo'[c][e] = todo[c][e]
        BY <2>1, <3>1 DEF Claim, TypeOK, Idle, Nothing
      <4> QED
        BY <2>1, <3>1, <4>1, <1>a, Untouched DEF Claim
    <3>2. CASE e \in rows
      <4>1. ~ InHand(e)
        BY <2>1, <3>2 DEF Claim
      <4>2. /\ status'[e] = "processing" /\ lease'[e] = d
            /\ UNCHANGED <<version, stray, pc, cur>>
        BY <2>1, <3>2 DEF Claim
      <4>3. \A c \in Drains : c # d => todo'[c][e] = 0
        BY <2>1, <4>1 DEF Claim, TypeOK, InHand
      <4>4. todo'[d][e] = version[e]
        BY <2>1, <3>2 DEF Claim, TypeOK
      <4>5. \A c \in Drains : ~(pc[c] = "written" /\ cur[c] = e)
        BY <4>1 DEF InHand, CurClaimed
      <4> QED
        BY <4>1, <4>2, <4>3, <4>4, <4>5 DEF InHand, Sole, Holder, Strays, UpToDate
    <3> QED
      BY <3>1, <3>2
  <2>2. ASSUME NEW f \in Events, Deliver(d, f) PROVE Sole(e)'
    <3>1. \A c \in Drains :
            pc'[c] = "written" /\ cur'[c] = e => pc[c] = "written" /\ cur[c] = e
      BY <2>2 DEF Deliver, TypeOK
    <3> QED
      BY <2>2, <3>1, <1>a, Untouched DEF Deliver
  <2>3. CASE Land(d)
    <3>0. cur[d] \in Events /\ todo[d][cur[d]] # 0
      BY <2>3 DEF Land, CurClaimed
    <3>1. CASE cur[d] # e
      <4>1. indexed'[e] = indexed[e]
        BY <2>3, <3>1, <3>0 DEF Land, Write, TypeOK
      <4>2. \A c \in Drains :
              pc'[c] = "written" /\ cur'[c] = e => pc[c] = "written" /\ cur[c] = e
        BY <2>3, <3>1 DEF Land, TypeOK
      <4> QED
        BY <2>3, <4>1, <4>2, <1>a, Untouched DEF Land
    <3>2. CASE cur[d] = e
      <4>1. status[e] = "processing" /\ todo[d][e] = version[e]
        BY <3>0, <3>2, <1>a DEF Sole, Holder
      <4>2. indexed'[e] = version[e]
        BY <2>3, <3>2, <4>1 DEF Land, Write, TypeOK
      <4>3. UNCHANGED <<status, version, lease, todo, stray>>
        BY <2>3 DEF Land
      <4>4. Holder(e)' /\ Strays(e)'
        BY <4>3, <1>a DEF Sole, Holder, Strays
      <4>5. UpToDate(e)'
        BY <4>1, <4>2, <4>3 DEF UpToDate
      <4> QED
        BY <4>4, <4>5 DEF Sole
    <3> QED
      BY <3>1, <3>2
  <2>4. CASE Raise(d)
    <3>1. \A c \in Drains : pc'[c] = "written" => pc[c] = "written"
      BY <2>4 DEF Raise, TypeOK
    <3> QED
      BY <2>4, <3>1, <1>a, Untouched DEF Raise
  <2>5. CASE Complete(d) \/ Fail(d) \/ TooLate(d)
    <3>0. cur[d] \in Events /\ todo[d][cur[d]] # 0
      BY <2>5 DEF Complete, Fail, TooLate, CurClaimed
    <3>1. CASE cur[d] # e
      <4>1. status'[e] = status[e] /\ lease'[e] = lease[e]
        BY <2>5, <3>1, <3>0 DEF Complete, Fail, TooLate, EndLease, TypeOK
      <4>2. \A c \in Drains : todo'[c][e] = todo[c][e]
        BY <2>5, <3>1, <3>0 DEF Complete, Fail, TooLate, NextRow, TypeOK
      <4>3. \A c \in Drains : pc'[c] = "written" => pc[c] = "written" /\ cur'[c] = cur[c]
        BY <2>5 DEF Complete, Fail, TooLate, NextRow, TypeOK
      <4>4. UNCHANGED <<version, indexed, stray>>
        BY <2>5 DEF Complete, Fail, TooLate, NextRow
      <4> QED
        BY <4>1, <4>2, <4>3, <4>4, <1>a, Untouched
    <3>2. CASE cur[d] = e
      <4>1. status'[e] = "completed" => pc[d] = "written"
        BY <2>5, <3>0, <3>2, <1>a
           DEF Complete, Fail, TooLate, EndLease, TypeOK, Sole, Holder
      <4> QED
        BY <2>5, <3>0, <3>2, <4>1, <1>a, HandedBack DEF Complete, Fail, TooLate
    <3> QED
      BY <3>1, <3>2
  <2>6. CASE Abort(d)
    <3>1. \A c \in Drains :
            /\ todo'[c][e] = IF c = d THEN 0 ELSE todo[c][e]
            /\ pc'[c] = "written" => pc[c] = "written" /\ cur'[c] = cur[c]
      BY <2>6 DEF Abort, TypeOK, Nothing
    <3>2. UNCHANGED <<status, version, lease, indexed>>
      BY <2>6 DEF Abort
    <3>3. CASE stray' = stray \/ cur[d] # e
      <4>1. \A v \in Versions : <<e, v>> \in stray' => <<e, v>> \in stray
        BY <2>6, <3>3 DEF Abort
      <4> QED
        BY <3>1, <3>2, <4>1, <1>a, Untouched
    <3>4. CASE stray' # stray /\ cur[d] = e
      <4>1. todo[d][e] # 0
        BY <2>6, <3>4 DEF Abort, CurClaimed
      <4>2. status[e] = "processing" /\ \A c \in Drains : c # d => todo[c][e] = 0
        BY <4>1, <1>a DEF Sole, Holder
      <4>3. UpToDate(e)'
        BY <3>1, <3>2, <1>a DEF Sole, UpToDate
      <4> QED
        BY <3>1, <3>2, <4>2, <4>3 DEF Sole, Holder, Strays
    <3> QED
      BY <3>3, <3>4
  <2> QED
    BY <1>5, <2>1, <2>2, <2>3, <2>4, <2>5, <2>6 DEF Drain
<1> QED
  BY <1>1, <1>2, <1>3, <1>4, <1>5 DEF Next

\* Failures, retries, cancellations and late threads leave the index stale only
\* at rows that were replaced or claimed again while somebody had them in hand.
THEOREM Staleness == Spec => []StaleMeansOvertaken
<1>1. SoleInv => StaleMeansOvertaken
  BY DEF SoleInv, StaleMeansOvertaken, Sole, UpToDate
<1> QED
  BY <1>1, SoleInit, SoleStep, TypeInvariant, PTL DEF Spec

=============================================================================
