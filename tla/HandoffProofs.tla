--------------------------- MODULE HandoffProofs ----------------------------
(* Theorems about Handoff, for any number of calls, workers and faults.    *)
EXTENDS Handoff, FiniteSetTheorems, SequenceTheorems, TLAPS

\* A table of call records, whatever their fields hold.
Records(cs) ==
  /\ cs = [c \in Calls |-> cs[c]]
  /\ \A c \in Calls :
       cs[c] = [at |-> cs[c].at, new |-> cs[c].new, old |-> cs[c].old, ver |-> cs[c].ver,
                fut |-> cs[c].fut, lock |-> cs[c].lock, via |-> cs[c].via]

Shape ==
  /\ Records(call)
  /\ held \in [Calls -> Calls \cup {None}]
  /\ registry \in Calls \cup {None}
  /\ pending \in Calls \cup {None}

InSection(c) == At(c) \in {"writing", "written"}
Uses(c) == At(c) = "locking" \/ InSection(c)
Handing(c) == At(c) \in {"sending", "closing", "waiting"}

Users == {c \in Calls : Uses(c)}

\* The count is right, so the registry forgets a lock object only when nobody
\* uses it: all users share the registered one.
Counted == users = Cardinality(Users)
OneLock == \A c \in Calls : Uses(c) => call[c].lock = registry /\ registry \in Calls

\* Who is in the section holds its lock object, and only such calls do.
Held ==
  /\ \A c \in Calls : InSection(c) => held[call[c].lock] = c
  /\ \A l \in Calls : held[l] # None => InSection(held[l]) /\ call[held[l]].lock = l

LockInv == Shape /\ Counted /\ OneLock /\ Held

\* A future that is not resolved is the one in _pending_handoffs, and there is
\* none while a call is in the section.
Pending ==
  /\ \A c \in Calls : Handing(c) /\ call[c].fut = "unset" => pending = c
  /\ \A c \in Calls : InSection(c) => pending = None

-----------------------------------------------------------------------------
(* What the steps do to the records.                                       *)

\* Call d is as far as it was.
Same(d) == call'[d].at = call[d].at /\ call'[d].lock = call[d].lock

\* Two records that differ at most in their futures.
Alike(r, q) ==
  /\ r.at = q.at /\ r.new = q.new /\ r.old = q.old /\ r.ver = q.ver
  /\ r.lock = q.lock /\ r.via = q.via

LEMMA ResolveRecords ==
  ASSUME NEW cs, Records(cs), NEW c \in Calls, NEW f
  PROVE  /\ Records(Resolve(cs, c, f))
         /\ \A d \in Calls :
              /\ Resolve(cs, c, f)[d].fut = IF d = c /\ cs[d].fut = "unset" THEN f
                                            ELSE cs[d].fut
              /\ Alike(Resolve(cs, c, f)[d], cs[d])
<1>1. Records(Resolve(cs, c, f))
  BY DEF Records, Resolve
<1> QED
  BY <1>1 DEF Records, Resolve, Alike

\* One field of one record at a time.
WithAt(cs, c, v) == [cs EXCEPT ![c].at = v]
WithFut(cs, c, v) == [cs EXCEPT ![c].fut = v]
WithLock(cs, c, v) == [cs EXCEPT ![c].lock = v]
WithNew(cs, c, v) == [cs EXCEPT ![c].new = v]
WithOld(cs, c, v) == [cs EXCEPT ![c].old = v]
WithVer(cs, c, v) == [cs EXCEPT ![c].ver = v]
WithVia(cs, c, v) == [cs EXCEPT ![c].via = v]

LEMMA SetAt ==
  ASSUME NEW cs, Records(cs), NEW c \in Calls, NEW v
  PROVE  /\ Records(WithAt(cs, c, v))
         /\ WithAt(cs, c, v)[c].at = v
         /\ WithAt(cs, c, v)[c].new = cs[c].new /\ WithAt(cs, c, v)[c].old = cs[c].old
         /\ WithAt(cs, c, v)[c].ver = cs[c].ver /\ WithAt(cs, c, v)[c].fut = cs[c].fut
         /\ WithAt(cs, c, v)[c].lock = cs[c].lock /\ WithAt(cs, c, v)[c].via = cs[c].via
         /\ \A d \in Calls \ {c} : WithAt(cs, c, v)[d] = cs[d]
<1>1. Records(WithAt(cs, c, v))
  BY DEF Records, WithAt
<1>2. \A d \in Calls \ {c} : WithAt(cs, c, v)[d] = cs[d]
  BY DEF Records, WithAt
<1> QED
  BY <1>1, <1>2 DEF Records, WithAt

LEMMA SetFut ==
  ASSUME NEW cs, Records(cs), NEW c \in Calls, NEW v
  PROVE  /\ Records(WithFut(cs, c, v))
         /\ WithFut(cs, c, v)[c].fut = v
         /\ WithFut(cs, c, v)[c].at = cs[c].at /\ WithFut(cs, c, v)[c].new = cs[c].new
         /\ WithFut(cs, c, v)[c].old = cs[c].old /\ WithFut(cs, c, v)[c].ver = cs[c].ver
         /\ WithFut(cs, c, v)[c].lock = cs[c].lock /\ WithFut(cs, c, v)[c].via = cs[c].via
         /\ \A d \in Calls \ {c} : WithFut(cs, c, v)[d] = cs[d]
<1>1. Records(WithFut(cs, c, v))
  BY DEF Records, WithFut
<1>2. \A d \in Calls \ {c} : WithFut(cs, c, v)[d] = cs[d]
  BY DEF Records, WithFut
<1> QED
  BY <1>1, <1>2 DEF Records, WithFut

LEMMA SetLock ==
  ASSUME NEW cs, Records(cs), NEW c \in Calls, NEW v
  PROVE  /\ Records(WithLock(cs, c, v))
         /\ WithLock(cs, c, v)[c].lock = v
         /\ WithLock(cs, c, v)[c].at = cs[c].at /\ WithLock(cs, c, v)[c].new = cs[c].new
         /\ WithLock(cs, c, v)[c].old = cs[c].old /\ WithLock(cs, c, v)[c].ver = cs[c].ver
         /\ WithLock(cs, c, v)[c].fut = cs[c].fut /\ WithLock(cs, c, v)[c].via = cs[c].via
         /\ \A d \in Calls \ {c} : WithLock(cs, c, v)[d] = cs[d]
<1>1. Records(WithLock(cs, c, v))
  BY DEF Records, WithLock
<1>2. \A d \in Calls \ {c} : WithLock(cs, c, v)[d] = cs[d]
  BY DEF Records, WithLock
<1> QED
  BY <1>1, <1>2 DEF Records, WithLock

LEMMA SetNew ==
  ASSUME NEW cs, Records(cs), NEW c \in Calls, NEW v
  PROVE  /\ Records(WithNew(cs, c, v))
         /\ WithNew(cs, c, v)[c].new = v
         /\ WithNew(cs, c, v)[c].at = cs[c].at /\ WithNew(cs, c, v)[c].old = cs[c].old
         /\ WithNew(cs, c, v)[c].ver = cs[c].ver /\ WithNew(cs, c, v)[c].fut = cs[c].fut
         /\ WithNew(cs, c, v)[c].lock = cs[c].lock /\ WithNew(cs, c, v)[c].via = cs[c].via
         /\ \A d \in Calls \ {c} : WithNew(cs, c, v)[d] = cs[d]
<1>1. Records(WithNew(cs, c, v))
  BY DEF Records, WithNew
<1>2. \A d \in Calls \ {c} : WithNew(cs, c, v)[d] = cs[d]
  BY DEF Records, WithNew
<1> QED
  BY <1>1, <1>2 DEF Records, WithNew

LEMMA SetOld ==
  ASSUME NEW cs, Records(cs), NEW c \in Calls, NEW v
  PROVE  /\ Records(WithOld(cs, c, v))
         /\ WithOld(cs, c, v)[c].old = v
         /\ WithOld(cs, c, v)[c].at = cs[c].at /\ WithOld(cs, c, v)[c].new = cs[c].new
         /\ WithOld(cs, c, v)[c].ver = cs[c].ver /\ WithOld(cs, c, v)[c].fut = cs[c].fut
         /\ WithOld(cs, c, v)[c].lock = cs[c].lock /\ WithOld(cs, c, v)[c].via = cs[c].via
         /\ \A d \in Calls \ {c} : WithOld(cs, c, v)[d] = cs[d]
<1>1. Records(WithOld(cs, c, v))
  BY DEF Records, WithOld
<1>2. \A d \in Calls \ {c} : WithOld(cs, c, v)[d] = cs[d]
  BY DEF Records, WithOld
<1> QED
  BY <1>1, <1>2 DEF Records, WithOld

LEMMA SetVer ==
  ASSUME NEW cs, Records(cs), NEW c \in Calls, NEW v
  PROVE  /\ Records(WithVer(cs, c, v))
         /\ WithVer(cs, c, v)[c].ver = v
         /\ WithVer(cs, c, v)[c].at = cs[c].at /\ WithVer(cs, c, v)[c].new = cs[c].new
         /\ WithVer(cs, c, v)[c].old = cs[c].old /\ WithVer(cs, c, v)[c].fut = cs[c].fut
         /\ WithVer(cs, c, v)[c].lock = cs[c].lock /\ WithVer(cs, c, v)[c].via = cs[c].via
         /\ \A d \in Calls \ {c} : WithVer(cs, c, v)[d] = cs[d]
<1>1. Records(WithVer(cs, c, v))
  BY DEF Records, WithVer
<1>2. \A d \in Calls \ {c} : WithVer(cs, c, v)[d] = cs[d]
  BY DEF Records, WithVer
<1> QED
  BY <1>1, <1>2 DEF Records, WithVer

LEMMA SetVia ==
  ASSUME NEW cs, Records(cs), NEW c \in Calls, NEW v
  PROVE  /\ Records(WithVia(cs, c, v))
         /\ WithVia(cs, c, v)[c].via = v
         /\ WithVia(cs, c, v)[c].at = cs[c].at /\ WithVia(cs, c, v)[c].new = cs[c].new
         /\ WithVia(cs, c, v)[c].old = cs[c].old /\ WithVia(cs, c, v)[c].ver = cs[c].ver
         /\ WithVia(cs, c, v)[c].fut = cs[c].fut /\ WithVia(cs, c, v)[c].lock = cs[c].lock
         /\ \A d \in Calls \ {c} : WithVia(cs, c, v)[d] = cs[d]
<1>1. Records(WithVia(cs, c, v))
  BY DEF Records, WithVia
<1>2. \A d \in Calls \ {c} : WithVia(cs, c, v)[d] = cs[d]
  BY DEF Records, WithVia
<1> QED
  BY <1>1, <1>2 DEF Records, WithVia

\* A connection that is dropped takes the handoff that waits for it along.
LEMMA DropEffect ==
  ASSUME Shape, NEW w, NEW n, Drop(w, n)
  PROVE  /\ registry' = registry \/ (users = 0 /\ registry' = None)
         /\ pending' = pending \/ pending' = None
         /\ Records(DropCall(w, n))
         /\ \A d \in Calls :
              /\ Alike(DropCall(w, n)[d], call[d])
              /\ DropCall(w, n)[d].fut \in {call[d].fut, "gone"}
              /\ DropCall(w, n)[d].fut = "unset" =>
                   call[d].fut = "unset" /\ (pending = d => pending' = d)
<1>1. CASE link[w] = n /\ pending # None /\ call[pending].old = w
  <2>1. DropCall(w, n) = Resolve(call, pending, "gone") /\ pending \in Calls
    BY <1>1 DEF DropCall, Shape
  <2>2. pending' = None /\ (registry' = registry \/ (users = 0 /\ registry' = None))
    BY <1>1 DEF Drop
  <2> QED
    BY <2>1, <2>2, ResolveRecords DEF Shape, Alike
<1>2. CASE ~(link[w] = n /\ pending # None /\ call[pending].old = w)
  <2>1. DropCall(w, n) = call
    BY <1>2 DEF DropCall
  <2>2. pending' = pending /\ (registry' = registry \/ (users = 0 /\ registry' = None))
    BY <1>2 DEF Drop
  <2> QED
    BY <2>1, <2>2 DEF Shape, Alike
<1> QED
  BY <1>1, <1>2

\* A reassign supersedes the handoff in progress.
LEMMA SupersedeRecords ==
  ASSUME Shape, NEW cs, Records(cs)
  PROVE  /\ Records(Supersede(cs))
         /\ \A d \in Calls :
              /\ Alike(Supersede(cs)[d], cs[d])
              /\ Supersede(cs)[d].fut \in {cs[d].fut, "cancelled"}
              /\ Supersede(cs)[d].fut = "unset" => cs[d].fut = "unset" /\ pending # d
  BY ResolveRecords, NoneAssumption DEF Shape, Supersede, Alike

-----------------------------------------------------------------------------
(* The lock objects.                                                       *)

LEMMA UsersFinite == IsFiniteSet(Users) /\ (Counted /\ users = 0 => Users = {})
<1>1. IsFiniteSet(Users)
  BY CallsAssumption, FS_Subset DEF Users
<1> QED
  BY <1>1, FS_EmptySet DEF Counted

\* A step in which nobody enters or leaves the section or its queue.
LEMMA NobodyMoves ==
  ASSUME LockInv, Shape',
         \A d \in Calls :
           /\ Uses(d)' <=> Uses(d)
           /\ InSection(d)' <=> InSection(d)
           /\ call'[d].lock = call[d].lock,
         users' = users, held' = held,
         registry' = registry \/ (users = 0 /\ registry' = None)
  PROVE  LockInv'
<1>1. Users' = Users
  BY DEF Users
<1>2. Counted'
  BY <1>1 DEF LockInv, Counted
<1>3. OneLock'
  <2>1. CASE registry' = registry
    BY <2>1 DEF LockInv, OneLock
  <2>2. CASE users = 0
    BY <2>2, UsersFinite DEF LockInv, Users, OneLock
  <2> QED
    BY <2>1, <2>2
<1>4. Held'
  BY DEF LockInv, Held, Shape
<1> QED
  BY <1>2, <1>3, <1>4 DEF LockInv

\* The end of the section of call c.
LEMMA Leaving ==
  ASSUME LockInv, Shape', NEW c \in Calls, InSection(c),
         LeaveLock(c), ~Uses(c)', \A d \in Calls \ {c} : Same(d),
         registry' = registry \/ (users' = 0 /\ registry' = None)
  PROVE  LockInv'
<1>1. Users' = Users \ {c} /\ c \in Users
  BY DEF Users, Uses, InSection, At, Same
<1>2. Counted'
  BY <1>1, UsersFinite, FS_RemoveElement DEF LockInv, Counted, LeaveLock
<1>3. OneLock'
  <2>1. CASE registry' = registry
    BY <2>1 DEF LockInv, OneLock, Uses, InSection, At, Same
  <2>2. CASE users' = 0
    <3>1. Users' = {}
      BY <2>2, <1>1, <1>2, UsersFinite, FS_RemoveElement, FS_EmptySet DEF Counted
    <3> QED
      BY <3>1 DEF Users, OneLock
  <2> QED
    BY <2>1, <2>2
<1>4. Held'
  <2>1. call[c].lock \in Calls /\ held[call[c].lock] = c
    BY DEF LockInv, OneLock, Held, Uses
  <2>2. \A d \in Calls : InSection(d)' => d # c /\ InSection(d) /\ call'[d].lock = call[d].lock
    BY DEF Uses, InSection, At, Same
  <2>3. \A d \in Calls \ {c} : InSection(d) => InSection(d)' /\ call'[d].lock = call[d].lock
    BY DEF InSection, At, Same
  <2>4. \A d \in Calls : held'[d] = IF d = call[c].lock THEN None ELSE held[d]
    BY <2>1 DEF LeaveLock, LockInv, Shape
  <2>5. \A d \in Calls : InSection(d)' => held'[call'[d].lock] = d
    BY <2>1, <2>2, <2>4 DEF LockInv, OneLock, Held, Uses
  <2>6. ASSUME NEW l \in Calls, NEW d \in Calls, held'[l] = d
        PROVE  InSection(d)' /\ call'[d].lock = l
    <3>1. l # call[c].lock /\ held[l] = d
      BY <2>4, <2>6, NoneAssumption
    <3>2. InSection(d) /\ call[d].lock = l /\ d # c
      BY <3>1, NoneAssumption DEF LockInv, Held
    <3> QED
      BY <2>3, <3>2
  <2>7. \A l \in Calls : held'[l] # None => held'[l] \in Calls
    BY DEF Shape
  <2> QED
    BY <2>5, <2>6, <2>7 DEF Held
<1> QED
  BY <1>2, <1>3, <1>4 DEF LockInv

\* A call enters the section with lock object cs[c].lock.
LEMMA Entering ==
  ASSUME LockInv, NEW c \in Calls, NEW cs, Records(cs), BeginSection(c, cs),
         \A d \in Calls \ {c} : cs[d].at = call[d].at /\ cs[d].lock = call[d].lock,
         ~InSection(c), cs[c].lock \in Calls, held[cs[c].lock] = None,
         \A d \in Calls \ {c} : Uses(d) => call[d].lock = cs[c].lock,
         registry' = cs[c].lock, users' = Cardinality(Users \cup {c})
  PROVE  LockInv'
<1> DEFINE l == cs[c].lock
<1>1. /\ Records(call')
      /\ call'[c].at = "writing" /\ call'[c].lock = l
      /\ \A d \in Calls \ {c} : Same(d)
  <2>1. Records(Supersede(cs))
    BY SupersedeRecords DEF LockInv
  <2>2. call' = WithVer(WithAt(Supersede(cs), c, "writing"), c, version + 1)
    BY DEF BeginSection, WithVer, WithAt
  <2> QED
    BY <2>1, <2>2, SetAt, SetVer, SupersedeRecords DEF LockInv, Same, Alike
<1>2. Shape'
  BY <1>1 DEF LockInv, Shape, BeginSection
<1>3. Users' = Users \cup {c}
  BY <1>1 DEF Users, Uses, InSection, At, Same
<1>4. Counted'
  BY <1>3 DEF Counted
<1>5. OneLock'
  BY <1>1 DEF OneLock, Uses, InSection, At, Same
<1>6. Held'
  <2>1. \A d \in Calls : held'[d] = IF d = l THEN c ELSE held[d]
    BY DEF BeginSection, LockInv, Shape
  <2>2. \A d \in Calls \ {c} : ~InSection(d)
    BY NoneAssumption DEF LockInv, Held, Uses
  <2>3. \A d \in Calls \ {l} : held[d] = None
    BY <2>2 DEF LockInv, Held, Shape
  <2> QED
    BY <1>1, <2>1, <2>2, <2>3 DEF Held, InSection, At, Same
<1> QED
  BY <1>2, <1>4, <1>5, <1>6 DEF LockInv

\* A call of reassign_group begins: at once, or after those before it.
LEMMA EnterStep ==
  ASSUME LockInv, NEW c \in Calls, NEW w \in Workers, Enter(c, w)
  PROVE  LockInv'
<1> DEFINE l == IF registry = None THEN c ELSE registry
           cs == [call EXCEPT ![c].new = w, ![c].lock = l]
<1>1. /\ Records(cs) /\ cs[c].lock = l /\ l \in Calls
      /\ \A d \in Calls \ {c} : cs[d] = call[d]
  <2>1. cs = WithLock(WithNew(call, c, w), c, l)
    BY DEF WithLock, WithNew
  <2>2. l \in Calls
    BY DEF LockInv, Shape
  <2> HIDE DEF l, cs
  <2> QED
    BY <2>1, <2>2, SetLock, SetNew DEF LockInv, Shape
<1>2. ~Uses(c) /\ ~InSection(c)
  BY DEF Enter, LockObject, Uses, InSection, At
<1>3. \A d \in Calls \ {c} : Uses(d) => call[d].lock = l
  BY NoneAssumption DEF LockInv, OneLock
<1>4. registry' = l
  BY DEF Enter, LockObject
<1>5. users' = Cardinality(Users \cup {c})
  <2>1. c \notin Users
    BY <1>2 DEF Users
  <2>2. Cardinality(Users \cup {c}) = Cardinality(Users) + 1
    BY <2>1, UsersFinite, FS_AddElement
  <2> QED
    BY <2>2 DEF Enter, LockObject, LockInv, Counted
<1>6. CASE Uncontended(l)
  <2>1. BeginSection(c, cs)
    BY <1>6 DEF Enter, LockObject
  <2> HIDE DEF l, cs
  <2> QED
    BY <1>1, <1>2, <1>3, <1>4, <1>5, <1>6, <2>1, Entering DEF Uncontended
<1>7. CASE ~Uncontended(l)
  <2>1. /\ call' = [cs EXCEPT ![c].at = "locking"]
        /\ UNCHANGED <<version, pending, held, order>>
    BY <1>7 DEF Enter, LockObject
  <2> HIDE DEF l, cs
  <2>2. /\ Records(call')
        /\ call'[c].at = "locking" /\ call'[c].lock = l
        /\ \A d \in Calls \ {c} : Same(d)
    <3>1. call' = WithAt(cs, c, "locking")
      BY <2>1 DEF WithAt
    <3> QED
      BY <1>1, <3>1, SetAt DEF Same
  <2>3. Shape'
    BY <1>1, <1>4, <2>1, <2>2 DEF LockInv, Shape
  <2>4. Users' = Users \cup {c}
    BY <2>2 DEF Users, Uses, InSection, At, Same
  <2>5. Counted'
    BY <1>5, <2>4 DEF Counted
  <2>6. OneLock'
    BY <1>1, <1>3, <1>4, <2>2 DEF OneLock, Uses, InSection, At, Same
  <2>7. Held'
    <3>1. \A d \in Calls : InSection(d)' <=> InSection(d)
      BY <1>2, <2>2 DEF InSection, At, Same
    <3>2. \A d \in Calls : InSection(d) => call'[d].lock = call[d].lock
      BY <1>2, <2>2 DEF Same
    <3>3. held' = held /\ \A m \in Calls : held[m] # None => held[m] \in Calls
      BY <2>1 DEF LockInv, Shape
    <3> QED
      BY <3>1, <3>2, <3>3 DEF LockInv, Held
  <2> QED
    BY <2>3, <2>5, <2>6, <2>7 DEF LockInv
<1> QED
  BY <1>6, <1>7

\* A step of call c outside its queue and its way out of the section.
LEMMA Working ==
  ASSUME LockInv, NEW c \in Calls, NEW a, NEW cs, Records(cs),
         \A d \in Calls : cs[d].at = call[d].at /\ cs[d].lock = call[d].lock,
         call' = WithAt(cs, c, a),
         \/ InSection(c) /\ a \in {"writing", "written"}
         \/ ~Uses(c) /\ a \notin {"locking", "writing", "written"},
         users' = users, held' = held, pending' \in Calls \cup {None},
         registry' = registry \/ (users = 0 /\ registry' = None)
  PROVE  LockInv'
<1>1. /\ Records(call') /\ call'[c].at = a /\ call'[c].lock = call[c].lock
      /\ \A d \in Calls \ {c} : Same(d)
  BY SetAt DEF Same
<1>2. Shape'
  BY <1>1 DEF LockInv, Shape
<1>3. \A d \in Calls : /\ Uses(d)' <=> Uses(d)
                       /\ InSection(d)' <=> InSection(d)
                       /\ call'[d].lock = call[d].lock
  BY <1>1 DEF Uses, InSection, At, Same
<1> QED
  BY <1>2, <1>3, NobodyMoves

\* The section is over: the call is done, or starts a handoff.
LEMMA LeavingStep ==
  ASSUME LockInv, NEW c \in Calls, FailDb(c) \/ Direct(c) \/ StartHandoff(c)
  PROVE  LockInv'
<1>1. InSection(c) /\ LeaveLock(c)
  BY DEF FailDb, Direct, StartHandoff, InSection
<1>2. registry' = registry \/ (users' = 0 /\ registry' = None)
  BY DEF FailDb, Direct, StartHandoff, ForgetLock, FinishVersion
<1>3. pending' \in Calls \cup {None} /\ held' \in [Calls -> Calls \cup {None}]
  BY <1>1 DEF FailDb, Direct, StartHandoff, LeaveLock, LockInv, Shape
<1>4. /\ Records(call') /\ call'[c].at \in {"done", "sending"}
      /\ \A d \in Calls \ {c} : Same(d)
  <2>1. CASE FailDb(c) \/ Direct(c)
    <3>1. call' = WithAt(call, c, "done")
      BY <2>1 DEF FailDb, Direct, WithAt
    <3> QED
      BY <3>1, SetAt DEF LockInv, Shape, Same
  <2>2. CASE StartHandoff(c)
    <3>1. call' = WithVia(WithOld(WithFut(WithAt(call, c, "sending"), c, "unset"), c, route),
                          c, link[route])
      BY <2>2 DEF StartHandoff, WithVia, WithOld, WithFut, WithAt
    <3> QED
      BY <3>1, SetAt, SetFut, SetOld, SetVia DEF LockInv, Shape, Same
  <2> QED
    BY <2>1, <2>2
<1>5. Shape'
  BY <1>2, <1>3, <1>4 DEF LockInv, Shape
<1>6. ~Uses(c)'
  BY <1>4 DEF Uses, InSection, At
<1> QED
  BY <1>1, <1>2, <1>4, <1>5, <1>6, Leaving

LEMMA LockInvStep ==
  ASSUME LockInv, Next
  PROVE  LockInv'
<1>1. ASSUME NEW c \in Calls, NEW w \in Workers, Enter(c, w) PROVE LockInv'
  BY <1>1, EnterStep
<1>2. ASSUME NEW c \in Calls, Acquire(c) PROVE LockInv'
  <2>1. Uses(c) /\ ~InSection(c) /\ BeginSection(c, call) /\ held[call[c].lock] = None
    BY <1>2 DEF Acquire, Uses, InSection
  <2>2. users' = Cardinality(Users \cup {c})
    <3>1. Users \cup {c} = Users
      BY <2>1 DEF Users
    <3> QED
      BY <1>2, <3>1 DEF Acquire, LockInv, Counted
  <2>3. registry' = call[c].lock
    BY <1>2, <2>1 DEF Acquire, LockInv, OneLock
  <2>4. Records(call)
    BY DEF LockInv, Shape
  <2> QED
    BY <2>1, <2>2, <2>3, <2>4, Entering DEF LockInv, OneLock
<1>3. ASSUME NEW c \in Calls, WriteDb(c) PROVE LockInv'
  <2>1. call' = WithAt(call, c, "written")
    BY <1>3 DEF WriteDb, WithAt
  <2> QED
    BY <1>3, <2>1, Working DEF WriteDb, InSection, maps, LockInv, Shape
<1>4. ASSUME NEW c \in Calls, FailDb(c) \/ Direct(c) \/ StartHandoff(c) PROVE LockInv'
  BY <1>4, LeavingStep
<1>5. ASSUME NEW c \in Calls, SendRelease(c) PROVE LockInv'
  <2>1. call' = WithAt(call, c, "waiting")
    BY <1>5 DEF SendRelease, WithAt
  <2> QED
    BY <1>5, <2>1, Working DEF SendRelease, Uses, InSection, maps, LockInv, Shape
<1>6. ASSUME NEW c \in Calls, FailRelease(c) PROVE LockInv'
  <2>1. call' = WithAt(DropCall(call[c].old, call[c].via), c, "closing")
    BY <1>6 DEF FailRelease, WithAt
  <2>2. Drop(call[c].old, call[c].via) /\ ~Uses(c) /\ users' = users /\ held' = held
    BY <1>6 DEF FailRelease, Uses, InSection
  <2> QED
    BY <2>1, <2>2, DropEffect, Working DEF LockInv, Shape, Alike
<1>7. ASSUME NEW c \in Calls, Timeout(c) PROVE LockInv'
  <2>1. call' = WithFut(call, c, "expired")
    BY <1>7 DEF Timeout, WithFut
  <2>2. Records(call') /\ \A d \in Calls : Same(d)
    BY <2>1, SetFut DEF LockInv, Shape, Same
  <2> QED
    BY <1>7, <2>2, NobodyMoves
    DEF Timeout, maps, LockInv, Shape, Uses, InSection, At, Same
<1>8. ASSUME NEW c \in Calls, EndHandoff(c) PROVE LockInv'
  <2>1. call' = WithAt(call, c, "done")
    BY <1>8 DEF EndHandoff, WithAt
  <2>2. /\ ~Uses(c) /\ users' = users /\ held' = held
        /\ pending' \in {pending, None}
        /\ registry' = registry \/ (users = 0 /\ registry' = None)
    BY <1>8 DEF EndHandoff, FinishVersion, Uses, InSection
  <2> QED
    BY <2>1, <2>2, Working DEF LockInv, Shape
<1>9. CASE Cleanup
  <2>1. /\ call' = call /\ users' = users /\ held' = held /\ pending' = pending
        /\ registry' = registry \/ (users = 0 /\ registry' = None)
    BY <1>9 DEF Cleanup
  <2> QED
    BY <2>1, NobodyMoves DEF LockInv, Shape, Uses, InSection, At
<1>10. ASSUME NEW w, NEW n, Drop(w, n), call' = DropCall(w, n), users' = users, held' = held
       PROVE  LockInv'
  BY <1>10, DropEffect, NobodyMoves DEF LockInv, Shape, Uses, InSection, At, Alike
<1>11. ASSUME NEW w \in Workers, DeliverAck(w) PROVE LockInv'
  <2>1. /\ Records(call')
        /\ \A d \in Calls : Same(d)
    BY <1>11, ResolveRecords, NoneAssumption DEF DeliverAck, LockInv, Shape, Same, Alike
  <2> QED
    BY <1>11, <2>1, NobodyMoves DEF DeliverAck, maps, LockInv, Shape, Uses, InSection, At, Same
<1>12. ASSUME UNCHANGED <<registry, users, pending, held, call>> PROVE LockInv'
  BY <1>12 DEF LockInv, Shape, Counted, Users, OneLock, Held, Uses, InSection, At
<1>13. ASSUME NEW s \in Senders, StartSend(s) \/ AdvanceSender(s) PROVE LockInv'
  <2>1. CASE FailFrame(s)
    BY <2>1, <1>10 DEF FailFrame
  <2>2. CASE ~FailFrame(s)
    BY <1>13, <2>2, <1>12
    DEF StartSend, AdvanceSender, ReadAssignment, CacheRoute, SendFrame, EndSend, maps
  <2> QED
    BY <2>1, <2>2
<1>14. ASSUME NEW w \in Workers, AdvanceWorker(w) \/ Boot(w) \/ Crash(w) \/ Connect(w)
       PROVE  LockInv'
  <2>1. CASE DeliverAck(w)
    BY <2>1, <1>11
  <2>2. CASE Disconnect(w)
    BY <2>2, <1>10 DEF Disconnect
  <2>3. CASE ~DeliverAck(w) /\ ~Disconnect(w)
    BY <1>14, <2>3, <1>12
    DEF AdvanceWorker, HandleRelease, HandleFrame, RefuseFrame, Boot, ListGroups, HydrateListed, Crash, Connect, maps
  <2> QED
    BY <2>1, <2>2, <2>3
<1>15. CASE Finished
  BY <1>15, <1>12 DEF Finished, vars, maps
<1> QED
  BY <1>1, <1>2, <1>3, <1>4, <1>5, <1>6, <1>7, <1>8, <1>9, <1>13, <1>14, <1>15
  DEF Next, AdvanceCall, FaultyCall

LEMMA LockInvInit == Init => LockInv
<1> SUFFICES ASSUME Init PROVE LockInv
  OBVIOUS
<1>1. Shape
  BY DEF Init, Shape, Records
<1>2. \A c \in Calls : ~Uses(c) /\ ~InSection(c)
  BY DEF Init, Uses, InSection, At
<1>3. Counted
  BY <1>2, FS_EmptySet DEF Init, Counted, Users
<1> QED
  BY <1>1, <1>2, <1>3 DEF Init, LockInv, OneLock, Held

LEMMA LockInvExcludes == LockInv => OneWriter
  BY DEF LockInv, OneLock, Held, OneWriter, Uses, InSection

-----------------------------------------------------------------------------
(* The handoff that waits.                                                 *)

\* The section of c begins and ends the handoff in progress.
LEMMA PendingEntering ==
  ASSUME Shape, Pending, NEW c \in Calls, NEW cs, Records(cs), BeginSection(c, cs),
         \A d \in Calls \ {c} : cs[d] = call[d]
  PROVE  Pending'
<1>1. call' = WithVer(WithAt(Supersede(cs), c, "writing"), c, version + 1)
  BY DEF BeginSection, WithVer, WithAt
<1>2. /\ call'[c].at = "writing"
      /\ \A d \in Calls \ {c} : call'[d] = Supersede(cs)[d]
  BY <1>1, SetAt, SetVer, SupersedeRecords
<1>3. ASSUME NEW d \in Calls, Handing(d)', call'[d].fut = "unset" PROVE FALSE
  <2>1. d # c
    BY <1>2, <1>3 DEF Handing, At
  <2>2. call[d].fut = "unset" /\ pending # d /\ Handing(d)
    BY <1>2, <1>3, <2>1, SupersedeRecords DEF Handing, At, Alike
  <2> QED
    BY <2>2 DEF Pending
<1> QED
  BY <1>3 DEF Pending, BeginSection

\* A step that starts no handoff, resolves futures, and leaves the entry of
\* every future that it does not resolve.
LEMMA PendingKept ==
  ASSUME Pending,
         \A d \in Calls : Handing(d)' /\ call'[d].fut = "unset" =>
           Handing(d) /\ call[d].fut = "unset" /\ (pending = d => pending' = d),
         \A d \in Calls : InSection(d)' => InSection(d),
         pending' \in {pending, None}
  PROVE  Pending'
  BY DEF Pending

LEMMA PendingStep ==
  ASSUME LockInv, Pending, Next
  PROVE  Pending'
<1> USE DEF Handing, InSection, At, Alike
<1>1. Shape /\ Records(call)
  BY DEF LockInv, Shape
<1>2. ASSUME NEW c \in Calls, NEW w \in Workers, Enter(c, w) PROVE Pending'
  <2> DEFINE l == IF registry = None THEN c ELSE registry
             cs == [call EXCEPT ![c].new = w, ![c].lock = l]
  <2>1. cs = WithLock(WithNew(call, c, w), c, l)
    BY DEF WithLock, WithNew
  <2>2. Records(cs) /\ \A d \in Calls \ {c} : cs[d] = call[d]
    <3> HIDE DEF l, cs
    <3> QED
      BY <1>1, <2>1, SetLock, SetNew
  <2>3. CASE Uncontended(l)
    <3>1. BeginSection(c, cs)
      BY <1>2, <2>3 DEF Enter, LockObject
    <3> HIDE DEF l, cs
    <3> QED
      BY <1>1, <2>2, <3>1, PendingEntering
  <2>4. CASE ~Uncontended(l)
    <3>1. call' = WithAt(cs, c, "locking") /\ pending' = pending
      BY <1>2, <2>4 DEF Enter, LockObject, WithAt
    <3> HIDE DEF l, cs
    <3> QED
      BY <2>2, <3>1, SetAt, PendingKept
  <2> QED
    BY <2>3, <2>4
<1>3. ASSUME NEW c \in Calls, Acquire(c) PROVE Pending'
  <2>1. BeginSection(c, call)
    BY <1>3 DEF Acquire
  <2> QED
    BY <1>1, <2>1, PendingEntering
<1>4. ASSUME NEW c \in Calls, WriteDb(c) PROVE Pending'
  <2>1. call' = WithAt(call, c, "written") /\ pending' = pending /\ At(c) = "writing"
    BY <1>4 DEF WriteDb, WithAt, maps
  <2> QED
    BY <1>1, <2>1, SetAt, PendingKept
<1>5. ASSUME NEW c \in Calls, FailDb(c) \/ Direct(c) PROVE Pending'
  <2>1. call' = WithAt(call, c, "done") /\ pending' = pending
    BY <1>5 DEF FailDb, Direct, WithAt
  <2> QED
    BY <1>1, <2>1, SetAt, PendingKept
<1>6. ASSUME NEW c \in Calls, StartHandoff(c) PROVE Pending'
  <2>1. call' = WithVia(WithOld(WithFut(WithAt(call, c, "sending"), c, "unset"), c, route),
                        c, link[route])
    BY <1>6 DEF StartHandoff, WithVia, WithOld, WithFut, WithAt
  <2>2. call'[c].at = "sending" /\ \A d \in Calls \ {c} : call'[d] = call[d]
    BY <1>1, <2>1, SetAt, SetFut, SetOld, SetVia
  <2>3. InSection(c) /\ pending = None /\ pending' = c
    BY <1>6 DEF StartHandoff, Pending
  <2>4. \A d \in Calls \ {c} : ~InSection(d)
    BY <2>3, LockInvExcludes DEF OneWriter
  <2> QED
    BY <2>2, <2>3, <2>4, NoneAssumption DEF Pending
<1>7. ASSUME NEW c \in Calls, SendRelease(c) PROVE Pending'
  <2>1. call' = WithAt(call, c, "waiting") /\ pending' = pending /\ At(c) = "sending"
    BY <1>7 DEF SendRelease, WithAt, maps
  <2> QED
    BY <1>1, <2>1, SetAt, PendingKept
<1>8. ASSUME NEW c \in Calls, FailRelease(c) PROVE Pending'
  <2>1. /\ call' = WithAt(DropCall(call[c].old, call[c].via), c, "closing")
        /\ Drop(call[c].old, call[c].via) /\ At(c) = "sending"
    BY <1>8 DEF FailRelease, WithAt
  <2> QED
    BY <1>1, <2>1, DropEffect, SetAt, PendingKept
<1>9. ASSUME NEW c \in Calls, Timeout(c) PROVE Pending'
  <2>1. call' = WithFut(call, c, "expired") /\ pending' = pending
    BY <1>9 DEF Timeout, WithFut, maps
  <2> QED
    BY <1>1, <2>1, SetFut, PendingKept
<1>10. ASSUME NEW c \in Calls, EndHandoff(c) PROVE Pending'
  <2>1. /\ call' = WithAt(call, c, "done")
        /\ pending' = pending \/ (pending' = None /\ pending \in {None, c})
    BY <1>10 DEF EndHandoff, Current, WithAt
  <2> QED
    BY <1>1, <2>1, SetAt, PendingKept
<1>11. ASSUME NEW w, NEW n, Drop(w, n), call' = DropCall(w, n) PROVE Pending'
  BY <1>1, <1>11, DropEffect, PendingKept
<1>12. ASSUME NEW w \in Workers, DeliverAck(w) PROVE Pending'
  <2>1. pending' = pending
    BY <1>12 DEF DeliverAck, maps
  <2>2. \A d \in Calls : /\ call'[d].at = call[d].at
                         /\ call'[d].fut = "unset" => call[d].fut = "unset"
    BY <1>1, <1>12, ResolveRecords, NoneAssumption DEF DeliverAck, Shape
  <2> QED
    BY <2>1, <2>2, PendingKept
<1>13. ASSUME UNCHANGED <<pending, call>> PROVE Pending'
  BY <1>13 DEF Pending
<1>14. ASSUME NEW s \in Senders, StartSend(s) \/ AdvanceSender(s) PROVE Pending'
  <2>1. CASE FailFrame(s)
    BY <2>1, <1>11 DEF FailFrame
  <2>2. CASE ~FailFrame(s)
    BY <1>14, <2>2, <1>13
    DEF StartSend, AdvanceSender, ReadAssignment, CacheRoute, SendFrame, EndSend, maps
  <2> QED
    BY <2>1, <2>2
<1>15. ASSUME NEW w \in Workers, AdvanceWorker(w) \/ Boot(w) \/ Crash(w) \/ Connect(w)
       PROVE  Pending'
  <2>1. CASE Disconnect(w)
    BY <2>1, <1>11 DEF Disconnect
  <2>2. CASE ~DeliverAck(w) /\ ~Disconnect(w)
    BY <1>15, <2>2, <1>13
    DEF AdvanceWorker, HandleRelease, HandleFrame, RefuseFrame, Boot, ListGroups, HydrateListed, Crash, Connect, maps
  <2> QED
    BY <2>1, <2>2, <1>12
<1>16. CASE Cleanup \/ Finished
  BY <1>16, <1>13 DEF Cleanup, Finished, vars, maps
<1> QED
  BY <1>2, <1>3, <1>4, <1>5, <1>6, <1>7, <1>8, <1>9, <1>10, <1>14, <1>15, <1>16
  DEF Next, AdvanceCall, FaultyCall

-----------------------------------------------------------------------------
(* What the steps do to the calls, field by field.                         *)

CallTable == [Calls -> CallRecord]

LEMMA TypedRecords ==
  ASSUME NEW cs, Records(cs),
         \A d \in Calls :
           /\ cs[d].at \in CallStates /\ cs[d].new \in Workers \cup {None}
           /\ cs[d].old \in Workers \cup {None} /\ cs[d].ver \in Versions
           /\ cs[d].fut \in Futures /\ cs[d].lock \in Calls \cup {None}
           /\ cs[d].via \in 0..MaxLinks
  PROVE  cs \in CallTable
BY DEF Records, CallTable, CallRecord

LEMMA RecordFields ==
  ASSUME NEW cs \in CallTable, NEW d \in Calls
  PROVE  /\ cs[d].at \in CallStates /\ cs[d].new \in Workers \cup {None}
         /\ cs[d].old \in Workers \cup {None} /\ cs[d].ver \in Versions
         /\ cs[d].fut \in Futures /\ cs[d].lock \in Calls \cup {None}
         /\ cs[d].via \in 0..MaxLinks
BY DEF CallTable, CallRecord

LEMMA TypedAlike ==
  ASSUME NEW cs, NEW cs1 \in CallTable, Records(cs),
         \A d \in Calls : Alike(cs[d], cs1[d]) /\ cs[d].fut \in Futures
  PROVE  cs \in CallTable
BY TypedRecords, RecordFields DEF Alike

LEMMA TypedWith ==
  ASSUME NEW cs \in CallTable, Records(cs), NEW c \in Calls, NEW v
  PROVE  /\ v \in CallStates => WithAt(cs, c, v) \in CallTable
         /\ v \in Workers \cup {None} => WithNew(cs, c, v) \in CallTable
         /\ v \in Workers \cup {None} => WithOld(cs, c, v) \in CallTable
         /\ v \in Versions => WithVer(cs, c, v) \in CallTable
         /\ v \in Futures => WithFut(cs, c, v) \in CallTable
         /\ v \in Calls \cup {None} => WithLock(cs, c, v) \in CallTable
         /\ v \in 0..MaxLinks => WithVia(cs, c, v) \in CallTable
<1>1. v \in CallStates => WithAt(cs, c, v) \in CallTable
  BY SetAt, TypedRecords, RecordFields
<1>2. v \in Workers \cup {None} => WithNew(cs, c, v) \in CallTable
  BY SetNew, TypedRecords, RecordFields
<1>3. v \in Workers \cup {None} => WithOld(cs, c, v) \in CallTable
  BY SetOld, TypedRecords, RecordFields
<1>4. v \in Versions => WithVer(cs, c, v) \in CallTable
  BY SetVer, TypedRecords, RecordFields
<1>5. v \in Futures => WithFut(cs, c, v) \in CallTable
  BY SetFut, TypedRecords, RecordFields
<1>6. v \in Calls \cup {None} => WithLock(cs, c, v) \in CallTable
  BY SetLock, TypedRecords, RecordFields
<1>7. v \in 0..MaxLinks => WithVia(cs, c, v) \in CallTable
  BY SetVia, TypedRecords, RecordFields
<1> QED
  BY <1>1, <1>2, <1>3, <1>4, <1>5, <1>6, <1>7

\* The section of c begins with the records cs, which differ from the present ones
\* at most in c's own.
LEMMA BeginEffect ==
  ASSUME Shape, NEW c \in Calls, NEW cs, Records(cs), BeginSection(c, cs),
         \A d \in Calls \ {c} : cs[d] = call[d]
  PROVE  /\ Records(call')
         /\ call'[c].at = "writing" /\ call'[c].ver = version + 1
         /\ call'[c].new = cs[c].new /\ call'[c].lock = cs[c].lock
         /\ call'[c].old = cs[c].old /\ call'[c].via = cs[c].via
         /\ call'[c].fut \in {cs[c].fut, "cancelled"}
         /\ \A d \in Calls \ {c} :
              Alike(call'[d], call[d]) /\ call'[d].fut \in {call[d].fut, "cancelled"}
<1>1. call' = WithVer(WithAt(Supersede(cs), c, "writing"), c, version + 1)
  BY DEF BeginSection, WithVer, WithAt
<1>2. /\ Records(Supersede(cs))
      /\ \A d \in Calls : /\ Alike(Supersede(cs)[d], cs[d])
                          /\ Supersede(cs)[d].fut \in {cs[d].fut, "cancelled"}
  BY SupersedeRecords
<1> HIDE DEF Shape
<1> QED
  BY <1>1, <1>2, SetAt, SetVer DEF Alike

LEMMA EnterEffect ==
  ASSUME Shape, NEW c \in Calls, NEW w \in Workers, Enter(c, w)
  PROVE  /\ Records(call') /\ At(c) = "idle"
         /\ call'[c].new = w /\ call'[c].lock \in Calls
         /\ call'[c].old = call[c].old /\ call'[c].via = call[c].via
         /\ call'[c].fut \in {call[c].fut, "cancelled"}
         /\ \A d \in Calls \ {c} :
              Alike(call'[d], call[d]) /\ call'[d].fut \in {call[d].fut, "cancelled"}
         /\ \/ /\ call'[c].at = "locking" /\ call'[c].ver = call[c].ver
               /\ \A d \in Calls \ {c} : call'[d] = call[d]
               /\ UNCHANGED <<version, pending, held, order>>
            \/ /\ call'[c].at = "writing" /\ call'[c].ver = version + 1
               /\ version' = version + 1 /\ pending' = None
               /\ order' = Append(order, c)
<1> DEFINE l == IF registry = None THEN c ELSE registry
           cs == [call EXCEPT ![c].new = w, ![c].lock = l]
<1>1. /\ Records(cs) /\ cs[c].new = w /\ cs[c].lock = l /\ l \in Calls
      /\ cs[c].old = call[c].old /\ cs[c].via = call[c].via /\ cs[c].fut = call[c].fut
      /\ cs[c].ver = call[c].ver
      /\ \A d \in Calls \ {c} : cs[d] = call[d]
  <2>1. cs = WithLock(WithNew(call, c, w), c, l)
    BY DEF WithLock, WithNew
  <2>2. l \in Calls
    BY DEF Shape
  <2>3. Records(call)
    BY DEF Shape
  <2> HIDE DEF l, cs
  <2> QED
    BY <2>1, <2>2, <2>3, SetLock, SetNew
<1>2. At(c) = "idle"
  BY DEF Enter
<1>3. CASE Uncontended(l)
  <2>1. BeginSection(c, cs)
    BY <1>3 DEF Enter, LockObject
  <2>2. version' = version + 1 /\ pending' = None /\ order' = Append(order, c)
    BY <2>1 DEF BeginSection
  <2> HIDE DEF l, cs
  <2> QED
    BY <1>1, <1>2, <2>1, <2>2, BeginEffect
<1>4. CASE ~Uncontended(l)
  <2>1. call' = WithAt(cs, c, "locking") /\ UNCHANGED <<version, pending, held, order>>
    BY <1>4 DEF Enter, LockObject, WithAt
  <2> HIDE DEF l, cs
  <2>2. /\ Records(call') /\ call'[c].at = "locking" /\ call'[c].ver = call[c].ver
        /\ call'[c].new = w /\ call'[c].lock = l
        /\ call'[c].old = call[c].old /\ call'[c].via = call[c].via
        /\ call'[c].fut = call[c].fut
        /\ \A d \in Calls \ {c} : call'[d] = call[d]
    BY <1>1, <2>1, SetAt
  <2> QED
    BY <1>1, <1>2, <2>1, <2>2 DEF Alike
<1> QED
  BY <1>3, <1>4

\* A step that moves only c along.
LEMMA MoveEffect ==
  ASSUME Shape, NEW c \in Calls, NEW a, call' = WithAt(call, c, a)
  PROVE  /\ Records(call') /\ call'[c].at = a
         /\ call'[c].new = call[c].new /\ call'[c].old = call[c].old
         /\ call'[c].ver = call[c].ver /\ call'[c].fut = call[c].fut
         /\ call'[c].lock = call[c].lock /\ call'[c].via = call[c].via
         /\ \A d \in Calls \ {c} : call'[d] = call[d]
BY SetAt DEF Shape

LEMMA StartHandoffEffect ==
  ASSUME Shape, NEW c \in Calls, StartHandoff(c)
  PROVE  /\ Records(call') /\ call'[c].at = "sending" /\ call'[c].fut = "unset"
         /\ call'[c].old = route /\ call'[c].via = link[route]
         /\ call'[c].new = call[c].new /\ call'[c].ver = call[c].ver
         /\ call'[c].lock = call[c].lock
         /\ \A d \in Calls \ {c} : call'[d] = call[d]
<1>1. call' = WithVia(WithOld(WithFut(WithAt(call, c, "sending"), c, "unset"), c, route),
                      c, link[route])
  BY DEF StartHandoff, WithVia, WithOld, WithFut, WithAt
<1> QED
  BY <1>1, SetAt, SetFut, SetOld, SetVia DEF Shape

\* Who moves c moves it from somewhere.
Moves(c, a) ==
  \/ WriteDb(c) /\ At(c) = "writing" /\ a = "written"
  \/ FailDb(c) /\ At(c) = "writing" /\ a = "done"
  \/ Direct(c) /\ At(c) = "written" /\ a = "done"
  \/ SendRelease(c) /\ At(c) = "sending" /\ a = "waiting"
  \/ EndHandoff(c) /\ At(c) \in {"closing", "waiting"} /\ a = "done"

LEMMA MovesEffect ==
  ASSUME Shape, NEW c \in Calls,
         WriteDb(c) \/ FailDb(c) \/ Direct(c) \/ SendRelease(c) \/ EndHandoff(c)
  PROVE  \E a : Moves(c, a) /\ call' = WithAt(call, c, a)
<1>1. CASE WriteDb(c)
  BY <1>1 DEF WriteDb, Moves, WithAt
<1>2. CASE FailDb(c)
  BY <1>2 DEF FailDb, Moves, WithAt
<1>3. CASE Direct(c)
  BY <1>3 DEF Direct, Moves, WithAt
<1>4. CASE SendRelease(c)
  BY <1>4 DEF SendRelease, Moves, WithAt
<1>5. CASE EndHandoff(c)
  BY <1>5 DEF EndHandoff, Moves, WithAt
<1> QED
  BY <1>1, <1>2, <1>3, <1>4, <1>5

LEMMA FailReleaseEffect ==
  ASSUME Shape, NEW c \in Calls, FailRelease(c)
  PROVE  /\ Records(call') /\ At(c) = "sending" /\ call'[c].at = "closing"
         /\ call'[c].new = call[c].new /\ call'[c].old = call[c].old
         /\ call'[c].ver = call[c].ver /\ call'[c].lock = call[c].lock
         /\ call'[c].via = call[c].via
         /\ call'[c].fut \in {call[c].fut, "gone"}
         /\ \A d \in Calls \ {c} :
              Alike(call'[d], call[d]) /\ call'[d].fut \in {call[d].fut, "gone"}
         /\ Drop(call[c].old, call[c].via)
<1>1. call' = WithAt(DropCall(call[c].old, call[c].via), c, "closing")
  BY DEF FailRelease, WithAt
<1>2. Drop(call[c].old, call[c].via) /\ At(c) = "sending"
  BY DEF FailRelease
<1>3. /\ Records(DropCall(call[c].old, call[c].via))
      /\ \A d \in Calls :
           /\ Alike(DropCall(call[c].old, call[c].via)[d], call[d])
           /\ DropCall(call[c].old, call[c].via)[d].fut \in {call[d].fut, "gone"}
  BY <1>2, DropEffect
<1> QED
  BY <1>1, <1>2, <1>3, SetAt DEF Alike

\* A future is resolved, and nothing else happens to the calls.
LEMMA ResolvingEffect ==
  ASSUME Shape,
         \/ \E c \in Calls : Timeout(c)
         \/ \E w \in Workers : DeliverAck(w)
         \/ \E w, n : Drop(w, n) /\ call' = DropCall(w, n)
  PROVE  /\ Records(call')
         /\ \A d \in Calls :
              /\ Alike(call'[d], call[d])
              /\ call'[d].fut \in {call[d].fut, "expired", "released", "gone"}
<1>1. ASSUME NEW c \in Calls, Timeout(c)
      PROVE  /\ Records(call')
             /\ \A d \in Calls :
                  Alike(call'[d], call[d]) /\ call'[d].fut \in {call[d].fut, "expired"}
  <2>1. call' = WithFut(call, c, "expired")
    BY <1>1 DEF Timeout, WithFut
  <2> QED
    BY <2>1, SetFut DEF Shape, Alike
<1>2. ASSUME NEW w \in Workers, DeliverAck(w)
      PROVE  /\ Records(call')
             /\ \A d \in Calls :
                  Alike(call'[d], call[d]) /\ call'[d].fut \in {call[d].fut, "released"}
  <2>1. CASE pending # None /\ call[pending].old = w
    <3>1. call' = Resolve(call, pending, "released") /\ pending \in Calls /\ Records(call)
      BY <1>2, <2>1 DEF DeliverAck, Shape
    <3> QED
      BY <3>1, ResolveRecords
  <2>2. CASE ~(pending # None /\ call[pending].old = w)
    BY <1>2, <2>2 DEF DeliverAck, Shape, Alike
  <2> QED
    BY <2>1, <2>2
<1>3. ASSUME NEW w, NEW n, Drop(w, n), call' = DropCall(w, n)
      PROVE  /\ Records(call')
             /\ \A d \in Calls :
                  Alike(call'[d], call[d]) /\ call'[d].fut \in {call[d].fut, "gone"}
  BY <1>3, DropEffect
<1> QED
  BY <1>1, <1>2, <1>3

-----------------------------------------------------------------------------
(* The versions.                                                           *)

\* A call that has its version and is not over.
Active(c) == InSection(c) \/ Handing(c)

\* The call that got its version last, and whether it is over.
Latest == IF order = <<>> THEN None ELSE order[Len(order)]
Over(c) == c = None \/ At(c) = "done"

\* The entry of _reassign_versions is the latest call's, or it was popped; it is
\* popped when that call is over.  The section and _pending_handoffs belong to
\* the latest call, which nobody has cancelled.
Numbered ==
  /\ version \in Nat
  /\ \A c \in Calls : Active(c) => call[c].ver \in Nat \ {0} /\ Latest # None
Reigns ==
  /\ \A c \in Calls : InSection(c) => c = Latest
  /\ pending \in {None, Latest}
  /\ pending # None => Handing(pending) \/ At(pending) = "done"
Entry ==
  /\ Over(Latest) => version = 0
  /\ ~Over(Latest) => Active(Latest) /\ version \in {0, call[Latest].ver}
Uncancelled == \A c \in Calls : c = Latest /\ Handing(c) => call[c].fut # "cancelled"

VersionInv ==
  order \in Seq(Calls) /\ Numbered /\ Reigns /\ Entry /\ Uncancelled

LEMMA LatestKnown == order \in Seq(Calls) => Latest \in Calls \cup {None}
<1> SUFFICES ASSUME order \in Seq(Calls), order # <<>> PROVE order[Len(order)] \in Calls
  BY DEF Latest
<1>1. Len(order) \in 1..Len(order)
  BY EmptySeq, LenProperties
<1> QED
  BY <1>1, ElementOfSeq

LEMMA LatestAppended ==
  ASSUME order \in Seq(Calls), NEW c \in Calls, order' = Append(order, c)
  PROVE  order' \in Seq(Calls) /\ Latest' = c
BY AppendProperties DEF Latest

\* The section of c begins.
LEMMA VersionBegins ==
  ASSUME VersionInv, OneWriter', NEW c \in Calls,
         order' = Append(order, c), pending' = None, version' = version + 1,
         call'[c].at = "writing", call'[c].ver = version + 1,
         \A d \in Calls \ {c} : Alike(call'[d], call[d])
  PROVE  VersionInv'
<1>1. order' \in Seq(Calls) /\ Latest' = c /\ c # None
  BY LatestAppended, NoneAssumption DEF VersionInv
<1>2. InSection(c)' /\ Active(c)' /\ ~Handing(c)' /\ ~Over(c)'
  BY <1>1 DEF InSection, Handing, Active, Over, At
<1>3. \A d \in Calls : InSection(d)' => d = c
  BY <1>2 DEF OneWriter, InSection
<1>4. Numbered'
  BY <1>1, <1>2 DEF VersionInv, Numbered, Active, InSection, Handing, At, Alike
<1>5. Reigns'
  BY <1>1, <1>3 DEF Reigns
<1>6. Entry'
  BY <1>1, <1>2 DEF Entry, Over
<1>7. Uncancelled'
  BY <1>1, <1>2 DEF Uncancelled
<1> QED
  BY <1>1, <1>4, <1>5, <1>6, <1>7 DEF VersionInv

\* A step in which nobody gets a version.
LEMMA VersionKept ==
  ASSUME VersionInv, order' = order, version' \in {version, 0},
         \A d \in Calls :
           /\ Active(d)' => Active(d) /\ call'[d].ver = call[d].ver
           /\ InSection(d)' => InSection(d)
           /\ Handing(d) => Handing(d)' \/ At(d)' = "done"
           /\ At(d) = "done" => At(d)' = "done"
           /\ d = Latest =>
                /\ Active(d) => Active(d)' \/ (At(d)' = "done" /\ version' = 0)
                /\ Handing(d)' /\ call'[d].fut = "cancelled" =>
                     Handing(d) /\ call[d].fut = "cancelled",
         \/ pending' \in {pending, None}
         \/ pending' \in Calls /\ pending' = Latest /\ Handing(pending)'
  PROVE  VersionInv'
<1>1. Latest' = Latest /\ Latest \in Calls \cup {None}
  BY LatestKnown DEF VersionInv, Latest
<1>2. Numbered'
  BY <1>1 DEF VersionInv, Numbered
<1>3. Reigns'
  <2>1. pending \in Calls \cup {None}
    BY <1>1 DEF VersionInv, Reigns
  <2>2. \A d \in Calls : InSection(d)' => d = Latest
    BY DEF VersionInv, Reigns
  <2>3. pending' \in {None, Latest}
    BY DEF VersionInv, Reigns
  <2>4. ASSUME pending' = pending, pending # None
        PROVE  Handing(pending)' \/ At(pending)' = "done"
    <3>1. pending \in Calls /\ (Handing(pending) \/ At(pending) = "done")
      BY <2>1, <2>4 DEF VersionInv, Reigns
    <3>2. \A d \in Calls : Handing(d) \/ At(d) = "done" => Handing(d)' \/ At(d)' = "done"
      OBVIOUS
    <3> QED
      BY <2>4, <3>1, <3>2 DEF Handing, At
  <2> QED
    BY <1>1, <2>2, <2>3, <2>4 DEF Reigns
<1>4. Entry'
  <2>1. CASE Latest = None
    BY <1>1, <2>1 DEF VersionInv, Entry, Over
  <2>2. CASE Latest \in Calls
    <3>1. PICK c \in Calls : c = Latest
      BY <2>2
    <3>2. c # None /\ Latest' = c
      BY <1>1, <3>1, NoneAssumption
    <3>3. CASE At(c) = "done"
      BY <3>1, <3>2, <3>3 DEF VersionInv, Entry, Over
    <3>4. CASE At(c) # "done"
      <4>1. Active(c) /\ version \in {0, call[c].ver}
        BY <3>1, <3>2, <3>4 DEF VersionInv, Entry, Over
      <4>2. \/ Active(c)' /\ call'[c].ver = call[c].ver
            \/ At(c)' = "done" /\ version' = 0
        BY <3>1, <4>1
      <4>3. Active(c)' => At(c)' # "done"
        BY DEF Active, InSection, Handing
      <4> QED
        BY <3>2, <4>1, <4>2, <4>3 DEF Entry, Over, Active, InSection, Handing, At
    <3> QED
      BY <3>3, <3>4
  <2> QED
    BY <1>1, <2>1, <2>2
<1>5. Uncancelled'
  BY <1>1 DEF VersionInv, Uncancelled
<1> QED
  BY <1>2, <1>3, <1>4, <1>5 DEF VersionInv

\* A step that moves at most c, which has its version, and resolves futures.
LEMMA VersionMoves ==
  ASSUME VersionInv, order' = order, version' \in {version, 0}, pending' \in {pending, None},
         NEW c \in Calls, Active(c),
         \A d \in Calls \ {c} :
           Alike(call'[d], call[d]) /\ (call'[d].fut = "cancelled" => call[d].fut = "cancelled"),
         call'[c].ver = call[c].ver,
         call'[c].fut = "cancelled" => call[c].fut = "cancelled",
         \/ InSection(c) /\ InSection(c)'
         \/ Handing(c) /\ Handing(c)'
         \/ At(c)' = "done" /\ (c = Latest => version' = 0)
  PROVE  VersionInv'
<1>1. \A d \in Calls \ {c} : call'[d].at = call[d].at /\ call'[d].ver = call[d].ver
  BY DEF Alike
<1>2. ASSUME NEW d \in Calls
      PROVE  /\ Active(d)' => Active(d) /\ call'[d].ver = call[d].ver
             /\ InSection(d)' => InSection(d)
             /\ Handing(d) => Handing(d)' \/ At(d)' = "done"
             /\ At(d) = "done" => At(d)' = "done"
             /\ d = Latest =>
                  /\ Active(d) => Active(d)' \/ (At(d)' = "done" /\ version' = 0)
                  /\ Handing(d)' /\ call'[d].fut = "cancelled" =>
                       Handing(d) /\ call[d].fut = "cancelled"
  <2>1. CASE d # c
    BY <1>1, <2>1 DEF Active, InSection, Handing, At
  <2>2. CASE d = c
    BY <2>2 DEF Active, InSection, Handing, At
  <2> QED
    BY <2>1, <2>2
<1> QED
  BY <1>2, VersionKept

LEMMA VersionStep ==
  ASSUME LockInv, OneWriter', Pending, VersionInv, Next
  PROVE  VersionInv'
<1> USE DEF At, Alike
<1>1. Shape
  BY DEF LockInv
<1>2. ASSUME NEW c \in Calls, NEW w \in Workers, Enter(c, w) PROVE VersionInv'
  <2>1. CASE call'[c].at = "writing"
    <3>1. /\ order' = Append(order, c) /\ pending' = None /\ version' = version + 1
          /\ call'[c].ver = version + 1
          /\ \A d \in Calls \ {c} : Alike(call'[d], call[d])
      BY <1>1, <1>2, <2>1, EnterEffect
    <3> QED
      BY <2>1, <3>1, VersionBegins
  <2>2. CASE call'[c].at # "writing"
    <3>1. /\ At(c) = "idle" /\ call'[c].at = "locking"
          /\ \A d \in Calls \ {c} : call'[d] = call[d]
          /\ UNCHANGED <<version, pending, order>>
      BY <1>1, <1>2, <2>2, EnterEffect
    <3> QED
      BY <3>1, VersionKept DEF Active, InSection, Handing
  <2> QED
    BY <2>1, <2>2
<1>3. ASSUME NEW c \in Calls, Acquire(c) PROVE VersionInv'
  <2>1. BeginSection(c, call) /\ Records(call)
    BY <1>1, <1>3 DEF Acquire, Shape
  <2>2. order' = Append(order, c) /\ pending' = None /\ version' = version + 1
    BY <2>1 DEF BeginSection
  <2>3. /\ call'[c].at = "writing" /\ call'[c].ver = version + 1
        /\ \A d \in Calls \ {c} : Alike(call'[d], call[d])
    BY <1>1, <2>1, BeginEffect
  <2> QED
    BY <2>2, <2>3, VersionBegins
<1>4. ASSUME NEW c \in Calls, NEW a, Moves(c, a), call' = WithAt(call, c, a)
      PROVE  VersionInv'
  <2>1. /\ call'[c].at = a /\ call'[c].ver = call[c].ver /\ call'[c].fut = call[c].fut
        /\ \A d \in Calls \ {c} : call'[d] = call[d]
    BY <1>1, <1>4, MoveEffect
  <2>2. Active(c) /\ order' = order
    BY <1>4 DEF Moves, Active, InSection, Handing,
                WriteDb, FailDb, Direct, SendRelease, EndHandoff
  <2>3. version' \in {version, 0} /\ pending' \in {pending, None}
    BY <1>4 DEF Moves, WriteDb, FailDb, Direct, SendRelease, EndHandoff, FinishVersion, maps
  <2>4. c # None /\ (c = Latest => version \in {0, call[c].ver})
    BY <2>2, NoneAssumption DEF VersionInv, Entry, Over, Active, InSection, Handing
  <2>5. ASSUME FailDb(c) \/ Direct(c), c = Latest PROVE version' = 0
    <3>1. pending = None
      BY <2>5 DEF FailDb, Direct, Pending, InSection
    <3> QED
      BY <2>4, <2>5, <3>1 DEF FailDb, Direct, FinishVersion
  <2>6. ASSUME EndHandoff(c), c = Latest PROVE version' = 0
    <3>1. Handing(c) /\ call[c].fut # "cancelled"
      BY <2>6 DEF EndHandoff, Handing, VersionInv, Uncancelled
    <3>2. pending \in {None, c}
      BY <2>6 DEF VersionInv, Reigns
    <3> QED
      BY <2>4, <2>6, <3>1, <3>2 DEF EndHandoff, Current, FinishVersion
  <2>7. \/ InSection(c) /\ InSection(c)'
        \/ Handing(c) /\ Handing(c)'
        \/ At(c)' = "done" /\ (c = Latest => version' = 0)
    BY <1>4, <2>1, <2>5, <2>6 DEF Moves, InSection, Handing
  <2> QED
    BY <2>1, <2>2, <2>3, <2>7, VersionMoves
<1>5. ASSUME NEW c \in Calls, StartHandoff(c) PROVE VersionInv'
  <2>1. /\ call'[c].at = "sending" /\ call'[c].fut = "unset" /\ call'[c].ver = call[c].ver
        /\ \A d \in Calls \ {c} : call'[d] = call[d]
    BY <1>1, <1>5, StartHandoffEffect
  <2>2. InSection(c) /\ pending' = c /\ order' = order /\ version' = version
    BY <1>5 DEF StartHandoff, InSection
  <2>3. c = Latest
    BY <2>2 DEF VersionInv, Reigns
  <2> QED
    BY <2>1, <2>2, <2>3, VersionKept DEF Active, InSection, Handing
<1>6. ASSUME NEW c \in Calls, FailRelease(c) PROVE VersionInv'
  <2>1. /\ At(c) = "sending" /\ call'[c].at = "closing" /\ call'[c].ver = call[c].ver
        /\ call'[c].fut \in {call[c].fut, "gone"}
        /\ \A d \in Calls \ {c} :
             Alike(call'[d], call[d]) /\ call'[d].fut \in {call[d].fut, "gone"}
        /\ Drop(call[c].old, call[c].via)
    BY <1>1, <1>6, FailReleaseEffect
  <2>2. version' \in {version, 0} /\ pending' \in {pending, None} /\ order' = order
    BY <1>6, <2>1 DEF FailRelease, Drop
  <2>3. Handing(c) /\ Handing(c)' /\ Active(c)
    BY <2>1 DEF Handing, Active
  <2> QED
    BY <2>1, <2>2, <2>3, VersionMoves
<1>7. ASSUME version' \in {version, 0}, pending' \in {pending, None}, order' = order,
             \A d \in Calls :
               /\ Alike(call'[d], call[d])
               /\ call'[d].fut \in {call[d].fut, "expired", "released", "gone"}
      PROVE  VersionInv'
  BY <1>7, VersionKept DEF Active, InSection, Handing
<1>8. ASSUME NEW c \in Calls, Timeout(c) PROVE VersionInv'
  BY <1>1, <1>7, <1>8, ResolvingEffect DEF Timeout, maps
<1>9. ASSUME NEW w, NEW n, Drop(w, n), call' = DropCall(w, n), order' = order
      PROVE  VersionInv'
  <2>1. version' \in {version, 0} /\ pending' \in {pending, None}
    BY <1>9 DEF Drop
  <2> QED
    BY <1>1, <1>7, <1>9, <2>1, ResolvingEffect
<1>10. ASSUME NEW w \in Workers, DeliverAck(w) PROVE VersionInv'
  BY <1>1, <1>7, <1>10, ResolvingEffect DEF DeliverAck, maps
<1>11. ASSUME UNCHANGED <<call, pending, order>>, version' \in {version, 0} PROVE VersionInv'
  BY <1>7, <1>11
<1>12. ASSUME NEW s \in Senders, StartSend(s) \/ AdvanceSender(s) PROVE VersionInv'
  <2>1. CASE FailFrame(s)
    BY <2>1, <1>9 DEF FailFrame
  <2>2. CASE ~FailFrame(s)
    BY <1>12, <2>2, <1>11
    DEF StartSend, AdvanceSender, ReadAssignment, CacheRoute, SendFrame, EndSend, maps
  <2> QED
    BY <2>1, <2>2
<1>13. ASSUME NEW w \in Workers, AdvanceWorker(w) \/ Boot(w) \/ Crash(w) \/ Connect(w)
       PROVE  VersionInv'
  <2>1. CASE Disconnect(w)
    BY <2>1, <1>9 DEF Disconnect
  <2>2. CASE ~DeliverAck(w) /\ ~Disconnect(w)
    BY <1>13, <2>2, <1>11
    DEF AdvanceWorker, HandleRelease, HandleFrame, RefuseFrame, Boot, ListGroups, HydrateListed, Crash, Connect, maps
  <2> QED
    BY <2>1, <2>2, <1>10
<1>14. CASE Cleanup \/ Finished
  BY <1>14, <1>11 DEF Cleanup, Finished, vars, maps
<1> QED
  BY <1>1, <1>2, <1>3, <1>4, <1>5, <1>6, <1>8, <1>10, <1>12, <1>13, <1>14, MovesEffect
  DEF Next, AdvanceCall, FaultyCall

LEMMA VersionInit == Init => VersionInv
<1> SUFFICES ASSUME Init PROVE VersionInv
  OBVIOUS
<1>1. order \in Seq(Calls) /\ Latest = None
  BY DEF Init, Latest
<1>2. \A c \in Calls : ~Active(c) /\ ~InSection(c) /\ ~Handing(c)
  BY DEF Init, Active, InSection, Handing, At
<1> QED
  BY <1>1, <1>2 DEF Init, VersionInv, Numbered, Reigns, Entry, Over, Uncancelled

-----------------------------------------------------------------------------
(* Who routes the group.                                                   *)

\* The versions tell the calls apart that have one.
VersionsDiffer ==
  \A c, d \in Calls : c # d /\ Active(c) /\ Active(d) => call[c].ver # call[d].ver

\* Nobody else finishes a call and changes the route.
LEMMA RoutesWhen ==
  ASSUME LockInv, Next, NEW c \in Calls, Routes(c)
  PROVE  Direct(c) \/ EndHandoff(c)
<1> USE DEF At, Alike
<1>1. Shape
  BY DEF LockInv
<1>2. call[c].at # "done" /\ call'[c].at = "done" /\ route' # route
  BY DEF Routes
<1>3. ASSUME NEW d \in Calls, NEW w \in Workers, Enter(d, w) PROVE FALSE
  BY <1>1, <1>2, <1>3, EnterEffect
<1>4. ASSUME NEW d \in Calls, Acquire(d) PROVE FALSE
  <2>1. BeginSection(d, call) /\ Records(call)
    BY <1>1, <1>4 DEF Acquire, Shape
  <2> QED
    BY <1>1, <1>2, <2>1, BeginEffect
<1>5. ASSUME NEW d \in Calls, WriteDb(d) \/ FailDb(d) \/ SendRelease(d) PROVE FALSE
  BY <1>2, <1>5 DEF WriteDb, FailDb, SendRelease, maps
<1>6. ASSUME NEW d \in Calls, Direct(d) \/ EndHandoff(d) PROVE d = c
  <2>1. PICK a : Moves(d, a) /\ call' = WithAt(call, d, a)
    BY <1>1, <1>6, MovesEffect
  <2> QED
    BY <1>1, <1>2, <2>1, MoveEffect
<1>7. ASSUME NEW d \in Calls, StartHandoff(d) PROVE FALSE
  BY <1>2, <1>7 DEF StartHandoff
<1>8. ASSUME NEW d \in Calls, FailRelease(d) PROVE FALSE
  BY <1>1, <1>2, <1>8, FailReleaseEffect
<1>9. ASSUME NEW w, NEW n, Drop(w, n), call' = DropCall(w, n) PROVE FALSE
  BY <1>1, <1>2, <1>9, ResolvingEffect
<1>10. ASSUME NEW d \in Calls, Timeout(d) PROVE FALSE
  BY <1>1, <1>2, <1>10, ResolvingEffect
<1>11. ASSUME NEW w \in Workers, DeliverAck(w) PROVE FALSE
  BY <1>1, <1>2, <1>11, ResolvingEffect
<1>12. ASSUME call' = call PROVE FALSE
  BY <1>2, <1>12
<1>13. ASSUME NEW s \in Senders, StartSend(s) \/ AdvanceSender(s) PROVE FALSE
  BY <1>9, <1>12, <1>13
  DEF StartSend, AdvanceSender, FailFrame, ReadAssignment, CacheRoute, SendFrame, EndSend
<1>14. ASSUME NEW w \in Workers, AdvanceWorker(w) \/ Boot(w) \/ Crash(w) \/ Connect(w)
       PROVE  FALSE
  BY <1>9, <1>11, <1>12, <1>14
  DEF AdvanceWorker, Disconnect, HandleRelease, HandleFrame, RefuseFrame, Boot, ListGroups, HydrateListed, Crash, Connect
<1>15. CASE Cleanup \/ Finished
  BY <1>12, <1>15 DEF Cleanup, Finished, vars
<1> QED
  BY <1>3, <1>4, <1>5, <1>6, <1>7, <1>8, <1>10, <1>11, <1>13, <1>14, <1>15
  DEF Next, AdvanceCall, FaultyCall

\* In the section, or with the version of the entry, a call is the latest.
LEMMA LatestRoutes ==
  ASSUME LockInv, VersionInv, VersionsDiffer, Next, NEW c \in Calls, Routes(c)
  PROVE  c = Latest /\ order[Len(order)] = c
<1> USE DEF At
<1>1. c = Latest
  <2>1. CASE Direct(c)
    BY <2>1 DEF Direct, InSection, VersionInv, Reigns
  <2>2. CASE EndHandoff(c)
    <3>1. version = call[c].ver /\ Active(c)
      BY <2>2 DEF EndHandoff, Current, Routes, Active, Handing
    <3>2. version # 0
      BY <3>1 DEF VersionInv, Numbered
    <3>3. Active(Latest) /\ version = call[Latest].ver /\ Latest \in Calls
      BY <3>2, LatestKnown DEF VersionInv, Entry, Over
    <3> QED
      BY <3>1, <3>3 DEF VersionsDiffer
  <2> QED
    BY <2>1, <2>2, RoutesWhen
<1> QED
  BY <1>1, NoneAssumption DEF Latest

-----------------------------------------------------------------------------
(* The state that a reassign leaves behind.                                *)

\* _active_handoffs holds the versions of the handoffs in progress.
Ledger == handoffs = {call[c].ver : c \in {d \in Calls : Handing(d)}}

\* A call names its new worker, a handoff the worker it asks.
Targeted ==
  \A c \in Calls : /\ At(c) # "idle" => call[c].new \in Workers
                   /\ Handing(c) => call[c].old # None

\* What the latest call finds, keeps and leaves: when it is over, what Quiet
\* promises, unless an UPDATE raised after it had cancelled a handoff; in its
\* section, no route once a disconnect has popped its version; as long as it hands
\* the group over, its version, its assignment and, until the worker it asks is
\* gone, the old route.
NoDbFault == "db" \notin Faults
Settled ==
  NoDbFault /\ Over(Latest) =>
                  /\ route \in {None, WorkerFor(assigned)}
                  /\ pending = None
                  /\ users = 0 => registry = None
Writing ==
  \A c \in Calls : c = Latest /\ InSection(c) =>
    /\ version = 0 => route = None
    /\ At(c) = "written" => assigned = call[c].new
Reassigned ==
  \A c \in Calls : c = Latest /\ Handing(c) =>
    /\ version = call[c].ver
    /\ assigned = call[c].new
    /\ route = IF pending = None THEN None ELSE call[c].old

SettleInv == Ledger /\ Targeted /\ Settled /\ Writing /\ Reassigned

\* The versions of superseded handoffs are below the latest call's.
Ordered ==
  ~Over(Latest) =>
    \A c \in Calls : Handing(c) /\ c # Latest => call[c].ver < call[Latest].ver

LEMMA LedgerKept ==
  ASSUME Ledger, handoffs' = handoffs,
         \A d \in Calls : /\ Handing(d)' <=> Handing(d)
                          /\ Handing(d) => call'[d].ver = call[d].ver
  PROVE  Ledger'
BY DEF Ledger

LEMMA TargetedKept ==
  ASSUME Targeted,
         \A d \in Calls :
           /\ At(d)' # "idle" => \/ call'[d].new \in Workers
                                 \/ At(d) # "idle" /\ call'[d].new = call[d].new
           /\ Handing(d)' => \/ call'[d].old # None
                             \/ Handing(d) /\ call'[d].old = call[d].old
  PROVE  Targeted'
BY DEF Targeted, At

\* The latest call stays where it is, and nobody gives it back what it has lost.
LEMMA SettleKept ==
  ASSUME VersionInv, SettleInv, Ledger', Targeted', UNCHANGED <<order, assigned>>,
         \A d \in Calls : d = Latest =>
           /\ At(d)' = At(d) \/ (Handing(d) /\ Handing(d)')
           /\ call'[d].new = call[d].new /\ call'[d].old = call[d].old
           /\ call'[d].ver = call[d].ver
           /\ InSection(d) => (version' = 0 => route' = None)
           /\ Handing(d) => /\ version' = version
                            /\ \/ route' = route /\ pending' = pending
                               \/ route' = None /\ pending' = None,
         NoDbFault /\ Over(Latest) => /\ route' \in {route, None} /\ pending' = pending
                                      /\ users' = 0 => registry' = None
  PROVE  SettleInv'
<1>1. Latest' = Latest /\ Latest \in Calls \cup {None}
  BY LatestKnown DEF VersionInv, Latest
<1>2. Over(Latest)' => Over(Latest)
  BY <1>1 DEF Over, Handing, At
<1>3. Settled'
  BY <1>2 DEF SettleInv, Settled, WorkerFor
<1>4. ASSUME NEW d \in Calls, d = Latest, InSection(d)'
      PROVE  (version' = 0 => route' = None) /\ (At(d)' = "written" => assigned' = call'[d].new)
  <2>1. InSection(d) /\ At(d)' = At(d)
    BY <1>4 DEF InSection, Handing
  <2> QED
    BY <1>4, <2>1 DEF SettleInv, Writing
<1>5. ASSUME NEW d \in Calls, d = Latest, Handing(d)'
      PROVE  /\ version' = call'[d].ver /\ assigned' = call'[d].new
             /\ route' = IF pending' = None THEN None ELSE call'[d].old
  <2>1. Handing(d)
    BY <1>5 DEF Handing
  <2> QED
    BY <1>5, <2>1 DEF SettleInv, Reassigned
<1> QED
  BY <1>1, <1>3, <1>4, <1>5 DEF SettleInv, Writing, Reassigned

\* A disconnect takes the route of the worker along: with the handoff that asks
\* it, or with the version of whoever is in the section.
LEMMA DropSettles ==
  ASSUME Shape, Pending, VersionInv, SettleInv, NEW w, w # None, NEW n, Drop(w, n), users' = users
  PROVE  /\ \A d \in Calls : d = Latest =>
              /\ InSection(d) => (version' = 0 => route' = None)
              /\ Handing(d) => /\ version' = version
                               /\ \/ route' = route /\ pending' = pending
                                  \/ route' = None /\ pending' = None
         /\ NoDbFault /\ Over(Latest) => /\ route' \in {route, None} /\ pending' = pending
                                         /\ users' = 0 => registry' = None
<1>1. CASE link[w] # n
  BY <1>1 DEF Drop, SettleInv, Settled, Writing
<1>2. CASE link[w] = n
  <2>1. ASSUME NEW d \in Calls, d = Latest, InSection(d), version' = 0 PROVE route' = None
    <3>1. pending = None /\ (version = 0 => route = None)
      BY <2>1 DEF Pending, SettleInv, Writing
    <3> QED
      BY <1>2, <2>1, <3>1 DEF Drop
  <2>2. ASSUME NEW d \in Calls, d = Latest, Handing(d)
        PROVE  /\ version' = version
               /\ \/ route' = route /\ pending' = pending
                  \/ route' = None /\ pending' = None
    <3>1. pending \in {None, d} /\ route = IF pending = None THEN None ELSE call[d].old
      BY <2>2 DEF VersionInv, Reigns, SettleInv, Reassigned
    <3>2. CASE pending = None
      BY <1>2, <3>1, <3>2 DEF Drop
    <3>3. CASE pending # None
      BY <1>2, <3>1, <3>3 DEF Drop
    <3> QED
      BY <3>2, <3>3
  <2>3. ASSUME NoDbFault, Over(Latest)
        PROVE  /\ route' \in {route, None} /\ pending' = pending
               /\ users' = 0 => registry' = None
    BY <1>2, <2>3 DEF Drop, SettleInv, Settled
  <2> QED
    BY <2>1, <2>2, <2>3
<1> QED
  BY <1>1, <1>2

\* The section of c begins: whatever was there before, there is a version now.
LEMMA SettleBegins ==
  ASSUME VersionInv, SettleInv, NEW c \in Calls, ~Handing(c),
         order' = Append(order, c), version' = version + 1, UNCHANGED <<assigned, route, handoffs>>,
         call'[c].at = "writing", call'[c].new \in Workers,
         \A d \in Calls \ {c} : Alike(call'[d], call[d])
  PROVE  SettleInv'
<1>1. Latest' = c /\ c # None
  BY LatestAppended, NoneAssumption DEF VersionInv
<1>2. InSection(c)' /\ ~Handing(c)' /\ ~Over(c)' /\ version' # 0
  BY <1>1 DEF InSection, Handing, Over, At, VersionInv, Numbered
<1>3. Ledger'
  BY <1>2, LedgerKept DEF SettleInv, Handing, At, Alike
<1>4. Targeted'
  BY <1>2, TargetedKept DEF SettleInv, Handing, At, Alike
<1> QED
  BY <1>1, <1>2, <1>3, <1>4 DEF SettleInv, Settled, Writing, Reassigned, At

\* WriteDb, Direct, StartHandoff and the last step of the latest handoff.
LEMMA SettleMoves ==
  ASSUME LockInv, Pending, VersionInv, VersionInv', VersionsDiffer, SettleInv, NEW c \in Calls,
         WriteDb(c) \/ Direct(c) \/ StartHandoff(c) \/ EndHandoff(c)
  PROVE  SettleInv'
<1> USE DEF At
<1>1. Shape /\ c # None
  BY NoneAssumption DEF LockInv
<1>2. Latest' = Latest /\ Latest \in Calls \cup {None}
  <2>1. order' = order
    BY DEF WriteDb, Direct, StartHandoff, EndHandoff
  <2> QED
    BY <2>1, LatestKnown DEF VersionInv, Latest
<1>3. call[c].new \in Workers /\ call[c].new # None
  BY NoneAssumption DEF SettleInv, Targeted, WriteDb, Direct, StartHandoff, EndHandoff
<1>4. CASE WriteDb(c)
  <2>1. call' = WithAt(call, c, "written") /\ At(c) = "writing"
    BY <1>4 DEF WriteDb, WithAt
  <2>2. /\ call'[c].at = "written" /\ call'[c].new = call[c].new
        /\ \A d \in Calls \ {c} : call'[d] = call[d]
    BY <1>1, <2>1, MoveEffect
  <2>3. c = Latest /\ (version = 0 => route = None)
    BY <2>1 DEF VersionInv, Reigns, InSection, SettleInv, Writing
  <2>4. Ledger' /\ Targeted'
    BY <1>3, <1>4, <2>1, <2>2, LedgerKept, TargetedKept DEF WriteDb, maps, SettleInv, Handing
  <2> QED
    BY <1>1, <1>2, <1>4, <2>2, <2>3, <2>4
    DEF WriteDb, maps, SettleInv, Settled, Writing, Reassigned, Over, InSection, Handing
<1>5. CASE Direct(c)
  <2>1. call' = WithAt(call, c, "done") /\ At(c) = "written"
    BY <1>5 DEF Direct, WithAt
  <2>2. /\ call'[c].at = "done" /\ call'[c].new = call[c].new
        /\ \A d \in Calls \ {c} : call'[d] = call[d]
    BY <1>1, <2>1, MoveEffect
  <2>3. /\ c = Latest /\ (version = 0 => route = None) /\ assigned = call[c].new
        /\ pending = None /\ version \in {0, call[c].ver}
    BY <1>1, <2>1 DEF VersionInv, Reigns, Entry, Over, InSection, SettleInv, Writing, Pending
  <2>4. Ledger' /\ Targeted'
    BY <1>3, <1>5, <2>1, <2>2, LedgerKept, TargetedKept DEF Direct, SettleInv, Handing
  <2>5. route' \in {None, WorkerFor(assigned)} /\ pending' = None /\ assigned' = assigned
    BY <1>3, <1>5, <2>3 DEF Direct, WorkerFor
  <2>6. users' = 0 => registry' = None
    BY <1>5, <2>3 DEF Direct, FinishVersion, ForgetLock
  <2> QED
    BY <1>2, <2>2, <2>3, <2>4, <2>5, <2>6
    DEF SettleInv, Settled, Writing, Reassigned, InSection, Handing, WorkerFor
<1>6. CASE StartHandoff(c)
  <2>1. /\ call'[c].at = "sending" /\ call'[c].old = route
        /\ call'[c].new = call[c].new /\ call'[c].ver = call[c].ver
        /\ \A d \in Calls \ {c} : call'[d] = call[d]
    BY <1>1, <1>6, StartHandoffEffect
  <2>2. At(c) = "written" /\ route # None
    BY <1>6 DEF StartHandoff, NobodyToAsk
  <2>3. c = Latest /\ version = call[c].ver /\ assigned = call[c].new
    BY <1>1, <2>2 DEF VersionInv, Reigns, Entry, Over, InSection, SettleInv, Writing
  <2>4. Ledger'
    <3>1. {d \in Calls : Handing(d)}' = {d \in Calls : Handing(d)} \cup {c}
      BY <2>1, <2>2 DEF Handing
    <3>2. handoffs' = handoffs \cup {call[c].ver} /\ \A d \in Calls : call'[d].ver = call[d].ver
      BY <1>6, <2>1 DEF StartHandoff
    <3> QED
      BY <3>1, <3>2 DEF SettleInv, Ledger
  <2>5. Targeted'
    BY <1>3, <2>1, <2>2, TargetedKept DEF SettleInv, Handing
  <2> QED
    BY <1>1, <1>2, <1>6, <2>1, <2>2, <2>3, <2>4, <2>5
    DEF StartHandoff, SettleInv, Settled, Writing, Reassigned, Over, InSection, Handing
<1>7. CASE EndHandoff(c)
  <2>1. call' = WithAt(call, c, "done") /\ Handing(c)
    BY <1>7 DEF EndHandoff, WithAt, Handing
  <2>2. /\ call'[c].at = "done" /\ call'[c].new = call[c].new /\ call'[c].ver = call[c].ver
        /\ \A d \in Calls \ {c} : call'[d] = call[d]
    BY <1>1, <2>1, MoveEffect
  <2>3. Ledger'
    <3>1. \A d \in Calls \ {c} : Handing(d) => call[d].ver # call[c].ver
      BY <2>1 DEF VersionsDiffer, Active
    <3> QED
      BY <1>7, <2>1, <2>2, <3>1 DEF EndHandoff, SettleInv, Ledger, Handing
  <2>4. Targeted'
    BY <1>3, <2>2, TargetedKept DEF SettleInv, Handing
  <2>5. CASE c = Latest
    <3>1. /\ version = call[c].ver /\ assigned = call[c].new /\ pending \in {None, c}
          /\ call[c].fut # "cancelled"
      BY <2>1, <2>5 DEF VersionInv, Reigns, Uncancelled, SettleInv, Reassigned
    <3>2. /\ pending' = None /\ route' = call[c].new /\ assigned' = assigned
          /\ users' = 0 => registry' = None
      BY <1>7, <3>1 DEF EndHandoff, Current, FinishVersion
    <3> QED
      BY <1>2, <1>3, <2>2, <2>3, <2>4, <2>5, <3>1, <3>2
      DEF SettleInv, Settled, Writing, Reassigned, InSection, Handing, WorkerFor
  <2>6. CASE c # Latest
    <3>1. version # call[c].ver
      <4>1. SUFFICES ASSUME version = call[c].ver PROVE FALSE
        OBVIOUS
      <4>2. Active(c) /\ version # 0
        BY <2>1, <4>1 DEF Active, VersionInv, Numbered
      <4>3. Latest \in Calls /\ Active(Latest) /\ version = call[Latest].ver
        BY <1>2, <4>2 DEF VersionInv, Entry, Over
      <4> QED
        BY <2>6, <4>1, <4>2, <4>3 DEF VersionsDiffer
    <3>2. UNCHANGED <<assigned, route, version, registry, users, pending, order>>
      BY <1>7, <3>1 DEF EndHandoff, Current
    <3> QED
      BY <2>2, <2>3, <2>4, <2>6, <3>2, SettleKept DEF SettleInv, Settled, Writing
  <2> QED
    BY <2>5, <2>6
<1> QED
  BY <1>4, <1>5, <1>6, <1>7

LEMMA SettleStep ==
  ASSUME Senders = {},
         LockInv, Pending, VersionInv, VersionInv', VersionsDiffer, SettleInv, Next
  PROVE  SettleInv'
<1> USE DEF At, Alike
<1>1. Shape /\ Records(call)
  BY DEF LockInv, Shape
<1>2. ASSUME UNCHANGED <<order, assigned, handoffs>>,
             \A d \in Calls : \/ Alike(call'[d], call[d])
                              \/ /\ Handing(d) /\ Handing(d)' /\ call'[d].new = call[d].new
                                 /\ call'[d].old = call[d].old /\ call'[d].ver = call[d].ver
      PROVE  /\ Ledger' /\ Targeted'
             /\ \A d \in Calls :
                  /\ At(d)' = At(d) \/ (Handing(d) /\ Handing(d)')
                  /\ call'[d].new = call[d].new /\ call'[d].old = call[d].old
                  /\ call'[d].ver = call[d].ver
  <2>1. Ledger'
    BY <1>2, LedgerKept DEF SettleInv, Handing
  <2>2. Targeted'
    BY <1>2, TargetedKept DEF SettleInv, Handing
  <2> QED
    BY <1>2, <2>1, <2>2
<1>3. ASSUME UNCHANGED <<assigned, route, version, registry, users, pending, handoffs, order>>,
             \A d \in Calls : \/ Alike(call'[d], call[d])
                              \/ /\ Handing(d) /\ Handing(d)' /\ call'[d].new = call[d].new
                                 /\ call'[d].old = call[d].old /\ call'[d].ver = call[d].ver
      PROVE  SettleInv'
  <2>1. NoDbFault /\ Over(Latest) => (users = 0 => registry = None)
    BY DEF SettleInv, Settled
  <2>2. \A d \in Calls : d = Latest /\ InSection(d) => (version = 0 => route = None)
    BY DEF SettleInv, Writing
  <2> QED
    BY <1>2, <1>3, <2>1, <2>2, SettleKept
<1>4. ASSUME NEW c \in Calls, NEW w \in Workers, Enter(c, w) PROVE SettleInv'
  <2>1. At(c) = "idle" /\ ~Handing(c) /\ call'[c].new \in Workers
    BY <1>1, <1>4, EnterEffect DEF Handing
  <2>2. UNCHANGED <<assigned, route, handoffs>>
    BY <1>4 DEF Enter
  <2>3. CASE call'[c].at = "writing"
    <3>1. /\ order' = Append(order, c) /\ version' = version + 1
          /\ \A d \in Calls \ {c} : Alike(call'[d], call[d])
      BY <1>1, <1>4, <2>3, EnterEffect
    <3> QED
      BY <2>1, <2>2, <2>3, <3>1, SettleBegins
  <2>4. CASE call'[c].at # "writing"
    <3>1. /\ call'[c].at = "locking" /\ UNCHANGED <<version, pending, order>>
          /\ \A d \in Calls \ {c} : call'[d] = call[d]
      BY <1>1, <1>4, <2>4, EnterEffect
    <3>2. c # Latest
      BY <2>1, NoneAssumption DEF VersionInv, Entry, Over, Active, InSection, Handing
    <3>3. users' # 0
      <4>1. Cardinality(Users) \in Nat
        BY UsersFinite, FS_CardinalityType
      <4> QED
        BY <1>4, <4>1 DEF Enter, LockInv, Counted
    <3>4. Ledger'
      BY <2>1, <2>2, <3>1, LedgerKept DEF SettleInv, Handing
    <3>5. Targeted'
      BY <2>1, <3>1, TargetedKept DEF SettleInv, Handing
    <3>6. \A d \in Calls : d = Latest /\ InSection(d) => (version = 0 => route = None)
      BY DEF SettleInv, Writing
    <3> QED
      BY <2>2, <3>1, <3>2, <3>3, <3>4, <3>5, <3>6, SettleKept
  <2> QED
    BY <2>3, <2>4
<1>5. ASSUME NEW c \in Calls, Acquire(c) PROVE SettleInv'
  <2>1. BeginSection(c, call) /\ At(c) = "locking" /\ UNCHANGED <<assigned, route, handoffs>>
    BY <1>5 DEF Acquire
  <2>2. /\ call'[c].at = "writing" /\ call'[c].new = call[c].new
        /\ \A d \in Calls \ {c} : Alike(call'[d], call[d])
    BY <1>1, <2>1, BeginEffect
  <2>3. order' = Append(order, c) /\ version' = version + 1
    BY <2>1 DEF BeginSection
  <2>4. call[c].new \in Workers /\ ~Handing(c)
    BY <2>1 DEF SettleInv, Targeted, Handing
  <2> QED
    BY <2>1, <2>2, <2>3, <2>4, SettleBegins
<1>6. ASSUME NEW c \in Calls, SendRelease(c) PROVE SettleInv'
  <2>1. call' = WithAt(call, c, "waiting") /\ At(c) = "sending"
    BY <1>6 DEF SendRelease, WithAt
  <2>2. /\ call'[c].at = "waiting" /\ call'[c].new = call[c].new
        /\ call'[c].old = call[c].old /\ call'[c].ver = call[c].ver
        /\ \A d \in Calls \ {c} : call'[d] = call[d]
    BY <1>1, <2>1, MoveEffect
  <2>3. Handing(c) /\ Handing(c)'
    BY <2>1, <2>2 DEF Handing
  <2>4. UNCHANGED <<assigned, route, version, registry, users, pending, handoffs, order>>
    BY <1>6 DEF SendRelease, maps
  <2> QED
    BY <1>3, <2>2, <2>3, <2>4
<1>7. ASSUME NEW w, NEW n, Drop(w, n), w # None,
             UNCHANGED <<assigned, users, handoffs, order>>,
             \A d \in Calls : \/ Alike(call'[d], call[d])
                              \/ /\ Handing(d) /\ Handing(d)' /\ call'[d].new = call[d].new
                                 /\ call'[d].old = call[d].old /\ call'[d].ver = call[d].ver
      PROVE  SettleInv'
  BY <1>1, <1>2, <1>7, DropSettles, SettleKept
<1>8. ASSUME NEW c \in Calls, FailRelease(c) PROVE SettleInv'
  <2>1. /\ At(c) = "sending" /\ call'[c].at = "closing"
        /\ call'[c].new = call[c].new /\ call'[c].old = call[c].old
        /\ call'[c].ver = call[c].ver
        /\ \A d \in Calls \ {c} : Alike(call'[d], call[d])
        /\ Drop(call[c].old, call[c].via)
    BY <1>1, <1>8, FailReleaseEffect
  <2>2. Handing(c) /\ Handing(c)' /\ call[c].old # None
    BY <2>1 DEF Handing, SettleInv, Targeted
  <2>3. UNCHANGED <<assigned, users, handoffs, order>>
    BY <1>8 DEF FailRelease
  <2> QED
    BY <1>7, <2>1, <2>2, <2>3
<1>9. ASSUME NEW c \in Calls, Timeout(c) PROVE SettleInv'
  BY <1>1, <1>3, <1>9, ResolvingEffect DEF Timeout, maps
<1>10. ASSUME NEW w \in Workers, DeliverAck(w) PROVE SettleInv'
  BY <1>1, <1>3, <1>10, ResolvingEffect DEF DeliverAck, maps
<1>11. ASSUME NEW w \in Workers, Disconnect(w) PROVE SettleInv'
  <2>1. /\ Drop(w, link[w]) /\ call' = DropCall(w, link[w]) /\ w # None
        /\ UNCHANGED <<assigned, users, handoffs, order>>
    BY <1>11, NoneAssumption DEF Disconnect
  <2> QED
    BY <1>1, <1>7, <2>1, ResolvingEffect
<1>12. CASE Cleanup
  <2>1. UNCHANGED <<assigned, route, users, pending, handoffs, call, order>>
    BY <1>12 DEF Cleanup
  <2>2. CASE users = 0 /\ handoffs = {} /\ route = None /\ pending = None
    <3>1. registry' = None
      BY <1>12, <2>2 DEF Cleanup
    <3>2. \A d \in Calls : ~InSection(d)
      BY <2>2, UsersFinite DEF LockInv, Users, Uses
    <3>3. \A d \in Calls : ~Handing(d)
      BY <2>2 DEF SettleInv, Ledger
    <3> QED
      BY <1>2, <2>1, <3>1, <3>2, <3>3, SettleKept
  <2>3. CASE ~(users = 0 /\ handoffs = {} /\ route = None /\ pending = None)
    BY <1>3, <1>12, <2>1, <2>3 DEF Cleanup
  <2> QED
    BY <2>2, <2>3
<1>13. CASE UNCHANGED <<assigned, route, version, registry, users, pending, handoffs, order, call>>
  BY <1>3, <1>13
<1>14. ASSUME NEW w \in Workers, AdvanceWorker(w) \/ Boot(w) \/ Crash(w) \/ Connect(w)
       PROVE  SettleInv'
  BY <1>10, <1>11, <1>13, <1>14
  DEF AdvanceWorker, HandleRelease, HandleFrame, RefuseFrame, Boot, ListGroups, HydrateListed, Crash, Connect, maps
<1>15. ASSUME NEW c \in Calls, FailDb(c) PROVE SettleInv'
  <2>1. call' = WithAt(call, c, "done") /\ At(c) = "writing" /\ ~NoDbFault
    BY <1>15 DEF FailDb, WithAt, NoDbFault
  <2>2. /\ call'[c].at = "done" /\ call'[c].new = call[c].new
        /\ \A d \in Calls \ {c} : call'[d] = call[d]
    BY <1>1, <2>1, MoveEffect
  <2>3. c = Latest /\ Latest' = Latest
    BY <1>15, <2>1 DEF FailDb, Latest, VersionInv, Reigns, InSection
  <2>4. Ledger'
    BY <1>15, <2>1, <2>2, LedgerKept DEF FailDb, SettleInv, Handing
  <2>5. Targeted'
    BY <2>1, <2>2, TargetedKept DEF SettleInv, Handing
  <2> QED
    BY <2>1, <2>2, <2>3, <2>4, <2>5
    DEF SettleInv, Settled, Writing, Reassigned, InSection, Handing, NoDbFault
<1>16. CASE Finished
  BY <1>13, <1>16 DEF Finished, vars, maps
<1> QED
  BY <1>4, <1>5, <1>6, <1>8, <1>9, <1>12, <1>14, <1>15, <1>16, SettleMoves
  DEF Next, AdvanceCall, FaultyCall

-----------------------------------------------------------------------------
(* When the versions tell the calls apart.                                 *)

\* Nobody gets a version as long as a superseded handoff outlives the calls that
\* superseded it: their versions would be given out again.
Orderly == order' # order /\ Over(Latest) => \A c \in Calls : ~Handing(c)

\* A step gives one call its version, or nobody.
Numbers(c) ==
  /\ At(c) \in {"idle", "locking"}
  /\ order' = Append(order, c) /\ version' = version + 1
  /\ call'[c].at = "writing" /\ call'[c].ver = version + 1
  /\ \A d \in Calls \ {c} : Alike(call'[d], call[d])
NumbersNobody ==
  /\ order' = order
  /\ version' \in {version, 0}
  /\ \A d \in Calls : /\ Active(d)' => Active(d) /\ call'[d].ver = call[d].ver
                      /\ Handing(d)' => Handing(d) \/ InSection(d)
                      /\ Active(d) => Active(d)' \/ At(d)' = "done"
                      /\ Handing(d) => Handing(d)' \/ At(d)' = "done"
                      /\ At(d) = "done" => At(d)' = "done"

LEMMA WhoIsNumbered ==
  ASSUME LockInv, Next
  PROVE  NumbersNobody \/ \E c \in Calls : Numbers(c)
<1> USE DEF At, Alike
<1>1. Shape /\ Records(call)
  BY DEF LockInv, Shape
<1>2. ASSUME NEW c \in Calls, NEW w \in Workers, Enter(c, w)
      PROVE  NumbersNobody \/ Numbers(c)
  BY <1>1, <1>2, EnterEffect DEF NumbersNobody, Numbers, Active, InSection, Handing
<1>3. ASSUME NEW c \in Calls, Acquire(c) PROVE Numbers(c)
  <2>1. BeginSection(c, call) /\ At(c) = "locking"
    BY <1>3 DEF Acquire
  <2>2. order' = Append(order, c) /\ version' = version + 1
    BY <2>1 DEF BeginSection
  <2> QED
    BY <1>1, <2>1, <2>2, BeginEffect DEF Numbers
<1>4. ASSUME NEW c \in Calls, NEW a, Moves(c, a), call' = WithAt(call, c, a)
      PROVE  NumbersNobody
  <2>1. /\ call'[c].at = a /\ call'[c].ver = call[c].ver
        /\ \A d \in Calls \ {c} : call'[d] = call[d]
    BY <1>1, <1>4, MoveEffect
  <2>2. order' = order /\ version' \in {version, 0}
    BY <1>4 DEF Moves, WriteDb, FailDb, Direct, SendRelease, EndHandoff, FinishVersion, maps
  <2> QED
    BY <1>4, <2>1, <2>2 DEF Moves, NumbersNobody, Active, InSection, Handing
<1>5. ASSUME NEW c \in Calls, StartHandoff(c) PROVE NumbersNobody
  <2>1. At(c) = "written" /\ order' = order /\ version' = version
    BY <1>5 DEF StartHandoff
  <2> QED
    BY <1>1, <1>5, <2>1, StartHandoffEffect DEF NumbersNobody, Active, InSection, Handing
<1>6. ASSUME NEW c \in Calls, FailRelease(c) PROVE NumbersNobody
  <2>1. order' = order /\ version' \in {version, 0}
    BY <1>6 DEF FailRelease, Drop
  <2> QED
    BY <1>1, <1>6, <2>1, FailReleaseEffect DEF NumbersNobody, Active, InSection, Handing
<1>7. ASSUME order' = order, version' \in {version, 0}, \A d \in Calls : Alike(call'[d], call[d]) PROVE NumbersNobody
  BY <1>7 DEF NumbersNobody, Active, InSection, Handing
<1>8. ASSUME NEW w, NEW n, Drop(w, n), call' = DropCall(w, n), order' = order
      PROVE  NumbersNobody
  <2>1. version' \in {version, 0}
    BY <1>8 DEF Drop
  <2> QED
    BY <1>1, <1>7, <1>8, <2>1, ResolvingEffect
<1>9. ASSUME NEW c \in Calls, Timeout(c) PROVE NumbersNobody
  BY <1>1, <1>7, <1>9, ResolvingEffect DEF Timeout, maps
<1>10. ASSUME NEW w \in Workers, DeliverAck(w) PROVE NumbersNobody
  BY <1>1, <1>7, <1>10, ResolvingEffect DEF DeliverAck, maps
<1>11. ASSUME UNCHANGED <<call, order>>, version' \in {version, 0} PROVE NumbersNobody
  BY <1>7, <1>11
<1>12. ASSUME NEW s \in Senders, StartSend(s) \/ AdvanceSender(s) PROVE NumbersNobody
  BY <1>8, <1>11, <1>12
  DEF StartSend, AdvanceSender, FailFrame, ReadAssignment, CacheRoute, SendFrame, EndSend, maps
<1>13. ASSUME NEW w \in Workers, AdvanceWorker(w) \/ Boot(w) \/ Crash(w) \/ Connect(w)
       PROVE  NumbersNobody
  BY <1>8, <1>10, <1>11, <1>13
  DEF AdvanceWorker, Disconnect, HandleRelease, HandleFrame, RefuseFrame, Boot, ListGroups, HydrateListed, Crash, Connect,
      maps
<1>14. CASE Cleanup \/ Finished
  BY <1>11, <1>14 DEF Cleanup, Finished, vars, maps
<1> QED
  BY <1>1, <1>2, <1>3, <1>4, <1>5, <1>6, <1>9, <1>10, <1>12, <1>13, <1>14, MovesEffect
  DEF Next, AdvanceCall, FaultyCall

\* A new version is above those of the handoffs in progress.
LEMMA OrderedStep ==
  ASSUME LockInv, OneWriter', VersionInv, VersionInv', SettleInv, VersionsDiffer, Ordered,
         Next, Orderly
  PROVE  VersionsDiffer' /\ Ordered'
<1> USE DEF At, Alike
<1>1. order \in Seq(Calls) /\ Latest \in Calls \cup {None}
  BY LatestKnown DEF VersionInv
<1>2. ASSUME NEW c \in Calls, Numbers(c) PROVE VersionsDiffer' /\ Ordered'
  <2>1. Latest' = c /\ order' # order /\ InSection(c)'
    BY <1>1, <1>2, LatestAppended, AppendProperties, LenProperties DEF Numbers, InSection
  <2>2. version \in Nat /\ \A d \in Calls : Handing(d) => call[d].ver \in Nat
    BY DEF VersionInv, Numbered, Active
  <2>3. ASSUME NEW d \in Calls \ {c}, Active(d)'
        PROVE  Handing(d) /\ call'[d].ver = call[d].ver /\ call[d].ver <= version
    <3>1. ~InSection(d)'
      BY <2>1, <2>3 DEF OneWriter, InSection
    <3>2. Handing(d) /\ call'[d].ver = call[d].ver
      BY <1>2, <2>3, <3>1 DEF Numbers, Active, InSection, Handing
    <3>3. ~Over(Latest) /\ Latest \in Calls
      BY <1>1, <2>1, <3>2 DEF Orderly, Over
    <3>4. Handing(Latest) /\ call[Latest].ver = version
      <4>1. Latest # c /\ Active(Latest)
        BY <1>2, <3>3 DEF Numbers, VersionInv, Entry, Active, InSection, Handing
      <4>2. ~InSection(Latest)
        BY <1>2, <2>1, <3>3, <4>1 DEF Numbers, OneWriter, InSection
      <4> QED
        BY <3>3, <4>1, <4>2 DEF Active, SettleInv, Reassigned
    <3> QED
      BY <2>2, <3>2, <3>3, <3>4 DEF Ordered
  <2>4. call'[c].ver = version + 1
    BY <1>2 DEF Numbers
  <2>5. VersionsDiffer'
    <3> SUFFICES ASSUME NEW d \in Calls, NEW e \in Calls, d # e, Active(d)', Active(e)'
                 PROVE  call'[d].ver # call'[e].ver
      BY DEF VersionsDiffer
    <3>1. CASE d = c \/ e = c
      BY <2>2, <2>3, <2>4, <3>1
    <3>2. CASE d # c /\ e # c
      BY <2>3, <3>2 DEF VersionsDiffer, Active
    <3> QED
      BY <3>1, <3>2
  <2>6. Ordered'
    BY <2>1, <2>2, <2>3, <2>4 DEF Ordered, Active
  <2> QED
    BY <2>5, <2>6
<1>3. CASE NumbersNobody
  <2>1. VersionsDiffer'
    BY <1>3 DEF NumbersNobody, VersionsDiffer
  <2>2. Latest' = Latest
    BY <1>3 DEF NumbersNobody, Latest
  <2>3. SUFFICES ASSUME ~Over(Latest)', NEW d \in Calls, Handing(d)', d # Latest
                 PROVE  call'[d].ver < call'[Latest].ver
    BY <2>1, <2>2 DEF Ordered
  <2>4. PICK c \in Calls : c = Latest
    BY <1>1, <2>2, <2>3 DEF Over
  <2>5. ~Over(c)' /\ ~Over(c)
    BY <1>3, <2>2, <2>3, <2>4 DEF Over, NumbersNobody
  <2>6. Active(c)'
    BY <2>2, <2>4, <2>5 DEF VersionInv, Entry, Active, InSection, Handing
  <2>7. Handing(d) /\ call'[d].ver = call[d].ver /\ call'[c].ver = call[c].ver
    BY <1>3, <2>3, <2>6 DEF NumbersNobody, VersionInv, Reigns, Active
  <2> QED
    BY <2>3, <2>4, <2>5, <2>7 DEF Ordered
<1> QED
  BY <1>2, <1>3, WhoIsNumbered

\* Of two calls, one that gets a version while the other hands over finds the
\* other's version in the entry.
LEMMA TwoCallsOrderly ==
  ASSUME NEW a, NEW b, Calls \subseteq {a, b}, LockInv, VersionInv, Next
  PROVE  Orderly
<1> USE DEF At
<1> SUFFICES ASSUME order' # order, Over(Latest), NEW d \in Calls, Handing(d) PROVE FALSE
  BY DEF Orderly
<1>1. PICK c \in Calls : Numbers(c)
  BY WhoIsNumbered DEF NumbersNobody
<1>2. Latest # None /\ Latest \in Calls
  BY LatestKnown DEF VersionInv, Numbered, Active
<1>3. At(Latest) = "done"
  BY <1>2 DEF Over
<1> QED
  BY <1>1, <1>2, <1>3 DEF Numbers, Handing

-----------------------------------------------------------------------------
(* The types of the senders and of the workers.                            *)

WithState(ss, s, v) == [ss EXCEPT ![s].at = v]
WithTo(ss, s, v) == [ss EXCEPT ![s].to = v]
WithLink(ss, s, v) == [ss EXCEPT ![s].via = v]
WithAgain(ss, s, v) == [ss EXCEPT ![s].again = v]

\* A table of sender records, whatever their fields hold.
SenderRecords(ss) ==
  /\ ss = [s \in Senders |-> ss[s]]
  /\ \A s \in Senders :
       ss[s] = [at |-> ss[s].at, to |-> ss[s].to, via |-> ss[s].via, again |-> ss[s].again]

Flags == BOOLEAN

\* Those with a fresh answer of the database know where to send.
SenderTyped(ss) ==
  /\ SenderRecords(ss)
  /\ \A s \in Senders :
       /\ ss[s].at \in SenderStates /\ ss[s].to \in Workers \cup {None}
       /\ ss[s].via \in 0..MaxLinks /\ ss[s].again \in Flags
       /\ ss[s].at = "read" => ss[s].to \in Workers

LEMMA SenderTable == \A ss : SenderTyped(ss) => ss \in [Senders -> SenderRecord]
  BY DEF SenderTyped, SenderRecords, SenderRecord, Flags

LEMMA SenderFields ==
  ASSUME NEW ss, SenderRecords(ss), NEW s \in Senders, NEW v
  PROVE  /\ SenderRecords(WithState(ss, s, v)) /\ SenderRecords(WithTo(ss, s, v))
         /\ SenderRecords(WithLink(ss, s, v)) /\ SenderRecords(WithAgain(ss, s, v))
         /\ WithState(ss, s, v)[s].at = v /\ WithState(ss, s, v)[s].to = ss[s].to
         /\ WithState(ss, s, v)[s].via = ss[s].via
         /\ WithState(ss, s, v)[s].again = ss[s].again
         /\ WithTo(ss, s, v)[s].at = ss[s].at /\ WithTo(ss, s, v)[s].to = v
         /\ WithTo(ss, s, v)[s].via = ss[s].via /\ WithTo(ss, s, v)[s].again = ss[s].again
         /\ WithLink(ss, s, v)[s].at = ss[s].at /\ WithLink(ss, s, v)[s].to = ss[s].to
         /\ WithLink(ss, s, v)[s].via = v /\ WithLink(ss, s, v)[s].again = ss[s].again
         /\ WithAgain(ss, s, v)[s].at = ss[s].at /\ WithAgain(ss, s, v)[s].to = ss[s].to
         /\ WithAgain(ss, s, v)[s].via = ss[s].via /\ WithAgain(ss, s, v)[s].again = v
         /\ \A t \in Senders \ {s} :
              /\ WithState(ss, s, v)[t] = ss[t] /\ WithTo(ss, s, v)[t] = ss[t]
              /\ WithLink(ss, s, v)[t] = ss[t] /\ WithAgain(ss, s, v)[t] = ss[t]
<1>1. SenderRecords(WithState(ss, s, v)) /\ SenderRecords(WithTo(ss, s, v))
  BY DEF SenderRecords, WithState, WithTo
<1>2. SenderRecords(WithLink(ss, s, v)) /\ SenderRecords(WithAgain(ss, s, v))
  BY DEF SenderRecords, WithLink, WithAgain
<1>3. \A t \in Senders \ {s} : WithState(ss, s, v)[t] = ss[t] /\ WithTo(ss, s, v)[t] = ss[t]
  BY DEF SenderRecords, WithState, WithTo
<1>4. \A t \in Senders \ {s} : WithLink(ss, s, v)[t] = ss[t] /\ WithAgain(ss, s, v)[t] = ss[t]
  BY DEF SenderRecords, WithLink, WithAgain
<1>5. /\ WithState(ss, s, v)[s].at = v /\ WithState(ss, s, v)[s].to = ss[s].to
      /\ WithState(ss, s, v)[s].via = ss[s].via
      /\ WithState(ss, s, v)[s].again = ss[s].again
  BY DEF SenderRecords, WithState
<1>6. /\ WithTo(ss, s, v)[s].at = ss[s].at /\ WithTo(ss, s, v)[s].to = v
      /\ WithTo(ss, s, v)[s].via = ss[s].via /\ WithTo(ss, s, v)[s].again = ss[s].again
  BY DEF SenderRecords, WithTo
<1>7. /\ WithLink(ss, s, v)[s].at = ss[s].at /\ WithLink(ss, s, v)[s].to = ss[s].to
      /\ WithLink(ss, s, v)[s].via = v /\ WithLink(ss, s, v)[s].again = ss[s].again
  BY DEF SenderRecords, WithLink
<1>8. /\ WithAgain(ss, s, v)[s].at = ss[s].at /\ WithAgain(ss, s, v)[s].to = ss[s].to
      /\ WithAgain(ss, s, v)[s].via = ss[s].via /\ WithAgain(ss, s, v)[s].again = v
  BY DEF SenderRecords, WithAgain
<1> QED
  BY <1>1, <1>2, <1>3, <1>4, <1>5, <1>6, <1>7, <1>8

WithUp(ws, w, v) == [ws EXCEPT ![w].up = v]
WithBoot(ws, w, v) == [ws EXCEPT ![w].boot = v]
WithInbox(ws, w, v) == [ws EXCEPT ![w].inbox = v]
WithAcks(ws, w, v) == [ws EXCEPT ![w].acks = v]

WorkerRecords(ws) ==
  /\ ws = [w \in Workers |-> ws[w]]
  /\ \A w \in Workers :
       ws[w] = [up |-> ws[w].up, boot |-> ws[w].boot, links |-> ws[w].links,
                inbox |-> ws[w].inbox, acks |-> ws[w].acks]

Inboxes == Seq(Calls \cup Senders)
Outboxes == Seq(Calls)
BootStates == {"due", "listed", "no"}

WorkerTyped(ws) ==
  /\ WorkerRecords(ws)
  /\ \A w \in Workers :
       /\ ws[w].up \in BOOLEAN /\ ws[w].boot \in BootStates /\ ws[w].links \in 0..MaxLinks
       /\ ws[w].inbox \in Inboxes /\ ws[w].acks \in Outboxes

LEMMA WorkerTable == \A ws : WorkerTyped(ws) => ws \in [Workers -> WorkerRecord]
  BY DEF WorkerTyped, WorkerRecords, WorkerRecord, Inboxes, Outboxes, BootStates

LEMMA Boxes ==
  /\ <<>> \in Inboxes /\ <<>> \in Outboxes
  /\ \A q \in Inboxes, m \in Calls \cup Senders : Append(q, m) \in Inboxes
  /\ \A q \in Outboxes, m \in Calls : Append(q, m) \in Outboxes
  /\ \A q \in Inboxes : q # <<>> => Tail(q) \in Inboxes
  /\ \A q \in Outboxes : q # <<>> => Tail(q) \in Outboxes
<1>1. <<>> \in Inboxes /\ <<>> \in Outboxes
  BY EmptySeq DEF Inboxes, Outboxes
<1>2. ASSUME NEW q \in Inboxes
      PROVE  /\ \A m \in Calls \cup Senders : Append(q, m) \in Inboxes
             /\ q # <<>> => Tail(q) \in Inboxes
  BY <1>2, AppendProperties, HeadTailProperties DEF Inboxes
<1>3. ASSUME NEW q \in Outboxes
      PROVE  /\ \A m \in Calls : Append(q, m) \in Outboxes
             /\ q # <<>> => Tail(q) \in Outboxes
  BY <1>3, AppendProperties, HeadTailProperties DEF Outboxes
<1> QED
  BY <1>1, <1>2, <1>3

LEMMA SetUp ==
  ASSUME NEW ws, WorkerRecords(ws), NEW w \in Workers, NEW v
  PROVE  /\ WorkerRecords(WithUp(ws, w, v))
         /\ WithUp(ws, w, v)[w].up = v
         /\ WithUp(ws, w, v)[w].boot = ws[w].boot
         /\ WithUp(ws, w, v)[w].links = ws[w].links
         /\ WithUp(ws, w, v)[w].inbox = ws[w].inbox /\ WithUp(ws, w, v)[w].acks = ws[w].acks
         /\ \A x \in Workers \ {w} : WithUp(ws, w, v)[x] = ws[x]
<1>1. WorkerRecords(WithUp(ws, w, v))
  BY DEF WorkerRecords, WithUp
<1>2. \A x \in Workers \ {w} : WithUp(ws, w, v)[x] = ws[x]
  BY DEF WorkerRecords, WithUp
<1> QED
  BY <1>1, <1>2 DEF WorkerRecords, WithUp

LEMMA SetBoot ==
  ASSUME NEW ws, WorkerRecords(ws), NEW w \in Workers, NEW v
  PROVE  /\ WorkerRecords(WithBoot(ws, w, v))
         /\ WithBoot(ws, w, v)[w].up = ws[w].up
         /\ WithBoot(ws, w, v)[w].boot = v
         /\ WithBoot(ws, w, v)[w].links = ws[w].links
         /\ WithBoot(ws, w, v)[w].inbox = ws[w].inbox
         /\ WithBoot(ws, w, v)[w].acks = ws[w].acks
         /\ \A x \in Workers \ {w} : WithBoot(ws, w, v)[x] = ws[x]
<1>1. WorkerRecords(WithBoot(ws, w, v))
  BY DEF WorkerRecords, WithBoot
<1>2. \A x \in Workers \ {w} : WithBoot(ws, w, v)[x] = ws[x]
  BY DEF WorkerRecords, WithBoot
<1> QED
  BY <1>1, <1>2 DEF WorkerRecords, WithBoot

LEMMA SetInbox ==
  ASSUME NEW ws, WorkerRecords(ws), NEW w \in Workers, NEW v
  PROVE  /\ WorkerRecords(WithInbox(ws, w, v))
         /\ WithInbox(ws, w, v)[w].up = ws[w].up
         /\ WithInbox(ws, w, v)[w].boot = ws[w].boot
         /\ WithInbox(ws, w, v)[w].links = ws[w].links
         /\ WithInbox(ws, w, v)[w].inbox = v /\ WithInbox(ws, w, v)[w].acks = ws[w].acks
         /\ \A x \in Workers \ {w} : WithInbox(ws, w, v)[x] = ws[x]
<1>1. WorkerRecords(WithInbox(ws, w, v))
  BY DEF WorkerRecords, WithInbox
<1>2. \A x \in Workers \ {w} : WithInbox(ws, w, v)[x] = ws[x]
  BY DEF WorkerRecords, WithInbox
<1> QED
  BY <1>1, <1>2 DEF WorkerRecords, WithInbox

LEMMA SetAcks ==
  ASSUME NEW ws, WorkerRecords(ws), NEW w \in Workers, NEW v
  PROVE  /\ WorkerRecords(WithAcks(ws, w, v))
         /\ WithAcks(ws, w, v)[w].up = ws[w].up
         /\ WithAcks(ws, w, v)[w].boot = ws[w].boot
         /\ WithAcks(ws, w, v)[w].links = ws[w].links
         /\ WithAcks(ws, w, v)[w].inbox = ws[w].inbox /\ WithAcks(ws, w, v)[w].acks = v
         /\ \A x \in Workers \ {w} : WithAcks(ws, w, v)[x] = ws[x]
<1>1. WorkerRecords(WithAcks(ws, w, v))
  BY DEF WorkerRecords, WithAcks
<1>2. \A x \in Workers \ {w} : WithAcks(ws, w, v)[x] = ws[x]
  BY DEF WorkerRecords, WithAcks
<1> QED
  BY <1>1, <1>2 DEF WorkerRecords, WithAcks

\* Who reads, writes, dies or comes back does it to itself, and by the types.
LEMMA WorkersStep ==
  ASSUME WorkerTyped(worker), Next
  PROVE  WorkerTyped(worker')
<1>1. WorkerRecords(worker)
  BY DEF WorkerTyped
<1>2. ASSUME NEW w, NEW n, NEW m \in Calls \cup Senders, Write(w, n, m)
      PROVE  WorkerTyped(worker')
  <2>1. CASE worker' = worker
    BY <2>1
  <2>2. CASE worker' = WithInbox(worker, w, Append(worker[w].inbox, m)) /\ w \in Workers
    <3>1. Append(worker[w].inbox, m) \in Inboxes
      BY <2>2, Boxes DEF WorkerTyped
    <3> QED
      BY <1>1, <2>2, <3>1, SetInbox DEF WorkerTyped
  <2>3. w \notin Workers => [worker EXCEPT ![w].inbox = Append(worker[w].inbox, m)] = worker
    BY <1>1 DEF WorkerRecords
  <2> QED
    BY <1>2, <2>1, <2>2, <2>3 DEF Write, WithInbox
<1>3. ASSUME NEW w \in Workers, worker[w].acks # <<>>,
             worker' = WithAcks(worker, w, Tail(worker[w].acks))
      PROVE  WorkerTyped(worker')
  <2>1. Tail(worker[w].acks) \in Outboxes
    BY <1>3, Boxes DEF WorkerTyped
  <2> QED
    BY <1>1, <1>3, <2>1, SetAcks DEF WorkerTyped
<1>4. ASSUME NEW w \in Workers, NEW v \in BootStates, worker' = WithBoot(worker, w, v)
      PROVE  WorkerTyped(worker')
  <2>1. /\ WorkerRecords(worker') /\ worker'[w].up = worker[w].up
        /\ worker'[w].boot = v /\ worker'[w].links = worker[w].links
        /\ worker'[w].inbox = worker[w].inbox /\ worker'[w].acks = worker[w].acks
        /\ \A x \in Workers \ {w} : worker'[x] = worker[x]
    BY <1>1, <1>4, SetBoot
  <2>2. \A x \in Workers : worker'[x].up \in BOOLEAN /\ worker'[x].boot \in BootStates
    BY <2>1, Zenon DEF WorkerTyped
  <2>3. \A x \in Workers : /\ worker'[x].links \in 0..MaxLinks
                           /\ worker'[x].inbox \in Inboxes /\ worker'[x].acks \in Outboxes
    BY <2>1 DEF WorkerTyped
  <2> QED
    BY <2>1, <2>2, <2>3, Zenon DEF WorkerTyped
<1>5. ASSUME NEW w \in Workers, worker[w].inbox # <<>>
      PROVE  Tail(worker[w].inbox) \in Inboxes
  BY <1>5, Boxes DEF WorkerTyped
<1>6. ASSUME NEW w \in Workers, HandleRelease(w) PROVE WorkerTyped(worker')
  <2>1. worker' = WithAcks(WithInbox(worker, w, Tail(worker[w].inbox)), w,
                           Append(worker[w].acks, Head(worker[w].inbox)))
    BY <1>6 DEF HandleRelease, WithAcks, WithInbox
  <2>2. Append(worker[w].acks, Head(worker[w].inbox)) \in Outboxes
    BY <1>6, Boxes DEF HandleRelease, WorkerTyped
  <2>3. Tail(worker[w].inbox) \in Inboxes
    BY <1>5, <1>6 DEF HandleRelease
  <2> QED
    BY <1>1, <2>1, <2>2, <2>3, SetAcks, SetInbox DEF WorkerTyped
<1>7. ASSUME NEW w \in Workers, HandleFrame(w) PROVE WorkerTyped(worker')
  <2>1. worker' = WithInbox(worker, w, Tail(worker[w].inbox))
    BY <1>7 DEF HandleFrame, WithInbox
  <2>2. Tail(worker[w].inbox) \in Inboxes
    BY <1>5, <1>7 DEF HandleFrame
  <2> QED
    BY <1>1, <2>1, <2>2, SetInbox DEF WorkerTyped
<1>8. ASSUME NEW w \in Workers, NEW v \in BOOLEAN, NEW b \in BootStates,
             worker' = WithInbox(WithBoot(WithUp(worker, w, v), w, b), w, <<>>)
      PROVE  WorkerTyped(worker')
  <2>2. /\ WorkerRecords(worker') /\ worker'[w].up = v
        /\ worker'[w].boot = b /\ worker'[w].links = worker[w].links
        /\ worker'[w].inbox = <<>> /\ worker'[w].acks = worker[w].acks
        /\ \A x \in Workers \ {w} : worker'[x] = worker[x]
    BY <1>1, <1>8, SetUp, SetBoot, SetInbox
  <2>3. \A x \in Workers : worker'[x].up \in BOOLEAN /\ worker'[x].boot \in BootStates
    BY <2>2, Zenon DEF WorkerTyped
  <2>4. \A x \in Workers : /\ worker'[x].links \in 0..MaxLinks
                           /\ worker'[x].inbox \in Inboxes /\ worker'[x].acks \in Outboxes
    BY <2>2, Boxes DEF WorkerTyped
  <2> QED
    BY <2>2, <2>3, <2>4, Zenon DEF WorkerTyped
<1>9. ASSUME NEW w \in Workers, Connect(w) PROVE WorkerTyped(worker')
  <2>1. PICK a \in {worker[w].acks, <<>>} :
          worker' = [worker EXCEPT ![w] = [up |-> TRUE, boot |-> "due",
                       links |-> worker[w].links + 1, inbox |-> <<>>, acks |-> a]]
    BY <1>9 DEF Connect
  <2>2. <<>> \in Inboxes /\ <<>> \in Outboxes
    BY Boxes
  <2>3. a \in Outboxes
    BY <2>2 DEF WorkerTyped
  <2>4. worker[w].links + 1 \in 0..MaxLinks
    BY <1>9, MaxLinksAssumption DEF Connect, WorkerTyped
  <2>5. /\ WorkerRecords(worker')
        /\ worker'[w].up = TRUE /\ worker'[w].boot = "due"
        /\ worker'[w].links = worker[w].links + 1
        /\ worker'[w].inbox = <<>> /\ worker'[w].acks = a
        /\ \A x \in Workers \ {w} : worker'[x] = worker[x]
    BY <1>1, <2>1 DEF WorkerRecords
  <2>6. \A x \in Workers : worker'[x].up \in BOOLEAN /\ worker'[x].boot \in BootStates
    <3>1. worker'[w].up \in BOOLEAN /\ worker'[w].boot \in BootStates
      BY <2>5 DEF BootStates
    <3> QED
      BY <2>5, <3>1, Zenon DEF WorkerTyped
  <2>7. \A x \in Workers : /\ worker'[x].links \in 0..MaxLinks
                           /\ worker'[x].inbox \in Inboxes /\ worker'[x].acks \in Outboxes
    BY <2>2, <2>3, <2>4, <2>5 DEF WorkerTyped
  <2> QED
    BY <2>5, <2>6, <2>7, Zenon DEF WorkerTyped
<1>10. CASE worker' = worker
  BY <1>10
<1>11. ASSUME NEW c \in Calls, AdvanceCall(c) \/ FaultyCall(c) PROVE WorkerTyped(worker')
  <2>1. CASE SendRelease(c)
    BY <1>2, <2>1 DEF SendRelease
  <2>2. CASE ~SendRelease(c)
    BY <1>10, <1>11, <2>2
    DEF AdvanceCall, FaultyCall, Acquire, WriteDb, Direct, StartHandoff, Timeout, EndHandoff,
        FailDb, FailRelease, procs
  <2> QED
    BY <2>1, <2>2
<1>12. ASSUME NEW c \in Calls, NEW w \in Workers, Enter(c, w) PROVE WorkerTyped(worker')
  BY <1>10, <1>12 DEF Enter, procs
<1>13. ASSUME NEW s \in Senders, StartSend(s) \/ AdvanceSender(s) PROVE WorkerTyped(worker')
  <2>1. CASE SendFrame(s)
    BY <1>2, <2>1 DEF SendFrame
  <2>2. CASE ~SendFrame(s)
    BY <1>10, <1>13, <2>2
    DEF StartSend, AdvanceSender, ReadAssignment, CacheRoute, FailFrame, EndSend, procs
  <2> QED
    BY <2>1, <2>2
<1>14. ASSUME NEW w \in Workers, AdvanceWorker(w) \/ Boot(w) \/ Crash(w) \/ Connect(w)
       PROVE  WorkerTyped(worker')
  <2>1. DeliverAck(w) => WorkerTyped(worker')
    BY <1>3 DEF DeliverAck, WithAcks
  <2>2. Boot(w) => WorkerTyped(worker')
    <3>1. Boot(w) => \E v \in BootStates : worker' = WithBoot(worker, w, v)
      BY DEF Boot, ListGroups, HydrateListed, WithBoot, BootStates
    <3> QED
      BY <1>4, <3>1
  <2>3. RefuseFrame(w) \/ Crash(w) => WorkerTyped(worker')
    <3>1. RefuseFrame(w) \/ Crash(w) =>
            worker' = WithInbox(WithBoot(WithUp(worker, w, FALSE), w, "no"), w, <<>>)
      BY DEF RefuseFrame, Crash, Dead, WithInbox, WithBoot, WithUp
    <3>2. FALSE \in BOOLEAN /\ "no" \in BootStates
      BY DEF BootStates
    <3> QED
      BY <1>8, <3>1, <3>2
  <2>4. Disconnect(w) => WorkerTyped(worker')
    BY <1>10 DEF Disconnect, procs
  <2> QED
    BY <1>6, <1>7, <1>9, <1>14, <2>1, <2>2, <2>3, <2>4 DEF AdvanceWorker
<1>15. CASE Cleanup \/ Finished
  BY <1>10, <1>15 DEF Cleanup, Finished, vars, procs
<1> QED
  BY <1>11, <1>12, <1>13, <1>14, <1>15 DEF Next

\* A sender that sends has a worker of the group, and its connection.
LEMMA DispatchTyped ==
  ASSUME SenderTyped(sender), link \in [Workers -> 0..MaxLinks],
         NEW s \in Senders, NEW w \in Workers, NEW r, Dispatch(s, w, r)
  PROVE  SenderTyped(sender') /\ route' \in {r, None}
<1>. SUFFICES SenderTyped(sender')
  BY DEF Dispatch
<1>1. SenderRecords(sender)
  BY DEF SenderTyped
<1>2. CASE sender' = [sender EXCEPT ![s].at = "sending", ![s].to = w, ![s].via = link[w]]
  <2>1. sender' = WithLink(WithTo(WithState(sender, s, "sending"), s, w), s, link[w])
    BY <1>2 DEF WithLink, WithTo, WithState
  <2>2. link[w] \in 0..MaxLinks
    OBVIOUS
  <2>3. /\ SenderRecords(sender') /\ sender'[s].at = "sending" /\ sender'[s].to = w
        /\ sender'[s].via = link[w] /\ sender'[s].again = sender[s].again
        /\ \A t \in Senders \ {s} : sender'[t] = sender[t]
    BY <1>1, <2>1, SenderFields
  <2> QED
    BY <2>2, <2>3 DEF SenderTyped, SenderStates
<1>3. ASSUME NEW v \in Flags, sender' = WithAgain(WithState(sender, s, "reading"), s, v)
      PROVE  SenderTyped(sender')
  <2>1. /\ SenderRecords(sender') /\ sender'[s].at = "reading" /\ sender'[s].to = sender[s].to
        /\ sender'[s].via = sender[s].via /\ sender'[s].again = v
        /\ \A t \in Senders \ {s} : sender'[t] = sender[t]
    BY <1>1, <1>3, SenderFields
  <2> QED
    BY <1>3, <2>1 DEF SenderTyped, SenderStates
<1>4. CASE sender' = [sender EXCEPT ![s].at = "reading", ![s].again = TRUE]
  <2>1. sender' = WithAgain(WithState(sender, s, "reading"), s, TRUE)
    BY <1>4 DEF WithAgain, WithState
  <2>2. TRUE \in Flags
    BY DEF Flags
  <2> QED
    BY <1>3, <2>1, <2>2
<1>5. CASE sender' = [sender EXCEPT ![s].at = "done"]
  <2>1. sender' = WithState(sender, s, "done")
    BY <1>5 DEF WithState
  <2>2. /\ SenderRecords(sender') /\ sender'[s].at = "done" /\ sender'[s].to = sender[s].to
        /\ sender'[s].via = sender[s].via /\ sender'[s].again = sender[s].again
        /\ \A t \in Senders \ {s} : sender'[t] = sender[t]
    BY <1>1, <2>1, SenderFields
  <2> QED
    BY <2>2 DEF SenderTyped, SenderStates
<1> QED
  BY <1>2, <1>4, <1>5 DEF Dispatch

\* Where the senders and the routes come from.
LEMMA SendersStep ==
  ASSUME SenderTyped(sender), link \in [Workers -> 0..MaxLinks],
         assigned \in Workers \cup {None}, route \in Workers \cup {None},
         NEW s \in Senders, StartSend(s) \/ AdvanceSender(s)
  PROVE  SenderTyped(sender') /\ route' \in Workers \cup {None}
<1>1. SenderRecords(sender)
  BY DEF SenderTyped
<1>2. ASSUME NEW a \in SenderStates \ {"read"}, sender' = [sender EXCEPT ![s].at = a]
      PROVE  SenderTyped(sender')
  <2>1. sender' = WithState(sender, s, a)
    BY <1>2 DEF WithState
  <2>2. /\ SenderRecords(sender') /\ sender'[s].at = a /\ sender'[s].to = sender[s].to
        /\ sender'[s].via = sender[s].via /\ sender'[s].again = sender[s].again
        /\ \A t \in Senders \ {s} : sender'[t] = sender[t]
    BY <1>1, <2>1, SenderFields
  <2> QED
    BY <1>2, <2>2 DEF SenderTyped, SenderStates
<1>3. CASE StartSend(s)
  <2>1. CASE route # None /\ Dispatch(s, route, route)
    BY <2>1, DispatchTyped
  <2>2. CASE sender' = [sender EXCEPT ![s].at = "reading"] /\ route' = route
    BY <1>2, <2>2 DEF SenderStates
  <2> QED
    BY <1>3, <2>1, <2>2 DEF StartSend
<1>4. CASE ReadAssignment(s)
  <2>1. sender' = WithTo(WithState(sender, s, "read"), s, WorkerFor(assigned))
    BY <1>4 DEF ReadAssignment, WithTo, WithState
  <2>2. WorkerFor(assigned) \in Workers
    BY DefaultWorkerAssumption DEF WorkerFor
  <2>3. /\ SenderRecords(sender') /\ sender'[s].at = "read" /\ sender'[s].to = WorkerFor(assigned)
        /\ sender'[s].via = sender[s].via /\ sender'[s].again = sender[s].again
        /\ \A t \in Senders \ {s} : sender'[t] = sender[t]
    BY <1>1, <2>1, SenderFields
  <2>4. route' = route
    BY <1>4 DEF ReadAssignment, maps
  <2> QED
    BY <2>2, <2>4, <2>3 DEF SenderTyped, SenderStates
<1>5. CASE CacheRoute(s)
  <2>1. sender[s].to \in Workers
    BY <1>5 DEF CacheRoute, SenderTyped
  <2> QED
    BY <1>5, <2>1, DispatchTyped DEF CacheRoute
<1>6. CASE SendFrame(s) \/ FailFrame(s) \/ EndSend(s)
  <2>1. \E a \in SenderStates \ {"read"} : sender' = [sender EXCEPT ![s].at = a]
    BY <1>6 DEF SendFrame, FailFrame, EndSend, SenderStates
  <2>2. route' \in {route, None}
    BY <1>6 DEF SendFrame, FailFrame, EndSend, Drop, maps
  <2> QED
    BY <1>2, <2>1, <2>2
<1> QED
  BY <1>3, <1>4, <1>5, <1>6 DEF AdvanceSender

-----------------------------------------------------------------------------
(* The counters and the table of the calls.                                *)

\* The calls that got a version, and those that got as far as a handoff.
Started == {c \in Calls : Active(c) \/ At(c) = "done"}
Handed == {c \in Calls : Handing(c) \/ At(c) = "done"}

\* A clean-up stands for a handoff that a disconnect took out of
\* _pending_handoffs: each call has at most one of the two.
Owed == cleanups + (IF pending = None THEN 0 ELSE 1)
Bounded ==
  /\ version <= Cardinality(Started)
  /\ cleanups \in Nat /\ Owed <= Cardinality(Handed)

LEMMA StartedFinite ==
  /\ IsFiniteSet(Started) /\ Cardinality(Started) \in Nat
  /\ IsFiniteSet(Handed) /\ Cardinality(Handed) \in Nat
  /\ Cardinality(Started) <= Cardinality(Calls) /\ Cardinality(Handed) <= Cardinality(Calls)
  /\ Cardinality(Calls) \in Nat
BY CallsAssumption, FS_Subset, FS_CardinalityType DEF Started, Handed

LEMMA StartedGrows ==
  ASSUME LockInv, Next
  PROVE  Started \subseteq Started' /\ Handed \subseteq Handed'
<1> USE DEF At, Alike
<1>1. CASE NumbersNobody
  BY <1>1 DEF NumbersNobody, Started, Handed
<1>2. ASSUME NEW c \in Calls, Numbers(c) PROVE Started \subseteq Started' /\ Handed \subseteq Handed'
  BY <1>2 DEF Numbers, Started, Handed, Active, InSection, Handing
<1> QED
  BY <1>1, <1>2, WhoIsNumbered

\* Only a handoff that starts adds to what is owed.
LEMMA OwedStep ==
  ASSUME VersionInv, Pending, cleanups \in Nat, Next
  PROVE  /\ cleanups' \in Nat
         /\ Owed' <= Owed \/ \E c \in Calls : StartHandoff(c) /\ Owed' = Owed + 1
<1>1. ASSUME cleanups' = cleanups, pending' \in {pending, None}
      PROVE  cleanups' \in Nat /\ Owed' <= Owed
  BY <1>1 DEF Owed
<1>2. ASSUME NEW w, NEW n, Drop(w, n) PROVE cleanups' \in Nat /\ Owed' <= Owed
  BY <1>2 DEF Drop, Owed
<1>3. ASSUME NEW c \in Calls, StartHandoff(c) PROVE cleanups' \in Nat /\ Owed' = Owed + 1
  <2>1. pending = None /\ pending' = c /\ c # None /\ cleanups' = cleanups
    BY <1>3, NoneAssumption DEF StartHandoff, Pending, InSection
  <2> QED
    BY <2>1 DEF Owed
<1>4. CASE Cleanup
  BY <1>4 DEF Cleanup, Owed
<1>5. ASSUME NEW c \in Calls, NEW w \in Workers, Enter(c, w)
      PROVE  cleanups' \in Nat /\ Owed' <= Owed
  BY <1>1, <1>5 DEF Enter, BeginSection
<1>6. ASSUME NEW c \in Calls, AdvanceCall(c) \/ FaultyCall(c), ~StartHandoff(c)
      PROVE  cleanups' \in Nat /\ Owed' <= Owed
  <2>1. CASE FailRelease(c)
    BY <1>2, <2>1 DEF FailRelease
  <2>2. CASE ~FailRelease(c)
    BY <1>1, <1>6, <2>2
    DEF AdvanceCall, FaultyCall, Acquire, BeginSection, WriteDb, Direct, SendRelease, Timeout,
        EndHandoff, FailDb, maps
  <2> QED
    BY <2>1, <2>2
<1>7. ASSUME NEW s \in Senders, StartSend(s) \/ AdvanceSender(s)
      PROVE  cleanups' \in Nat /\ Owed' <= Owed
  BY <1>1, <1>2, <1>7
  DEF StartSend, AdvanceSender, ReadAssignment, CacheRoute, SendFrame, FailFrame, EndSend, maps
<1>8. ASSUME NEW w \in Workers, AdvanceWorker(w) \/ Boot(w) \/ Crash(w) \/ Connect(w)
      PROVE  cleanups' \in Nat /\ Owed' <= Owed
  BY <1>1, <1>2, <1>8
  DEF AdvanceWorker, DeliverAck, HandleRelease, HandleFrame, RefuseFrame, Disconnect, Boot, ListGroups, HydrateListed,
      Crash, Connect, maps
<1>9. CASE Finished
  BY <1>1, <1>9 DEF Finished, vars, maps
<1> QED
  BY <1>3, <1>4, <1>5, <1>6, <1>7, <1>8, <1>9 DEF Next

LEMMA BoundedStep ==
  ASSUME LockInv, Pending, VersionInv, VersionInv', Bounded, Next
  PROVE  Bounded'
<1> USE DEF At, Alike
<1>1. /\ IsFiniteSet(Started') /\ IsFiniteSet(Handed')
      /\ Cardinality(Started) <= Cardinality(Started') /\ Cardinality(Started') \in Nat
      /\ Cardinality(Handed) <= Cardinality(Handed') /\ Cardinality(Handed') \in Nat
      /\ Cardinality(Started) \in Nat /\ Cardinality(Handed) \in Nat
  <2>1. IsFiniteSet(Started') /\ IsFiniteSet(Handed')
    BY CallsAssumption, FS_Subset DEF Started, Handed
  <2> QED
    BY <2>1, StartedGrows, StartedFinite, FS_Subset, FS_CardinalityType
<1>2. version \in Nat /\ version' \in Nat
  BY DEF VersionInv, Numbered
<1>3. version' <= Cardinality(Started')
  <2>1. CASE NumbersNobody
    BY <1>1, <1>2, <2>1 DEF NumbersNobody, Bounded
  <2>2. ASSUME NEW c \in Calls, Numbers(c) PROVE version' <= Cardinality(Started')
    <3>1. c \notin Started /\ Started \cup {c} \subseteq Started'
      BY <2>2, StartedGrows DEF Numbers, Started, Active, InSection, Handing
    <3>2. Cardinality(Started \cup {c}) = Cardinality(Started) + 1
      BY <3>1, StartedFinite, FS_AddElement
    <3>3. Cardinality(Started \cup {c}) <= Cardinality(Started')
      BY <1>1, <3>1, FS_Subset
    <3> QED
      BY <1>1, <1>2, <2>2, <3>2, <3>3 DEF Numbers, Bounded
  <2> QED
    BY <2>1, <2>2, WhoIsNumbered
<1>4. cleanups' \in Nat /\ Owed' <= Cardinality(Handed')
  <2>1. cleanups \in Nat /\ Owed \in Nat /\ Owed <= Cardinality(Handed)
    BY DEF Bounded, Owed
  <2>2. cleanups' \in Nat /\ Owed' \in Nat
    BY <2>1, OwedStep DEF Owed
  <2>3. CASE Owed' <= Owed
    BY <1>1, <2>1, <2>2, <2>3
  <2>4. ASSUME NEW c \in Calls, StartHandoff(c), Owed' = Owed + 1
        PROVE  Owed' <= Cardinality(Handed')
    <3>1. c \notin Handed /\ Handed \cup {c} \subseteq Handed'
      <4>1. Shape /\ At(c) = "written"
        BY <2>4 DEF LockInv, StartHandoff
      <4>2. call'[c].at = "sending"
        BY <2>4, <4>1, StartHandoffEffect
      <4> QED
        BY <4>1, <4>2, StartedGrows DEF Handed, Handing
    <3>2. Cardinality(Handed \cup {c}) = Cardinality(Handed) + 1
      BY <3>1, StartedFinite, FS_AddElement
    <3>3. Cardinality(Handed \cup {c}) <= Cardinality(Handed')
      BY <1>1, <3>1, FS_Subset
    <3> QED
      BY <1>1, <2>1, <2>4, <3>2, <3>3
  <2> QED
    BY <2>1, <2>2, <2>3, <2>4, OwedStep
<1> QED
  BY <1>3, <1>4 DEF Bounded

\* What TypeOK says beside the shape of the state and its counters.
Typed ==
  /\ assigned \in Workers \cup {None} /\ route \in Workers \cup {None}
  /\ owner \in Workers \cup {None} /\ astray \in BOOLEAN
  /\ link \in [Workers -> 0..MaxLinks]
  /\ handoffs \subseteq Versions /\ call \in CallTable
  /\ SenderTyped(sender) /\ WorkerTyped(worker)

LEMMA CallsStep ==
  ASSUME LockInv, Typed, version' \in Versions, Next
  PROVE  call' \in CallTable /\ handoffs' \subseteq Versions
<1> USE DEF At
<1>1. Shape /\ Records(call) /\ call \in CallTable
  BY DEF LockInv, Shape, Typed
<1>2. /\ {"idle", "locking", "writing", "written", "sending", "closing", "waiting", "done"}
           \subseteq CallStates
      /\ {"unset", "released", "gone", "cancelled", "expired"} \subseteq Futures
  BY DEF CallStates, Futures
<1>3. ASSUME NEW d \in Calls, Alike(call'[d], call[d])
      PROVE  /\ call'[d].at \in CallStates /\ call'[d].new \in Workers \cup {None}
             /\ call'[d].old \in Workers \cup {None} /\ call'[d].ver \in Versions
             /\ call'[d].lock \in Calls \cup {None} /\ call'[d].via \in 0..MaxLinks
  BY <1>1, <1>3, RecordFields DEF Alike
<1>4. \A d \in Calls : call[d].fut \in Futures
  BY <1>1, RecordFields
<1>5. ASSUME NEW c \in Calls, NEW w \in Workers, Enter(c, w)
      PROVE  call' \in CallTable /\ handoffs' = handoffs
  <2>1. handoffs' = handoffs
    BY <1>5 DEF Enter
  <2>2. /\ Records(call')
        /\ \A d \in Calls \ {c} : Alike(call'[d], call[d]) /\ call'[d].fut \in Futures
    BY <1>1, <1>2, <1>4, <1>5, EnterEffect
  <2>3. /\ call'[c].at \in CallStates /\ call'[c].new \in Workers \cup {None}
        /\ call'[c].old \in Workers \cup {None} /\ call'[c].ver \in Versions
        /\ call'[c].fut \in Futures
        /\ call'[c].lock \in Calls \cup {None} /\ call'[c].via \in 0..MaxLinks
    BY <1>1, <1>2, <1>4, <1>5, EnterEffect, RecordFields
  <2>4. call' \in CallTable
    BY <1>3, <2>2, <2>3, TypedRecords
  <2> QED
    BY <2>1, <2>4
<1>6. ASSUME NEW c \in Calls, Acquire(c) PROVE call' \in CallTable /\ handoffs' = handoffs
  <2>1. BeginSection(c, call) /\ handoffs' = handoffs
    BY <1>6 DEF Acquire
  <2>2. version' = version + 1
    BY <2>1 DEF BeginSection
  <2>3. /\ Records(call')
        /\ \A d \in Calls \ {c} : Alike(call'[d], call[d]) /\ call'[d].fut \in Futures
    BY <1>1, <1>2, <1>4, <2>1, BeginEffect
  <2>4. /\ call'[c].at \in CallStates /\ call'[c].new \in Workers \cup {None}
        /\ call'[c].old \in Workers \cup {None} /\ call'[c].ver \in Versions
        /\ call'[c].fut \in Futures
        /\ call'[c].lock \in Calls \cup {None} /\ call'[c].via \in 0..MaxLinks
    BY <1>1, <1>2, <1>4, <2>1, <2>2, BeginEffect, RecordFields
  <2>5. call' \in CallTable
    BY <1>3, <2>3, <2>4, TypedRecords
  <2> QED
    BY <2>1, <2>5
<1>7. ASSUME NEW c \in Calls, NEW a, Moves(c, a), call' = WithAt(call, c, a)
      PROVE  call' \in CallTable /\ handoffs' \subseteq Versions
  <2>1. a \in CallStates
    BY <1>2, <1>7 DEF Moves
  <2>2. handoffs' \subseteq handoffs
    BY <1>7 DEF Moves, WriteDb, FailDb, Direct, SendRelease, EndHandoff, maps
  <2> QED
    BY <1>1, <1>7, <2>1, <2>2, TypedWith DEF Typed
<1>8. ASSUME NEW c \in Calls, StartHandoff(c)
      PROVE  call' \in CallTable /\ handoffs' \subseteq Versions
  <2>1. route \in Workers /\ link[route] \in 0..MaxLinks
    BY <1>8 DEF StartHandoff, NobodyToAsk, Typed
  <2>2. handoffs' = handoffs \cup {call[c].ver} /\ call[c].ver \in Versions
    BY <1>1, <1>8, RecordFields DEF StartHandoff
  <2>3. /\ Records(call') /\ \A d \in Calls \ {c} : call'[d] = call[d]
        /\ call'[c].at \in CallStates /\ call'[c].new \in Workers \cup {None}
        /\ call'[c].old \in Workers \cup {None} /\ call'[c].ver \in Versions
        /\ call'[c].fut \in Futures
        /\ call'[c].lock \in Calls \cup {None} /\ call'[c].via \in 0..MaxLinks
    BY <1>1, <1>2, <1>8, <2>1, StartHandoffEffect, RecordFields
  <2>4. call' \in CallTable
    BY <1>1, <2>3, TypedRecords, RecordFields
  <2> QED
    BY <2>2, <2>4 DEF Typed
<1>9. ASSUME NEW c \in Calls, FailRelease(c) PROVE call' \in CallTable /\ handoffs' = handoffs
  <2>1. handoffs' = handoffs
    BY <1>9 DEF FailRelease
  <2>2. /\ Records(call')
        /\ \A d \in Calls \ {c} : Alike(call'[d], call[d]) /\ call'[d].fut \in Futures
    BY <1>1, <1>2, <1>4, <1>9, FailReleaseEffect
  <2>3. /\ call'[c].at \in CallStates /\ call'[c].new \in Workers \cup {None}
        /\ call'[c].old \in Workers \cup {None} /\ call'[c].ver \in Versions
        /\ call'[c].fut \in Futures
        /\ call'[c].lock \in Calls \cup {None} /\ call'[c].via \in 0..MaxLinks
    BY <1>1, <1>2, <1>4, <1>9, FailReleaseEffect, RecordFields
  <2>4. call' \in CallTable
    BY <1>3, <2>2, <2>3, TypedRecords
  <2> QED
    BY <2>1, <2>4
<1>10. ASSUME Records(call'), handoffs' = handoffs,
              \A d \in Calls :
                /\ Alike(call'[d], call[d])
                /\ call'[d].fut \in {call[d].fut, "expired", "released", "gone"}
       PROVE  call' \in CallTable /\ handoffs' = handoffs
  BY <1>1, <1>2, <1>4, <1>10, TypedAlike
<1>11. ASSUME NEW w, NEW n, Drop(w, n), call' = DropCall(w, n), handoffs' = handoffs
       PROVE  call' \in CallTable /\ handoffs' = handoffs
  BY <1>1, <1>10, <1>11, ResolvingEffect
<1>12. ASSUME NEW c \in Calls, Timeout(c) PROVE call' \in CallTable /\ handoffs' = handoffs
  BY <1>1, <1>10, <1>12, ResolvingEffect DEF Timeout, maps
<1>13. ASSUME NEW w \in Workers, DeliverAck(w)
       PROVE  call' \in CallTable /\ handoffs' = handoffs
  BY <1>1, <1>10, <1>13, ResolvingEffect DEF DeliverAck, maps
<1>14. ASSUME NEW s \in Senders, StartSend(s) \/ AdvanceSender(s)
       PROVE  call' \in CallTable /\ handoffs' = handoffs
  BY <1>1, <1>11, <1>14
  DEF StartSend, AdvanceSender, FailFrame, ReadAssignment, CacheRoute, SendFrame, EndSend, maps
<1>15. ASSUME NEW w \in Workers, AdvanceWorker(w) \/ Boot(w) \/ Crash(w) \/ Connect(w)
       PROVE  call' \in CallTable /\ handoffs' = handoffs
  BY <1>1, <1>11, <1>13, <1>15
  DEF AdvanceWorker, Disconnect, HandleRelease, HandleFrame, RefuseFrame, Boot, ListGroups, HydrateListed, Crash, Connect,
      maps
<1>16. CASE Cleanup \/ Finished
  BY <1>1, <1>16 DEF Cleanup, Finished, vars, maps, Typed
<1>17. handoffs \subseteq Versions
  BY DEF Typed
<1> QED
  BY <1>1, <1>5, <1>6, <1>7, <1>8, <1>9, <1>12, <1>14, <1>15, <1>16, <1>17, MovesEffect
  DEF Next, AdvanceCall, FaultyCall

\* Where the assignment, the routes, the connections and the group's lock go.
LEMMA PlacesStep ==
  ASSUME LockInv, Typed, Next
  PROVE  /\ assigned' \in Workers \cup {None} /\ route' \in Workers \cup {None}
         /\ owner' \in Workers \cup {None} /\ astray' \in BOOLEAN
         /\ link' \in [Workers -> 0..MaxLinks]
         /\ SenderTyped(sender')
<1> DEFINE Fine ==
      /\ assigned' \in Workers \cup {None} /\ route' \in Workers \cup {None}
      /\ owner' \in Workers \cup {None} /\ astray' \in BOOLEAN
      /\ link' \in [Workers -> 0..MaxLinks]
      /\ SenderTyped(sender')
<1>1. /\ assigned \in Workers \cup {None} /\ route \in Workers \cup {None}
      /\ owner \in Workers \cup {None} /\ astray \in BOOLEAN /\ link \in [Workers -> 0..MaxLinks]
      /\ SenderTyped(sender)
      /\ \A c \in Calls : call[c].new \in Workers \cup {None}
  BY RecordFields DEF Typed
<1>2. ASSUME assigned' \in Workers \cup {None}, route' \in Workers \cup {None},
             UNCHANGED <<owner, astray, link, sender>>
      PROVE  Fine
  BY <1>1, <1>2
<1>3. ASSUME NEW w, NEW n, Drop(w, n)
      PROVE  route' \in Workers \cup {None} /\ link' \in [Workers -> 0..MaxLinks]
  <2>1. 0 \in 0..MaxLinks
    BY MaxLinksAssumption
  <2>2. [link EXCEPT ![w] = 0] \in [Workers -> 0..MaxLinks]
    BY <1>1, <2>1
  <2> QED
    BY <1>1, <1>3, <2>2 DEF Drop
<1>4. ASSUME NEW c \in Calls, AdvanceCall(c) \/ FaultyCall(c) PROVE Fine
  <2>1. CASE FailRelease(c)
    BY <1>1, <1>3, <2>1 DEF FailRelease, procs
  <2>2. CASE ~FailRelease(c)
    <3>1. /\ assigned' \in {assigned, call[c].new} /\ route' \in {route, call[c].new}
          /\ UNCHANGED <<owner, astray, link, sender>>
      BY <1>4, <2>2
      DEF AdvanceCall, FaultyCall, Acquire, WriteDb, Direct, StartHandoff, SendRelease, Timeout,
          EndHandoff, FailDb, maps, procs
    <3> QED
      BY <1>1, <1>2, <3>1
  <2> QED
    BY <2>1, <2>2
<1>5. ASSUME NEW c \in Calls, NEW w \in Workers, Enter(c, w) PROVE Fine
  BY <1>1, <1>2, <1>5 DEF Enter, procs
<1>6. ASSUME NEW s \in Senders, StartSend(s) \/ AdvanceSender(s) PROVE Fine
  <2>1. SenderTyped(sender') /\ route' \in Workers \cup {None}
    BY <1>1, <1>6, SendersStep
  <2>2. assigned' = assigned /\ owner' = owner /\ astray' = astray
    BY <1>6 DEF StartSend, AdvanceSender, ReadAssignment, CacheRoute, SendFrame, FailFrame,
                EndSend, procs
  <2>3. link' \in [Workers -> 0..MaxLinks]
    BY <1>1, <1>3, <1>6
    DEF StartSend, AdvanceSender, ReadAssignment, CacheRoute, SendFrame, FailFrame, EndSend, maps
  <2> QED
    BY <1>1, <2>1, <2>2, <2>3
<1>7. ASSUME NEW w \in Workers, AdvanceWorker(w) \/ Boot(w) \/ Crash(w) \/ Connect(w)
      PROVE  Fine
  <2>1. /\ assigned' = assigned /\ sender' = sender
        /\ owner' \in {owner, w, None} /\ astray' \in BOOLEAN
    BY <1>1, <1>7 DEF TakeLock, LeaveLockFile, AdvanceWorker, DeliverAck, HandleRelease, HandleFrame, RefuseFrame, Disconnect,
                Boot, ListGroups, HydrateListed, Crash, Connect, procs
  <2>2. CASE Disconnect(w)
    BY <1>1, <1>3, <2>1, <2>2 DEF Disconnect
  <2>3. CASE Connect(w)
    <3>1. worker[w].links + 1 \in 0..MaxLinks
      BY <2>3, MaxLinksAssumption DEF Connect, Typed, WorkerTyped
    <3>2. link' = [link EXCEPT ![w] = worker[w].links + 1] /\ route' = route
      BY <2>3 DEF Connect
    <3>3. link' \in [Workers -> 0..MaxLinks]
      BY <1>1, <3>1, <3>2
    <3> QED
      BY <1>1, <2>1, <3>2, <3>3
  <2>4. CASE ~Disconnect(w) /\ ~Connect(w)
    <3>1. route' = route /\ link' = link
      BY <1>7, <2>4 DEF AdvanceWorker, DeliverAck, HandleRelease, HandleFrame, RefuseFrame,
                        Boot, ListGroups, HydrateListed, Crash, maps
    <3> QED
      BY <1>1, <2>1, <3>1
  <2> QED
    BY <2>2, <2>3, <2>4
<1>8. CASE Cleanup \/ Finished
  BY <1>1, <1>2, <1>8 DEF Cleanup, Finished, vars, maps, procs
<1> QED
  BY <1>4, <1>5, <1>6, <1>7, <1>8 DEF Next

-----------------------------------------------------------------------------
(* What an acknowledgement says of two calls.                              *)

\* A call whose new worker is known.
Begun(c) == At(c) # "idle"

\* Who asked a worker, or was answered, hands over or is over, to another worker.
Asked ==
  \A c \in Calls : call[c].old # None \/ call[c].fut = "released" =>
    c \in Handed /\ call[c].new # call[c].old

\* A worker reads and answers only what some call asked it.
Asks ==
  \A w \in Workers : worker[w].inbox # <<>> \/ worker[w].acks # <<>> =>
    \E c \in Handed : call[c].old = w

\* From the first handoff on, the assignment is some call's.
Assignee ==
  (\E c \in Calls : call[c].old # None) => \E d \in Calls : Begun(d) /\ call[d].new = assigned

\* A worker that answered and holds the group again was assigned it again, or
\* took it although it was not.
Returned ==
  \A w \in Workers : worker[w].acks # <<>> /\ owner = w /\ ~astray =>
    \E c \in Handed, d \in Calls : call[c].old = w /\ Begun(d) /\ call[d].new = w

\* As long as the latest call hands over, the worker that answered it does not
\* hold the group as its assigned worker.
Released ==
  \A c \in Calls : c = Latest /\ Handing(c) =>
    (worker[call[c].old].acks # <<>> \/ call[c].fut = "released" => owner # call[c].old \/ astray)

ReturnInv == Asked /\ Asks /\ Assignee /\ Returned /\ Released

\* What a step may do to call d.
Progress(d) ==
  /\ d \in Handed => call'[d].old = call[d].old /\ call'[d].new = call[d].new
  /\ Begun(d) => Begun(d)' /\ call'[d].new = call[d].new
  /\ Handing(d)' /\ d \notin Handed => StartHandoff(d)
  /\ call'[d].old # call[d].old => StartHandoff(d)
  /\ call'[d].fut = "released" /\ call[d].fut # "released" =>
       \E w \in Workers : DeliverAck(w) /\ d = pending /\ call[d].old = w

LEMMA ProgressStep ==
  ASSUME LockInv, Next, NEW d \in Calls
  PROVE  Progress(d)
<1> USE DEF At, Alike
<1>1. Shape /\ Records(call)
  BY DEF LockInv, Shape
<1>2. ASSUME Alike(call'[d], call[d]), call'[d].fut = "released" => call[d].fut = "released"
      PROVE  Progress(d)
  BY <1>2 DEF Progress, Begun, Handed, Handing
<1>3. ASSUME NEW c \in Calls, NEW w \in Workers, Enter(c, w) PROVE Progress(d)
  <2>1. CASE d # c
    BY <1>1, <1>2, <1>3, <2>1, EnterEffect
  <2>2. CASE d = c
    BY <1>1, <1>3, <2>2, EnterEffect DEF Progress, Begun, Handed, Handing
  <2> QED
    BY <2>1, <2>2
<1>4. ASSUME NEW c \in Calls, Acquire(c) PROVE Progress(d)
  <2>1. BeginSection(c, call) /\ At(c) = "locking"
    BY <1>4 DEF Acquire
  <2>2. CASE d # c
    BY <1>1, <1>2, <2>1, <2>2, BeginEffect
  <2>3. CASE d = c
    BY <1>1, <2>1, <2>3, BeginEffect DEF Progress, Begun, Handed, Handing
  <2> QED
    BY <2>2, <2>3
<1>5. ASSUME NEW c \in Calls, NEW a, Moves(c, a), call' = WithAt(call, c, a)
      PROVE  Progress(d)
  <2>1. /\ call'[c].at = a /\ call'[c].new = call[c].new /\ call'[c].old = call[c].old
        /\ call'[c].fut = call[c].fut
        /\ \A e \in Calls \ {c} : call'[e] = call[e]
    BY <1>1, <1>5, MoveEffect
  <2>2. CASE d # c
    BY <1>2, <2>1, <2>2
  <2>3. CASE d = c
    BY <1>5, <2>1, <2>3 DEF Moves, Progress, Begun, Handed, Handing
  <2> QED
    BY <2>2, <2>3
<1>6. ASSUME NEW c \in Calls, StartHandoff(c) PROVE Progress(d)
  <2>1. At(c) = "written"
    BY <1>6 DEF StartHandoff
  <2>2. CASE d # c
    BY <1>1, <1>2, <1>6, <2>2, StartHandoffEffect
  <2>3. CASE d = c
    BY <1>1, <1>6, <2>1, <2>3, StartHandoffEffect DEF Progress, Begun, Handed, Handing
  <2> QED
    BY <2>2, <2>3
<1>7. ASSUME NEW c \in Calls, FailRelease(c) PROVE Progress(d)
  <2>1. CASE d # c
    BY <1>1, <1>2, <1>7, <2>1, FailReleaseEffect
  <2>2. CASE d = c
    BY <1>1, <1>7, <2>2, FailReleaseEffect DEF Progress, Begun, Handed, Handing
  <2> QED
    BY <2>1, <2>2
<1>8. ASSUME NEW w, NEW n, Drop(w, n), call' = DropCall(w, n) PROVE Progress(d)
  <2>1. Alike(call'[d], call[d]) /\ call'[d].fut \in {call[d].fut, "gone"}
    BY <1>1, <1>8, DropEffect
  <2> QED
    BY <1>2, <2>1
<1>9. ASSUME NEW c \in Calls, Timeout(c) PROVE Progress(d)
  <2>1. call' = WithFut(call, c, "expired")
    BY <1>9 DEF Timeout, WithFut
  <2>2. Alike(call'[d], call[d]) /\ call'[d].fut \in {call[d].fut, "expired"}
    BY <1>1, <2>1, SetFut
  <2> QED
    BY <1>2, <2>2
<1>10. ASSUME NEW w \in Workers, DeliverAck(w) PROVE Progress(d)
  <2>1. CASE pending # None /\ call[pending].old = w
    <3>1. call' = Resolve(call, pending, "released") /\ pending \in Calls
      BY <1>1, <1>10, <2>1 DEF DeliverAck, Shape
    <3>2. /\ Alike(call'[d], call[d])
          /\ call'[d].fut = IF d = pending /\ call[d].fut = "unset" THEN "released"
                            ELSE call[d].fut
      BY <1>1, <3>1, ResolveRecords
    <3> QED
      BY <1>10, <2>1, <3>2 DEF Progress, Begun, Handed, Handing
  <2>2. CASE ~(pending # None /\ call[pending].old = w)
    BY <1>2, <1>10, <2>2 DEF DeliverAck
  <2> QED
    BY <2>1, <2>2
<1>11. CASE call' = call
  BY <1>2, <1>11
<1>12. ASSUME NEW s \in Senders, StartSend(s) \/ AdvanceSender(s) PROVE Progress(d)
  BY <1>8, <1>11, <1>12
  DEF StartSend, AdvanceSender, FailFrame, ReadAssignment, CacheRoute, SendFrame, EndSend
<1>13. ASSUME NEW w \in Workers, AdvanceWorker(w) \/ Boot(w) \/ Crash(w) \/ Connect(w)
       PROVE  Progress(d)
  BY <1>8, <1>10, <1>11, <1>13
  DEF AdvanceWorker, Disconnect, HandleRelease, HandleFrame, RefuseFrame, Boot, ListGroups, HydrateListed, Crash, Connect
<1>14. CASE Cleanup \/ Finished
  BY <1>11, <1>14 DEF Cleanup, Finished, vars
<1> QED
  BY <1>1, <1>3, <1>4, <1>5, <1>6, <1>7, <1>9, <1>10, <1>12, <1>13, <1>14, MovesEffect
  DEF Next, AdvanceCall, FaultyCall

\* What a step may do to worker x, when the only frames are RELEASE_LEASE.
Serving(x) ==
  /\ worker'[x].acks # <<>> => worker[x].acks # <<>> \/ HandleRelease(x)
  /\ worker'[x].inbox # <<>> =>
       worker[x].inbox # <<>> \/ \E c \in Calls : SendRelease(c) /\ call[c].old = x
  /\ owner' = x /\ ~astray' => (owner = x /\ ~astray) \/ WorkerFor(assigned) = x

LEMMA ServingStep ==
  ASSUME Senders = {}, WorkerTyped(worker), Next, NEW x \in Workers
  PROVE  Serving(x)
<1>1. WorkerRecords(worker) /\ x # None
  BY NoneAssumption DEF WorkerTyped
<1>2. ASSUME worker'[x].acks \in {worker[x].acks, Tail(worker[x].acks), <<>>},
             worker[x].acks = <<>> => worker'[x].acks = <<>>,
             worker[x].inbox = <<>> => worker'[x].inbox = <<>>,
             owner' = None \/ UNCHANGED <<owner, astray>>
      PROVE  Serving(x)
  BY <1>1, <1>2 DEF Serving
<1>3. CASE worker' = worker /\ UNCHANGED <<owner, astray>>
  BY <1>2, <1>3
<1>4. ASSUME NEW c \in Calls, SendRelease(c) PROVE Serving(x)
  <2>1. UNCHANGED <<owner, astray>> /\ Write(call[c].old, call[c].via, c)
    BY <1>4 DEF SendRelease
  <2>2. CASE worker' = worker
    BY <1>3, <2>1, <2>2
  <2>3. CASE call[c].old \in Workers
             /\ worker' = WithInbox(worker, call[c].old, Append(worker[call[c].old].inbox, c))
    <3>1. /\ worker'[x].acks = worker[x].acks
          /\ x # call[c].old => worker'[x] = worker[x]
      BY <1>1, <2>3, SetInbox
    <3> QED
      BY <1>4, <2>1, <3>1 DEF Serving
  <2>4. CASE call[c].old \notin Workers
             /\ worker' = [worker EXCEPT ![call[c].old].inbox =
                             Append(worker[call[c].old].inbox, c)]
    <3>1. worker' = worker
      BY <1>1, <2>4 DEF WorkerRecords
    <3> QED
      BY <2>2, <3>1
  <2> QED
    BY <2>1, <2>2, <2>3, <2>4 DEF Write, WithInbox
<1>5. ASSUME NEW c \in Calls, AdvanceCall(c) \/ FaultyCall(c) \/ \E w \in Workers : Enter(c, w),
             ~SendRelease(c)
      PROVE  Serving(x)
  BY <1>3, <1>5
  DEF AdvanceCall, FaultyCall, Enter, Acquire, WriteDb, Direct, StartHandoff, Timeout,
      EndHandoff, FailDb, FailRelease, procs
<1>6. ASSUME NEW w \in Workers, DeliverAck(w) PROVE Serving(x)
  <2>1. worker' = WithAcks(worker, w, Tail(worker[w].acks)) /\ UNCHANGED <<owner, astray>>
        /\ worker[w].acks # <<>>
    BY <1>6 DEF DeliverAck, WithAcks
  <2>2. /\ worker'[x].inbox = worker[x].inbox
        /\ x # w => worker'[x] = worker[x]
    BY <1>1, <2>1, SetAcks
  <2> QED
    BY <2>1, <2>2 DEF Serving
<1>7. ASSUME NEW w \in Workers, Boot(w) PROVE Serving(x)
  <2>1. ASSUME NEW v, worker' = WithBoot(worker, w, v)
        PROVE  worker'[x].inbox = worker[x].inbox /\ worker'[x].acks = worker[x].acks
    BY <1>1, <2>1, SetBoot
  <2>2. worker'[x].inbox = worker[x].inbox /\ worker'[x].acks = worker[x].acks
    <3>1. \E v : worker' = WithBoot(worker, w, v)
      BY <1>7 DEF Boot, ListGroups, HydrateListed, WithBoot
    <3> QED
      BY <2>1, <3>1
  <2> QED
    BY <1>1, <1>7, <2>2 DEF Boot, ListGroups, HydrateListed, TakeLock, Serving
<1>8. ASSUME NEW w \in Workers, HandleRelease(w) PROVE Serving(x)
  <2>1. worker' = WithAcks(WithInbox(worker, w, Tail(worker[w].inbox)), w,
                           Append(worker[w].acks, Head(worker[w].inbox)))
    BY <1>8 DEF HandleRelease, WithAcks, WithInbox
  <2>2. x # w => worker'[x] = worker[x]
    BY <1>1, <2>1, SetAcks, SetInbox
  <2>3. worker[w].inbox # <<>> /\ (owner' = None \/ UNCHANGED <<owner, astray>>)
    BY <1>8 DEF HandleRelease, LeaveLockFile
  <2> QED
    BY <1>1, <1>8, <2>2, <2>3 DEF Serving
<1>9. ASSUME NEW w \in Workers, RefuseFrame(w) \/ HandleFrame(w) PROVE FALSE
  BY <1>9 DEF RefuseFrame, HandleFrame
<1>10. ASSUME NEW w \in Workers, Crash(w) PROVE Serving(x)
  <2>1. ASSUME NEW v, NEW b,
               worker' = WithInbox(WithBoot(WithUp(worker, w, v), w, b), w, <<>>)
        PROVE  /\ worker'[x].acks = worker[x].acks
               /\ x # w => worker'[x] = worker[x]
               /\ x = w => worker'[x].inbox = <<>>
    BY <1>1, <2>1, SetInbox, SetBoot, SetUp
  <2>2. /\ worker'[x].acks = worker[x].acks
        /\ x # w => worker'[x] = worker[x]
        /\ x = w => worker'[x].inbox = <<>>
    <3>1. worker' = WithInbox(WithBoot(WithUp(worker, w, FALSE), w, "no"), w, <<>>)
      BY <1>10 DEF Crash, Dead, WithInbox, WithBoot, WithUp
    <3> QED
      BY <2>1, <3>1
  <2>3. owner' = None \/ UNCHANGED <<owner, astray>>
    BY <1>10 DEF Crash, LeaveLockFile
  <2> QED
    BY <1>2, <2>2, <2>3
<1>11. ASSUME NEW w \in Workers, Connect(w) PROVE Serving(x)
  <2>1. PICK a \in {worker[w].acks, <<>>} :
          worker' = [worker EXCEPT ![w] = [up |-> TRUE, boot |-> "due",
                       links |-> worker[w].links + 1, inbox |-> <<>>, acks |-> a]]
    BY <1>11 DEF Connect
  <2>2. /\ x = w => worker'[x].inbox = <<>> /\ worker'[x].acks = a
        /\ x # w => worker'[x] = worker[x]
    BY <1>1, <2>1 DEF WorkerRecords
  <2>3. UNCHANGED <<owner, astray>>
    BY <1>11 DEF Connect
  <2> QED
    BY <1>2, <2>2, <2>3
<1>12. ASSUME NEW w \in Workers, AdvanceWorker(w) \/ Boot(w) \/ Crash(w) \/ Connect(w)
       PROVE  Serving(x)
  <2>1. CASE Disconnect(w)
    BY <1>3, <2>1 DEF Disconnect, procs
  <2>2. CASE ~Disconnect(w)
    BY <1>6, <1>7, <1>8, <1>9, <1>10, <1>11, <1>12, <2>2 DEF AdvanceWorker
  <2> QED
    BY <2>1, <2>2
<1>13. CASE Cleanup \/ Finished
  BY <1>3, <1>13 DEF Cleanup, Finished, vars, procs
<1> QED
  BY <1>4, <1>5, <1>12, <1>13 DEF Next

\* Of two calls, the second asks a worker that the first one asked only if it
\* did not give the group back to it.
LEMMA ReturnStep ==
  ASSUME NEW a, NEW b, Calls \subseteq {a, b}, Senders = {},
         LockInv, Pending, VersionInv, SettleInv, Typed, ReturnInv, Next
  PROVE  ReturnInv'
<1> USE DEF At, Alike
<1>1. /\ \A c \in Calls : Progress(c)
      /\ \A w \in Workers : Serving(w)
      /\ Handed \subseteq Handed'
  BY ProgressStep, ServingStep, StartedGrows DEF Typed
<1>2. \A c \in Handed : /\ c \in Calls /\ c \in Handed'
                        /\ call'[c].old = call[c].old /\ call'[c].new = call[c].new
  BY <1>1 DEF Progress, Handed
<1>3. ASSUME NEW c \in Calls, StartHandoff(c)
      PROVE  /\ InSection(c) /\ c \notin Handed /\ At(c) = "written" /\ c \in Handed'
             /\ call'[c].old = route /\ call'[c].new = call[c].new /\ call'[c].fut = "unset"
             /\ route \in Workers /\ call[c].new # route /\ procs' = procs
             /\ c = Latest /\ call[c].new = assigned /\ assigned' = assigned
  <2>1. At(c) = "written" /\ ~NobodyToAsk(c) /\ procs' = procs /\ assigned' = assigned
    BY <1>3 DEF StartHandoff
  <2>2. call'[c].at = "sending" /\ call'[c].old = route /\ call'[c].new = call[c].new
        /\ call'[c].fut = "unset"
    BY <1>3, StartHandoffEffect DEF LockInv
  <2>3. route \in Workers /\ call[c].new # route
    BY <2>1 DEF NobodyToAsk, Typed
  <2>4. c = Latest /\ call[c].new = assigned
    BY <2>1 DEF InSection, VersionInv, Reigns, SettleInv, Writing
  <2> QED
    BY <2>1, <2>2, <2>3, <2>4 DEF InSection, Handed, Handing
<1>4. Asked'
  <2> SUFFICES ASSUME NEW d \in Calls, call'[d].old # None \/ call'[d].fut = "released"
               PROVE  d \in Handed' /\ call'[d].new # call'[d].old
    BY DEF Asked
  <2>1. CASE StartHandoff(d)
    BY <1>3, <2>1
  <2>2. CASE ~StartHandoff(d)
    <3>1. call'[d].old = call[d].old
      BY <1>1, <2>2 DEF Progress
    <3>2. call[d].old # None \/ call[d].fut = "released"
      BY <1>1, <3>1, NoneAssumption DEF Progress
    <3> QED
      BY <1>2, <3>1, <3>2 DEF ReturnInv, Asked
  <2> QED
    BY <2>1, <2>2
<1>5. Asks'
  <2> SUFFICES ASSUME NEW w \in Workers, worker'[w].inbox # <<>> \/ worker'[w].acks # <<>>
               PROVE  \E c \in Handed' : call'[c].old = w
    BY DEF Asks
  <2>1. \E c \in Handed : call[c].old = w
    <3>1. CASE worker[w].inbox # <<>> \/ worker[w].acks # <<>>
      BY <3>1 DEF ReturnInv, Asks
    <3>2. ASSUME NEW c \in Calls, SendRelease(c), call[c].old = w PROVE c \in Handed
      BY <3>2 DEF SendRelease, Handed, Handing
    <3>3. HandleRelease(w) => worker[w].inbox # <<>>
      BY DEF HandleRelease
    <3> QED
      BY <1>1, <3>1, <3>2, <3>3 DEF Serving
  <2> QED
    BY <1>2, <2>1
<1>6. \A d \in Calls : Begun(d) => Begun(d)' /\ call'[d].new = call[d].new
  BY <1>1 DEF Progress
<1>7. Assignee'
  <2> SUFFICES ASSUME NEW c \in Calls, call'[c].old # None
               PROVE  \E d \in Calls : Begun(d)' /\ call'[d].new = assigned'
    BY DEF Assignee
  <2>1. ASSUME NEW d \in Calls, WriteDb(d) PROVE Begun(d)' /\ call'[d].new = assigned'
    <3>1. call' = WithAt(call, d, "written") /\ assigned' = call[d].new
      BY <2>1 DEF WriteDb, WithAt
    <3> QED
      BY <3>1, MoveEffect DEF LockInv, Begun
  <2>2. CASE \A d \in Calls : ~WriteDb(d)
    <3>1. assigned' = assigned
      <4>1. ASSUME NEW d \in Calls,
                   AdvanceCall(d) \/ FaultyCall(d) \/ \E w \in Workers : Enter(d, w)
            PROVE  assigned' = assigned
        BY <2>2, <4>1 DEF AdvanceCall, FaultyCall, Enter, Acquire, Direct, StartHandoff,
                          SendRelease, Timeout, EndHandoff, FailDb, FailRelease
      <4>2. ASSUME NEW w \in Workers, AdvanceWorker(w) \/ Boot(w) \/ Crash(w) \/ Connect(w)
            PROVE  assigned' = assigned
        BY <4>2 DEF AdvanceWorker, DeliverAck, HandleRelease, HandleFrame, RefuseFrame,
                    Disconnect, Boot, ListGroups, HydrateListed, Crash, Connect
      <4>3. CASE Cleanup \/ Finished
        BY <4>3 DEF Cleanup, Finished, vars
      <4> QED
        BY <4>1, <4>2, <4>3 DEF Next
    <3>2. CASE call[c].old # None
      BY <1>6, <3>1, <3>2 DEF ReturnInv, Assignee
    <3>3. CASE call[c].old = None
      <4>1. StartHandoff(c)
        BY <1>1, <3>3 DEF Progress
      <4> QED
        BY <1>3, <1>6, <3>1, <4>1 DEF Begun
    <3> QED
      BY <3>2, <3>3
  <2> QED
    BY <2>1, <2>2
<1>8. ASSUME NEW w \in Workers, HandleRelease(w) PROVE owner' # w
  BY <1>8, NoneAssumption DEF HandleRelease, LeaveLockFile
<1>9. Returned'
  <2> SUFFICES ASSUME NEW w \in Workers, worker'[w].acks # <<>>, owner' = w, ~astray'
               PROVE  \E c \in Handed', d \in Calls :
                        call'[c].old = w /\ Begun(d)' /\ call'[d].new = w
    BY DEF Returned
  <2>1. worker[w].acks # <<>> /\ ((owner = w /\ ~astray) \/ WorkerFor(assigned) = w)
    BY <1>1, <1>8 DEF Serving
  <2>2. \E c \in Handed, d \in Calls : call[c].old = w /\ Begun(d) /\ call[d].new = w
    <3>1. CASE owner = w /\ ~astray
      BY <2>1, <3>1 DEF ReturnInv, Returned
    <3>2. CASE WorkerFor(assigned) = w
      <4>1. PICK c \in Handed : call[c].old = w
        BY <2>1 DEF ReturnInv, Asks
      <4>2. c \in Calls /\ call[c].old # None
        BY <4>1, NoneAssumption DEF Handed
      <4>3. PICK d \in Calls : Begun(d) /\ call[d].new = assigned
        BY <4>2 DEF ReturnInv, Assignee
      <4>4. assigned = w
        BY <3>2, <4>3, NoneAssumption DEF Begun, SettleInv, Targeted, WorkerFor
      <4> QED
        BY <4>1, <4>3, <4>4
    <3> QED
      BY <2>1, <3>1, <3>2
  <2> QED
    BY <1>2, <1>6, <2>2
<1>10. Released'
  <2> SUFFICES ASSUME NEW c \in Calls, c = Latest', Handing(c)',
                      worker'[call'[c].old].acks # <<>> \/ call'[c].fut = "released",
                      owner' = call'[c].old, ~astray'
               PROVE  FALSE
    BY DEF Released
  <2>1. NumbersNobody
    <3>1. ASSUME NEW d \in Calls, Numbers(d) PROVE FALSE
      <4>1. Latest' = d
        BY <3>1, LatestAppended DEF Numbers, VersionInv
      <4> QED
        BY <3>1, <4>1 DEF Numbers, Handing
    <3> QED
      BY <3>1, WhoIsNumbered
  <2>2. c = Latest
    BY <2>1 DEF NumbersNobody, Latest
  <2>3. CASE StartHandoff(c)
    <3>1. worker[route].acks # <<>> /\ owner = route /\ ~astray
      BY <1>3, <2>3 DEF procs
    <3>2. PICK e \in Handed, d \in Calls : call[e].old = route /\ Begun(d) /\ call[d].new = route
      BY <1>3, <2>3, <3>1 DEF ReturnInv, Returned
    <3>3. e \in Calls /\ e # c /\ d # c
      BY <1>2, <1>3, <2>3, <3>2
    <3>4. e # d
      BY <1>3, <2>3, <3>2, <3>3, NoneAssumption DEF ReturnInv, Asked
    <3> QED
      BY <3>3, <3>4
  <2>4. CASE ~StartHandoff(c)
    <3>1. Handing(c)
      <4>1. Handing(c) \/ InSection(c)
        BY <2>1 DEF NumbersNobody
      <4>2. c \in Handed
        BY <1>1, <2>4 DEF Progress
      <4> QED
        BY <4>1, <4>2 DEF Handed, Handing, InSection
    <3>2. c \in Handed /\ call'[c].old = call[c].old
      BY <1>2, <3>1 DEF Handed
    <3>3. /\ call[c].old \in Workers /\ call[c].old # assigned
      BY <2>2, <3>1, <3>2, RecordFields
      DEF ReturnInv, Asked, SettleInv, Targeted, Reassigned, Typed
    <3>4. owner = call[c].old /\ ~astray
      <4>1. assigned # None
        BY <2>2, <3>1, NoneAssumption DEF Handing, SettleInv, Targeted, Reassigned
      <4> QED
        BY <1>1, <3>2, <3>3, <4>1 DEF Serving, WorkerFor
    <3>5. worker[call[c].old].acks = <<>> /\ call[c].fut # "released"
      BY <2>2, <3>1, <3>4 DEF ReturnInv, Released
    <3>6. worker'[call[c].old].acks = <<>>
      BY <1>1, <1>8, <3>2, <3>3, <3>5 DEF Serving
    <3>7. call'[c].fut # "released"
      BY <1>1, <3>5 DEF Progress, DeliverAck
    <3> QED
      BY <3>2, <3>6, <3>7
  <2> QED
    BY <2>3, <2>4
<1> QED
  BY <1>4, <1>5, <1>7, <1>9, <1>10 DEF ReturnInv

-----------------------------------------------------------------------------
(* The theorems.                                                           *)

LEMMA Stuttering == UNCHANGED vars => (LockInv => LockInv') /\ (Pending => Pending')
  BY DEF vars, maps, LockInv, Shape, Counted, Users, OneLock, Held, Pending,
         Uses, InSection, Handing, At

\* However many reassigns of a group overlap, and whatever fails, one at a time
\* is in the database section, although its lock object is forgotten by
\* _finish_reassign_version, the finally clause, disconnects and clean-ups.
THEOREM Serialized == Spec => []OneWriter
<1>1. LockInv /\ [Next]_vars => LockInv'
  BY LockInvStep, Stuttering
<1> QED
  BY LockInvInit, <1>1, LockInvExcludes, PTL DEF Spec

\* A handoff whose coroutine waits is the one in _pending_handoffs: whoever
\* should end it finds it there.
THEOREM Reachable == Spec => []WaitIsReachable
<1>1. Init => Pending
  BY NoneAssumption DEF Init, Pending, Handing, InSection, At
<1>2. LockInv /\ Pending /\ [Next]_vars => LockInv' /\ Pending'
  BY LockInvStep, PendingStep, Stuttering
<1>3. Pending => WaitIsReachable
  BY DEF Pending, WaitIsReachable, Handing
<1> QED
  BY LockInvInit, <1>1, <1>2, <1>3, PTL DEF Spec

LEMMA VersionsKnown == Spec => [](LockInv /\ Pending /\ VersionInv)
<1>1. Init => Pending
  BY NoneAssumption DEF Init, Pending, Handing, InSection, At
<1>2. LockInv /\ Pending /\ [Next]_vars => LockInv' /\ Pending'
  BY LockInvStep, PendingStep, Stuttering
<1>3. LockInv' => OneWriter'
  BY LockInvExcludes, PTL
<1>4. LockInv /\ Pending /\ VersionInv /\ [Next]_vars => VersionInv'
  <2>1. CASE Next
    BY <2>1, <1>2, <1>3, VersionStep
  <2>2. CASE UNCHANGED vars
    BY <2>2 DEF vars, maps, VersionInv, Numbered, Reigns, Entry, Uncancelled, Latest, Over,
                Active, InSection, Handing, At
  <2> QED
    BY <2>1, <2>2
<1> QED
  BY LockInvInit, <1>1, <1>2, <1>4, VersionInit, PTL DEF Spec

\* As long as no two calls that are under way have the same version, a
\* reassign_group that a later one superseded never routes the group: whatever
\* the sends, the database, the workers and the lookups do, the comparison in
\* the finally clause is enough.
THEOREM SupersededNeverRoutes == Spec /\ []VersionsDiffer => StaleNeverRoutes
<1>1. LockInv /\ VersionInv /\ VersionsDiffer /\ [Next]_vars
        => [\A c \in Calls : Routes(c) => order[Len(order)] = c]_vars
  BY LatestRoutes
<1> QED
  BY <1>1, VersionsKnown, PTL DEF Spec, StaleNeverRoutes

LEMMA SettledWhenQuiet ==
  ASSUME NoDbFault
  PROVE  LockInv /\ Pending /\ VersionInv /\ SettleInv => HandoffSettles
<1> USE DEF At
<1> SUFFICES ASSUME LockInv, Pending, VersionInv, SettleInv, Quiet
             PROVE  /\ route \in {None, WorkerFor(assigned)}
                    /\ version = 0 /\ registry = None /\ users = 0
                    /\ pending = None /\ handoffs = {}
  BY DEF HandoffSettles, RouteFollowsAssignment, CleanWhenQuiet
<1>1. \A c \in Calls : ~Active(c) /\ ~Uses(c) /\ ~Handing(c)
  BY DEF Quiet, Active, Uses, InSection, Handing
<1>2. Over(Latest) /\ version = 0
  BY <1>1, LatestKnown DEF VersionInv, Entry, Over
<1>3. users = 0
  <2>1. Users = {}
    BY <1>1 DEF Users
  <2> QED
    BY <2>1, FS_EmptySet DEF LockInv, Counted
<1>4. handoffs = {}
  BY <1>1 DEF SettleInv, Ledger
<1> QED
  BY <1>2, <1>3, <1>4 DEF SettleInv, Settled

LEMMA SettleInit == Init => SettleInv /\ VersionsDiffer /\ Ordered
<1> SUFFICES ASSUME Init PROVE SettleInv /\ VersionsDiffer /\ Ordered
  OBVIOUS
<1>1. Latest = None
  BY DEF Init, Latest
<1>2. \A c \in Calls : ~Active(c) /\ ~InSection(c) /\ ~Handing(c) /\ At(c) = "idle"
  BY DEF Init, Active, InSection, Handing, At
<1> QED
  BY <1>1, <1>2
  DEF Init, SettleInv, Ledger, Targeted, Settled, Writing, Reassigned, VersionsDiffer, Ordered,
      Over

LEMMA SettleStuttering ==
  UNCHANGED vars =>
    /\ VersionInv => VersionInv'
    /\ SettleInv => SettleInv'
    /\ VersionsDiffer => VersionsDiffer'
    /\ Ordered => Ordered'
BY DEF vars, maps, VersionInv, Numbered, Reigns, Entry, Uncancelled, SettleInv, Ledger, Targeted,
       Settled, Writing, Reassigned, VersionsDiffer, Ordered, Latest, Over, Active, InSection,
       Handing, At

LEMMA SettledKnown ==
  ASSUME Senders = {}
  PROVE  Spec /\ [][Orderly]_vars => [](SettleInv /\ VersionsDiffer)
<1> DEFINE Inv == SettleInv /\ VersionsDiffer /\ Ordered
<1>1. Init => Inv
  BY SettleInit
<1>2. /\ LockInv /\ Pending /\ VersionInv /\ Inv
      /\ LockInv' /\ VersionInv' /\ [Next]_vars /\ [Orderly]_vars
      => Inv'
  <2>1. LockInv' => OneWriter'
    BY LockInvExcludes, PTL
  <2>2. CASE UNCHANGED vars
    BY <2>2, SettleStuttering
  <2>3. CASE Next /\ Orderly
    BY <2>1, <2>3, SettleStep, OrderedStep
  <2> QED
    BY <2>2, <2>3
<1>3. Inv => SettleInv /\ VersionsDiffer
  OBVIOUS
<1> HIDE DEF Inv
<1> QED
  BY <1>1, <1>2, <1>3, VersionsKnown, PTL DEF Spec

\* Whatever the database, the sends and the workers do, no reassign that was
\* superseded routes the group, if no frame is dispatched meanwhile and if no
\* reassign takes its version while a superseded handoff outlives the calls that
\* superseded it.
THEOREM NeverRoutesInOrder ==
  ASSUME Senders = {}
  PROVE  Spec /\ [][Orderly]_vars => StaleNeverRoutes
BY SettledKnown, SupersededNeverRoutes, PTL

\* Under the same hypotheses every reassign, whatever its outcome, leaves the route
\* it was asked for and nothing behind, if no UPDATE raises.
THEOREM SettlesInOrder ==
  ASSUME Senders = {}, "db" \notin Faults
  PROVE  Spec /\ [][Orderly]_vars => []HandoffSettles
<1>1. LockInv /\ Pending /\ VersionInv /\ SettleInv => HandoffSettles
  BY SettledWhenQuiet DEF NoDbFault
<1> QED
  BY <1>1, VersionsKnown, SettledKnown, PTL

\* With two calls of reassign_group and no frame to route, the call that the other
\* superseded never routes the group, whatever fails: its handoff has no successor
\* that could take its version.
THEOREM TwoCallsNeverStale ==
  ASSUME NEW a, NEW b, Calls \subseteq {a, b}, Senders = {}
  PROVE  Spec => StaleNeverRoutes
<1>1. LockInv /\ VersionInv /\ [Next]_vars => [Orderly]_vars
  BY TwoCallsOrderly
<1> QED
  BY <1>1, VersionsKnown, NeverRoutesInOrder, PTL DEF Spec

\* With no frame to route and no UPDATE that raises, two calls leave the route they
\* were asked for and nothing behind, whatever the workers, their connections and the
\* sends do.
THEOREM TwoCallsSettle ==
  ASSUME NEW a, NEW b, Calls \subseteq {a, b}, Senders = {}, "db" \notin Faults
  PROVE  Spec => []HandoffSettles
<1>1. LockInv /\ VersionInv /\ [Next]_vars => [Orderly]_vars
  BY TwoCallsOrderly
<1> QED
  BY <1>1, VersionsKnown, SettlesInOrder, PTL DEF Spec

LEMMA TypedInit == Init => Bounded /\ Typed
<1> SUFFICES ASSUME Init PROVE Bounded /\ Typed
  OBVIOUS
<1>1. Bounded
  BY StartedFinite DEF Init, Bounded, Owed
<1>2. 0 \in 0..MaxLinks /\ 1 \in 0..MaxLinks /\ 0 \in Versions
  BY MaxLinksAssumption, StartedFinite DEF Versions
<1>3. call \in CallTable
  BY <1>2 DEF Init, CallTable, CallRecord, CallStates, Futures
<1>4. SenderTyped(sender)
  BY <1>2 DEF Init, SenderTyped, SenderRecords, SenderStates, Flags
<1>5. WorkerTyped(worker)
  <2>1. WorkerRecords(worker)
    BY DEF Init, WorkerRecords
  <2>2. \A w \in Workers : worker[w].up \in BOOLEAN /\ worker[w].boot \in BootStates
    BY DEF Init, BootStates
  <2>3. \A w \in Workers : /\ worker[w].links \in 0..MaxLinks
                           /\ worker[w].inbox \in Inboxes /\ worker[w].acks \in Outboxes
    BY <1>2, Boxes DEF Init
  <2> QED
    BY <2>1, <2>2, <2>3, Zenon DEF WorkerTyped
<1>6. WorkerFor(assigned) \in Workers
  BY DefaultWorkerAssumption DEF Init, WorkerFor
<1> QED
  BY <1>1, <1>2, <1>3, <1>4, <1>5, <1>6 DEF Init, Typed

LEMMA TypedTypeOK == LockInv /\ VersionInv /\ Bounded /\ Typed => TypeOK
<1> SUFFICES ASSUME LockInv, VersionInv, Bounded, Typed PROVE TypeOK
  OBVIOUS
<1>1. version \in Versions /\ cleanups \in Versions
  BY StartedFinite DEF Versions, VersionInv, Numbered, Bounded, Owed
<1>2. users \in Versions
  <2>1. Users \subseteq Calls /\ users = Cardinality(Users)
    BY DEF LockInv, Counted, Users
  <2>2. users \in Nat /\ users <= Cardinality(Calls)
    BY <2>1, CallsAssumption, UsersFinite, FS_Subset, FS_CardinalityType
  <2> QED
    BY <2>2, StartedFinite DEF Versions
<1>3. call \in [Calls -> CallRecord]
  BY DEF Typed, CallTable
<1>4. sender \in [Senders -> SenderRecord] /\ worker \in [Workers -> WorkerRecord]
  BY SenderTable, WorkerTable DEF Typed
<1> QED
  BY <1>1, <1>2, <1>3, <1>4 DEF TypeOK, LockInv, Shape, VersionInv, Typed

LEMMA TypedKnown == Spec => [](Bounded /\ Typed)
<1>1. /\ LockInv /\ Pending /\ VersionInv /\ VersionInv' /\ Bounded /\ Typed /\ [Next]_vars
      => Bounded' /\ Typed'
  <2> SUFFICES ASSUME LockInv, Pending, VersionInv, VersionInv', Bounded, Typed, [Next]_vars
               PROVE  Bounded' /\ Typed'
    OBVIOUS
  <2>1. CASE UNCHANGED vars
    BY <2>1 DEF vars, maps, procs, Bounded, Typed, Owed, Started, Handed, Active, InSection,
                Handing, At
  <2>2. CASE Next
    <3>1. Bounded'
      BY <2>2, BoundedStep
    <3>2. version' \in Versions
      <4>1. Started' \subseteq Calls
        BY DEF Started
      <4>2. Cardinality(Started') \in Nat /\ Cardinality(Started') <= Cardinality(Calls)
        BY <4>1, CallsAssumption, FS_Subset, FS_CardinalityType
      <4> QED
        BY <3>1, <4>2, StartedFinite DEF Bounded, Versions, VersionInv, Numbered
    <3>3. WorkerTyped(worker')
      BY <2>2, WorkersStep DEF Typed
    <3> QED
      BY <2>2, <3>1, <3>2, <3>3, CallsStep, PlacesStep DEF Typed
  <2> QED
    BY <2>1, <2>2
<1> QED
  BY <1>1, TypedInit, VersionsKnown, PTL DEF Spec

\* The state of the handshake is of its types with any number of calls, senders
\* and workers and any faults: in particular versions and clean-ups stay below the
\* number of calls, so the counters that reassign_group, disconnects and the
\* clean-up task share never run away.
THEOREM Typing == Spec => []TypeOK
BY VersionsKnown, TypedKnown, TypedTypeOK, PTL

LEMMA ReturnInit == Init => ReturnInv
<1> SUFFICES ASSUME Init PROVE ReturnInv
  OBVIOUS
<1>1. Handed = {} /\ \A c \in Calls : ~Handing(c)
  BY DEF Init, Handed, Handing, At
<1>2. Asked
  BY DEF Init, Asked
<1>3. Asks /\ Assignee /\ Returned
  BY DEF Init, Asks, Assignee, Returned
<1> QED
  BY <1>1, <1>2, <1>3 DEF ReturnInv, Released

\* A call that routes the group after an answer is the latest, and its answer
\* still holds.
LEMMA RoutesReleased ==
  ASSUME LockInv, VersionInv, VersionsDiffer, ReturnInv, Next, NEW c \in Calls,
         Routes(c), call[c].fut = "released"
  PROVE  owner # call[c].old \/ astray
<1> USE DEF At
<1>1. c = Latest /\ c \in Handed
  BY LatestRoutes DEF ReturnInv, Asked
<1>2. Handing(c)
  BY <1>1 DEF Handed, Routes
<1> QED
  BY <1>1, <1>2 DEF ReturnInv, Released

\* With two calls, LEASE_RELEASED is never the answer to the other handoff, though
\* it may be late, though the worker may have died and come back in between, and
\* though the frame does not say which handoff it answers: when the group is routed
\* to its new worker, the old one has let go of it since it was asked.  If it holds
\* the group all the same, it took it after the assignment had changed.
THEOREM TwoCallsReleased ==
  ASSUME NEW a, NEW b, Calls \subseteq {a, b}, Senders = {}
  PROVE  Spec => AckMeansLetGo
<1>1. LockInv /\ VersionInv /\ [Next]_vars => [Orderly]_vars
  BY TwoCallsOrderly
<1>2. /\ LockInv /\ Pending /\ VersionInv /\ SettleInv /\ Typed /\ ReturnInv /\ [Next]_vars
      => ReturnInv'
  <2> SUFFICES ASSUME LockInv, Pending, VersionInv, SettleInv, Typed, ReturnInv, [Next]_vars
               PROVE  ReturnInv'
    OBVIOUS
  <2>1. CASE Next
    BY <2>1, ReturnStep
  <2>2. CASE UNCHANGED vars
    BY <2>2 DEF vars, procs, ReturnInv, Asked, Asks, Assignee, Returned, Released, Handed,
                Begun, Latest, Handing, At
  <2> QED
    BY <2>1, <2>2
<1>3. LockInv /\ VersionInv /\ VersionsDiffer /\ ReturnInv /\ [Next]_vars
        => [\A c \in Calls : (Routes(c) /\ call[c].fut = "released") => owner # call[c].old \/ astray]_vars
  BY RoutesReleased
<1> QED
  BY <1>1, <1>2, <1>3, ReturnInit, VersionsKnown, SettledKnown, TypedKnown, PTL
  DEF Spec, AckMeansLetGo
=============================================================================
