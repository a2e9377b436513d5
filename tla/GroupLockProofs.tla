-------------------------- MODULE GroupLockProofs ---------------------------
(***************************************************************************)
(* GroupLock for any number of processes and inodes: mutual exclusion in   *)
(* every run without an overlap, and the refinement of ExclusiveLease by   *)
(* the disciplined specification.                                          *)
(***************************************************************************)
EXTENDS GroupLock, TLAPS

\* flock's table and the processes past acquire agree.
OwnersAreHolders ==
  /\ \A p \in Procs : pc[p] = "held" => owner[fd[p]] = p
  /\ \A i \in Inodes : owner[i] # None => pc[owner[i]] = "held" /\ fd[owner[i]] = i

\* Without an overlap every open file is the one the name points to.
OpenFilesNamed ==
  ~overlap => \A p \in Procs : fd[p] # None => fd[p] = path

LockInv == TypeOK /\ OpenWhileUsing /\ OwnersAreHolders /\ OpenFilesNamed

-----------------------------------------------------------------------------
LEMMA LockInvInit == Init => LockInv
  BY NoneAssumption DEF Init, LockInv, TypeOK, PCs, OpenWhileUsing,
     OwnersAreHolders, OpenFilesNamed

\* Every system call, of any process, keeps the invariant.
LEMMA LockInvStep ==
  ASSUME LockInv, NEW p \in Procs, Step(p)
  PROVE  LockInv'
<1> USE NoneAssumption DEF LockInv, TypeOK, PCs, OpenWhileUsing, OwnersAreHolders,
        OpenFilesNamed
<1>1. CASE Open(p)
  BY <1>1 DEF Open, FreeInodes
<1>2. CASE Lock(p)
  BY <1>2 DEF Lock
<1>3. CASE Refuse(p)
  BY <1>3 DEF Refuse
<1>4. CASE Unlock(p)
  BY <1>4 DEF Unlock
<1>5. CASE Unlink(p)
  <2>1. overlap' \in BOOLEAN
    BY <1>5 DEF Unlink
  <2>2. TypeOK' /\ OpenWhileUsing' /\ OwnersAreHolders'
    BY <1>5, <2>1 DEF Unlink
  <2>3. ASSUME ~overlap', NEW q \in Procs PROVE fd'[q] = None
    BY <1>5, <2>3 DEF Unlink
  <2> QED
    BY <1>5, <2>2, <2>3 DEF Unlink
<1>6. CASE Crash(p)
  BY <1>6 DEF Crash
<1> QED
  BY <1>1, <1>2, <1>3, <1>4, <1>5, <1>6 DEF Step

LEMMA LockInvStutter == LockInv /\ UNCHANGED vars => LockInv'
  BY DEF LockInv, TypeOK, OpenWhileUsing, OwnersAreHolders, OpenFilesNamed, vars

LEMMA LockInvExcludes == LockInv => ExclusiveUnlessOverlap
  BY DEF LockInv, TypeOK, OwnersAreHolders, OpenFilesNamed, OpenWhileUsing,
     ExclusiveUnlessOverlap, MutualExclusion, Holders

\* Types (GroupLock): whatever the interleaving of acquire() and release() and wherever
\* processes die, a process has the lock file open exactly while it is in acquire()
\* or past it: a refused acquire() and a release() leave nothing open.
THEOREM Typing == Spec => []TypeOK
<1>1. LockInv /\ [Next]_vars => LockInv'
  BY LockInvStep, LockInvStutter DEF Next
<1>2. LockInv => TypeOK
  BY DEF LockInv
<1> QED
  BY LockInvInit, <1>1, <1>2, PTL DEF Spec

\* Two workers hold group.lock together only after an unlink that hit a file
\* another worker had opened: release()'s unlock-then-unlink is the only hole.
THEOREM Exclusion == Spec => []ExclusiveUnlessOverlap
<1>1. LockInv /\ [Next]_vars => LockInv'
  BY LockInvStep, LockInvStutter DEF Next
<1> QED
  BY LockInvInit, <1>1, LockInvExcludes, PTL DEF Spec

-----------------------------------------------------------------------------
\* While a release is between its two calls, nobody has the file open: so
\* its unlink overlaps nothing.
QuietRelease ==
  /\ ~overlap
  /\ Releasing # {} => \A p \in Procs : fd[p] = None

DisciplineInv == LockInv /\ QuietRelease

LEMMA DisciplineInvInit == Init => DisciplineInv
  BY LockInvInit DEF Init, DisciplineInv, QuietRelease, Releasing

LEMMA DisciplineInvStep ==
  ASSUME DisciplineInv, NEW p \in Procs, DisciplinedStep(p)
  PROVE  DisciplineInv'
<1>1. LockInv'
  BY LockInvStep DEF DisciplineInv, DisciplinedStep, Step
<1>2. QuietRelease'
  <2> USE NoneAssumption DEF DisciplineInv, LockInv, TypeOK, PCs, QuietRelease, Releasing,
          OpenWhileUsing, OwnersAreHolders, OpenFilesNamed
  <2>1. CASE Open(p) /\ Releasing = {}
    BY <2>1 DEF Open, FreeInodes
  <2>2. CASE Unlock(p) /\ Acquiring = {}
    <3>1. \A q \in Procs : q # p => fd[q] = None
      BY <2>2 DEF Unlock, Acquiring
    <3> QED
      BY <3>1, <2>2 DEF Unlock
  <2>3. CASE Lock(p)
    BY <2>3 DEF Lock
  <2>4. CASE Refuse(p)
    BY <2>4 DEF Refuse
  <2>5. CASE Unlink(p)
    BY <2>5 DEF Unlink
  <2>6. CASE Crash(p)
    BY <2>6 DEF Crash
  <2> QED
    BY <2>1, <2>2, <2>3, <2>4, <2>5, <2>6 DEF DisciplinedStep
<1> QED
  BY <1>1, <1>2 DEF DisciplineInv

LEMMA DisciplineInvStutter == DisciplineInv /\ UNCHANGED vars => DisciplineInv'
  BY LockInvStutter DEF DisciplineInv, QuietRelease, Releasing, vars

\* What the refinement mapping's CHOOSE returns.
LEMMA HolderValue ==
  /\ Holders = {} => Holder = None
  /\ \A p \in Procs : Holders = {p} => Holder = p
  BY DEF Holder

LEMMA LeaseStep ==
  ASSUME DisciplineInv, NEW p \in Procs, DisciplinedStep(p)
  PROVE  [Lease!Next]_Holder
<1> USE NoneAssumption DEF DisciplineInv, LockInv, TypeOK, PCs
<1>1. CASE Lock(p)
  <2>1. Holders = {}
    BY <1>1 DEF Lock, Holders, QuietRelease, OpenFilesNamed, OwnersAreHolders,
       OpenWhileUsing
  <2>2. Holders' = {p}
    BY <1>1, <2>1 DEF Lock, Holders
  <2>3. Holder = None /\ Holder' = p
    BY <2>1, <2>2, HolderValue DEF Holder
  <2> QED
    BY <2>3 DEF Lease!Next, Lease!Take
<1>2. CASE pc[p] = "held" /\ (Unlock(p) \/ Crash(p))
  <2>1. Holders = {p}
    BY <1>2, LockInvExcludes DEF QuietRelease, Holders, ExclusiveUnlessOverlap,
       MutualExclusion
  <2>2. Holders' = {}
    BY <1>2, <2>1 DEF Unlock, Crash, Holders
  <2>3. Holder = p /\ Holder' = None
    BY <2>1, <2>2, HolderValue DEF Holder
  <2> QED
    BY <2>3 DEF Lease!Next, Lease!GiveBack
<1>3. CASE Open(p) \/ Refuse(p) \/ Unlink(p) \/ (pc[p] # "held" /\ Crash(p))
  <2>1. Holders' = Holders
    BY <1>3 DEF Open, Refuse, Unlink, Crash, Holders
  <2>2. Holder' = Holder
    BY <2>1 DEF Holder
  <2> QED
    BY <2>2
<1> QED
  BY <1>1, <1>2, <1>3 DEF DisciplinedStep, Unlock

\* Kept apart by the hand-over, acquire() and release() implement the lease.
THEOREM Refinement == DisciplinedSpec => ImplementsLease
<1>1. Init => Lease!Init
  BY HolderValue DEF Init, Holders, Lease!Init
<1>2. DisciplineInv /\ [DisciplinedNext]_vars => DisciplineInv'
  BY DisciplineInvStep, DisciplineInvStutter DEF DisciplinedNext
<1>3. DisciplineInv /\ [DisciplinedNext]_vars => [Lease!Next]_Holder
  <2>1. UNCHANGED vars => UNCHANGED Holder
    BY DEF vars, Holder, Holders
  <2> QED
    BY <2>1, LeaseStep DEF DisciplinedNext
<1> QED
  BY DisciplineInvInit, <1>1, <1>2, <1>3, PTL DEF DisciplinedSpec, ImplementsLease, Lease!Spec
=============================================================================
