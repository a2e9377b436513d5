----------------------------- MODULE GroupLock ------------------------------
(***************************************************************************)
(* class GroupLock of backend/runtime/lifecycle.py at the level of system  *)
(* calls, for the lock file of one group and several worker processes.     *)
(*                                                                         *)
(*   acquire():  open(path, "w")  ->  flock(LOCK_EX | LOCK_NB)             *)
(*   release():  flock(LOCK_UN); close()  ->  unlink(path)                 *)
(*                                                                         *)
(* An arrow is a point where another process can run.  Locks belong to     *)
(* inodes, not to names: open creates a fresh inode when the name is gone, *)
(* and unlink removes the name whatever inode it points to by then.        *)
(***************************************************************************)
EXTENDS FiniteSets

CONSTANTS
  Procs,    \* worker processes that may want the group
  Inodes,   \* inode numbers; reused once nothing refers to them
  None      \* no inode, no process

ASSUME NoneAssumption == None \notin Procs \cup Inodes

VARIABLES
  path,     \* the inode the name group.lock points to, None if unlinked
  fd,       \* fd[p]: the inode p has open, None if GroupLock.fd is None
  owner,    \* owner[i]: the process holding flock on inode i
  pc,       \* where p is in acquire() or release()
  overlap   \* history: an unlink removed the name of a file that some other
            \* process had already opened

vars == <<path, fd, owner, pc, overlap>>

PCs == {"idle", "opened", "held", "unlocked"}

\* A process has the file open exactly while it is in acquire() or past it: what it
\* leaves open would keep the lock, and let its next release() unlink another's file.
OpenWhileUsing ==
  \A p \in Procs : pc[p] \in {"opened", "held"} <=> fd[p] # None

TypeOK ==
  /\ path \in Inodes \cup {None}
  /\ fd \in [Procs -> Inodes \cup {None}]
  /\ owner \in [Inodes -> Procs \cup {None}]
  /\ pc \in [Procs -> PCs]
  /\ overlap \in BOOLEAN
  /\ OpenWhileUsing

Init ==
  /\ path = None
  /\ fd = [p \in Procs |-> None]
  /\ owner = [i \in Inodes |-> None]
  /\ pc = [p \in Procs |-> "idle"]
  /\ overlap = FALSE

-----------------------------------------------------------------------------
\* Inodes neither named nor open in any process.
FreeInodes == {i \in Inodes : path # i /\ \A p \in Procs : fd[p] # i}

\* acquire(): open(self.lock_file, "w") finds the file or creates it.
Open(p) ==
  /\ pc[p] = "idle"
  /\ \E i \in Inodes :
       /\ IF path = None THEN i \in FreeInodes ELSE i = path
       /\ fd' = [fd EXCEPT ![p] = i]
       /\ path' = i
  /\ pc' = [pc EXCEPT ![p] = "opened"]
  /\ UNCHANGED <<owner, overlap>>

\* acquire(): the non-blocking flock succeeds.
Lock(p) ==
  /\ pc[p] = "opened"
  /\ owner[fd[p]] = None
  /\ owner' = [owner EXCEPT ![fd[p]] = p]
  /\ pc' = [pc EXCEPT ![p] = "held"]
  /\ UNCHANGED <<path, fd, overlap>>

\* Mutant: the refused process tidies up the lock file.
RefuseUnlinking(p) ==
  /\ pc[p] = "opened"
  /\ owner[fd[p]] # None
  /\ fd' = [fd EXCEPT ![p] = None]
  /\ path' = None
  /\ pc' = [pc EXCEPT ![p] = "idle"]
  /\ UNCHANGED <<owner, overlap>>

\* Mutant: acquire() returns False with the file still open.
RefuseLeavingOpen(p) ==
  /\ pc[p] = "opened"
  /\ owner[fd[p]] # None
  /\ pc' = [pc EXCEPT ![p] = "idle"]
  /\ UNCHANGED <<path, fd, owner, overlap>>

\* acquire(): flock raises; the file is closed and acquire() returns False.
\* The name stays: it is the holder's.
Refuse(p) ==
  /\ pc[p] = "opened"
  /\ owner[fd[p]] # None
  /\ fd' = [fd EXCEPT ![p] = None]
  /\ pc' = [pc EXCEPT ![p] = "idle"]
  /\ UNCHANGED <<path, owner, overlap>>

\* release(): flock(LOCK_UN) and close().
Unlock(p) ==
  /\ pc[p] = "held"
  /\ owner' = [owner EXCEPT ![fd[p]] = None]
  /\ fd' = [fd EXCEPT ![p] = None]
  /\ pc' = [pc EXCEPT ![p] = "unlocked"]
  /\ UNCHANGED <<path, overlap>>

\* release(): unlink(missing_ok=True), by name.
Unlink(p) ==
  /\ pc[p] = "unlocked"
  /\ path' = None
  /\ overlap' = (overlap \/ \E q \in Procs : path # None /\ fd[q] = path)
  /\ pc' = [pc EXCEPT ![p] = "idle"]
  /\ UNCHANGED <<fd, owner>>

\* The process dies anywhere: the kernel closes its files and drops its lock.
Crash(p) ==
  /\ pc[p] # "idle"
  /\ owner' = [i \in Inodes |-> IF owner[i] = p THEN None ELSE owner[i]]
  /\ fd' = [fd EXCEPT ![p] = None]
  /\ pc' = [pc EXCEPT ![p] = "idle"]
  /\ UNCHANGED <<path, overlap>>

Step(p) == Open(p) \/ Lock(p) \/ Refuse(p) \/ Unlock(p) \/ Unlink(p) \/ Crash(p)

Next == \E p \in Procs : Step(p)

Spec == Init /\ [][Next]_vars

-----------------------------------------------------------------------------
Holders == {p \in Procs : pc[p] = "held"}

\* One process at a time gets past acquire(): what the comment above the
\* acquire in hydrate(), "prevent split-brain double worker executions", says.
MutualExclusion == \A p, q \in Holders : p = q

\* The same, in every run where no unlink removed the name of a file another
\* process had opened: that overlap of a release with an acquire is the only
\* way to two holders.
ExclusiveUnlessOverlap == ~overlap => MutualExclusion

-----------------------------------------------------------------------------
(***************************************************************************)
(* The hand-over discipline: no acquire runs while a release runs.  The    *)
(* Supervisor provides it when it routes a group to its new worker only    *)
(* after LEASE_RELEASED, which the old worker sends after unlink.  Under   *)
(* it GroupLock implements ExclusiveLease.                                 *)
(***************************************************************************)
Acquiring == {p \in Procs : pc[p] = "opened"}
Releasing == {p \in Procs : pc[p] = "unlocked"}

DisciplinedStep(p) ==
  \/ Open(p) /\ Releasing = {}
  \/ Unlock(p) /\ Acquiring = {}
  \/ Lock(p) \/ Refuse(p) \/ Unlink(p) \/ Crash(p)

DisciplinedNext == \E p \in Procs : DisciplinedStep(p)

DisciplinedSpec == Init /\ [][DisciplinedNext]_vars

\* The holder of the lease, if the lock works.
Holder == IF Holders = {} THEN None ELSE CHOOSE p \in Holders : TRUE

Lease == INSTANCE ExclusiveLease WITH holder <- Holder, Nobody <- None

\* Under the hand-over discipline every run of GroupLock is a run of the
\* abstract lease: a process gets past acquire() only when no other is past it.
ImplementsLease == Lease!Spec
=============================================================================
