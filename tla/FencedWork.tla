----------------------------- MODULE FencedWork -----------------------------
(***************************************************************************)
(* What a queue of leased work promises, whatever its leases and retries   *)
(* do: an item that is open is settled only by the worker that took it     *)
(* last.  Whoever took it earlier may go on working and finds, when it     *)
(* wants to settle, that its word no longer counts.                        *)
(***************************************************************************)
EXTENDS Naturals

CONSTANTS Items, Workers, None

VARIABLES phase,      \* of each item: absent, open, done or dead
          working,    \* the item each worker works on, or None
          entitled    \* the workers that may settle the item they work on

vars == <<phase, working, entitled>>

Init ==
  /\ phase = [i \in Items |-> "absent"]
  /\ working = [w \in Workers |-> None]
  /\ entitled = {}

On(i) == {w \in Workers : working[w] = i}

Submit(i) ==
  /\ phase[i] = "absent"
  /\ phase' = [phase EXCEPT ![i] = "open"]
  /\ UNCHANGED <<working, entitled>>

Take(w, i) ==
  /\ phase[i] = "open"
  /\ working[w] = None
  /\ working' = [working EXCEPT ![w] = i]
  /\ entitled' = (entitled \ On(i)) \cup {w}
  /\ UNCHANGED phase

\* The result of w counts: the item is done, given up, or open for a retry.
Settle(w, i) ==
  /\ w \in entitled
  /\ working[w] = i
  /\ \E p \in {"open", "done", "dead"} : phase' = [phase EXCEPT ![i] = p]
  /\ working' \in {working, [working EXCEPT ![w] = None]}
  /\ entitled' = entitled \ {w}

\* The worker stops: fenced off, or dead, with the item left open.
Drop(w) ==
  /\ working[w] # None
  /\ working' = [working EXCEPT ![w] = None]
  /\ entitled' = entitled \ {w}
  /\ UNCHANGED phase

\* Nobody settled it in time, and it was the last try.
GiveUp(i) ==
  /\ phase[i] = "open"
  /\ phase' = [phase EXCEPT ![i] = "dead"]
  /\ entitled' = entitled \ On(i)
  /\ UNCHANGED working

\* The work turned out to be done already, and nobody is at it.
Skip(i) ==
  /\ phase[i] = "open"
  /\ entitled \cap On(i) = {}
  /\ phase' = [phase EXCEPT ![i] = "done"]
  /\ UNCHANGED <<working, entitled>>

Reopen(i) ==
  /\ phase[i] = "done"
  /\ phase' = [phase EXCEPT ![i] = "open"]
  /\ UNCHANGED <<working, entitled>>

Next ==
  \/ \E i \in Items : Submit(i) \/ GiveUp(i) \/ Skip(i) \/ Reopen(i)
  \/ \E w \in Workers : Drop(w) \/ \E i \in Items : Take(w, i) \/ Settle(w, i)

Spec == Init /\ [][Next]_vars
=============================================================================
