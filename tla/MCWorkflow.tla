------------------------------ MODULE MCWorkflow -------------------------------
(***************************************************************************)
(* Workflow with a history of what a worker that died was working on.      *)
(***************************************************************************)
EXTENDS Workflow

VARIABLE cut  \* history: a unit of the stage was under way or waited when the worker died

Active == {queue[i] : i \in DOMAIN queue} \cup ({run} \ {None})

CutInit == Init /\ cut = FALSE

CutNext ==
  /\ Next
  /\ cut' = IF serving /\ ~serving'
            THEN Staged(row) /\ \E u \in Active : u.bot \in Participants(row)
            ELSE cut /\ ~serving'

CutSpec == CutInit /\ [][CutNext]_<<vars, cut>> /\ Fairness

\* A group that is served again goes on with the units that were cut off, as
\* docs/ARCHITECTURE.md demands of resume_workflows: the stages of the workflow
\* and the chain that its active unit has set off.
ActiveUnitsResume == [][cut /\ serving' => queue' # <<>> \/ recovered' # {}]_<<vars, cut>>
=============================================================================
