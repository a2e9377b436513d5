--------------------------- MODULE MCPipelineJobs ---------------------------
\* PipelineJobs with the symmetry of its jobs and of its workers.
EXTENDS PipelineJobs, TLC

Symmetry == Permutations(Jobs) \cup Permutations(Workers)
=============================================================================
