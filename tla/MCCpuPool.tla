------------------------------ MODULE MCCpuPool ------------------------------
(* Model-checking instance of CpuPool.                                      *)
EXTENDS CpuPool

CONSTANT j1

\* Nobody waits for ever, whatever breaks and whoever cancels (JobEnds of CpuPool).
\* Jobs start alike and are treated alike, so that following one of them is enough.
AnyJobEnds == JobEnds(j1)
=============================================================================
