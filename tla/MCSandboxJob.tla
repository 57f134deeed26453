---------------------------- MODULE MCSandboxJob ----------------------------
(* Small instances of SandboxJob.                                            *)
EXTENDS SandboxJob

CONSTANTS j1, j2

TwoJobs == {j1, j2}

\* j1 has the default threshold, j2 a tenant's threshold of 2: j2 alone does
\* not keep the session busy.
Thresholds   == [t \in TwoJobs |-> IF t = j1 THEN 1 ELSE 2]
Costs        == [t \in TwoJobs |-> 2]
=============================================================================
