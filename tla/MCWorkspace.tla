---------------------------- MODULE MCWorkspace ----------------------------
(* Workspace on a small instance: workers, browsers, flows, clicks alike.   *)
EXTENDS Workspace, TLC

Symmetry == Permutations(Worker) \cup Permutations(Browser)
              \cup Permutations(Flow) \cup Permutations(Press)

\* What neither a later step nor a property of the run looks at is left out: of
\* a flow that ended all but the worker whose cache the storer cleared, the age
\* of a state once it was verified, which flow it was that signed a browser in,
\* and how a reaction ended.
Ended(f) == flow[f].at \in Ends
Over(r)  == r \in Reaction /\ job[r].at \in {"answered", "dropped", "lost"}
View ==
  <<slackvars, stores, caches, cookie, picker, faults,
    [f \in Flow |-> IF ~Ended(f) THEN flow[f]
                    ELSE IF f = storer /\ flow[f].at = "done" THEN flow[f].worker ELSE None],
    {f \in old : flow[f].at \in {"consent", "code"}},
    {b \in Browser : session[b] # None},
    [j \in Job |-> IF Over(j) THEN None ELSE job[j]],
    marked /\ \E r \in Reaction : job[r].at = "new">>
=============================================================================
