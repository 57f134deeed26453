---- MODULE MCAgentTurn ----
\* Instances of AgentTurn for TLC: the rows an operator saves.
EXTENDS AgentTurn, TLC

CONSTANTS c1, c2

Symmetry == Permutations(Turn)

\* A tenant with codebases and shared memory, and the rows one edit away.
Base ==
  [enabled |-> TRUE, installed |-> TRUE, bound |-> Repo, learn |-> TRUE,
   shared |-> TRUE, isolated |-> {}, faq |-> FALSE, extract |-> TRUE,
   allowed |-> {"code_search", "inspect_codebase_context"},
   persona |-> [c \in Channel |-> None], skill |-> {}, routes |-> {}]

Rows ==
  {Base,
   [Base EXCEPT !.isolated = {c1}, !.allowed = {"ask_codebase_choice", "inspect_codebase_context"}],
   [Base EXCEPT !.shared = FALSE, !.faq = TRUE, !.routes = {c2},
                !.allowed = {"escalate", "read_thread_context", "record_feedback"}],
   [Base EXCEPT !.enabled = FALSE, !.skill = {"code_search", "propose_pr"}, !.allowed = {},
                !.persona = [c \in Channel |-> IF c = c2 THEN {"check_task_status"} ELSE None]]}
====
