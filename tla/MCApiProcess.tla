---------------------------- MODULE MCApiProcess ----------------------------
(* A small instance of ApiProcess for TLC.                                   *)
EXTENDS ApiProcess, TLC

Item(type, deps) == [agent |-> type, dependsOn |-> deps]

\* No usable plan at all; more subtasks than allowed; dependencies on a
\* later task, on itself and on no task, and a summary whose dependencies are
\* all invalid; two summaries.
SomeAnswers == {
  <<Unusable>>,
  <<Item("research", {}), Item("analysis", {0}), Item("summarization", {}), Item("analysis", {2})>>,
  <<Item("research", {1}), Unusable, Item("analysis", {-1, 0, 1, 7}), Item("summarization", {5})>>,
  <<Item("summarization", {}), Item("summarization", {})>> }

AllTools == {"web_search", "calculator", "fetch_url"}
SomeNames == AllTools \cup {"translator"}

\* An answer, one call with a text, and two calls of which one names no tool.
SomeReplies == {<<Text>>, <<Text, Use("calculator")>>, <<Use("translator"), Use("calculator")>>}

\* A configured key in the header, or as a bearer token; no key; a body too large.
SomeRequests ==
  LET R(path, header, bearer, bytes) ==
        [path |-> path, header |-> header, query |-> None, bearer |-> bearer, host |-> "host", bytes |-> bytes]
  IN {R("create", "key", None, 1), R("read", None, "key", 1), R("create", None, None, 1),
      R("metrics", "key", None, 1), R("scrape", None, None, 1), R("create", "key", None, 2)}

\* Used by the other modules that extend Models.
NoExecutions == {}
NoPlans == {}
=============================================================================
