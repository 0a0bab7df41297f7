----------------------------- MODULE MCMonitor -----------------------------
(***************************************************************************)
(* An instance of Monitor for TLC.                                         *)
(***************************************************************************)
EXTENDS Monitor

\* Processes that allocate, and are totalled, listed or shown; processes
\* that use CPU time and are sampled.
Use(does, pids) == [does |-> does, pids |-> pids]
EachUse ==
  {Use({"account", "memory"}, {1, 3}), Use({"account", "list"}, {1, 3}),
   Use({"account", "smi"}, {1, 3}),
   Use({"run", "util"}, 1..3), Use({"run", "rates"}, 1..2)}
=============================================================================
