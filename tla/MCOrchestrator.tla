--------------------------- MODULE MCOrchestrator ---------------------------
(***************************************************************************)
(* Small instances of Orchestrator: at most two processes p1 and p2, with  *)
(* workers w1, w2 and clients c1, c2 in the first, worker w3 and client c3 *)
(* in the second.                                                          *)
(***************************************************************************)
EXTENDS OrchestratorProperties

CONSTANTS p1, p2, w1, w2, w3, c1, c2, c3

\* Bounds on what the environment does.
CONSTANTS MaxRetry, MaxCancel, MaxCrash, MaxFault

MCCallers == Procs \cup Workers \cup Clients

MCHome == [c \in MCCallers |-> IF c \in {p2, w3, c3} THEN p2 ELSE p1]

MCLimit == [retry |-> MaxRetry, cancel |-> MaxCancel, crash |-> MaxCrash,
            fault |-> MaxFault]
=============================================================================
