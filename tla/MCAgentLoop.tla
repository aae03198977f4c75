---------------------------- MODULE MCAgentLoop ----------------------------
(***************************************************************************)
(* Small instances of AgentLoop.                                           *)
(***************************************************************************)
EXTENDS AgentLoop

CONSTANTS k1, k2

OneSuggestion == <<k1>>

Turn(said, calls) == [said |-> said, calls |-> calls]

\* A turn without calls, a batch, a turn that may finish, an edit beside a
\* read, and the memory.
WorkTurns ==
  {Turn(TRUE, <<>>),
   Turn(FALSE, <<"read", "diff">>),
   Turn(FALSE, <<"run", "finish">>),
   Turn(FALSE, <<"read", "checkpoint">>),
   Turn(FALSE, <<"plan", "remember", "activate">>)}

MemoryTurns == {Turn(FALSE, <<"plan", "remember">>)}
=============================================================================
