-------------------------- MODULE AgentLoopProofs --------------------------
(***************************************************************************)
(* Proofs about AgentLoop, for any clients, skills, turns, tools and       *)
(* bounds.                                                                 *)
(***************************************************************************)
EXTENDS AgentLoop, FiniteSetTheorems, TLAPS

\* Before the model has been asked in this step, and inside a call.
BeforeTurn ==
  \/ agent.at \in {"compact", "compacted", "step", "auto", "build", "model", "nudge"}
  \/ agent.at = "skill" /\ agent.back = "build"

InCall ==
  \/ agent.at \in {"call", "running", "checkpointed", "remember", "answer"}
  \/ agent.at = "skill" /\ agent.back = "answer"

\* What the locals of a run are at its places.
Position ==
  /\ agent \in Agents
  /\ runs \in Nat
  /\ agent.at \notin Resting => runs > 0
  /\ agent.at \in Resting \/ BeforeTurn => agent.turn = <<>>
  /\ agent.at \in Resting => agent.memo = <<>>
  /\ BeforeTurn \/ agent.at \in {"say", "turn"} => agent.next = 1
  /\ agent.at \in {"turn", "gather"} => agent.turn # <<>>
  /\ InCall \/ agent.at = "announce" => agent.next \in 1..Len(agent.turn)
  /\ agent.accepted => agent.at = "answer"

\* What is executed at a time.
Flight ==
  /\ agent.at \notin {"gather", "running"} => agent.flight = {}
  /\ agent.at = "running" => agent.flight = {agent.next}
  /\ agent.at = "gather" =>
       /\ agent.flight # {}
       /\ agent.flight \subseteq DOMAIN agent.turn
       /\ \A i \in DOMAIN agent.turn : agent.turn[i] \in Reads

(***************************************************************************)
(* The ways a run goes on.                                                 *)
(***************************************************************************)
LEMMA Going ==
  ASSUME agent \in Agents, NEW p \in Places
  PROVE  /\ To(p) \in Agents
         /\ To(p) = [agent EXCEPT !.at = p]
BY DEF To, Agents

LEMMA NewRunTyped ==
  /\ NewRun \in Agents
  /\ \A e \in Resting : Over(e) \in Agents
<1>1. 1 \in 1..MaxSteps
  BY BoundsAssumption
<1>2. <<>> \in Seq(Calls) /\ <<>> \in Seq(Skills) /\ <<>> \in Constraints
  BY DEF Constraints
<1>3. NewRun \in Agents
  BY <1>1, <1>2 DEF NewRun, Agents, Places
<1>. QED
  BY <1>3 DEF Over, Agents, Places, Resting

LEMMA NextStepEffect ==
  ASSUME agent \in Agents
  PROVE  /\ NextStep \in Agents
         /\ NextStep.at \in {"compact", "off"}
         /\ NextStep.turn = <<>> /\ NextStep.next = 1 /\ NextStep.flight = {}
         /\ NextStep.memo = <<>> /\ NextStep.fresh = {} /\ ~NextStep.accepted
         /\ NextStep.at = "compact" => NextStep.step = agent.step + 1
<1>1. CASE agent.step = MaxSteps
  BY <1>1, NewRunTyped DEF NextStep, NewRun, Over, Resting
<1>2. CASE agent.step # MaxSteps
  <2>1. agent.step + 1 \in 1..MaxSteps
    BY <1>2, BoundsAssumption DEF Agents
  <2>2. NextStep = [NewRun EXCEPT !.step = agent.step + 1]
    BY <1>2 DEF NextStep
  <2>3. NextStep \in Agents
    BY <2>1, <2>2, NewRunTyped DEF Agents
  <2>. QED
    BY <2>2, <2>3 DEF NewRun
<1>. QED
  BY <1>1, <1>2


LEMMA NextCallEffect ==
  ASSUME Position, InCall
  PROVE  /\ NextCall \in Agents
         /\ NextCall.flight = {}
         /\ \/ agent.next = Len(agent.turn) /\ NextCall = NextStep
            \/ /\ agent.next < Len(agent.turn)
               /\ NextCall = [agent EXCEPT !.at = "call", !.next = agent.next + 1,
                                           !.flight = {}]
<1>1. CASE agent.next = Len(agent.turn)
  BY <1>1, NextStepEffect DEF NextCall, Position
<1>2. CASE agent.next # Len(agent.turn)
  <2>1. agent.next + 1 \in Nat /\ agent.next < Len(agent.turn)
    BY <1>2 DEF Position, Agents
  <2>2. NextCall = [agent EXCEPT !.at = "call", !.next = agent.next + 1, !.flight = {}]
    BY <1>2 DEF NextCall
  <2>. QED
    BY <2>1, <2>2 DEF Agents, Places, Position
<1>. QED
  BY <1>1, <1>2

\* The call an agent is at is one of its turn.
LEMMA CallTyped ==
  ASSUME Position, InCall \/ agent.at = "announce"
  PROVE  Call \in Calls
BY DEF Position, Call, Agents

LEMMA AfterCall ==
  ASSUME Position, InCall, ~agent.accepted, agent' = NextCall, UNCHANGED runs
  PROVE  Position' /\ Flight'
<1>1. CASE NextCall = NextStep
  BY <1>1, NextStepEffect DEF Position, Flight, BeforeTurn, InCall, Resting
<1>2. CASE /\ agent.next < Len(agent.turn)
           /\ agent' = [agent EXCEPT !.at = "call", !.next = agent.next + 1,
                                     !.flight = {}]
  <2>1. agent' \in Agents
    BY NextCallEffect
  <2>2. agent.next + 1 \in 1..Len(agent.turn)
    BY <1>2 DEF Position, Agents
  <2>. QED
    BY <1>2, <2>1, <2>2 DEF Position, Flight, BeforeTurn, InCall, Resting, Agents
<1>. QED
  BY <1>1, <1>2, NextCallEffect
-----------------------------------------------------------------------------
(***************************************************************************)
(* Types.                                                                  *)
(***************************************************************************)
LEMMA AgentStep ==
  ASSUME AgentTypeOK, Position, Flight, [Next]_vars
  PROVE  Position' /\ Flight'
<1> USE DEF Position, Flight
<1>1. ASSUME Start
      PROVE  Position' /\ Flight'
  BY <1>1, NewRunTyped DEF Start, Note, Event, NewRun, Last, Resting,
      BeforeTurn, InCall, Agents, Places, Resting, NewRun, AgentTypeOK,
      BoundsAssumption
<1>2. ASSUME Stop
      PROVE  Position' /\ Flight'
  BY <1>2, NewRunTyped DEF Stop, Quietly, Over, NewRun, Resting, BeforeTurn,
      InCall, Agents, Places, Resting
<1>3. ASSUME MaybeCompact
      PROVE  Position' /\ Flight'
  <2>1. /\ agent.at = "compact" /\ UNCHANGED runs
        /\ agent' = To("compacted") \/ agent' = To("step")
    BY <1>3 DEF MaybeCompact, Condense, Saving, Quietly, At
  <2>. QED
    BY <2>1 DEF To, BeforeTurn, InCall, Agents, Places, Resting
<1>4. ASSUME TellCompacted
      PROVE  Position' /\ Flight'
  BY <1>4 DEF TellCompacted, At, Telling, Note, Event, To, BeforeTurn, InCall,
      Agents, Places, Resting
<1>5. ASSUME TellStep
      PROVE  Position' /\ Flight'
  BY <1>5 DEF TellStep, At, Telling, Note, Event, To, BeforeTurn, InCall,
      Agents, Places, Resting
<1>6. ASSUME EnsureAutoSkills
      PROVE  Position' /\ Flight'
  BY <1>6, SkillsAssumption DEF EnsureAutoSkills, ToSkills, Quietly, At,
      BeforeTurn, InCall, Agents, Places, Resting
<1>7. ASSUME PassOver
      PROVE  Position' /\ Flight'
  <2>1. /\ Tail(agent.todo) \in Seq(Skills) /\ <<>> \in Seq(Skills)
        /\ UNCHANGED runs
        /\ agent.at = "skill"
    BY <1>7 DEF PassOver, At, Quietly, Agents
  <2>2. PICK t \in Seq(Skills) : agent' = [agent EXCEPT !.todo = t]
    BY <1>7, <2>1 DEF PassOver, Quietly
  <2>3. agent' \in Agents
    BY <2>2 DEF Agents
  <2>. QED
    BY <2>1, <2>2, <2>3 DEF Agents, BeforeTurn, InCall, Resting
<1>8. ASSUME Activate
      PROVE  Position' /\ Flight'
  <2>1. /\ Tail(agent.todo) \in Seq(Skills) /\ Head(agent.todo) \in Skills
        /\ UNCHANGED runs
        /\ agent.at = "skill"
    BY <1>8 DEF Activate, At, Telling, Agents
  <2>2. agent' = [agent EXCEPT !.todo = Tail(agent.todo),
                               !.fresh = agent.fresh \cup {Head(agent.todo)}]
    BY <1>8 DEF Activate, Activated, Telling
  <2>3. agent' \in Agents
    BY <2>1, <2>2 DEF Agents
  <2>. QED
    BY <2>1, <2>2, <2>3 DEF Agents, BeforeTurn, InCall, Resting
<1>9. ASSUME SaveSkills
      PROVE  Position' /\ Flight'
  BY <1>9 DEF SaveSkills, Saving, At, BeforeTurn, InCall, Agents, Places,
      Resting
<1>10. ASSUME BuildMessages
      PROVE  Position' /\ Flight'
  BY <1>10 DEF BuildMessages, At, To, BeforeTurn, InCall, Agents, Places,
      Resting
<1>11. ASSUME ModelTurn
      PROVE  Position' /\ Flight'
  <2>1. PICK t \in Turns :
          agent' = [agent EXCEPT !.turn = t.calls,
                      !.at = IF t.said THEN "say" ELSE AfterContent(t.calls)]
    BY <1>11 DEF ModelTurn, Quietly
  <2>2. t.calls \in Seq(Calls)
    BY TurnsAssumption
  <2>3. UNCHANGED runs /\ agent.at = "model"
    BY <1>11 DEF ModelTurn, Quietly, At
  <2>4. agent' \in Agents
    BY <2>1, <2>2 DEF Agents, Places, AfterContent
  <2>5. t.calls # <<>> => 1 \in 1..Len(t.calls)
    BY <2>2
  <2>. QED
    BY <2>1, <2>2, <2>3, <2>4, <2>5 DEF AfterContent, Agents, BeforeTurn, InCall, Resting
<1>12. ASSUME Say
      PROVE  Position' /\ Flight'
  <2>1. /\ agent' = [agent EXCEPT !.at = AfterContent(agent.turn)]
        /\ UNCHANGED runs
        /\ agent.at = "say"
    BY <1>12 DEF Say, Telling, To, At
  <2>2. agent' \in Agents
    BY <2>1 DEF AfterContent, Agents, Places
  <2>3. agent.turn # <<>> => 1 \in 1..Len(agent.turn)
    BY DEF Agents
  <2>. QED
    BY <2>1, <2>2, <2>3 DEF AfterContent, Agents, BeforeTurn, InCall, Resting
<1>13. ASSUME Nudge
      PROVE  Position' /\ Flight'
  BY <1>13, NextStepEffect DEF Nudge, At, Telling, Note, Event, BeforeTurn,
      InCall, Agents, Places, Resting
<1>14. ASSUME Announce
      PROVE  Position' /\ Flight'
  <2>1. UNCHANGED runs /\ agent.at = "announce" /\ agent.next \in 1..Len(agent.turn)
    BY <1>14 DEF Announce, At, Telling
  <2>2. CASE agent.next = Len(agent.turn)
    <3>1. agent' = [agent EXCEPT !.at = "turn", !.next = 1]
      BY <1>14, <2>2 DEF Announce, Telling
    <3>2. agent' \in Agents
      BY <3>1 DEF Agents, Places
    <3>3. agent.turn # <<>>
      BY <2>1
    <3>. QED
      BY <2>1, <3>1, <3>2, <3>3 DEF Agents, BeforeTurn, InCall, Resting
  <2>3. CASE agent.next # Len(agent.turn)
    <3>1. agent' = [agent EXCEPT !.next = agent.next + 1]
      BY <1>14, <2>3 DEF Announce, Telling
    <3>2. agent.next + 1 \in Nat /\ agent.next + 1 \in 1..Len(agent.turn)
      BY <2>1, <2>3 DEF Agents
    <3>3. agent' \in Agents
      BY <3>1, <3>2 DEF Agents
    <3>. QED
      BY <2>1, <3>1, <3>2, <3>3 DEF Agents, BeforeTurn, InCall, Resting
  <2>. QED
    BY <2>2, <2>3
<1>15. ASSUME ExecuteTurn
      PROVE  Position' /\ Flight'
  <2>1. UNCHANGED runs /\ agent.at = "turn" /\ agent.turn # <<>> /\ agent.next = 1
    BY <1>15 DEF ExecuteTurn, At, Quietly
  <2>2. 1 \in 1..Len(agent.turn) /\ DOMAIN agent.turn = 1..Len(agent.turn)
    BY <2>1 DEF Agents
  <2>3. CASE ParallelBatch
    <3>1. agent' = [agent EXCEPT !.at = "gather", !.flight = DOMAIN agent.turn]
      BY <1>15, <2>3 DEF ExecuteTurn, Quietly
    <3>2. DOMAIN agent.turn \in SUBSET Nat
      BY <2>2
    <3>3. agent' \in Agents
      BY <3>1, <3>2 DEF Agents, Places
    <3>. QED
      BY <2>1, <2>2, <2>3, <3>1, <3>3 DEF ParallelBatch, Agents, BeforeTurn, InCall, Resting
  <2>4. CASE ~ParallelBatch
    <3>1. agent' = [agent EXCEPT !.at = "call"]
      BY <1>15, <2>4 DEF ExecuteTurn, Quietly, To
    <3>2. agent' \in Agents
      BY <3>1 DEF Agents, Places
    <3>. QED
      BY <2>1, <2>2, <3>1, <3>2 DEF Agents, BeforeTurn, InCall, Resting
  <2>. QED
    BY <2>3, <2>4
<1>16. ASSUME RecordParallel
      PROVE  Position' /\ Flight'
  <2>1. PICK i \in agent.flight :
          agent' = IF agent.flight = {i} THEN NextStep
                   ELSE [agent EXCEPT !.flight = agent.flight \ {i}]
    BY <1>16 DEF RecordParallel, Gathered, Telling
  <2>2. UNCHANGED runs /\ agent.at = "gather"
    BY <1>16 DEF RecordParallel, Gathered, Telling, At
  <2>3. CASE agent.flight = {i}
    BY <2>1, <2>2, <2>3, NextStepEffect DEF BeforeTurn, InCall, Resting
  <2>4. CASE agent.flight # {i}
    <3>1. agent' = [agent EXCEPT !.flight = agent.flight \ {i}]
      BY <2>1, <2>4
    <3>2. agent' \in Agents
      BY <3>1 DEF Agents
    <3>3. agent.flight \ {i} # {}
      BY <2>4
    <3>. QED
      BY <2>2, <3>1, <3>2, <3>3 DEF Agents, BeforeTurn, InCall, Resting
  <2>. QED
    BY <2>3, <2>4
<1>17. ASSUME CallTool
      PROVE  Position' /\ Flight'
  BY <1>17 DEF CallTool, Quietly, At, BeforeTurn, InCall, Agents, Places,
      Resting
<1>18. ASSUME RecordResult
      PROVE  Position' /\ Flight'
  <2>1. UNCHANGED runs /\ agent.at = "running" /\ InCall
    BY <1>18 DEF RecordResult, At, Telling, InCall
  <2>2. CASE agent' = NextCall
    BY <2>1, <2>2, AfterCall
  <2>3. CASE agent' = [agent EXCEPT !.at = "checkpointed", !.flight = {}]
    <3>1. agent' \in Agents
      BY <2>3 DEF Agents, Places
    <3>. QED
      BY <2>1, <2>3, <3>1 DEF Agents, BeforeTurn, InCall, Resting
  <2>. QED
    BY <1>18, <2>2, <2>3 DEF RecordResult, AfterResult, Telling
<1>19. ASSUME TellCheckpoint
      PROVE  Position' /\ Flight'
  <2>1. UNCHANGED runs /\ agent.at = "checkpointed" /\ InCall /\ agent' = NextCall
    BY <1>19 DEF TellCheckpoint, At, Telling, InCall
  <2>. QED
    BY <2>1, AfterCall
<1>20. ASSUME SetPlan
      PROVE  Position' /\ Flight'
  BY <1>20 DEF SetPlan, At, Quietly, To, BeforeTurn, InCall, Agents, Places,
      Resting
<1>21. ASSUME ReadConstraints
      PROVE  Position' /\ Flight'
  BY <1>21 DEF ReadConstraints, Quietly, At, BeforeTurn, InCall, Agents,
      Places, Resting, Constraints, AgentTypeOK, Rows
<1>22. ASSUME RememberConstraint
      PROVE  Position' /\ Flight'
  <2>1. /\ agent' = [agent EXCEPT !.at = "answer", !.memo = <<>>]
        /\ UNCHANGED runs
        /\ agent.at = "remember"
    BY <1>22 DEF RememberConstraint, Saving, At
  <2>2. agent' \in Agents
    <3>1. <<>> \in Constraints
      BY DEF Constraints
    <3>. QED
      BY <2>1, <3>1 DEF Agents, Places
  <2>. QED
    BY <2>1, <2>2 DEF Agents, BeforeTurn, InCall, Resting
<1>23. ASSUME ActivateSkill
      PROVE  Position' /\ Flight'
  <2>1. PICK k \in Skills :
          agent' = [agent EXCEPT !.at = "skill", !.todo = <<k>>, !.back = "answer"]
    BY <1>23 DEF ActivateSkill, ToSkills, Quietly
  <2>2. UNCHANGED runs /\ agent.at = "call"
    BY <1>23 DEF ActivateSkill, Quietly, At
  <2>3. <<k>> \in Seq(Skills)
    OBVIOUS
  <2>4. agent' \in Agents
    BY <2>1, <2>3 DEF Agents, Places
  <2>. QED
    BY <2>1, <2>2, <2>4 DEF Agents, BeforeTurn, InCall, Resting
<1>24. ASSUME FinishTask
      PROVE  Position' /\ Flight'
  BY <1>24 DEF FinishTask, Quietly, At, BeforeTurn, InCall, Agents, Places,
      Resting
<1>25. ASSUME Answer
      PROVE  Position' /\ Flight'
  <2>1. UNCHANGED runs /\ agent.at = "answer" /\ InCall
    BY <1>25 DEF Answer, At, Telling, InCall
  <2>2. CASE agent.accepted
    <3>1. agent' = Over("done")
      BY <1>25, <2>2 DEF Answer, Telling
    <3>. QED
      BY <2>1, <3>1, NewRunTyped DEF Over, NewRun, BeforeTurn, InCall, Resting
  <2>3. CASE ~agent.accepted
    <3>1. agent' = NextCall
      BY <1>25, <2>3 DEF Answer, Telling
    <3>. QED
      BY <2>1, <2>3, <3>1, AfterCall
  <2>. QED
    BY <2>2, <2>3
<1>26. ASSUME RecordsClash
      PROVE  Position' /\ Flight'
  BY <1>26, NewRunTyped DEF RecordsClash, At, Over, NewRun, BeforeTurn,
      InCall, Agents, Places, Resting
<1>27. ASSUME EndStray
      PROVE  Position' /\ Flight'
  BY <1>27 DEF EndStray, Event, BeforeTurn, InCall, Agents, Places, Resting
<1>28. ASSUME NEW c \in Clients, ReadRow(c)
      PROVE  Position' /\ Flight'
  BY <1>28 DEF ReadRow, BeforeTurn, InCall, Agents, Places, Resting
<1>29. ASSUME NEW c \in Clients, AppendInstruction(c)
      PROVE  Position' /\ Flight'
  BY <1>29 DEF AppendInstruction, BeforeTurn, InCall, Agents, Places, Resting
<1>30. ASSUME NEW c \in Clients, TellInstruction(c)
      PROVE  Position' /\ Flight'
  BY <1>30 DEF TellInstruction, Event, BeforeTurn, InCall, Agents, Places,
      Resting
<1>31. ASSUME UNCHANGED vars
      PROVE  Position' /\ Flight'
  BY <1>31 DEF vars, BeforeTurn, InCall, Agents, Places, Resting
<1>. QED
  BY <1>1, <1>2, <1>3, <1>4, <1>5, <1>6, <1>7, <1>8, <1>9, <1>10, <1>11,
      <1>12, <1>13, <1>14, <1>15, <1>16, <1>17, <1>18, <1>19, <1>20, <1>21,
      <1>22, <1>23, <1>24, <1>25, <1>26, <1>27, <1>28, <1>29, <1>30, <1>31 DEF
      Next, Step

\* The log as it is after an append.
LEMMA Appended ==
  ASSUME history \in Seq(Events), NEW e \in Events, history' = Append(history, e)
  PROVE  /\ history' \in Seq(Events)
         /\ Len(history') = Len(history) + 1
         /\ \A n \in 1..Len(history) : history'[n] = history[n]
         /\ history'[Len(history) + 1] = e
OBVIOUS

Grows ==
  /\ history' \in Seq(Events)
  /\ Len(history) <= Len(history')
  /\ \A n \in 1..Len(history) : history'[n] = history[n]

LEMMA NoCallTyped == NoCall \in CallIds
BY DEF NoCall, CallIds

LEMMA EventsTyped ==
  ASSUME NEW of \in Calls \cup Skills \cup Clients \cup {None}, NEW id \in CallIds
  PROVE  /\ \A type \in EventTypes : Event(type, of, id) \in Events
         /\ \A call \in Calls : \A r \in Result(call) : Event(r, of, id) \in Events
         /\ \A type \in EventTypes : Note(type) \in Events
BY NoCallTyped DEF Event, Events, EventTypes, Note, Result

LEMMA IdTyped ==
  ASSUME Position, NEW i \in Nat
  PROVE  Id(i) \in CallIds
BY BoundsAssumption DEF Id, CallIds, Position, Agents

\* Nothing is taken out of the log.
LEMMA HistoryStep ==
  ASSUME AgentTypeOK, Position, Flight, [Next]_vars
  PROVE  Grows
<1>0. /\ history \in Seq(Events)
      /\ \A e \in Events : history' = Append(history, e) => Grows
      /\ history' = history => Grows
  <2>1. history \in Seq(Events)
    BY DEF AgentTypeOK
  <2>2. Len(history) \in Nat
    BY <2>1
  <2>. QED
    BY <2>1, <2>2, Appended DEF Grows
<1>a. \A type \in EventTypes : Note(type) \in Events
  BY EventsTyped, NoCallTyped
<1>1. ASSUME Start
      PROVE  Grows
  <2>1. Note("indexed") \in Events /\ Note("started") \in Events
    BY <1>a DEF EventTypes
  <2>2. history' = history \o <<Note("indexed"), Note("started")>>
    BY <1>1 DEF Start
  <2>. QED
    BY <1>0, <2>1, <2>2 DEF Grows
<1>2. ASSUME Stop
      PROVE  Grows
  BY <1>2, <1>0 DEF Stop, Quietly, Saving, Condense
<1>3. ASSUME MaybeCompact
      PROVE  Grows
  BY <1>3, <1>0 DEF MaybeCompact, Quietly, Saving, Condense
<1>4. ASSUME TellCompacted
      PROVE  Grows
  BY <1>4, <1>0, <1>a DEF TellCompacted, Telling, EventTypes
<1>5. ASSUME TellStep
      PROVE  Grows
  BY <1>5, <1>0, <1>a DEF TellStep, Telling, EventTypes
<1>6. ASSUME EnsureAutoSkills
      PROVE  Grows
  BY <1>6, <1>0 DEF EnsureAutoSkills, Quietly, Saving, Condense
<1>7. ASSUME PassOver
      PROVE  Grows
  BY <1>7, <1>0 DEF PassOver, Quietly, Saving, Condense
<1>8. ASSUME Activate
      PROVE  Grows
  <2>1. Head(agent.todo) \in Skills
    BY <1>8 DEF Activate, Position, Agents
  <2>. QED
    BY <1>8, <1>0, <2>1, NoCallTyped, EventsTyped DEF Activate, Telling, EventTypes
<1>9. ASSUME SaveSkills
      PROVE  Grows
  BY <1>9, <1>0 DEF SaveSkills, Quietly, Saving, Condense
<1>10. ASSUME BuildMessages
      PROVE  Grows
  BY <1>10, <1>0 DEF BuildMessages, Quietly, Saving, Condense
<1>11. ASSUME ModelTurn
      PROVE  Grows
  BY <1>11, <1>0 DEF ModelTurn, Quietly, Saving, Condense
<1>12. ASSUME Say
      PROVE  Grows
  BY <1>12, <1>0, <1>a DEF Say, Telling, EventTypes
<1>13. ASSUME Nudge
      PROVE  Grows
  BY <1>13, <1>0, <1>a DEF Nudge, Telling, EventTypes
<1>14. ASSUME Announce
      PROVE  Grows
  <2>1. Call \in Calls /\ Id(agent.next) \in CallIds
    BY <1>14, CallTyped, IdTyped DEF Announce, At, Position, Agents
  <2>. QED
    BY <1>14, <1>0, <2>1, EventsTyped DEF Announce, Telling, EventTypes
<1>15. ASSUME ExecuteTurn
      PROVE  Grows
  BY <1>15, <1>0 DEF ExecuteTurn, Quietly, Saving, Condense
<1>16. ASSUME RecordParallel
      PROVE  Grows
  <2>1. PICK i \in agent.flight : \E r \in Result(agent.turn[i]) :
          history' = Append(history, Event(r, agent.turn[i], Id(i)))
    BY <1>16 DEF RecordParallel, Gathered, Telling
  <2>2. agent.turn[i] \in Calls /\ i \in Nat
    BY <1>16 DEF RecordParallel, At, Flight, Position, Agents
  <2>3. Id(i) \in CallIds
    BY <2>2, IdTyped
  <2>. QED
    BY <1>0, <2>1, <2>2, <2>3, EventsTyped
<1>17. ASSUME CallTool
      PROVE  Grows
  BY <1>17, <1>0 DEF CallTool, Quietly, Saving, Condense
<1>18. ASSUME RecordResult
      PROVE  Grows
  <2>1. Call \in Calls /\ Id(agent.next) \in CallIds
    BY <1>18, CallTyped, IdTyped DEF RecordResult, At, Position, Agents, InCall
  <2>2. \A r \in Result(Call) : Event(r, Call, Id(agent.next)) \in Events
    BY <2>1, EventsTyped
  <2>. QED
    BY <1>18, <1>0, <2>2 DEF RecordResult, Telling
<1>19. ASSUME TellCheckpoint
      PROVE  Grows
  BY <1>19, <1>0, <1>a DEF TellCheckpoint, Telling, EventTypes
<1>20. ASSUME SetPlan
      PROVE  Grows
  BY <1>20, <1>0 DEF SetPlan, Quietly, Saving, Condense
<1>21. ASSUME ReadConstraints
      PROVE  Grows
  BY <1>21, <1>0 DEF ReadConstraints, Quietly, Saving, Condense
<1>22. ASSUME RememberConstraint
      PROVE  Grows
  BY <1>22, <1>0 DEF RememberConstraint, Quietly, Saving, Condense
<1>23. ASSUME ActivateSkill
      PROVE  Grows
  BY <1>23, <1>0 DEF ActivateSkill, Quietly, Saving, Condense
<1>24. ASSUME FinishTask
      PROVE  Grows
  BY <1>24, <1>0 DEF FinishTask, Quietly, Saving, Condense
<1>25. ASSUME Answer
      PROVE  Grows
  <2>1. Call \in Calls /\ Id(agent.next) \in CallIds
    BY <1>25, CallTyped, IdTyped DEF Answer, At, Position, Agents, InCall
  <2>. QED
    BY <1>25, <1>0, <2>1, EventsTyped DEF Answer, Telling, EventTypes
<1>26. ASSUME RecordsClash
      PROVE  Grows
  BY <1>26, <1>0 DEF RecordsClash, Quietly, Saving, Condense
<1>27. ASSUME EndStray
      PROVE  Grows
  <2>1. PICK s \in strays :
          \/ \E r \in Result(s[1]) : history' = Append(history, Event(r, s[1], s[2]))
          \/ UNCHANGED history
    BY <1>27 DEF EndStray
  <2>2. s[1] \in Calls /\ s[2] \in CallIds
    BY DEF AgentTypeOK
  <2>. QED
    BY <1>0, <2>1, <2>2, EventsTyped
<1>28. ASSUME NEW c \in Clients, ReadRow(c)
      PROVE  Grows
  BY <1>28, <1>0 DEF ReadRow, Quietly, Saving, Condense
<1>29. ASSUME NEW c \in Clients, AppendInstruction(c)
      PROVE  Grows
  BY <1>29, <1>0 DEF AppendInstruction, Quietly, Saving, Condense
<1>30. ASSUME NEW c \in Clients, TellInstruction(c)
      PROVE  Grows
  BY <1>30, <1>0, NoCallTyped, EventsTyped DEF TellInstruction, EventTypes
<1>31. ASSUME UNCHANGED vars
      PROVE  Grows
  BY <1>31, <1>0 DEF vars
<1>. QED
  BY <1>1, <1>2, <1>3, <1>4, <1>5, <1>6, <1>7, <1>8, <1>9, <1>10, <1>11,
      <1>12, <1>13, <1>14, <1>15, <1>16, <1>17, <1>18, <1>19, <1>20, <1>21,
      <1>22, <1>23, <1>24, <1>25, <1>26, <1>27, <1>28, <1>29, <1>30, <1>31 DEF
      Next, Step

\* The summary of row r tells of nothing after its mark.
Upto(r) == \A l \in r.summary : l.by <= r.through /\ l.of \in 1..r.through

\* The bounds of what is kept and of what is about to be written.
Bounded ==
  /\ Len(agent.memo) <= Keep
  /\ \A d \in Clients : Len(client[d].read) <= Keep
  /\ Upto(row)
  /\ Cardinality(Active) <= MaxActive
  /\ agent.fresh # {} => agent.at = "skill"

LEMMA NewestKeeps ==
  ASSUME NEW s \in Constraints, NEW e \in Clients \cup {None}, Len(s) <= Keep
  PROVE  /\ Newest(Append(s, e)) \in Constraints
         /\ Len(Newest(Append(s, e))) <= Keep
<1> DEFINE t == Append(s, e)
<1>1. t \in Seq(Clients \cup {None}) /\ Len(t) = Len(s) + 1 /\ Len(s) \in Nat
  BY DEF Constraints
<1>2. CASE Len(t) <= Keep
  BY <1>1, <1>2 DEF Newest, Constraints
<1>3. CASE Len(t) > Keep
  <2>1. Tail(t) \in Seq(Clients \cup {None}) /\ Len(Tail(t)) = Len(t) - 1
    BY <1>1
  <2>2. Newest(t) = Tail(t)
    BY <1>1, <1>3, BoundsAssumption DEF Newest
  <2>. QED
    BY <1>1, <2>1, <2>2, BoundsAssumption DEF Constraints
<1>. QED
  BY <1>1, <1>2, <1>3, BoundsAssumption

RowTyped ==
  /\ row \in Rows
  /\ row.through <= Len(history)
  /\ Len(row.constraints) <= Keep
  /\ Upto(row)

\* The text that is cut when events up to mark are condensed, ...
Longer(mark) == row.summary \cup NewLines(row.through, mark)

LEMMA LongerIs ==
  ASSUME AgentTypeOK, Upto(row), NEW mark \in Nat, row.through < mark,
         mark = Last - Recent
  PROVE  /\ Longer(mark) \in SUBSET Lines
         /\ \A l \in Longer(mark) : l.by <= mark /\ l.of \in 1..mark
<1>1. /\ row.through \in Nat /\ row.summary \in SUBSET Lines
  BY DEF AgentTypeOK, Rows
<1>2. ASSUME NEW l \in NewLines(row.through, mark)
      PROVE  l \in Lines /\ l.by = mark /\ l.of \in 1..mark
  <2>1. PICK n \in (row.through + 1)..(Last - Recent) :
          l = [by |-> mark, of |-> n]
    BY <1>2 DEF NewLines
  <2>. QED
    BY <1>1, <2>1 DEF Lines
<1>. QED
  BY <1>1, <1>2 DEF Longer, Upto, Lines

\* ... and what the cut may leave of it.
LEMMA TailsAre ==
  ASSUME NEW text, NEW tail \in Tails(text)
  PROVE  tail \subseteq text
BY DEF Tails

\* The condensed events lie between the old mark and the new one.
LEMMA CompactEffect ==
  ASSUME AgentTypeOK, MaybeCompact
  PROVE  /\ UNCHANGED <<history, runs, prompt, strays, client>>
         /\ agent.at = "compact"
         /\ \/ /\ Last < Threshold \/ Last - Recent <= row.through
               /\ row' = row
            \/ /\ Last >= Threshold
               /\ row.through < Last - Recent
               /\ Last - Recent \in 1..Last
               /\ \E text \in Tails(Longer(Last - Recent)) :
                    row' = [row EXCEPT !.through = Last - Recent,
                                       !.summary = text]
<1>1. /\ Last \in Nat /\ Recent \in Nat /\ row.through \in Nat
      /\ Threshold \in Nat
  BY BoundsAssumption DEF AgentTypeOK, Last, Rows
<1>2. CASE ~(Last >= Threshold /\ Last - Recent > row.through)
  <2>1. At("compact") /\ Quietly(To("step"))
    BY <1>2 DEF MaybeCompact, Condense
  <2>2. /\ UNCHANGED <<history, row, runs, prompt, strays, client>>
        /\ agent.at = "compact"
    BY <2>1 DEF Quietly, At
  <2>3. Last < Threshold \/ Last - Recent <= row.through
    BY <1>1, <1>2
  <2>. QED
    BY <2>2, <2>3, Zenon
<1>3. CASE Last >= Threshold /\ Last - Recent > row.through
  <2>1. /\ agent.at = "compact"
        /\ \E text \in Tails(Longer(Last - Recent)) :
             Saving([row EXCEPT !.through = Last - Recent, !.summary = text],
                    To("compacted"))
    BY <1>3 DEF MaybeCompact, Condense, Longer, At
  <2>2. PICK text \in Tails(Longer(Last - Recent)) :
          Saving([row EXCEPT !.through = Last - Recent, !.summary = text],
                 To("compacted"))
    BY <2>1
  <2>3. Last - Recent \in 1..Last
    BY <1>1, <1>3
  <2>. QED
    BY <1>3, <2>1, <2>2, <2>3 DEF Saving
<1>. QED
  BY <1>2, <1>3

LEMMA RowStep ==
  ASSUME AgentTypeOK, Position, Flight, Bounded, [Next]_vars
  PROVE  RowTyped'
<1>0. UNCHANGED row => RowTyped'
  <2>1. Len(history) \in Nat /\ Len(history') \in Nat
    BY HistoryStep DEF AgentTypeOK, Grows
  <2>. QED
    BY <2>1, HistoryStep DEF RowTyped, Grows, AgentTypeOK, Bounded, Rows
<1>1. ASSUME Start
      PROVE  RowTyped'
  BY <1>1, <1>0 DEF Start, Quietly, Telling, Gathered
<1>2. ASSUME Stop
      PROVE  RowTyped'
  BY <1>2, <1>0 DEF Stop, Quietly, Telling, Gathered
<1>3. ASSUME MaybeCompact
      PROVE  RowTyped'
  <2>1. Last \in Nat /\ row.through \in Nat
    BY DEF AgentTypeOK, Last, Rows
  <2>2. CASE row' = row
    BY <1>0, <2>2
  <2>3. CASE row' # row
    <3>1. /\ Last - Recent \in 1..Last
          /\ row.through < Last - Recent
          /\ UNCHANGED history
      BY <1>3, <2>3, CompactEffect
    <3>2. PICK text \in Tails(Longer(Last - Recent)) :
            row' = [row EXCEPT !.through = Last - Recent, !.summary = text]
      BY <1>3, <2>3, CompactEffect
    <3>3. /\ Last - Recent \in Nat /\ Last - Recent <= Len(history')
      BY <2>1, <3>1 DEF Last
    <3>4. /\ text \in SUBSET Lines
          /\ \A l \in text : l.by <= Last - Recent /\ l.of \in 1..(Last - Recent)
      BY <3>1, <3>2, <3>3, TailsAre, LongerIs DEF Bounded
    <3>5. row \in Rows /\ Len(row.constraints) <= Keep
      BY DEF AgentTypeOK
    <3>6. /\ row'.through = Last - Recent
          /\ row'.summary = text
          /\ row'.constraints = row.constraints
          /\ row' \in Rows
      BY <3>2, <3>3, <3>4, <3>5 DEF Rows
    <3>. QED
      BY <3>3, <3>4, <3>5, <3>6 DEF RowTyped, Upto
  <2>. QED
    BY <2>2, <2>3
<1>4. ASSUME TellCompacted
      PROVE  RowTyped'
  BY <1>4, <1>0 DEF TellCompacted, Quietly, Telling, Gathered
<1>5. ASSUME TellStep
      PROVE  RowTyped'
  BY <1>5, <1>0 DEF TellStep, Quietly, Telling, Gathered
<1>6. ASSUME EnsureAutoSkills
      PROVE  RowTyped'
  BY <1>6, <1>0 DEF EnsureAutoSkills, Quietly, Telling, Gathered
<1>7. ASSUME PassOver
      PROVE  RowTyped'
  BY <1>7, <1>0 DEF PassOver, Quietly, Telling, Gathered
<1>8. ASSUME Activate
      PROVE  RowTyped'
  BY <1>8, <1>0 DEF Activate, Quietly, Telling, Gathered
<1>9. ASSUME SaveSkills
      PROVE  RowTyped'
  <2>1. row' = [row EXCEPT !.skills = row.skills \cup agent.fresh] /\ UNCHANGED history
    BY <1>9 DEF SaveSkills, Saving
  <2>. QED
    BY <2>1 DEF RowTyped, AgentTypeOK, Bounded, Upto, Rows, Agents
<1>10. ASSUME BuildMessages
      PROVE  RowTyped'
  BY <1>10, <1>0 DEF BuildMessages, Quietly, Telling, Gathered
<1>11. ASSUME ModelTurn
      PROVE  RowTyped'
  BY <1>11, <1>0 DEF ModelTurn, Quietly, Telling, Gathered
<1>12. ASSUME Say
      PROVE  RowTyped'
  BY <1>12, <1>0 DEF Say, Quietly, Telling, Gathered
<1>13. ASSUME Nudge
      PROVE  RowTyped'
  BY <1>13, <1>0 DEF Nudge, Quietly, Telling, Gathered
<1>14. ASSUME Announce
      PROVE  RowTyped'
  BY <1>14, <1>0 DEF Announce, Quietly, Telling, Gathered
<1>15. ASSUME ExecuteTurn
      PROVE  RowTyped'
  BY <1>15, <1>0 DEF ExecuteTurn, Quietly, Telling, Gathered
<1>16. ASSUME RecordParallel
      PROVE  RowTyped'
  BY <1>16, <1>0 DEF RecordParallel, Quietly, Telling, Gathered
<1>17. ASSUME CallTool
      PROVE  RowTyped'
  BY <1>17, <1>0 DEF CallTool, Quietly, Telling, Gathered
<1>18. ASSUME RecordResult
      PROVE  RowTyped'
  BY <1>18, <1>0 DEF RecordResult, Quietly, Telling, Gathered
<1>19. ASSUME TellCheckpoint
      PROVE  RowTyped'
  BY <1>19, <1>0 DEF TellCheckpoint, Quietly, Telling, Gathered
<1>20. ASSUME SetPlan
      PROVE  RowTyped'
  BY <1>20, <1>0 DEF SetPlan, Quietly, Telling, Gathered
<1>21. ASSUME ReadConstraints
      PROVE  RowTyped'
  BY <1>21, <1>0 DEF ReadConstraints, Quietly, Telling, Gathered
<1>22. ASSUME RememberConstraint
      PROVE  RowTyped'
  <2>1. /\ row' = [row EXCEPT !.constraints = Newest(Append(agent.memo, None))]
        /\ UNCHANGED history
    BY <1>22 DEF RememberConstraint, Saving
  <2>2. agent.memo \in Constraints /\ Len(agent.memo) <= Keep
    BY DEF AgentTypeOK, Agents, Bounded
  <2>. QED
    BY <2>1, <2>2, NewestKeeps DEF RowTyped, AgentTypeOK, Bounded, Upto, Rows
<1>23. ASSUME ActivateSkill
      PROVE  RowTyped'
  BY <1>23, <1>0 DEF ActivateSkill, Quietly, Telling, Gathered
<1>24. ASSUME FinishTask
      PROVE  RowTyped'
  BY <1>24, <1>0 DEF FinishTask, Quietly, Telling, Gathered
<1>25. ASSUME Answer
      PROVE  RowTyped'
  BY <1>25, <1>0 DEF Answer, Quietly, Telling, Gathered
<1>26. ASSUME RecordsClash
      PROVE  RowTyped'
  BY <1>26, <1>0 DEF RecordsClash, Quietly, Telling, Gathered
<1>27. ASSUME EndStray
      PROVE  RowTyped'
  BY <1>27, <1>0 DEF EndStray, Quietly, Telling, Gathered
<1>28. ASSUME NEW c \in Clients, ReadRow(c)
      PROVE  RowTyped'
  BY <1>28, <1>0 DEF ReadRow, Quietly, Telling, Gathered
<1>29. ASSUME NEW c \in Clients, AppendInstruction(c)
      PROVE  RowTyped'
  <2>1. /\ row' = [row EXCEPT !.constraints = Newest(Append(client[c].read, c))]
        /\ UNCHANGED history
    BY <1>29 DEF AppendInstruction
  <2>2. client[c].read \in Constraints /\ Len(client[c].read) <= Keep
    BY DEF AgentTypeOK, Bounded
  <2>. QED
    BY <2>1, <2>2, NewestKeeps DEF RowTyped, AgentTypeOK, Bounded, Upto, Rows
<1>30. ASSUME NEW c \in Clients, TellInstruction(c)
      PROVE  RowTyped'
  BY <1>30, <1>0 DEF TellInstruction, Quietly, Telling, Gathered
<1>31. ASSUME UNCHANGED vars
      PROVE  RowTyped'
  BY <1>31, <1>0 DEF vars
<1>. QED
  BY <1>1, <1>2, <1>3, <1>4, <1>5, <1>6, <1>7, <1>8, <1>9, <1>10, <1>11,
      <1>12, <1>13, <1>14, <1>15, <1>16, <1>17, <1>18, <1>19, <1>20, <1>21,
      <1>22, <1>23, <1>24, <1>25, <1>26, <1>27, <1>28, <1>29, <1>30, <1>31 DEF
      Next, Step

\* What the clients have read, and what the run has.
LEMMA BoundedStep ==
  ASSUME AgentTypeOK, Position, Flight, Bounded, [Next]_vars
  PROVE  /\ Len(agent'.memo) <= Keep
         /\ \A d \in Clients : Len(client'[d].read) <= Keep
         /\ Cardinality(Active') <= MaxActive
         /\ agent'.fresh # {} => agent'.at = "skill"
<1> USE DEF Bounded
<1>0. /\ Len(<<>>) <= Keep
      /\ IsFiniteSet(Active)
      /\ \A s : s \subseteq Active => Cardinality(s) <= MaxActive
  <2>1. IsFiniteSet(Active)
    BY SkillsAssumption, FS_Subset DEF Active, AgentTypeOK, Rows, Agents
  <2>2. \A s : s \subseteq Active => Cardinality(s) \in Nat /\ Cardinality(s) <= Cardinality(Active)
    BY <2>1, FS_Subset, FS_CardinalityType
  <2>3. Cardinality(Active) \in Nat /\ MaxActive \in Nat
    BY <2>1, FS_CardinalityType, BoundsAssumption
  <2>. QED
    BY <2>1, <2>2, <2>3, BoundsAssumption
<1>1. ASSUME Start
      PROVE  /\ Len(agent'.memo) <= Keep
             /\ \A d \in Clients : Len(client'[d].read) <= Keep
             /\ Cardinality(Active') <= MaxActive
             /\ agent'.fresh # {} => agent'.at = "skill"
  BY <1>1, <1>0 DEF Start, Note, Event, NewRun, Last, Resting, Active,
      AgentTypeOK, Agents, Rows, Position, NewRun
<1>2. ASSUME Stop
      PROVE  /\ Len(agent'.memo) <= Keep
             /\ \A d \in Clients : Len(client'[d].read) <= Keep
             /\ Cardinality(Active') <= MaxActive
             /\ agent'.fresh # {} => agent'.at = "skill"
  BY <1>2, <1>0 DEF Stop, Quietly, Over, NewRun, Resting, Active, AgentTypeOK,
      Agents, Rows, Position, Over, NewRun
<1>3. ASSUME MaybeCompact
      PROVE  /\ Len(agent'.memo) <= Keep
             /\ \A d \in Clients : Len(client'[d].read) <= Keep
             /\ Cardinality(Active') <= MaxActive
             /\ agent'.fresh # {} => agent'.at = "skill"
  BY <1>3, <1>0 DEF MaybeCompact, Condense, Saving, Quietly, To, At, Last,
      Active, AgentTypeOK, Agents, Rows, Position
<1>4. ASSUME TellCompacted
      PROVE  /\ Len(agent'.memo) <= Keep
             /\ \A d \in Clients : Len(client'[d].read) <= Keep
             /\ Cardinality(Active') <= MaxActive
             /\ agent'.fresh # {} => agent'.at = "skill"
  BY <1>4, <1>0 DEF TellCompacted, At, Telling, Note, Event, To, Active,
      AgentTypeOK, Agents, Rows, Position
<1>5. ASSUME TellStep
      PROVE  /\ Len(agent'.memo) <= Keep
             /\ \A d \in Clients : Len(client'[d].read) <= Keep
             /\ Cardinality(Active') <= MaxActive
             /\ agent'.fresh # {} => agent'.at = "skill"
  BY <1>5, <1>0 DEF TellStep, At, Telling, Note, Event, To, Active,
      AgentTypeOK, Agents, Rows, Position
<1>6. ASSUME EnsureAutoSkills
      PROVE  /\ Len(agent'.memo) <= Keep
             /\ \A d \in Clients : Len(client'[d].read) <= Keep
             /\ Cardinality(Active') <= MaxActive
             /\ agent'.fresh # {} => agent'.at = "skill"
  BY <1>6, <1>0 DEF EnsureAutoSkills, ToSkills, Quietly, At, Active,
      AgentTypeOK, Agents, Rows, Position
<1>7. ASSUME PassOver
      PROVE  /\ Len(agent'.memo) <= Keep
             /\ \A d \in Clients : Len(client'[d].read) <= Keep
             /\ Cardinality(Active') <= MaxActive
             /\ agent'.fresh # {} => agent'.at = "skill"
  BY <1>7, <1>0 DEF PassOver, Quietly, At, Active, AgentTypeOK, Agents, Rows,
      Position
<1>8. ASSUME Activate
      PROVE  /\ Len(agent'.memo) <= Keep
             /\ \A d \in Clients : Len(client'[d].read) <= Keep
             /\ Cardinality(Active') <= MaxActive
             /\ agent'.fresh # {} => agent'.at = "skill"
  <2>1. UNCHANGED <<row, client>> /\ agent.at = "skill"
    BY <1>8 DEF Activate, Telling, At
  <2>2. agent' = [agent EXCEPT !.todo = Tail(agent.todo),
                               !.fresh = agent.fresh \cup {Head(agent.todo)}]
    BY <1>8 DEF Activate, Activated, Telling
  <2>3. Active' = Active \cup {Head(agent.todo)} /\ Head(agent.todo) \notin Active
    BY <1>8, <2>1, <2>2 DEF Active, Activate, Position, Agents
  <2>4. Cardinality(Active') = Cardinality(Active) + 1
    BY <1>0, <2>3, FS_AddElement
  <2>5. Cardinality(Active) \in Nat /\ Cardinality(Active) < MaxActive
    BY <1>8, <1>0, FS_CardinalityType DEF Activate, Room
  <2>6. Cardinality(Active') <= MaxActive
    BY <2>4, <2>5, BoundsAssumption
  <2>. QED
    BY <2>1, <2>2, <2>6 DEF Position, Agents
<1>9. ASSUME SaveSkills
      PROVE  /\ Len(agent'.memo) <= Keep
             /\ \A d \in Clients : Len(client'[d].read) <= Keep
             /\ Cardinality(Active') <= MaxActive
             /\ agent'.fresh # {} => agent'.at = "skill"
  BY <1>9, <1>0 DEF SaveSkills, Saving, At, Active, AgentTypeOK, Agents, Rows,
      Position
<1>10. ASSUME BuildMessages
      PROVE  /\ Len(agent'.memo) <= Keep
             /\ \A d \in Clients : Len(client'[d].read) <= Keep
             /\ Cardinality(Active') <= MaxActive
             /\ agent'.fresh # {} => agent'.at = "skill"
  BY <1>10, <1>0 DEF BuildMessages, At, To, Active, AgentTypeOK, Agents, Rows,
      Position
<1>11. ASSUME ModelTurn
      PROVE  /\ Len(agent'.memo) <= Keep
             /\ \A d \in Clients : Len(client'[d].read) <= Keep
             /\ Cardinality(Active') <= MaxActive
             /\ agent'.fresh # {} => agent'.at = "skill"
  BY <1>11, <1>0 DEF ModelTurn, AfterContent, Quietly, At, Active,
      AgentTypeOK, Agents, Rows, Position
<1>12. ASSUME Say
      PROVE  /\ Len(agent'.memo) <= Keep
             /\ \A d \in Clients : Len(client'[d].read) <= Keep
             /\ Cardinality(Active') <= MaxActive
             /\ agent'.fresh # {} => agent'.at = "skill"
  BY <1>12, <1>0 DEF Say, AfterContent, At, Telling, Note, Event, To, Active,
      AgentTypeOK, Agents, Rows, Position
<1>13. ASSUME Nudge
      PROVE  /\ Len(agent'.memo) <= Keep
             /\ \A d \in Clients : Len(client'[d].read) <= Keep
             /\ Cardinality(Active') <= MaxActive
             /\ agent'.fresh # {} => agent'.at = "skill"
  BY <1>13, <1>0, NextStepEffect DEF Nudge, At, Telling, Note, Event, Active,
      AgentTypeOK, Agents, Rows, Position
<1>14. ASSUME Announce
      PROVE  /\ Len(agent'.memo) <= Keep
             /\ \A d \in Clients : Len(client'[d].read) <= Keep
             /\ Cardinality(Active') <= MaxActive
             /\ agent'.fresh # {} => agent'.at = "skill"
  BY <1>14, <1>0 DEF Announce, At, Telling, Event, Active, AgentTypeOK,
      Agents, Rows, Position
<1>15. ASSUME ExecuteTurn
      PROVE  /\ Len(agent'.memo) <= Keep
             /\ \A d \in Clients : Len(client'[d].read) <= Keep
             /\ Cardinality(Active') <= MaxActive
             /\ agent'.fresh # {} => agent'.at = "skill"
  BY <1>15, <1>0 DEF ExecuteTurn, At, Quietly, To, Active, AgentTypeOK,
      Agents, Rows, Position
<1>16. ASSUME RecordParallel
      PROVE  /\ Len(agent'.memo) <= Keep
             /\ \A d \in Clients : Len(client'[d].read) <= Keep
             /\ Cardinality(Active') <= MaxActive
             /\ agent'.fresh # {} => agent'.at = "skill"
  BY <1>16, <1>0, NextStepEffect DEF RecordParallel, Gathered, At, Telling,
      Event, Active, AgentTypeOK, Agents, Rows, Position
<1>17. ASSUME CallTool
      PROVE  /\ Len(agent'.memo) <= Keep
             /\ \A d \in Clients : Len(client'[d].read) <= Keep
             /\ Cardinality(Active') <= MaxActive
             /\ agent'.fresh # {} => agent'.at = "skill"
  BY <1>17, <1>0 DEF CallTool, Quietly, At, Active, AgentTypeOK, Agents, Rows,
      Position
<1>18. ASSUME RecordResult
      PROVE  /\ Len(agent'.memo) <= Keep
             /\ \A d \in Clients : Len(client'[d].read) <= Keep
             /\ Cardinality(Active') <= MaxActive
             /\ agent'.fresh # {} => agent'.at = "skill"
  <2>1. UNCHANGED <<row, client>> /\ agent.at = "running" /\ InCall
    BY <1>18 DEF RecordResult, Telling, At, InCall
  <2>2. CASE agent' = NextCall
    BY <2>1, <2>2, <1>0, NextCallEffect, NextStepEffect
       DEF Active, AgentTypeOK, Agents, Rows, Position
  <2>3. CASE agent' = [agent EXCEPT !.at = "checkpointed", !.flight = {}]
    BY <2>1, <2>3, <1>0 DEF Active, AgentTypeOK, Agents, Rows, Position
  <2>. QED
    BY <1>18, <2>2, <2>3 DEF RecordResult, AfterResult, Telling
<1>19. ASSUME TellCheckpoint
      PROVE  /\ Len(agent'.memo) <= Keep
             /\ \A d \in Clients : Len(client'[d].read) <= Keep
             /\ Cardinality(Active') <= MaxActive
             /\ agent'.fresh # {} => agent'.at = "skill"
  BY <1>19, <1>0, NextCallEffect, NextStepEffect DEF TellCheckpoint, At,
      Telling, Note, Event, Active, AgentTypeOK, Agents, Rows, Position,
      InCall
<1>20. ASSUME SetPlan
      PROVE  /\ Len(agent'.memo) <= Keep
             /\ \A d \in Clients : Len(client'[d].read) <= Keep
             /\ Cardinality(Active') <= MaxActive
             /\ agent'.fresh # {} => agent'.at = "skill"
  BY <1>20, <1>0 DEF SetPlan, At, Quietly, To, Active, AgentTypeOK, Agents,
      Rows, Position
<1>21. ASSUME ReadConstraints
      PROVE  /\ Len(agent'.memo) <= Keep
             /\ \A d \in Clients : Len(client'[d].read) <= Keep
             /\ Cardinality(Active') <= MaxActive
             /\ agent'.fresh # {} => agent'.at = "skill"
  BY <1>21, <1>0 DEF ReadConstraints, Quietly, At, Active, AgentTypeOK,
      Agents, Rows, Position
<1>22. ASSUME RememberConstraint
      PROVE  /\ Len(agent'.memo) <= Keep
             /\ \A d \in Clients : Len(client'[d].read) <= Keep
             /\ Cardinality(Active') <= MaxActive
             /\ agent'.fresh # {} => agent'.at = "skill"
  BY <1>22, <1>0 DEF RememberConstraint, Saving, At, Active, AgentTypeOK,
      Agents, Rows, Position
<1>23. ASSUME ActivateSkill
      PROVE  /\ Len(agent'.memo) <= Keep
             /\ \A d \in Clients : Len(client'[d].read) <= Keep
             /\ Cardinality(Active') <= MaxActive
             /\ agent'.fresh # {} => agent'.at = "skill"
  BY <1>23, <1>0 DEF ActivateSkill, ToSkills, Quietly, At, Active,
      AgentTypeOK, Agents, Rows, Position
<1>24. ASSUME FinishTask
      PROVE  /\ Len(agent'.memo) <= Keep
             /\ \A d \in Clients : Len(client'[d].read) <= Keep
             /\ Cardinality(Active') <= MaxActive
             /\ agent'.fresh # {} => agent'.at = "skill"
  BY <1>24, <1>0 DEF FinishTask, Quietly, At, Active, AgentTypeOK, Agents,
      Rows, Position
<1>25. ASSUME Answer
      PROVE  /\ Len(agent'.memo) <= Keep
             /\ \A d \in Clients : Len(client'[d].read) <= Keep
             /\ Cardinality(Active') <= MaxActive
             /\ agent'.fresh # {} => agent'.at = "skill"
  BY <1>25, <1>0, NextCallEffect, NextStepEffect DEF Answer, At, Telling,
      Event, Active, AgentTypeOK, Agents, Rows, Position, InCall, Over, NewRun
<1>26. ASSUME RecordsClash
      PROVE  /\ Len(agent'.memo) <= Keep
             /\ \A d \in Clients : Len(client'[d].read) <= Keep
             /\ Cardinality(Active') <= MaxActive
             /\ agent'.fresh # {} => agent'.at = "skill"
  BY <1>26, <1>0 DEF RecordsClash, At, Over, NewRun, Active, AgentTypeOK,
      Agents, Rows, Position, Over, NewRun
<1>27. ASSUME EndStray
      PROVE  /\ Len(agent'.memo) <= Keep
             /\ \A d \in Clients : Len(client'[d].read) <= Keep
             /\ Cardinality(Active') <= MaxActive
             /\ agent'.fresh # {} => agent'.at = "skill"
  BY <1>27, <1>0 DEF EndStray, Event, Active, AgentTypeOK, Agents, Rows,
      Position
<1>28. ASSUME NEW c \in Clients, ReadRow(c)
      PROVE  /\ Len(agent'.memo) <= Keep
             /\ \A d \in Clients : Len(client'[d].read) <= Keep
             /\ Cardinality(Active') <= MaxActive
             /\ agent'.fresh # {} => agent'.at = "skill"
  BY <1>28, <1>0 DEF ReadRow, Active, AgentTypeOK, Agents, Rows, Position
<1>29. ASSUME NEW c \in Clients, AppendInstruction(c)
      PROVE  /\ Len(agent'.memo) <= Keep
             /\ \A d \in Clients : Len(client'[d].read) <= Keep
             /\ Cardinality(Active') <= MaxActive
             /\ agent'.fresh # {} => agent'.at = "skill"
  BY <1>29, <1>0 DEF AppendInstruction, Active, AgentTypeOK, Agents, Rows,
      Position
<1>30. ASSUME NEW c \in Clients, TellInstruction(c)
      PROVE  /\ Len(agent'.memo) <= Keep
             /\ \A d \in Clients : Len(client'[d].read) <= Keep
             /\ Cardinality(Active') <= MaxActive
             /\ agent'.fresh # {} => agent'.at = "skill"
  BY <1>30, <1>0 DEF TellInstruction, Event, Active, AgentTypeOK, Agents,
      Rows, Position
<1>31. ASSUME UNCHANGED vars
      PROVE  /\ Len(agent'.memo) <= Keep
             /\ \A d \in Clients : Len(client'[d].read) <= Keep
             /\ Cardinality(Active') <= MaxActive
             /\ agent'.fresh # {} => agent'.at = "skill"
  BY <1>31, <1>0, <1>0 DEF vars, Active, AgentTypeOK, Agents, Rows, Position
<1>. QED
  BY <1>1, <1>2, <1>3, <1>4, <1>5, <1>6, <1>7, <1>8, <1>9, <1>10, <1>11,
      <1>12, <1>13, <1>14, <1>15, <1>16, <1>17, <1>18, <1>19, <1>20, <1>21,
      <1>22, <1>23, <1>24, <1>25, <1>26, <1>27, <1>28, <1>29, <1>30, <1>31 DEF
      Next, Step

\* The events prompt p names are in log h.
Within(p, h) == p \in [shown : SUBSET DOMAIN h, elided : SUBSET DOMAIN h]

\* What is elided from a prompt is part of its text.
LEMMA BuildsOf ==
  ASSUME BuildMessages
  PROVE  /\ UNCHANGED <<history, row, runs, strays, client>>
         /\ \E elided :
              /\ elided \subseteq Told \cup (Floor + 1)..Last
              /\ prompt' = [shown |-> (Told \cup (Floor + 1)..Last) \ elided,
                            elided |-> elided]
<1> DEFINE text == Told \cup (Floor + 1)..Last
<1>1. \A middle \in {{}} \cup Middles(text) : middle \subseteq text
  BY DEF Middles
<1>2. PICK elided \in {{}} \cup Middles(text) :
        prompt' = [shown |-> text \ elided, elided |-> elided]
  BY DEF BuildMessages
<1>. QED
  BY <1>1, <1>2 DEF BuildMessages

LEMMA RestStep ==
  ASSUME AgentTypeOK, Position, Flight, Bounded, [Next]_vars
  PROVE  /\ runs' \in 0..MaxRuns
         /\ Within(prompt', history')
         /\ strays' \subseteq Calls \X CallIds
         /\ client' \in [Clients -> [at : {"idle", "write", "tell", "told"},
                                     read : Constraints]]
<1>0. /\ runs \in 0..MaxRuns /\ strays \subseteq Calls \X CallIds
      /\ client \in [Clients -> [at : {"idle", "write", "tell", "told"},
                                 read : Constraints]]
      /\ Within(prompt, history')
      /\ DOMAIN history \subseteq DOMAIN history'
  BY HistoryStep DEF AgentTypeOK, Grows, Within
<1>1. ASSUME Start
      PROVE  /\ runs' \in 0..MaxRuns
             /\ Within(prompt', history')
             /\ strays' \subseteq Calls \X CallIds
             /\ client' \in [Clients -> [at : {"idle", "write", "tell", "told"},
                                         read : Constraints]]
  <2>1. runs < MaxRuns /\ runs' = runs + 1 /\ UNCHANGED <<prompt, strays, client>>
    BY <1>1 DEF Start
  <2>2. runs' \in 0..MaxRuns
    BY <1>0, <2>1, BoundsAssumption
  <2>3. Within(prompt', history')
    BY <1>0, <2>1, Zenon
  <2>. QED
    BY <1>0, <2>1, <2>2, <2>3
<1>2. ASSUME Stop
      PROVE  /\ runs' \in 0..MaxRuns
             /\ Within(prompt', history')
             /\ strays' \subseteq Calls \X CallIds
             /\ client' \in [Clients -> [at : {"idle", "write", "tell", "told"},
                                         read : Constraints]]
  BY <1>2, <1>0 DEF Stop, Quietly, Telling, Saving, Gathered, Condense
<1>3. ASSUME MaybeCompact
      PROVE  /\ runs' \in 0..MaxRuns
             /\ Within(prompt', history')
             /\ strays' \subseteq Calls \X CallIds
             /\ client' \in [Clients -> [at : {"idle", "write", "tell", "told"},
                                         read : Constraints]]
  BY <1>3, <1>0 DEF MaybeCompact, Quietly, Telling, Saving, Gathered, Condense
<1>4. ASSUME TellCompacted
      PROVE  /\ runs' \in 0..MaxRuns
             /\ Within(prompt', history')
             /\ strays' \subseteq Calls \X CallIds
             /\ client' \in [Clients -> [at : {"idle", "write", "tell", "told"},
                                         read : Constraints]]
  BY <1>4, <1>0 DEF TellCompacted, Quietly, Telling, Saving, Gathered, Condense
<1>5. ASSUME TellStep
      PROVE  /\ runs' \in 0..MaxRuns
             /\ Within(prompt', history')
             /\ strays' \subseteq Calls \X CallIds
             /\ client' \in [Clients -> [at : {"idle", "write", "tell", "told"},
                                         read : Constraints]]
  BY <1>5, <1>0 DEF TellStep, Quietly, Telling, Saving, Gathered, Condense
<1>6. ASSUME EnsureAutoSkills
      PROVE  /\ runs' \in 0..MaxRuns
             /\ Within(prompt', history')
             /\ strays' \subseteq Calls \X CallIds
             /\ client' \in [Clients -> [at : {"idle", "write", "tell", "told"},
                                         read : Constraints]]
  BY <1>6, <1>0 DEF EnsureAutoSkills, Quietly, Telling, Saving, Gathered,
      Condense
<1>7. ASSUME PassOver
      PROVE  /\ runs' \in 0..MaxRuns
             /\ Within(prompt', history')
             /\ strays' \subseteq Calls \X CallIds
             /\ client' \in [Clients -> [at : {"idle", "write", "tell", "told"},
                                         read : Constraints]]
  BY <1>7, <1>0 DEF PassOver, Quietly, Telling, Saving, Gathered, Condense
<1>8. ASSUME Activate
      PROVE  /\ runs' \in 0..MaxRuns
             /\ Within(prompt', history')
             /\ strays' \subseteq Calls \X CallIds
             /\ client' \in [Clients -> [at : {"idle", "write", "tell", "told"},
                                         read : Constraints]]
  BY <1>8, <1>0 DEF Activate, Quietly, Telling, Saving, Gathered, Condense
<1>9. ASSUME SaveSkills
      PROVE  /\ runs' \in 0..MaxRuns
             /\ Within(prompt', history')
             /\ strays' \subseteq Calls \X CallIds
             /\ client' \in [Clients -> [at : {"idle", "write", "tell", "told"},
                                         read : Constraints]]
  BY <1>9, <1>0 DEF SaveSkills, Quietly, Telling, Saving, Gathered, Condense
<1>10. ASSUME BuildMessages
      PROVE  /\ runs' \in 0..MaxRuns
             /\ Within(prompt', history')
             /\ strays' \subseteq Calls \X CallIds
             /\ client' \in [Clients -> [at : {"idle", "write", "tell", "told"},
                                         read : Constraints]]
  <2>1. PICK elided :
          /\ elided \subseteq Told \cup (Floor + 1)..Last
          /\ prompt' = [shown |-> (Told \cup (Floor + 1)..Last) \ elided,
                        elided |-> elided]
          /\ UNCHANGED <<history, runs, strays, client>>
    BY <1>10, BuildsOf
  <2>2. Last \in Nat /\ Floor \in Nat /\ row.through <= Last /\ DOMAIN history = 1..Last
    BY BoundsAssumption DEF Floor, AgentTypeOK, Rows, Last
  <2>3. Told \subseteq 1..Last /\ (Floor + 1)..Last \subseteq 1..Last
    BY <2>2 DEF Bounded, Upto, Told, AgentTypeOK, Rows
  <2>. QED
    BY <1>0, <2>1, <2>2, <2>3 DEF Within
<1>11. ASSUME ModelTurn
      PROVE  /\ runs' \in 0..MaxRuns
             /\ Within(prompt', history')
             /\ strays' \subseteq Calls \X CallIds
             /\ client' \in [Clients -> [at : {"idle", "write", "tell", "told"},
                                         read : Constraints]]
  BY <1>11, <1>0 DEF ModelTurn, Quietly, Telling, Saving, Gathered, Condense
<1>12. ASSUME Say
      PROVE  /\ runs' \in 0..MaxRuns
             /\ Within(prompt', history')
             /\ strays' \subseteq Calls \X CallIds
             /\ client' \in [Clients -> [at : {"idle", "write", "tell", "told"},
                                         read : Constraints]]
  BY <1>12, <1>0 DEF Say, Quietly, Telling, Saving, Gathered, Condense
<1>13. ASSUME Nudge
      PROVE  /\ runs' \in 0..MaxRuns
             /\ Within(prompt', history')
             /\ strays' \subseteq Calls \X CallIds
             /\ client' \in [Clients -> [at : {"idle", "write", "tell", "told"},
                                         read : Constraints]]
  BY <1>13, <1>0 DEF Nudge, Quietly, Telling, Saving, Gathered, Condense
<1>14. ASSUME Announce
      PROVE  /\ runs' \in 0..MaxRuns
             /\ Within(prompt', history')
             /\ strays' \subseteq Calls \X CallIds
             /\ client' \in [Clients -> [at : {"idle", "write", "tell", "told"},
                                         read : Constraints]]
  BY <1>14, <1>0 DEF Announce, Quietly, Telling, Saving, Gathered, Condense
<1>15. ASSUME ExecuteTurn
      PROVE  /\ runs' \in 0..MaxRuns
             /\ Within(prompt', history')
             /\ strays' \subseteq Calls \X CallIds
             /\ client' \in [Clients -> [at : {"idle", "write", "tell", "told"},
                                         read : Constraints]]
  BY <1>15, <1>0 DEF ExecuteTurn, Quietly, Telling, Saving, Gathered, Condense
<1>16. ASSUME RecordParallel
      PROVE  /\ runs' \in 0..MaxRuns
             /\ Within(prompt', history')
             /\ strays' \subseteq Calls \X CallIds
             /\ client' \in [Clients -> [at : {"idle", "write", "tell", "told"},
                                         read : Constraints]]
  BY <1>16, <1>0 DEF RecordParallel, Quietly, Telling, Saving, Gathered, Condense
<1>17. ASSUME CallTool
      PROVE  /\ runs' \in 0..MaxRuns
             /\ Within(prompt', history')
             /\ strays' \subseteq Calls \X CallIds
             /\ client' \in [Clients -> [at : {"idle", "write", "tell", "told"},
                                         read : Constraints]]
  BY <1>17, <1>0 DEF CallTool, Quietly, Telling, Saving, Gathered, Condense
<1>18. ASSUME RecordResult
      PROVE  /\ runs' \in 0..MaxRuns
             /\ Within(prompt', history')
             /\ strays' \subseteq Calls \X CallIds
             /\ client' \in [Clients -> [at : {"idle", "write", "tell", "told"},
                                         read : Constraints]]
  BY <1>18, <1>0 DEF RecordResult, Quietly, Telling, Saving, Gathered, Condense
<1>19. ASSUME TellCheckpoint
      PROVE  /\ runs' \in 0..MaxRuns
             /\ Within(prompt', history')
             /\ strays' \subseteq Calls \X CallIds
             /\ client' \in [Clients -> [at : {"idle", "write", "tell", "told"},
                                         read : Constraints]]
  BY <1>19, <1>0 DEF TellCheckpoint, Quietly, Telling, Saving, Gathered, Condense
<1>20. ASSUME SetPlan
      PROVE  /\ runs' \in 0..MaxRuns
             /\ Within(prompt', history')
             /\ strays' \subseteq Calls \X CallIds
             /\ client' \in [Clients -> [at : {"idle", "write", "tell", "told"},
                                         read : Constraints]]
  BY <1>20, <1>0 DEF SetPlan, Quietly, Telling, Saving, Gathered, Condense
<1>21. ASSUME ReadConstraints
      PROVE  /\ runs' \in 0..MaxRuns
             /\ Within(prompt', history')
             /\ strays' \subseteq Calls \X CallIds
             /\ client' \in [Clients -> [at : {"idle", "write", "tell", "told"},
                                         read : Constraints]]
  BY <1>21, <1>0 DEF ReadConstraints, Quietly, Telling, Saving, Gathered,
      Condense
<1>22. ASSUME RememberConstraint
      PROVE  /\ runs' \in 0..MaxRuns
             /\ Within(prompt', history')
             /\ strays' \subseteq Calls \X CallIds
             /\ client' \in [Clients -> [at : {"idle", "write", "tell", "told"},
                                         read : Constraints]]
  BY <1>22, <1>0 DEF RememberConstraint, Quietly, Telling, Saving, Gathered,
      Condense
<1>23. ASSUME ActivateSkill
      PROVE  /\ runs' \in 0..MaxRuns
             /\ Within(prompt', history')
             /\ strays' \subseteq Calls \X CallIds
             /\ client' \in [Clients -> [at : {"idle", "write", "tell", "told"},
                                         read : Constraints]]
  BY <1>23, <1>0 DEF ActivateSkill, Quietly, Telling, Saving, Gathered, Condense
<1>24. ASSUME FinishTask
      PROVE  /\ runs' \in 0..MaxRuns
             /\ Within(prompt', history')
             /\ strays' \subseteq Calls \X CallIds
             /\ client' \in [Clients -> [at : {"idle", "write", "tell", "told"},
                                         read : Constraints]]
  BY <1>24, <1>0 DEF FinishTask, Quietly, Telling, Saving, Gathered, Condense
<1>25. ASSUME Answer
      PROVE  /\ runs' \in 0..MaxRuns
             /\ Within(prompt', history')
             /\ strays' \subseteq Calls \X CallIds
             /\ client' \in [Clients -> [at : {"idle", "write", "tell", "told"},
                                         read : Constraints]]
  BY <1>25, <1>0 DEF Answer, Quietly, Telling, Saving, Gathered, Condense
<1>26. ASSUME RecordsClash
      PROVE  /\ runs' \in 0..MaxRuns
             /\ Within(prompt', history')
             /\ strays' \subseteq Calls \X CallIds
             /\ client' \in [Clients -> [at : {"idle", "write", "tell", "told"},
                                         read : Constraints]]
  <2>1. PICK i \in agent.flight :
          strays' = strays \cup {<<agent.turn[k], Id(k)>> : k \in agent.flight \ {i}}
    BY <1>26 DEF RecordsClash
  <2>2. \A k \in agent.flight : agent.turn[k] \in Calls /\ k \in Nat
    BY <1>26 DEF RecordsClash, At, Flight, Position, Agents
  <2>3. \A k \in agent.flight : <<agent.turn[k], Id(k)>> \in Calls \X CallIds
    BY <2>2, IdTyped
  <2>. QED
    BY <1>26, <1>0, <2>1, <2>3 DEF RecordsClash
<1>27. ASSUME EndStray
      PROVE  /\ runs' \in 0..MaxRuns
             /\ Within(prompt', history')
             /\ strays' \subseteq Calls \X CallIds
             /\ client' \in [Clients -> [at : {"idle", "write", "tell", "told"},
                                         read : Constraints]]
  BY <1>27, <1>0 DEF EndStray, Quietly, Telling, Saving, Gathered, Condense
<1>28. ASSUME NEW c \in Clients, ReadRow(c)
      PROVE  /\ runs' \in 0..MaxRuns
             /\ Within(prompt', history')
             /\ strays' \subseteq Calls \X CallIds
             /\ client' \in [Clients -> [at : {"idle", "write", "tell", "told"},
                                         read : Constraints]]
  BY <1>28, <1>0 DEF ReadRow, AgentTypeOK, Rows
<1>29. ASSUME NEW c \in Clients, AppendInstruction(c)
      PROVE  /\ runs' \in 0..MaxRuns
             /\ Within(prompt', history')
             /\ strays' \subseteq Calls \X CallIds
             /\ client' \in [Clients -> [at : {"idle", "write", "tell", "told"},
                                         read : Constraints]]
  <2>1. <<>> \in Constraints
    BY DEF Constraints
  <2>. QED
    BY <1>29, <1>0, <2>1 DEF AppendInstruction
<1>30. ASSUME NEW c \in Clients, TellInstruction(c)
      PROVE  /\ runs' \in 0..MaxRuns
             /\ Within(prompt', history')
             /\ strays' \subseteq Calls \X CallIds
             /\ client' \in [Clients -> [at : {"idle", "write", "tell", "told"},
                                         read : Constraints]]
  BY <1>30, <1>0 DEF TellInstruction, Quietly, Telling, Saving, Gathered,
      Condense
<1>31. ASSUME UNCHANGED vars
      PROVE  /\ runs' \in 0..MaxRuns
             /\ Within(prompt', history')
             /\ strays' \subseteq Calls \X CallIds
             /\ client' \in [Clients -> [at : {"idle", "write", "tell", "told"},
                                         read : Constraints]]
  BY <1>31, <1>0 DEF vars
<1>. QED
  BY <1>1, <1>2, <1>3, <1>4, <1>5, <1>6, <1>7, <1>8, <1>9, <1>10, <1>11,
      <1>12, <1>13, <1>14, <1>15, <1>16, <1>17, <1>18, <1>19, <1>20, <1>21,
      <1>22, <1>23, <1>24, <1>25, <1>26, <1>27, <1>28, <1>29, <1>30, <1>31 DEF
      Next, Step

TypeInv == AgentTypeOK /\ Position /\ Flight /\ Bounded

LEMMA TypeInit == Init => TypeInv
<1> SUFFICES ASSUME Init PROVE TypeInv
  OBVIOUS
<1>1. /\ agent = Over("off") /\ agent \in Agents
      /\ agent.at = "off" /\ agent.turn = <<>> /\ agent.next = 1 /\ agent.memo = <<>>
      /\ agent.flight = {} /\ agent.fresh = {} /\ agent.accepted = FALSE
  BY NewRunTyped DEF Init, Over, NewRun, Resting
<1>2. Cardinality({}) = 0 /\ Len(<<>>) = 0 /\ Keep \in Nat /\ MaxActive \in Nat
  BY FS_EmptySet, BoundsAssumption
<1>3. AgentTypeOK
  <2>1. <<>> \in Seq(Events) /\ <<>> \in Constraints
    BY DEF Constraints
  <2>. QED
    BY <1>1, <1>2, <2>1, BoundsAssumption DEF Init, AgentTypeOK, Rows, Resting
<1>4. Position /\ Flight
  BY <1>1, BoundsAssumption DEF Init, Position, Flight, BeforeTurn, InCall, Resting
<1>5. Bounded
  <2>1. /\ Active = {} /\ row.summary = {}
        /\ \A c \in Clients : client[c].read = <<>>
    BY <1>1 DEF Init, Active
  <2>. QED
    BY <1>1, <1>2, <2>1 DEF Bounded, Upto
<1>. QED
  BY <1>3, <1>4, <1>5 DEF TypeInv

LEMMA TypeStep == TypeInv /\ [Next]_vars => TypeInv'
<1> SUFFICES ASSUME TypeInv, [Next]_vars PROVE TypeInv'
  OBVIOUS
<1>1. AgentTypeOK /\ Position /\ Flight /\ Bounded
  BY DEF TypeInv
<1>2. Position' /\ Flight' /\ Grows /\ RowTyped'
  BY <1>1, AgentStep, HistoryStep, RowStep
<1>3. Bounded'
  BY <1>1, <1>2, BoundedStep DEF Bounded, RowTyped
<1>4. Cardinality(row'.skills) <= MaxActive
  <2>1. Active' \in SUBSET Skills /\ row'.skills \in SUBSET Active'
    BY <1>2 DEF Active, RowTyped, Rows, Position, Agents
  <2>2. IsFiniteSet(Active')
    BY <2>1, SkillsAssumption, FS_Subset
  <2>3. Cardinality(row'.skills) <= Cardinality(Active')
    BY <2>1, <2>2, FS_Subset
  <2>4. Cardinality(row'.skills) \in Nat /\ Cardinality(Active') \in Nat
    BY <2>1, <2>2, FS_Subset, FS_CardinalityType
  <2>. QED
    BY <1>3, <2>3, <2>4, BoundsAssumption DEF Bounded
<1>5. agent'.flight \subseteq DOMAIN agent'.turn
  BY <1>2 DEF Position, Flight, InCall, Agents
<1>6. AgentTypeOK'
  BY <1>1, <1>2, <1>4, <1>5, RestStep DEF AgentTypeOK, Grows, RowTyped,
      Position, Within
<1>. QED
  BY <1>2, <1>3, <1>6 DEF TypeInv

\* The types of the run, its row, the log and the clients, with what a run may
\* have in its locals at each of its places.
THEOREM AgentTypeCorrect == Spec => []AgentTypeOK
<1>1. Spec => []TypeInv
  BY TypeInit, TypeStep, PTL DEF Spec
<1>2. TypeInv => AgentTypeOK
  BY DEF TypeInv
<1>. QED
  BY <1>1, <1>2, PTL

LEMMA TypeCorrect == Spec => []TypeInv
BY TypeInit, TypeStep, PTL DEF Spec

(***************************************************************************)
(* Edits                                                                   *)
(***************************************************************************)
\* Whatever the model asks for in a turn, an edit is executed alone.
THEOREM EditsRunAlone == Spec => []EditsAlone
<1>1. TypeInv => EditsAlone
  <2> SUFFICES ASSUME TypeInv, NEW i \in agent.flight, NEW j \in agent.flight,
                      agent.turn[i] \in Edits
               PROVE  i = j
    BY DEF EditsAlone
  <2>1. agent.at \in {"gather", "running"}
    BY DEF TypeInv, Flight
  <2>2. agent.at # "gather"
    BY DEF TypeInv, Flight, Reads, Edits
  <2>. QED
    BY <2>1, <2>2 DEF TypeInv, Flight
<1>. QED
  BY <1>1, TypeCorrect, PTL
-----------------------------------------------------------------------------
(***************************************************************************)
(* The memory: what has been condensed, and what the log says of skills    *)
(* and of evidence.                                                        *)
(***************************************************************************)
\* Only a compaction touches the summary and its mark, ...
SummaryKept == row'.summary = row.summary /\ row'.through = row.through

LEMMA SummaryChanges ==
  ASSUME TypeInv, [Next]_vars
  PROVE  MaybeCompact \/ SummaryKept
<1>0. row \in Rows
  BY DEF TypeInv, AgentTypeOK
<1>1. ASSUME Start
      PROVE  MaybeCompact \/ SummaryKept
  BY <1>1, <1>0 DEF Start, Quietly, Telling, Saving, Gathered, SummaryKept, Rows
<1>2. ASSUME Stop
      PROVE  MaybeCompact \/ SummaryKept
  BY <1>2, <1>0 DEF Stop, Quietly, Telling, Saving, Gathered, SummaryKept, Rows
<1>3. ASSUME MaybeCompact
      PROVE  MaybeCompact \/ SummaryKept
  BY <1>3
<1>4. ASSUME TellCompacted
      PROVE  MaybeCompact \/ SummaryKept
  BY <1>4, <1>0 DEF TellCompacted, Quietly, Telling, Saving, Gathered,
      SummaryKept, Rows
<1>5. ASSUME TellStep
      PROVE  MaybeCompact \/ SummaryKept
  BY <1>5, <1>0 DEF TellStep, Quietly, Telling, Saving, Gathered, SummaryKept,
      Rows
<1>6. ASSUME EnsureAutoSkills
      PROVE  MaybeCompact \/ SummaryKept
  BY <1>6, <1>0 DEF EnsureAutoSkills, Quietly, Telling, Saving, Gathered,
      SummaryKept, Rows
<1>7. ASSUME PassOver
      PROVE  MaybeCompact \/ SummaryKept
  BY <1>7, <1>0 DEF PassOver, Quietly, Telling, Saving, Gathered, SummaryKept,
      Rows
<1>8. ASSUME Activate
      PROVE  MaybeCompact \/ SummaryKept
  BY <1>8, <1>0 DEF Activate, Quietly, Telling, Saving, Gathered, SummaryKept,
      Rows
<1>9. ASSUME SaveSkills
      PROVE  MaybeCompact \/ SummaryKept
  BY <1>9, <1>0 DEF SaveSkills, Quietly, Telling, Saving, Gathered, SummaryKept,
      Rows
<1>10. ASSUME BuildMessages
      PROVE  MaybeCompact \/ SummaryKept
  BY <1>10, <1>0 DEF BuildMessages, Quietly, Telling, Saving, Gathered,
      SummaryKept, Rows
<1>11. ASSUME ModelTurn
      PROVE  MaybeCompact \/ SummaryKept
  BY <1>11, <1>0 DEF ModelTurn, Quietly, Telling, Saving, Gathered, SummaryKept,
      Rows
<1>12. ASSUME Say
      PROVE  MaybeCompact \/ SummaryKept
  BY <1>12, <1>0 DEF Say, Quietly, Telling, Saving, Gathered, SummaryKept, Rows
<1>13. ASSUME Nudge
      PROVE  MaybeCompact \/ SummaryKept
  BY <1>13, <1>0 DEF Nudge, Quietly, Telling, Saving, Gathered, SummaryKept, Rows
<1>14. ASSUME Announce
      PROVE  MaybeCompact \/ SummaryKept
  BY <1>14, <1>0 DEF Announce, Quietly, Telling, Saving, Gathered, SummaryKept,
      Rows
<1>15. ASSUME ExecuteTurn
      PROVE  MaybeCompact \/ SummaryKept
  BY <1>15, <1>0 DEF ExecuteTurn, Quietly, Telling, Saving, Gathered,
      SummaryKept, Rows
<1>16. ASSUME RecordParallel
      PROVE  MaybeCompact \/ SummaryKept
  BY <1>16, <1>0 DEF RecordParallel, Quietly, Telling, Saving, Gathered,
      SummaryKept, Rows
<1>17. ASSUME CallTool
      PROVE  MaybeCompact \/ SummaryKept
  BY <1>17, <1>0 DEF CallTool, Quietly, Telling, Saving, Gathered, SummaryKept,
      Rows
<1>18. ASSUME RecordResult
      PROVE  MaybeCompact \/ SummaryKept
  BY <1>18, <1>0 DEF RecordResult, Quietly, Telling, Saving, Gathered,
      SummaryKept, Rows
<1>19. ASSUME TellCheckpoint
      PROVE  MaybeCompact \/ SummaryKept
  BY <1>19, <1>0 DEF TellCheckpoint, Quietly, Telling, Saving, Gathered,
      SummaryKept, Rows
<1>20. ASSUME SetPlan
      PROVE  MaybeCompact \/ SummaryKept
  BY <1>20, <1>0 DEF SetPlan, Quietly, Telling, Saving, Gathered, SummaryKept,
      Rows
<1>21. ASSUME ReadConstraints
      PROVE  MaybeCompact \/ SummaryKept
  BY <1>21, <1>0 DEF ReadConstraints, Quietly, Telling, Saving, Gathered,
      SummaryKept, Rows
<1>22. ASSUME RememberConstraint
      PROVE  MaybeCompact \/ SummaryKept
  BY <1>22, <1>0 DEF RememberConstraint, Quietly, Telling, Saving, Gathered,
      SummaryKept, Rows
<1>23. ASSUME ActivateSkill
      PROVE  MaybeCompact \/ SummaryKept
  BY <1>23, <1>0 DEF ActivateSkill, Quietly, Telling, Saving, Gathered,
      SummaryKept, Rows
<1>24. ASSUME FinishTask
      PROVE  MaybeCompact \/ SummaryKept
  BY <1>24, <1>0 DEF FinishTask, Quietly, Telling, Saving, Gathered, SummaryKept,
      Rows
<1>25. ASSUME Answer
      PROVE  MaybeCompact \/ SummaryKept
  BY <1>25, <1>0 DEF Answer, Quietly, Telling, Saving, Gathered, SummaryKept,
      Rows
<1>26. ASSUME RecordsClash
      PROVE  MaybeCompact \/ SummaryKept
  BY <1>26, <1>0 DEF RecordsClash, Quietly, Telling, Saving, Gathered,
      SummaryKept, Rows
<1>27. ASSUME EndStray
      PROVE  MaybeCompact \/ SummaryKept
  BY <1>27, <1>0 DEF EndStray, Quietly, Telling, Saving, Gathered, SummaryKept,
      Rows
<1>28. ASSUME NEW c \in Clients, ReadRow(c)
      PROVE  MaybeCompact \/ SummaryKept
  BY <1>28, <1>0 DEF ReadRow, Quietly, Telling, Saving, Gathered, SummaryKept,
      Rows
<1>29. ASSUME NEW c \in Clients, AppendInstruction(c)
      PROVE  MaybeCompact \/ SummaryKept
  BY <1>29, <1>0 DEF AppendInstruction, Quietly, Telling, Saving, Gathered,
      SummaryKept, Rows
<1>30. ASSUME NEW c \in Clients, TellInstruction(c)
      PROVE  MaybeCompact \/ SummaryKept
  BY <1>30, <1>0 DEF TellInstruction, Quietly, Telling, Saving, Gathered,
      SummaryKept, Rows
<1>31. ASSUME UNCHANGED vars
      PROVE  MaybeCompact \/ SummaryKept
  BY <1>31, <1>0 DEF vars, SummaryKept
<1>. QED
  BY <1>1, <1>2, <1>3, <1>4, <1>5, <1>6, <1>7, <1>8, <1>9, <1>10, <1>11,
      <1>12, <1>13, <1>14, <1>15, <1>16, <1>17, <1>18, <1>19, <1>20, <1>21,
      <1>22, <1>23, <1>24, <1>25, <1>26, <1>27, <1>28, <1>29, <1>30, <1>31 DEF
      Next, Step

\* ... and only saving touches the skills of the row; skills come to a run with
\* an event each.
SkillsGo ==
  \/ row'.skills = row.skills /\ agent'.fresh \subseteq agent.fresh
  \/ row'.skills = row.skills \cup agent.fresh /\ agent'.fresh = {}
  \/ Activate

LEMMA SkillsChange ==
  ASSUME TypeInv, [Next]_vars
  PROVE  SkillsGo
<1>0. agent \in Agents /\ row \in Rows /\ Position /\ (agent.fresh # {} => agent.at = "skill")
  BY DEF TypeInv, Position, AgentTypeOK, Bounded
<1>1. ASSUME Start
      PROVE  SkillsGo
  BY <1>1, <1>0 DEF Start, Note, Event, NewRun, Last, Resting, Agents, Rows,
      SkillsGo, NewRun
<1>2. ASSUME Stop
      PROVE  SkillsGo
  BY <1>2, <1>0 DEF Stop, Quietly, Over, NewRun, Resting, Agents, Rows,
      SkillsGo, Over, NewRun
<1>3. ASSUME MaybeCompact
      PROVE  SkillsGo
  BY <1>3, <1>0 DEF MaybeCompact, Condense, Saving, Quietly, To, At, Last,
      Agents, Rows, SkillsGo
<1>4. ASSUME TellCompacted
      PROVE  SkillsGo
  BY <1>4, <1>0 DEF TellCompacted, At, Telling, Note, Event, To, Agents, Rows,
      SkillsGo
<1>5. ASSUME TellStep
      PROVE  SkillsGo
  BY <1>5, <1>0 DEF TellStep, At, Telling, Note, Event, To, Agents, Rows,
      SkillsGo
<1>6. ASSUME EnsureAutoSkills
      PROVE  SkillsGo
  BY <1>6, <1>0 DEF EnsureAutoSkills, ToSkills, Quietly, At, Agents, Rows,
      SkillsGo
<1>7. ASSUME PassOver
      PROVE  SkillsGo
  BY <1>7, <1>0 DEF PassOver, Quietly, At, Agents, Rows, SkillsGo
<1>8. ASSUME Activate
      PROVE  SkillsGo
  BY <1>8 DEF SkillsGo
<1>9. ASSUME SaveSkills
      PROVE  SkillsGo
  BY <1>9, <1>0 DEF SaveSkills, Saving, At, Agents, Rows, SkillsGo
<1>10. ASSUME BuildMessages
      PROVE  SkillsGo
  BY <1>10, <1>0 DEF BuildMessages, At, To, Agents, Rows, SkillsGo
<1>11. ASSUME ModelTurn
      PROVE  SkillsGo
  BY <1>11, <1>0 DEF ModelTurn, AfterContent, Quietly, At, Agents, Rows,
      SkillsGo
<1>12. ASSUME Say
      PROVE  SkillsGo
  BY <1>12, <1>0 DEF Say, AfterContent, At, Telling, Note, Event, To, Agents,
      Rows, SkillsGo
<1>13. ASSUME Nudge
      PROVE  SkillsGo
  BY <1>13, <1>0, NextStepEffect DEF Nudge, At, Telling, Note, Event, Agents,
      Rows, SkillsGo
<1>14. ASSUME Announce
      PROVE  SkillsGo
  BY <1>14, <1>0 DEF Announce, At, Telling, Event, Agents, Rows, SkillsGo
<1>15. ASSUME ExecuteTurn
      PROVE  SkillsGo
  BY <1>15, <1>0 DEF ExecuteTurn, At, Quietly, To, Agents, Rows, SkillsGo
<1>16. ASSUME RecordParallel
      PROVE  SkillsGo
  BY <1>16, <1>0, NextStepEffect DEF RecordParallel, Gathered, At, Telling,
      Event, Agents, Rows, SkillsGo
<1>17. ASSUME CallTool
      PROVE  SkillsGo
  BY <1>17, <1>0 DEF CallTool, Quietly, At, Agents, Rows, SkillsGo
<1>18. ASSUME RecordResult
      PROVE  SkillsGo
  <2>1. row' = row /\ agent.at = "running" /\ InCall
    BY <1>18 DEF RecordResult, Telling, At, InCall
  <2>2. CASE agent' = NextCall
    BY <2>1, <2>2, <1>0, NextCallEffect, NextStepEffect DEF SkillsGo, Agents
  <2>3. CASE agent' = [agent EXCEPT !.at = "checkpointed", !.flight = {}]
    BY <2>1, <2>3, <1>0 DEF SkillsGo, Agents
  <2>. QED
    BY <1>18, <2>2, <2>3 DEF RecordResult, AfterResult, Telling
<1>19. ASSUME TellCheckpoint
      PROVE  SkillsGo
  BY <1>19, <1>0, NextCallEffect, NextStepEffect DEF TellCheckpoint, At,
      Telling, Note, Event, Agents, Rows, SkillsGo, InCall
<1>20. ASSUME SetPlan
      PROVE  SkillsGo
  BY <1>20, <1>0 DEF SetPlan, At, Quietly, To, Agents, Rows, SkillsGo
<1>21. ASSUME ReadConstraints
      PROVE  SkillsGo
  BY <1>21, <1>0 DEF ReadConstraints, Quietly, At, Agents, Rows, SkillsGo
<1>22. ASSUME RememberConstraint
      PROVE  SkillsGo
  BY <1>22, <1>0 DEF RememberConstraint, Saving, At, Agents, Rows, SkillsGo
<1>23. ASSUME ActivateSkill
      PROVE  SkillsGo
  BY <1>23, <1>0 DEF ActivateSkill, ToSkills, Quietly, At, Agents, Rows,
      SkillsGo
<1>24. ASSUME FinishTask
      PROVE  SkillsGo
  BY <1>24, <1>0 DEF FinishTask, Quietly, At, Agents, Rows, SkillsGo
<1>25. ASSUME Answer
      PROVE  SkillsGo
  BY <1>25, <1>0, NextCallEffect, NextStepEffect DEF Answer, At, Telling,
      Event, Agents, Rows, SkillsGo, InCall, Over, NewRun
<1>26. ASSUME RecordsClash
      PROVE  SkillsGo
  BY <1>26, <1>0 DEF RecordsClash, At, Over, NewRun, Agents, Rows, SkillsGo,
      Over, NewRun
<1>27. ASSUME EndStray
      PROVE  SkillsGo
  BY <1>27, <1>0 DEF EndStray, Event, Agents, Rows, SkillsGo
<1>28. ASSUME NEW c \in Clients, ReadRow(c)
      PROVE  SkillsGo
  BY <1>28, <1>0 DEF ReadRow, Agents, Rows, SkillsGo
<1>29. ASSUME NEW c \in Clients, AppendInstruction(c)
      PROVE  SkillsGo
  BY <1>29, <1>0 DEF AppendInstruction, Agents, Rows, SkillsGo
<1>30. ASSUME NEW c \in Clients, TellInstruction(c)
      PROVE  SkillsGo
  BY <1>30, <1>0 DEF TellInstruction, Event, Agents, Rows, SkillsGo
<1>31. ASSUME UNCHANGED vars
      PROVE  SkillsGo
  BY <1>31, <1>0 DEF vars, SkillsGo
<1>. QED
  BY <1>1, <1>2, <1>3, <1>4, <1>5, <1>6, <1>7, <1>8, <1>9, <1>10, <1>11,
      <1>12, <1>13, <1>14, <1>15, <1>16, <1>17, <1>18, <1>19, <1>20, <1>21,
      <1>22, <1>23, <1>24, <1>25, <1>26, <1>27, <1>28, <1>29, <1>30, <1>31 DEF
      Next, Step

\* Later lines of the summary tell of later events.
Ordered ==
  /\ IsFiniteSet(row.summary)
  /\ \A k, l \in row.summary : k.by < l.by => k.of < l.of

SummaryInv == SummaryIsExact /\ Ordered

\* The text to be cut tells of each relevant event once, in order, but for
\* those that are older than the old text.
LEMMA LongerIsExact ==
  ASSUME TypeInv, SummaryInv, NEW mark \in Nat, row.through < mark,
         mark = Last - Recent
  PROVE  LET text == Longer(mark) IN
         /\ IsFiniteSet(text)
         /\ \A k, l \in text : k.of = l.of => k = l
         /\ \A k, l \in text : Before(k, l) <=> k.of < l.of
         /\ \A l \in text : Relevant(history[l.of])
         /\ \A n \in 1..mark : Relevant(history[n]) =>
              \/ \E l \in text : l.of = n
              \/ /\ \A l \in text : n < l.of
                 /\ Cardinality(row.summary) >= Fit
<1> DEFINE new == {n \in (row.through + 1)..mark : Relevant(history[n])}
<1>1. /\ row.through \in Nat /\ row.summary \in SUBSET Lines
      /\ \A l \in row.summary : l.by <= row.through /\ l.of \in 1..row.through
  BY DEF TypeInv, AgentTypeOK, Rows, Bounded, Upto
<1>2. NewLines(row.through, mark) = {[by |-> mark, of |-> n] : n \in new}
  BY DEF NewLines
<1>3. \A l \in NewLines(row.through, mark) :
        /\ l = [by |-> mark, of |-> l.of] /\ l.by = mark
        /\ l.of \in (row.through + 1)..mark
        /\ Relevant(history[l.of])
  BY <1>2
<1>4. ASSUME NEW n \in new
      PROVE  \E l \in NewLines(row.through, mark) : l.of = n
  <2>1. [by |-> mark, of |-> n] \in NewLines(row.through, mark)
    BY <1>2
  <2>. QED
    BY <2>1
<1>5. \A k, l \in row.summary :
        /\ k.of = l.of => k = l
        /\ k.by < l.by => k.of < l.of
  BY DEF SummaryInv, SummaryIsExact, Ordered
<1>6. \A l \in row.summary : Relevant(history[l.of])
  BY DEF SummaryInv, SummaryIsExact, Told
<1>7. \A n \in 1..row.through : Relevant(history[n]) =>
        \/ \E l \in row.summary : l.of = n
        \/ /\ \A l \in row.summary : n < l.of
           /\ Cardinality(row.summary) >= Fit
  BY DEF SummaryInv, SummaryIsExact, Told
<1> DEFINE text == Longer(mark)
<1>8. text = row.summary \cup NewLines(row.through, mark)
  BY DEF Longer
<1>9. IsFiniteSet(text)
  <2>1. IsFiniteSet(new)
    <3>1. IsFiniteSet((row.through + 1)..mark)
      <4>1. row.through + 1 \in Int /\ mark \in Int
        BY <1>1
      <4>. QED
        BY <4>1, FS_Interval
    <3>. QED
      BY <3>1, FS_Subset
  <2>2. IsFiniteSet(NewLines(row.through, mark))
    <3> HIDE DEF new
    <3> DEFINE line == [n \in new |-> [by |-> mark, of |-> n]]
    <3>1. line \in Surjection(new, NewLines(row.through, mark))
      BY <1>2 DEF Surjection
    <3>. QED
      BY <2>1, <3>1, FS_Surjection
  <2>. QED
    BY <1>8, <2>2, FS_Union DEF SummaryInv, Ordered
<1> HIDE DEF text, new
<1>10. ASSUME NEW k \in text, NEW l \in text
       PROVE  /\ k.of = l.of => k = l
              /\ Before(k, l) <=> k.of < l.of
  <2>1. CASE k \in row.summary /\ l \in row.summary
    BY <1>1, <1>5, <2>1 DEF Before, Lines
  <2>2. CASE k \in row.summary /\ l \in NewLines(row.through, mark)
    BY <1>1, <1>3, <2>2 DEF Before, Lines
  <2>3. CASE k \in NewLines(row.through, mark) /\ l \in row.summary
    BY <1>1, <1>3, <2>3 DEF Before, Lines
  <2>4. CASE k \in NewLines(row.through, mark) /\ l \in NewLines(row.through, mark)
    BY <1>1, <1>3, <2>4 DEF Before
  <2>. QED
    BY <1>8, <2>1, <2>2, <2>3, <2>4
<1>11. \A l \in text : Relevant(history[l.of])
  BY <1>3, <1>6, <1>8
<1>12. ASSUME NEW n \in 1..mark, Relevant(history[n])
       PROVE  \/ \E l \in text : l.of = n
              \/ /\ \A l \in text : n < l.of
                 /\ Cardinality(row.summary) >= Fit
  <2>1. CASE n > row.through
    <3>1. n \in new
      BY <1>1, <1>12, <2>1 DEF new
    <3>. QED
      BY <1>4, <1>8, <3>1
  <2>2. CASE n <= row.through
    <3>1. n \in 1..row.through
      BY <1>1, <2>2
    <3>2. \A l \in NewLines(row.through, mark) : n < l.of
      BY <1>1, <1>3, <2>2
    <3>. QED
      BY <1>7, <1>8, <1>12, <3>1, <3>2
  <2>. QED
    BY <1>1, <2>1, <2>2
<1>. QED
  BY <1>9, <1>10, <1>11, <1>12 DEF text

LEMMA SummaryStep ==
  ASSUME TypeInv, SummaryInv, [Next]_vars
  PROVE  SummaryInv'
<1>1. /\ Len(history) \in Nat /\ row.through \in Nat /\ row.through <= Len(history)
      /\ \A n \in 1..Len(history) : history'[n] = history[n]
  BY HistoryStep DEF TypeInv, AgentTypeOK, Grows, Rows
<1>2. CASE SummaryKept
  <2>1. \A n \in 1..row.through : history'[n] = history[n]
    BY <1>1
  <2>2. \A n \in 1..row.through : Relevant(history[n])' <=> Relevant(history[n])
    BY <2>1 DEF Relevant
  <2>3. /\ Told' = Told
        /\ {n \in 1..row.through : Relevant(history[n])}' =
             {n \in 1..row.through : Relevant(history[n])}
    BY <1>2, <2>2 DEF Told, SummaryKept
  <2>. QED
    BY <1>2, <2>3 DEF SummaryInv, SummaryIsExact, Ordered, SummaryKept
<1>3. ASSUME MaybeCompact, row' # row
      PROVE  SummaryInv'
  <2> DEFINE mark == Last - Recent
             long == Longer(mark)
  <2>1. /\ mark \in Nat /\ row.through < mark
        /\ UNCHANGED history
    <3>1. /\ row.through < Last - Recent /\ Last - Recent \in 1..Last
          /\ UNCHANGED history
      BY <1>3, CompactEffect DEF TypeInv
    <3>. QED
      BY <1>1, <3>1 DEF Last
  <2>2. PICK text \in Tails(long) :
          row' = [row EXCEPT !.through = mark, !.summary = text]
    BY <1>3, CompactEffect DEF TypeInv
  <2>3. row'.through = mark /\ row'.summary = text
    BY <2>2 DEF TypeInv, AgentTypeOK, Rows
  <2>4. /\ text \subseteq long /\ long \in SUBSET Lines
        /\ \A l \in long : l.by <= mark /\ l.of \in 1..mark
    BY <2>1, TailsAre, LongerIs DEF TypeInv, Bounded
  <2>5. /\ IsFiniteSet(long)
        /\ \A k, l \in long : k.of = l.of => k = l
        /\ \A k, l \in long : Before(k, l) <=> k.of < l.of
        /\ \A l \in long : Relevant(history[l.of])
        /\ \A n \in 1..mark : Relevant(history[n]) =>
             \/ \E l \in long : l.of = n
             \/ /\ \A l \in long : n < l.of
                /\ Cardinality(row.summary) >= Fit
    BY <2>1, LongerIsExact
  <2>6. row.summary \subseteq long
    BY DEF Longer
  <2>7. \/ text = long
        \/ \E k \in long : /\ text = {l \in long : ~Before(l, k)}
                           /\ Cardinality(text) >= Fit
    BY <2>2 DEF Tails
  <2> HIDE DEF mark, long
  <2>8. IsFiniteSet(text) /\ IsFiniteSet(row.summary)
    BY <2>4, <2>5, <2>6, FS_Subset
  <2>9. \A n \in 1..mark : Relevant(history[n])' <=> Relevant(history[n])
    BY <2>1 DEF Relevant
  <2>10. ASSUME NEW n \in 1..mark, Relevant(history[n]),
                \A l \in text : l.of # n
         PROVE  /\ \A l \in text : n < l.of
                /\ Cardinality(text) >= Fit
    <3>1. CASE text = long
      <4>1. Cardinality(row.summary) <= Cardinality(text)
        BY <2>6, <2>8, <3>1, FS_Subset
      <4>2. Cardinality(row.summary) \in Nat /\ Cardinality(text) \in Nat
        BY <2>8, FS_CardinalityType
      <4>. QED
        BY <2>5, <2>10, <3>1, <4>1, <4>2, BoundsAssumption
    <3>2. ASSUME NEW k \in long, text = {l \in long : ~Before(l, k)},
                 Cardinality(text) >= Fit
          PROVE  \A l \in text : n < l.of
      <4>1. \A l \in text : l \in long /\ l.of \in Nat /\ k.of \in Nat /\ k.of <= l.of
        BY <2>4, <2>5, <3>2 DEF Lines
      <4>2. CASE \E j \in long : j.of = n
        <5>1. PICK j \in long : j.of = n
          BY <4>2
        <5>2. Before(j, k)
          BY <2>10, <3>2, <5>1
        <5>3. n < k.of
          BY <2>5, <3>2, <5>1, <5>2
        <5>. QED
          BY <4>1, <5>3
      <4>3. CASE ~\E j \in long : j.of = n
        BY <2>4, <2>5, <2>10, <4>3
      <4>. QED
        BY <4>2, <4>3
    <3>. QED
      BY <2>7, <3>1, <3>2
  <2>11. \A l \in text : l.of \in 1..mark /\ Relevant(history[l.of])
    BY <2>4, <2>5
  <2>12. \A k, l \in text : /\ k.of = l.of => k = l
                            /\ k.by < l.by => k.of < l.of
    BY <2>4, <2>5 DEF Before
  <2>13. /\ Told' = {l.of : l \in text}
         /\ {n \in 1..row.through : Relevant(history[n])}' =
              {n \in 1..mark : Relevant(history[n])}
    BY <2>3, <2>9 DEF Told
  <2>14. SummaryIsExact'
    <3> DEFINE due == {n \in 1..mark : Relevant(history[n])}
               told == {l.of : l \in text}
    <3>1. told \subseteq due
      BY <2>11
    <3>2. \A n \in due \ told : \A l \in text : n < l.of
      BY <2>10
    <3>3. \A n \in due \ told : \A m \in told : n < m
      BY <3>2
    <3>4. due # told => Cardinality(text) >= Fit
      BY <3>1, <2>10
    <3> HIDE DEF due, told
    <3>. QED
      BY <2>3, <2>12, <2>13, <3>1, <3>3, <3>4 DEF SummaryIsExact, due, told
  <2>. QED
    BY <2>3, <2>8, <2>12, <2>14 DEF SummaryInv, Ordered
<1>. QED
  BY <1>2, <1>3, SummaryChanges DEF SummaryKept

LEMMA SummaryCorrect == Spec => []SummaryInv
<1>1. Init => SummaryInv
  <2> SUFFICES ASSUME Init PROVE SummaryInv
    OBVIOUS
  <2>1. row.summary = {} /\ row.through = 0 /\ Told = {}
    BY DEF Init, Told
  <2>. QED
    BY <2>1, FS_EmptySet DEF SummaryInv, SummaryIsExact, Ordered
<1>2. TypeInv /\ SummaryInv /\ [Next]_vars => SummaryInv'
  BY SummaryStep
<1>. QED
  BY <1>1, <1>2, TypeCorrect, PTL DEF Spec

\* The summary tells of what is relevant up to its mark, of each event once,
\* but for the oldest, which are cut off only where the text has no room for
\* them, over any cuts and retries.
THEOREM MemoryIsExact == Spec => []SummaryIsExact
BY SummaryCorrect, PTL DEF SummaryInv

Logged(k) == \E n \in DOMAIN history : history[n].type = "skill" /\ history[n].of = k

\* Also the skills of the run that the row does not have yet.
ActiveAreLogged == \A k \in Active : Logged(k)

LEMMA SkillsStep ==
  ASSUME TypeInv, ActiveAreLogged, [Next]_vars
  PROVE  ActiveAreLogged'
<1>1. /\ DOMAIN history = 1..Len(history) /\ DOMAIN history' = 1..Len(history')
      /\ \A n \in 1..Len(history) : n \in 1..Len(history') /\ history'[n] = history[n]
  BY HistoryStep DEF TypeInv, AgentTypeOK, Grows
<1>2. \A k : Logged(k) => Logged(k)'
  BY <1>1 DEF Logged
<1>3. CASE Active' \subseteq Active
  BY <1>2, <1>3 DEF ActiveAreLogged
<1>4. ASSUME Activate
      PROVE  ActiveAreLogged'
  <2>1. PICK k : k = Head(agent.todo)
    OBVIOUS
  <2>2. /\ history' = Append(history, Event("skill", k, NoCall))
        /\ row' = row
        /\ agent' = [agent EXCEPT !.todo = Tail(agent.todo),
                                  !.fresh = agent.fresh \cup {k}]
    BY <1>4, <2>1 DEF Activate, Activated, Telling
  <2>3. Active' = Active \cup {k}
    BY <2>2 DEF Active, TypeInv, Position, Agents
  <2>4. /\ Len(history) + 1 \in DOMAIN history'
        /\ history'[Len(history) + 1] = Event("skill", k, NoCall)
    BY <2>2 DEF TypeInv, AgentTypeOK
  <2>5. Logged(k)'
    BY <2>4 DEF Logged, Event
  <2>. QED
    BY <1>2, <2>3, <2>5 DEF ActiveAreLogged
<1>. QED
  BY <1>3, <1>4, SkillsChange DEF SkillsGo, Active

\* The row names no skill the log does not tell of.
THEOREM SkillsHaveEvents == Spec => []SkillsAreLogged
<1>1. Init => ActiveAreLogged
  <2>1. Init => Active = {}
    BY DEF Init, Active, Over, NewRun
  <2>. QED
    BY <2>1 DEF ActiveAreLogged
<1>2. TypeInv /\ ActiveAreLogged /\ [Next]_vars => ActiveAreLogged'
  BY SkillsStep
<1>3. ActiveAreLogged => SkillsAreLogged
  BY DEF ActiveAreLogged, SkillsAreLogged, Active, Logged
<1>. QED
  BY <1>1, <1>2, <1>3, TypeCorrect, PTL DEF Spec

\* A command and a diff that succeeded are among the first n events.
Evidence(n) ==
  \E i, j \in 1..n :
    /\ i \in DOMAIN history /\ history[i].type = "completed" /\ history[i].of = "run"
    /\ j \in DOMAIN history /\ history[j].type = "completed" /\ history[j].of = "diff"

Founded ==
  /\ agent.accepted => Evidence(Len(history))
  /\ agent.at = "done" => Evidence(Len(history) - 1)

\* How a run comes to be accepted and done.
AcceptedGoes ==
  \/ agent'.accepted = FALSE /\ agent'.at # "done"
  \/ agent'.accepted = agent.accepted /\ agent'.at = agent.at
  \/ /\ history' = history
     /\ agent'.at # "done"
     /\ {"run", "diff"} \subseteq Successful
  \/ /\ agent.accepted
     /\ agent'.accepted = FALSE
     /\ Len(history') = Len(history) + 1

LEMMA AcceptedChanges ==
  ASSUME TypeInv, [Next]_vars
  PROVE  AcceptedGoes
<1>0. /\ agent \in Agents /\ Position
      /\ history \in Seq(Events)
  BY DEF TypeInv, Position, AgentTypeOK
<1>x. /\ agent.at \notin Resting
         /\ agent' = NextStep => AcceptedGoes
      /\ InCall /\ ~agent.accepted /\ agent' = NextCall => AcceptedGoes
  BY <1>0, NextStepEffect, NextCallEffect DEF AcceptedGoes, Agents
<1>1. ASSUME Start
      PROVE  AcceptedGoes
  BY <1>1, <1>0 DEF Start, Note, Event, NewRun, Last, Resting, AcceptedGoes,
      Agents, Position, Resting, NewRun
<1>2. ASSUME Stop
      PROVE  AcceptedGoes
  BY <1>2, <1>0 DEF Stop, Quietly, Over, NewRun, Resting, AcceptedGoes,
      Agents, Position, Resting
<1>3. ASSUME MaybeCompact
      PROVE  AcceptedGoes
  BY <1>3, <1>0 DEF MaybeCompact, Condense, Saving, Quietly, To, At, Last,
      AcceptedGoes, Agents, Position, Resting
<1>4. ASSUME TellCompacted
      PROVE  AcceptedGoes
  BY <1>4, <1>0 DEF TellCompacted, At, Telling, Note, Event, To, AcceptedGoes,
      Agents, Position, Resting
<1>5. ASSUME TellStep
      PROVE  AcceptedGoes
  BY <1>5, <1>0 DEF TellStep, At, Telling, Note, Event, To, AcceptedGoes,
      Agents, Position, Resting
<1>6. ASSUME EnsureAutoSkills
      PROVE  AcceptedGoes
  BY <1>6, <1>0 DEF EnsureAutoSkills, ToSkills, Quietly, At, AcceptedGoes,
      Agents, Position, Resting
<1>7. ASSUME PassOver
      PROVE  AcceptedGoes
  BY <1>7, <1>0 DEF PassOver, Quietly, At, AcceptedGoes, Agents, Position,
      Resting
<1>8. ASSUME Activate
      PROVE  AcceptedGoes
  BY <1>8, <1>0 DEF Activate, Activated, At, Telling, Event, AcceptedGoes,
      Agents, Position, Resting
<1>9. ASSUME SaveSkills
      PROVE  AcceptedGoes
  BY <1>9, <1>0 DEF SaveSkills, Saving, At, AcceptedGoes, Agents, Position,
      Resting
<1>10. ASSUME BuildMessages
      PROVE  AcceptedGoes
  BY <1>10, <1>0 DEF BuildMessages, At, To, AcceptedGoes, Agents, Position,
      Resting
<1>11. ASSUME ModelTurn
      PROVE  AcceptedGoes
  BY <1>11, <1>0 DEF ModelTurn, AfterContent, Quietly, At, AcceptedGoes,
      Agents, Position, Resting
<1>12. ASSUME Say
      PROVE  AcceptedGoes
  BY <1>12, <1>0 DEF Say, AfterContent, At, Telling, Note, Event, To,
      AcceptedGoes, Agents, Position, Resting
<1>13. ASSUME Nudge
      PROVE  AcceptedGoes
  BY <1>13, <1>0, <1>x DEF Nudge, Telling, At, Resting
<1>14. ASSUME Announce
      PROVE  AcceptedGoes
  BY <1>14, <1>0 DEF Announce, At, Telling, Event, AcceptedGoes, Agents,
      Position, Resting
<1>15. ASSUME ExecuteTurn
      PROVE  AcceptedGoes
  BY <1>15, <1>0 DEF ExecuteTurn, At, Quietly, To, AcceptedGoes, Agents,
      Position, Resting
<1>16. ASSUME RecordParallel
      PROVE  AcceptedGoes
  <2>1. agent.at = "gather" /\ ~agent.accepted
    BY <1>16, <1>0 DEF RecordParallel, At, Position
  <2>2. CASE agent' = NextStep
    BY <2>1, <2>2, <1>x DEF Resting
  <2>3. CASE \E i \in agent.flight : agent' = [agent EXCEPT !.flight = @ \ {i}]
    BY <2>1, <2>3, <1>0 DEF AcceptedGoes, Agents
  <2>. QED
    BY <1>16, <2>2, <2>3 DEF RecordParallel, Gathered, Telling
<1>17. ASSUME CallTool
      PROVE  AcceptedGoes
  BY <1>17, <1>0 DEF CallTool, Quietly, At, AcceptedGoes, Agents, Position,
      Resting
<1>18. ASSUME RecordResult
      PROVE  AcceptedGoes
  <2>1. agent.at = "running" /\ InCall /\ ~agent.accepted
    BY <1>18, <1>0 DEF RecordResult, Telling, At, InCall, Position
  <2>2. CASE agent' = NextCall
    BY <2>1, <2>2, <1>x
  <2>3. CASE agent' = [agent EXCEPT !.at = "checkpointed", !.flight = {}]
    BY <2>1, <2>3, <1>0 DEF AcceptedGoes, Agents
  <2>. QED
    BY <1>18, <2>2, <2>3 DEF RecordResult, AfterResult, Telling
<1>19. ASSUME TellCheckpoint
      PROVE  AcceptedGoes
  BY <1>19, <1>0, <1>x DEF TellCheckpoint, Telling, At, InCall, Position
<1>20. ASSUME SetPlan
      PROVE  AcceptedGoes
  BY <1>20, <1>0 DEF SetPlan, At, Quietly, To, AcceptedGoes, Agents, Position,
      Resting
<1>21. ASSUME ReadConstraints
      PROVE  AcceptedGoes
  BY <1>21, <1>0 DEF ReadConstraints, Quietly, At, AcceptedGoes, Agents,
      Position, Resting
<1>22. ASSUME RememberConstraint
      PROVE  AcceptedGoes
  BY <1>22, <1>0 DEF RememberConstraint, Saving, At, AcceptedGoes, Agents,
      Position, Resting
<1>23. ASSUME ActivateSkill
      PROVE  AcceptedGoes
  BY <1>23, <1>0 DEF ActivateSkill, ToSkills, Quietly, At, AcceptedGoes,
      Agents, Position, Resting
<1>24. ASSUME FinishTask
      PROVE  AcceptedGoes
  BY <1>24, <1>0 DEF FinishTask, Quietly, At, AcceptedGoes, Agents, Position,
      Resting
<1>25. ASSUME Answer
      PROVE  AcceptedGoes
  <2>1. agent.at = "answer" /\ InCall
    BY <1>25 DEF Answer, At, InCall
  <2>2. CASE agent.accepted
    <3>1. agent' = Over("done") /\ \E e : history' = Append(history, e)
      BY <1>25, <2>2 DEF Answer, Telling
    <3>. QED
      BY <1>0, <2>2, <3>1, HistoryStep DEF AcceptedGoes, Over, NewRun, TypeInv, Grows
  <2>3. CASE ~agent.accepted
    <3>1. agent' = NextCall
      BY <1>25, <2>3 DEF Answer, Telling
    <3>. QED
      BY <2>1, <2>3, <3>1, <1>x
  <2>. QED
    BY <2>2, <2>3
<1>26. ASSUME RecordsClash
      PROVE  AcceptedGoes
  BY <1>26, <1>0 DEF RecordsClash, At, Over, NewRun, AcceptedGoes, Agents,
      Position, Resting
<1>27. ASSUME EndStray
      PROVE  AcceptedGoes
  BY <1>27, <1>0 DEF EndStray, Event, AcceptedGoes, Agents, Position, Resting
<1>28. ASSUME NEW c \in Clients, ReadRow(c)
      PROVE  AcceptedGoes
  BY <1>28, <1>0 DEF ReadRow, AcceptedGoes, Agents, Position, Resting
<1>29. ASSUME NEW c \in Clients, AppendInstruction(c)
      PROVE  AcceptedGoes
  BY <1>29, <1>0 DEF AppendInstruction, AcceptedGoes, Agents, Position,
      Resting
<1>30. ASSUME NEW c \in Clients, TellInstruction(c)
      PROVE  AcceptedGoes
  BY <1>30, <1>0 DEF TellInstruction, Event, AcceptedGoes, Agents, Position,
      Resting
<1>31. ASSUME UNCHANGED vars
      PROVE  AcceptedGoes
  BY <1>31, <1>0 DEF vars, AcceptedGoes, Agents, Position, Resting
<1>. QED
  BY <1>1, <1>2, <1>3, <1>4, <1>5, <1>6, <1>7, <1>8, <1>9, <1>10, <1>11,
      <1>12, <1>13, <1>14, <1>15, <1>16, <1>17, <1>18, <1>19, <1>20, <1>21,
      <1>22, <1>23, <1>24, <1>25, <1>26, <1>27, <1>28, <1>29, <1>30, <1>31 DEF
      Next, Step

LEMMA FoundedStep ==
  ASSUME TypeInv, Founded, [Next]_vars
  PROVE  Founded'
<1>1. /\ DOMAIN history = 1..Len(history) /\ DOMAIN history' = 1..Len(history')
      /\ Len(history) \in Nat /\ Len(history') \in Nat /\ Len(history) <= Len(history')
      /\ \A n \in 1..Len(history) : n \in 1..Len(history') /\ history'[n] = history[n]
  BY HistoryStep DEF TypeInv, AgentTypeOK, Grows
<1>2. {"run", "diff"} \subseteq Successful => Evidence(Len(history))
  BY <1>1 DEF Successful, Evidence
<1>3. /\ Evidence(Len(history)) => Evidence(Len(history))'
      /\ Evidence(Len(history) - 1) => Evidence(Len(history) - 1)'
      /\ Len(history') = Len(history) + 1 /\ Evidence(Len(history)) =>
           Evidence(Len(history) - 1)'
  <2>1. PICK l \in Nat : l = Len(history)
    BY <1>1
  <2>2. PICK m \in Nat : m = Len(history')
    BY <1>1
  <2>3. ASSUME NEW a \in Int, NEW b \in Int, a <= b, Evidence(a)
        PROVE  Evidence(b)'
    <3>1. PICK i \in 1..a, j \in 1..a :
            /\ i \in DOMAIN history /\ history[i].type = "completed"
            /\ history[i].of = "run"
            /\ j \in DOMAIN history /\ history[j].type = "completed"
            /\ history[j].of = "diff"
      BY <2>3 DEF Evidence
    <3>2. i \in 1..b /\ j \in 1..b
      BY <2>3
    <3>. QED
      BY <1>1, <3>1, <3>2 DEF Evidence
  <2>4. Evidence(l) => Evidence(m)'
    BY <1>1, <2>1, <2>2, <2>3
  <2>5. Evidence(l - 1) => Evidence(m - 1)'
    <3>1. l - 1 \in Int /\ m - 1 \in Int /\ l - 1 <= m - 1
      BY <1>1, <2>1, <2>2
    <3>. QED
      BY <2>3, <3>1
  <2>6. m = l + 1 /\ Evidence(l) => Evidence(m - 1)'
    <3>1. m = l + 1 => m - 1 \in Int /\ l <= m - 1
      BY <1>1, <2>1, <2>2
    <3>. QED
      BY <2>3, <3>1
  <2>. QED
    BY <2>1, <2>2, <2>4, <2>5, <2>6
<1>4. /\ agent.accepted => agent.at = "answer"
      /\ (agent.accepted => agent.at = "answer")'
  BY AgentStep DEF TypeInv, Position
<1>. QED
  BY <1>2, <1>3, <1>4, AcceptedChanges DEF Founded, AcceptedGoes

\* Nothing is finished without a command and a diff that have succeeded before.
THEOREM CompletionIsFounded == Spec => []CompletionHasEvidence
<1>1. Init => Founded
  BY DEF Init, Founded, Over, NewRun
<1>2. TypeInv /\ Founded /\ [Next]_vars => Founded'
  BY FoundedStep
<1>3. Founded => CompletionHasEvidence
  BY DEF Founded, Evidence, CompletionHasEvidence, At, Last
<1>. QED
  BY <1>1, <1>2, <1>3, TypeCorrect, PTL DEF Spec
-----------------------------------------------------------------------------
(***************************************************************************)
(* The prompt: what lies between summary and window.                       *)
(***************************************************************************)
\* From the compaction of a step to its prompt.
Condensed ==
  \/ agent.at \in {"compacted", "step", "auto", "build"}
  \/ agent.at = "skill" /\ agent.back = "build"

\* What the last prompt would have shown without a cut.
Offered == prompt.shown \cup prompt.elided

\* It ends with event l, and has the Recent events before.
EndsWith(l) ==
  /\ \A m \in Offered : m <= l
  /\ \A n \in 1..l : n > row.through /\ n + Recent > l => n \in Offered

\* What is not condensed has been in it, or is younger.
CaughtUp ==
  \A n \in Nat : n > row.through /\ n \notin Offered => \A m \in Offered : m <= n

Overlapping ==
  /\ row.through > 0 => Len(history) >= Threshold
  /\ \E l \in 0..Len(history) : EndsWith(l)
  /\ Condensed /\ row.through > 0 => CaughtUp

PromptGoes ==
  \/ BuildMessages
  \/ MaybeCompact
  \/ prompt' = prompt /\ (Condensed' => Condensed)

LEMMA PromptChanges ==
  ASSUME TypeInv, [Next]_vars
  PROVE  PromptGoes
<1>0. agent \in Agents /\ Position
  BY DEF TypeInv, Position
<1>x. /\ agent' = NextStep /\ prompt' = prompt => PromptGoes
      /\ InCall /\ agent' = NextCall /\ prompt' = prompt => PromptGoes
  BY <1>0, NextStepEffect, NextCallEffect DEF PromptGoes, Condensed, Agents
<1>1. ASSUME Start
      PROVE  PromptGoes
  BY <1>1, <1>0 DEF Start, Note, Event, NewRun, Last, Resting, PromptGoes,
      Condensed, Agents, NewRun
<1>2. ASSUME Stop
      PROVE  PromptGoes
  BY <1>2, <1>0 DEF Stop, Quietly, Over, NewRun, Resting, PromptGoes,
      Condensed, Agents
<1>3. ASSUME MaybeCompact
      PROVE  PromptGoes
  BY <1>3 DEF PromptGoes
<1>4. ASSUME TellCompacted
      PROVE  PromptGoes
  BY <1>4, <1>0 DEF TellCompacted, At, Telling, Note, Event, To, PromptGoes,
      Condensed, Agents
<1>5. ASSUME TellStep
      PROVE  PromptGoes
  BY <1>5, <1>0 DEF TellStep, At, Telling, Note, Event, To, PromptGoes,
      Condensed, Agents
<1>6. ASSUME EnsureAutoSkills
      PROVE  PromptGoes
  BY <1>6, <1>0 DEF EnsureAutoSkills, ToSkills, Quietly, At, PromptGoes,
      Condensed, Agents
<1>7. ASSUME PassOver
      PROVE  PromptGoes
  BY <1>7, <1>0 DEF PassOver, Quietly, At, PromptGoes, Condensed, Agents
<1>8. ASSUME Activate
      PROVE  PromptGoes
  BY <1>8, <1>0 DEF Activate, Activated, At, Telling, Event, PromptGoes,
      Condensed, Agents
<1>9. ASSUME SaveSkills
      PROVE  PromptGoes
  BY <1>9, <1>0 DEF SaveSkills, Saving, At, PromptGoes, Condensed, Agents,
      Position, BeforeTurn, InCall
<1>10. ASSUME BuildMessages
      PROVE  PromptGoes
  BY <1>10 DEF PromptGoes
<1>11. ASSUME ModelTurn
      PROVE  PromptGoes
  BY <1>11, <1>0 DEF ModelTurn, AfterContent, Quietly, At, PromptGoes,
      Condensed, Agents
<1>12. ASSUME Say
      PROVE  PromptGoes
  BY <1>12, <1>0 DEF Say, AfterContent, At, Telling, Note, Event, To,
      PromptGoes, Condensed, Agents
<1>13. ASSUME Nudge
      PROVE  PromptGoes
  BY <1>13, <1>0, <1>x DEF Nudge, Telling, At, Resting
<1>14. ASSUME Announce
      PROVE  PromptGoes
  BY <1>14, <1>0 DEF Announce, At, Telling, Event, PromptGoes, Condensed,
      Agents
<1>15. ASSUME ExecuteTurn
      PROVE  PromptGoes
  BY <1>15, <1>0 DEF ExecuteTurn, At, Quietly, To, PromptGoes, Condensed,
      Agents
<1>16. ASSUME RecordParallel
      PROVE  PromptGoes
  <2>1. agent.at = "gather" /\ prompt' = prompt
    BY <1>16 DEF RecordParallel, Gathered, Telling, At
  <2>2. CASE agent' = NextStep
    BY <2>1, <2>2, <1>x
  <2>3. CASE \E i \in agent.flight : agent' = [agent EXCEPT !.flight = @ \ {i}]
    BY <2>1, <2>3, <1>0 DEF PromptGoes, Condensed, Agents
  <2>. QED
    BY <1>16, <2>2, <2>3 DEF RecordParallel, Gathered, Telling
<1>17. ASSUME CallTool
      PROVE  PromptGoes
  BY <1>17, <1>0 DEF CallTool, Quietly, At, PromptGoes, Condensed, Agents
<1>18. ASSUME RecordResult
      PROVE  PromptGoes
  <2>1. agent.at = "running" /\ InCall /\ prompt' = prompt
    BY <1>18 DEF RecordResult, Telling, At, InCall
  <2>2. CASE agent' = NextCall
    BY <2>1, <2>2, <1>x
  <2>3. CASE agent' = [agent EXCEPT !.at = "checkpointed", !.flight = {}]
    BY <2>1, <2>3, <1>0 DEF PromptGoes, Condensed, Agents
  <2>. QED
    BY <1>18, <2>2, <2>3 DEF RecordResult, AfterResult, Telling
<1>19. ASSUME TellCheckpoint
      PROVE  PromptGoes
  BY <1>19, <1>0, <1>x DEF TellCheckpoint, Telling, At, InCall
<1>20. ASSUME SetPlan
      PROVE  PromptGoes
  BY <1>20, <1>0 DEF SetPlan, At, Quietly, To, PromptGoes, Condensed, Agents
<1>21. ASSUME ReadConstraints
      PROVE  PromptGoes
  BY <1>21, <1>0 DEF ReadConstraints, Quietly, At, PromptGoes, Condensed,
      Agents
<1>22. ASSUME RememberConstraint
      PROVE  PromptGoes
  BY <1>22, <1>0 DEF RememberConstraint, Saving, At, PromptGoes, Condensed,
      Agents
<1>23. ASSUME ActivateSkill
      PROVE  PromptGoes
  BY <1>23, <1>0 DEF ActivateSkill, ToSkills, Quietly, At, PromptGoes,
      Condensed, Agents
<1>24. ASSUME FinishTask
      PROVE  PromptGoes
  BY <1>24, <1>0 DEF FinishTask, Quietly, At, PromptGoes, Condensed, Agents
<1>25. ASSUME Answer
      PROVE  PromptGoes
  <2>1. agent.at = "answer" /\ InCall /\ prompt' = prompt
    BY <1>25 DEF Answer, Telling, At, InCall
  <2>2. CASE agent' = Over("done")
    BY <2>1, <2>2 DEF PromptGoes, Condensed, Over, NewRun
  <2>3. CASE agent' = NextCall
    BY <2>1, <2>3, <1>x
  <2>. QED
    BY <1>25, <2>2, <2>3 DEF Answer, Telling
<1>26. ASSUME RecordsClash
      PROVE  PromptGoes
  BY <1>26, <1>0 DEF RecordsClash, At, Over, NewRun, PromptGoes, Condensed,
      Agents
<1>27. ASSUME EndStray
      PROVE  PromptGoes
  BY <1>27, <1>0 DEF EndStray, Event, PromptGoes, Condensed, Agents
<1>28. ASSUME NEW c \in Clients, ReadRow(c)
      PROVE  PromptGoes
  BY <1>28, <1>0 DEF ReadRow, PromptGoes, Condensed, Agents
<1>29. ASSUME NEW c \in Clients, AppendInstruction(c)
      PROVE  PromptGoes
  BY <1>29, <1>0 DEF AppendInstruction, PromptGoes, Condensed, Agents
<1>30. ASSUME NEW c \in Clients, TellInstruction(c)
      PROVE  PromptGoes
  BY <1>30, <1>0 DEF TellInstruction, Event, PromptGoes, Condensed, Agents
<1>31. ASSUME UNCHANGED vars
      PROVE  PromptGoes
  BY <1>31, <1>0 DEF vars, PromptGoes, Condensed, Agents
<1>. QED
  BY <1>1, <1>2, <1>3, <1>4, <1>5, <1>6, <1>7, <1>8, <1>9, <1>10, <1>11,
      <1>12, <1>13, <1>14, <1>15, <1>16, <1>17, <1>18, <1>19, <1>20, <1>21,
      <1>22, <1>23, <1>24, <1>25, <1>26, <1>27, <1>28, <1>29, <1>30, <1>31 DEF
      Next, Step

LEMMA MarkAfter ==
  ASSUME TypeInv, MaybeCompact
  PROVE  /\ row'.through \in Nat
         /\ row.through <= row'.through
         /\ row'.through # row.through => Last >= Threshold
         /\ \/ Last < Threshold /\ row'.through = row.through
            \/ row'.through + Recent >= Last
<1>1. /\ row.through \in Nat /\ row \in Rows /\ Last \in Nat
      /\ Recent \in Nat /\ Threshold \in Nat
  BY BoundsAssumption DEF TypeInv, AgentTypeOK, Rows, Last
<1>2. CASE row' = row /\ (Last < Threshold \/ Last - Recent <= row.through)
  BY <1>1, <1>2
<1>3. CASE /\ Last >= Threshold
           /\ row.through < Last - Recent
           /\ Last - Recent \in 1..Last
           /\ \E text \in Tails(Longer(Last - Recent)) :
                row' = [row EXCEPT !.through = Last - Recent, !.summary = text]
  <2>1. row'.through = Last - Recent
    BY <1>1, <1>3 DEF Rows
  <2>. QED
    BY <1>1, <1>3, <2>1
<1>. QED
  BY <1>2, <1>3, CompactEffect DEF TypeInv

LEMMA ThroughGrows ==
  ASSUME TypeInv, [Next]_vars
  PROVE  /\ row.through \in Nat /\ row'.through \in Nat
         /\ row.through <= row'.through
         /\ row'.through # row.through => Last >= Threshold
<1>1. /\ row.through \in Nat /\ row' \in Rows /\ row \in Rows /\ Len(history) \in Nat
  BY RowStep DEF TypeInv, RowTyped, AgentTypeOK, Rows
<1>2. CASE SummaryKept
  BY <1>1, <1>2 DEF SummaryKept
<1>3. CASE MaybeCompact
  BY <1>1, <1>3, MarkAfter
<1>. QED
  BY <1>2, <1>3, SummaryChanges

LEMMA OverlapStep ==
  ASSUME TypeInv, Overlapping, [Next]_vars
  PROVE  Overlapping'
<1>1. /\ Len(history) \in Nat /\ Len(history') \in Nat /\ Len(history) <= Len(history')
      /\ Offered \subseteq Nat
      /\ row.through <= Len(history)
      /\ Threshold \in Nat /\ Recent \in Nat
  BY HistoryStep, BoundsAssumption DEF TypeInv, AgentTypeOK, Grows, Offered
<1>2. (row.through > 0 => Len(history) >= Threshold)'
  BY <1>1, ThroughGrows DEF Overlapping, Last
<1>3. CASE BuildMessages
  <2>1. /\ Offered' = Told \cup (Floor + 1)..Last
        /\ history' = history /\ row' = row
    BY <1>3, BuildsOf DEF Offered
  <2>2. agent'.at = "model"
    BY <1>3 DEF BuildMessages, To, TypeInv, Position, Agents
  <2>3. /\ Floor \in Nat
        /\ Floor = row.through \/ Floor + Recent = Last
        /\ Floor >= row.through
    BY <1>1, ThroughGrows DEF Floor, Last
  <2>4. \A m \in Offered' : m <= Len(history)
    BY <1>1, <2>1, <2>3, ThroughGrows DEF TypeInv, Bounded, Upto, Told, Last
  <2>5. \A n \in 1..Len(history) :
          n > row.through /\ n + Recent > Len(history) => n \in Offered'
    BY <1>1, <2>1, <2>3, ThroughGrows DEF Last
  <2>6. (\E l \in 0..Len(history) : EndsWith(l))'
    <3>1. PICK l \in Nat : l = Len(history)
      BY <1>1
    <3>2. EndsWith(l)'
      BY <2>1, <2>4, <2>5, <3>1 DEF EndsWith
    <3>3. l \in 0..Len(history')
      BY <2>1, <3>1
    <3>. QED
      BY <3>2, <3>3
  <2>. QED
    BY <1>2, <2>2, <2>6 DEF Overlapping, Condensed
<1>4. ASSUME prompt' = prompt
      PROVE  (\E l \in 0..Len(history) : EndsWith(l))'
  <2>1. PICK l \in 0..Len(history) : EndsWith(l)
    BY DEF Overlapping
  <2>2. EndsWith(l)'
    BY <1>1, <1>4, <2>1, ThroughGrows DEF EndsWith, Offered
  <2>3. l \in 0..Len(history')
    BY <1>1
  <2>. QED
    BY <2>2, <2>3
<1>5. CASE prompt' = prompt /\ SummaryKept /\ (Condensed' => Condensed)
  <2>1. CaughtUp => CaughtUp'
    BY <1>5 DEF CaughtUp, Offered, SummaryKept
  <2>. QED
    BY <1>2, <1>4, <1>5, <2>1 DEF Overlapping, SummaryKept
<1>6. CASE MaybeCompact
  <2>1. prompt' = prompt /\ Offered' = Offered /\ history' = history
    BY <1>6, CompactEffect DEF TypeInv, Offered
  <2>2. PICK l \in 0..Len(history) : EndsWith(l)
    BY DEF Overlapping
  <2>3. row'.through > 0 => row'.through + Recent >= Len(history)
    BY <1>1, <1>6, MarkAfter, ThroughGrows DEF Overlapping, Last
  <2>4. row'.through > 0 => CaughtUp'
    BY <1>1, <2>1, <2>2, <2>3, ThroughGrows DEF CaughtUp, EndsWith
  <2>. QED
    BY <1>2, <1>4, <2>1, <2>4 DEF Overlapping
<1>. QED
  BY <1>3, <1>5, <1>6, PromptChanges, SummaryChanges DEF PromptGoes

\* Once anything has been condensed, what one prompt misses for the window is
\* in the next, unless it was elided or is cut off the summary.
THEOREM NothingMissedTwice == Spec => MissedOnceOnly
<1>1. Init => Overlapping
  <2> SUFFICES ASSUME Init PROVE Overlapping
    OBVIOUS
  <2>1. Offered = {} /\ history = <<>> /\ row.through = 0
    BY DEF Init, Offered
  <2>2. EndsWith(0) /\ 0 \in 0..Len(history) /\ ~(row.through > 0)
    BY <2>1 DEF EndsWith
  <2>. QED
    BY <2>2 DEF Overlapping
<1>2. TypeInv /\ Overlapping /\ [Next]_vars => Overlapping'
  BY OverlapStep
<1>3. TypeInv /\ Overlapping /\ SummaryInv /\ [Next]_vars =>
        [BuildMessages /\ row.through > 0 =>
           Missing(prompt) \cap Missing(prompt') \subseteq
             prompt.elided \cup prompt'.elided \cup Forgotten]_vars
  <2> SUFFICES ASSUME TypeInv, Overlapping, SummaryInv, BuildMessages,
                      row.through > 0, NEW n \in Missing(prompt),
                      n \in Missing(prompt'), n \notin prompt.elided,
                      n \notin prompt'.elided
               PROVE  n \in Forgotten
    OBVIOUS
  <2>1. /\ n \in DOMAIN history /\ Relevant(history[n])
        /\ n \notin Offered /\ n \notin Offered'
        /\ \E m \in Offered : m > n
    BY DEF Missing, Offered
  <2>2. n \in Nat /\ n > 0 /\ Offered \subseteq Nat /\ row.through \in Nat
    BY <2>1 DEF TypeInv, AgentTypeOK, Rows, Offered
  <2>3. CaughtUp
    BY DEF Overlapping, Condensed, BuildMessages, At
  <2>4. n \in 1..row.through
    BY <2>1, <2>2, <2>3 DEF CaughtUp
  <2>5. n \notin Told
    BY <2>1, BuildsOf DEF Offered
  <2>6. \A m \in Told : n < m
    BY <2>1, <2>4, <2>5 DEF SummaryInv, SummaryIsExact
  <2>. QED
    BY <2>4, <2>6 DEF Forgotten
<1>. QED
  BY <1>1, <1>2, <1>3, TypeCorrect, SummaryCorrect, PTL DEF Spec, MissedOnceOnly
-----------------------------------------------------------------------------
(***************************************************************************)
(* Calls and their answers.                                                *)
(***************************************************************************)
Working == agent.at \notin Resting

\* The model has not asked for anything in this step that is announced.
Unannounced == BeforeTurn \/ agent.at = "say"

\* The calls of this step that have been answered.
Settled ==
  {i \in DOMAIN agent.turn :
     \/ agent.at = "gather" /\ i \notin agent.flight
     \/ InCall /\ i < agent.next
     \/ agent.at = "checkpointed" /\ i = agent.next}

One(id) == \E n \in Nat : Answers(id) = {n}

\* No event is of a later run or step; strays are of earlier runs.
IdsPast ==
  /\ \A n \in DOMAIN history :
       /\ history[n].id[1] <= runs
       /\ Working /\ history[n].id[1] = runs => history[n].id[2] <= agent.step
  /\ \A s \in strays : s[2][1] <= runs /\ (Working => s[2][1] < runs)

\* In this step the settled calls have one answer and the others none.
AnswersInStep ==
  Working => \A id \in CallIds : id[1] = runs /\ id[2] = agent.step =>
    /\ id[3] \in Settled => One(id)
    /\ id[3] \notin Settled => Answers(id) = {}

\* What is announced belongs to the turn of this step, or has its answer.
AnnouncedBefore ==
  Working => \A n \in DOMAIN history, id \in CallIds :
    history[n].type = "announced" /\ history[n].id = id /\ id[1] = runs =>
      \/ id[2] < agent.step /\ One(id)
      \/ id[2] = agent.step /\ id[3] \in DOMAIN agent.turn /\ ~Unannounced

CallsInv == IdsPast /\ AnswersInStep /\ AnnouncedBefore

LEMMA IdIs ==
  ASSUME Position, NEW i \in Nat, NEW id \in CallIds
  PROVE  /\ Id(i)[1] = runs /\ Id(i)[2] = agent.step /\ Id(i)[3] = i
         /\ id = Id(i) <=> id[1] = runs /\ id[2] = agent.step /\ id[3] = i
BY DEF Id, CallIds

LEMMA IdsTyped ==
  ASSUME TypeInv
  PROVE  /\ history \in Seq(Events) /\ runs \in Nat /\ agent.step \in Nat
         /\ DOMAIN history = 1..Len(history) /\ Len(history) \in Nat
         /\ \A n \in DOMAIN history : history[n].id \in CallIds
         /\ \A id \in CallIds : id[1] \in Nat /\ id[2] \in Nat
<1>1. history \in Seq(Events) /\ agent \in Agents /\ runs \in Nat
  BY DEF TypeInv, AgentTypeOK, Position
<1>2. \A n \in DOMAIN history : history[n] \in Events
  BY <1>1
<1>3. \A e \in Events : e.id \in CallIds
  BY DEF Events
<1>4. \A id \in CallIds : id[1] \in Nat /\ id[2] \in Nat
  BY DEF CallIds
<1>5. agent.step \in Nat
  BY <1>1, BoundsAssumption DEF Agents
<1>. QED
  BY <1>1, <1>2, <1>3, <1>4, <1>5

LEMMA AnswersAfter ==
  ASSUME history \in Seq(Events), NEW e \in Events, history' = Append(history, e),
         NEW id \in CallIds
  PROVE  /\ id = e.id /\ e.type \in {"completed", "failed"} =>
              Answers(id)' = Answers(id) \cup {Len(history) + 1}
         /\ id # e.id \/ e.type \notin {"completed", "failed"} =>
              Answers(id)' = Answers(id)
<1>1. /\ DOMAIN history = 1..Len(history) /\ Len(history) \in Nat
      /\ DOMAIN history' = 1..(Len(history) + 1)
      /\ \A n \in 1..Len(history) : history'[n] = history[n]
      /\ history'[Len(history) + 1] = e
  BY Appended
<1>2. DOMAIN history' = DOMAIN history \cup {Len(history) + 1}
  BY <1>1
<1>3. Answers(id)' = {n \in DOMAIN history' :
        history'[n].id = id /\ history'[n].type \in {"completed", "failed"}}
  BY DEF Answers
<1>. QED
  BY <1>1, <1>2, <1>3 DEF Answers

\* What a step that appends nothing, another's event or an answer does.
LEMMA NothingTold ==
  ASSUME TypeInv, CallsInv, UNCHANGED <<history, runs>>, strays' \subseteq strays,
         Working' => /\ Working
                     /\ agent'.step = agent.step
                     /\ Settled' = Settled
                     /\ \/ Unannounced
                        \/ agent'.turn = agent.turn /\ ~Unannounced'
  PROVE  CallsInv'
<1>1. \A id : Answers(id)' = Answers(id)
  BY DEF Answers
<1>2. \A id : One(id) => One(id)'
  BY <1>1 DEF One
<1>3. IdsPast'
  BY DEF CallsInv, IdsPast
<1>4. AnswersInStep'
  BY <1>1, <1>2 DEF CallsInv, AnswersInStep
<1>5. AnnouncedBefore'
  BY <1>1, <1>2 DEF CallsInv, AnnouncedBefore
<1>. QED
  BY <1>3, <1>4, <1>5 DEF CallsInv

LEMMA OtherTold ==
  ASSUME TypeInv, CallsInv, UNCHANGED runs, strays' \subseteq strays,
         NEW e \in Events, history' = Append(history, e),
         e.type # "announced", e.id[1] <= runs, Working => e.id[1] < runs,
         Working' => /\ Working
                     /\ agent'.step = agent.step
                     /\ Settled' = Settled
                     /\ \/ Unannounced
                        \/ agent'.turn = agent.turn /\ ~Unannounced'
  PROVE  CallsInv'
<1>a. /\ history \in Seq(Events) /\ runs \in Nat /\ agent.step \in Nat
      /\ \A n \in DOMAIN history : history[n].id \in CallIds
      /\ \A id \in CallIds : id[1] \in Nat /\ id[2] \in Nat
      /\ \A f \in Events : f.id \in CallIds
  BY IdsTyped DEF Events
<1>b. /\ DOMAIN history = 1..Len(history) /\ Len(history) \in Nat
      /\ DOMAIN history' = 1..(Len(history) + 1)
      /\ \A n \in 1..Len(history) : history'[n] = history[n]
      /\ history'[Len(history) + 1] = e
  BY <1>a, Appended
<1>1. Working => \A id \in CallIds : id[1] = runs => Answers(id)' = Answers(id)
  BY <1>a, AnswersAfter
<1>2. Working => \A id \in CallIds : id[1] = runs /\ One(id) => One(id)'
  BY <1>1 DEF One
<1>3. IdsPast'
  <2>1. ASSUME NEW n \in DOMAIN history'
        PROVE  /\ history'[n].id[1] <= runs
               /\ Working' /\ history'[n].id[1] = runs =>
                    history'[n].id[2] <= agent'.step
    <3>1. CASE n \in DOMAIN history
      BY <1>b, <3>1 DEF CallsInv, IdsPast
    <3>2. CASE n = Len(history) + 1
      BY <1>a, <1>b, <3>2
    <3>. QED
      BY <1>b, <3>1, <3>2
  <2>2. \A s \in strays' : s[2][1] <= runs /\ (Working' => s[2][1] < runs)
    BY DEF CallsInv, IdsPast
  <2>. QED
    BY <2>1, <2>2 DEF IdsPast
<1>4. AnswersInStep'
  BY <1>1, <1>2 DEF CallsInv, AnswersInStep
<1>5. AnnouncedBefore'
  <2> SUFFICES ASSUME NEW n \in DOMAIN history', NEW id \in CallIds, Working',
                      history'[n].type = "announced",
                      history'[n].id = id, id[1] = runs
               PROVE  \/ id[2] < agent'.step /\ One(id)'
                      \/ /\ id[2] = agent'.step
                         /\ id[3] \in DOMAIN agent'.turn
                         /\ ~Unannounced'
    BY DEF AnnouncedBefore
  <2>1. n \in DOMAIN history /\ history'[n] = history[n]
    BY <1>b
  <2>. QED
    BY <1>2, <2>1 DEF CallsInv, AnnouncedBefore
<1>. QED
  BY <1>3, <1>4, <1>5 DEF CallsInv

LEMMA AnnouncedOne ==
  ASSUME TypeInv, TypeInv', CallsInv, Announce
  PROVE  CallsInv'
<1> DEFINE e == Event("announced", Call, Id(agent.next))
<1>1. /\ history \in Seq(Events) /\ runs \in Nat /\ agent.step \in Nat
      /\ \A n \in DOMAIN history : history[n].id \in CallIds
      /\ \A id \in CallIds : id[1] \in Nat /\ id[2] \in Nat
      /\ Position
      /\ agent.at = "announce" /\ agent.next \in DOMAIN agent.turn /\ agent.next \in Nat
  BY IdsTyped DEF TypeInv, Position, Announce, At, Agents
<1>2. e \in Events /\ history' = Append(history, e) /\ runs' = runs /\ strays' = strays
  BY <1>1, CallTyped, IdTyped, EventsTyped DEF Announce, Telling, EventTypes
<1>3. /\ agent'.at \in {"announce", "turn"} /\ agent'.step = agent.step
      /\ agent'.turn = agent.turn
  BY <1>1 DEF Announce, Telling, Position, Agents
<1>4. /\ Working /\ Working' /\ ~Unannounced /\ ~Unannounced'
      /\ Settled = {} /\ Settled' = {}
  BY <1>1, <1>3 DEF Working, Resting, Unannounced, BeforeTurn, Settled, InCall
<1>5. /\ e.id[1] = runs /\ e.id[2] = agent.step /\ e.id[3] = agent.next
      /\ e.type = "announced" /\ e.id \in CallIds
  BY <1>1, IdIs, IdTyped DEF Event
<1> HIDE DEF e
<1>6. /\ DOMAIN history = 1..Len(history) /\ Len(history) \in Nat
      /\ DOMAIN history' = 1..(Len(history) + 1)
      /\ \A n \in 1..Len(history) : history'[n] = history[n]
      /\ history'[Len(history) + 1] = e
  BY <1>1, <1>2, Appended
<1>7. \A id \in CallIds : Answers(id)' = Answers(id)
  BY <1>1, <1>2, <1>5, AnswersAfter
<1>8. \A id \in CallIds : One(id) => One(id)'
  BY <1>7 DEF One
<1>9. IdsPast'
  BY <1>1, <1>2, <1>3, <1>4, <1>5, <1>6 DEF CallsInv, IdsPast, TypeInv, Agents
<1>10. AnswersInStep'
  BY <1>2, <1>3, <1>4, <1>7 DEF CallsInv, AnswersInStep
<1>11. AnnouncedBefore'
  BY <1>1, <1>2, <1>3, <1>4, <1>5, <1>6, <1>8 DEF CallsInv, AnnouncedBefore
<1>. QED
  BY <1>9, <1>10, <1>11 DEF CallsInv

\* An answer, and the step goes on, or is over, or the run is.
LEMMA AnsweredOne ==
  ASSUME TypeInv, CallsInv, UNCHANGED <<runs, strays>>,
         Working, ~Unannounced,
         NEW i \in DOMAIN agent.turn, i \notin Settled,
         NEW e \in Events, history' = Append(history, e),
         e.type \in {"completed", "failed"}, e.id = Id(i),
         \/ /\ agent'.step = agent.step /\ agent'.turn = agent.turn
            /\ Settled' = Settled \cup {i} /\ ~Unannounced'
         \/ /\ agent'.step = agent.step + 1 /\ Unannounced' /\ Settled' = {}
            /\ Settled \cup {i} = DOMAIN agent.turn
         \/ ~Working'
  PROVE  CallsInv'
<1>1. /\ history \in Seq(Events) /\ runs \in Nat /\ agent.step \in Nat
      /\ \A n \in DOMAIN history : history[n].id \in CallIds
      /\ \A id \in CallIds : id[1] \in Nat /\ id[2] \in Nat
      /\ Position
      /\ i \in Nat
      /\ e.id \in CallIds
  BY IdsTyped DEF TypeInv, Position, Events, Agents
<1>2. /\ e.id[1] = runs /\ e.id[2] = agent.step /\ e.id[3] = i
      /\ \A id \in CallIds :
           id = e.id <=> id[1] = runs /\ id[2] = agent.step /\ id[3] = i
  BY <1>1, IdIs
<1>3. /\ DOMAIN history = 1..Len(history) /\ Len(history) \in Nat
      /\ DOMAIN history' = 1..(Len(history) + 1)
      /\ \A n \in 1..Len(history) : history'[n] = history[n]
      /\ history'[Len(history) + 1] = e
  BY <1>1, Appended
<1>4. \A id \in CallIds : id # e.id => Answers(id)' = Answers(id)
  BY <1>1, AnswersAfter
<1>5. \A id \in CallIds : id # e.id /\ One(id) => One(id)'
  BY <1>4 DEF One
<1>6. One(e.id)'
  <2>1. PICK id \in CallIds : id = e.id
    BY <1>1
  <2>2. Answers(id) = {}
    BY <1>2, <2>1 DEF CallsInv, AnswersInStep
  <2>3. PICK l \in Nat : l = Len(history) + 1
    BY <1>3
  <2>4. Answers(id)' = {l}
    BY <1>1, <2>1, <2>2, <2>3, AnswersAfter
  <2>5. One(id)'
    BY <2>4 DEF One
  <2>. QED
    BY <2>1, <2>5
<1>7. CASE ~Working'
  BY <1>1, <1>2, <1>3, <1>7 DEF CallsInv, IdsPast, AnswersInStep, AnnouncedBefore
<1>8. CASE /\ agent'.step = agent.step /\ agent'.turn = agent.turn
           /\ Settled' = Settled \cup {i} /\ ~Unannounced'
  <2>1. IdsPast'
    BY <1>1, <1>2, <1>3, <1>8 DEF CallsInv, IdsPast
  <2>2. AnswersInStep'
    BY <1>2, <1>4, <1>5, <1>6, <1>8 DEF CallsInv, AnswersInStep
  <2>3. AnnouncedBefore'
    BY <1>1, <1>2, <1>3, <1>5, <1>8 DEF CallsInv, AnnouncedBefore
  <2>. QED
    BY <2>1, <2>2, <2>3 DEF CallsInv
<1>9. CASE /\ agent'.step = agent.step + 1 /\ Unannounced' /\ Settled' = {}
           /\ Settled \cup {i} = DOMAIN agent.turn
  <2>1. IdsPast'
    BY <1>1, <1>2, <1>3, <1>9 DEF CallsInv, IdsPast
  <2>2. AnswersInStep'
    <3> SUFFICES ASSUME NEW id \in CallIds, id[1] = runs, id[2] = agent.step + 1
                 PROVE  Answers(id)' = {}
      BY <1>9 DEF AnswersInStep
    <3>1. \A n \in DOMAIN history' : history'[n].id # id
      BY <1>1, <1>2, <1>3 DEF CallsInv, IdsPast
    <3>. QED
      BY <3>1 DEF Answers
  <2>3. AnnouncedBefore'
    <3> SUFFICES ASSUME NEW n \in DOMAIN history', NEW id \in CallIds,
                        history'[n].type = "announced",
                        history'[n].id = id, id[1] = runs
                 PROVE  id[2] < agent.step + 1 /\ One(id)'
      BY <1>9 DEF AnnouncedBefore
    <3>1. n \in DOMAIN history /\ history'[n] = history[n]
      BY <1>3
    <3>2. history[n].id = id
      BY <3>1
    <3>3. id[2] <= agent.step
      BY <1>1, <3>1, <3>2 DEF CallsInv, IdsPast
    <3>4. CASE id[2] < agent.step
      <4>1. One(id)
        BY <1>1, <3>1, <3>2, <3>4 DEF CallsInv, AnnouncedBefore
      <4>2. One(id)'
        BY <1>1, <1>2, <1>5, <3>4, <4>1
      <4>. QED
        BY <1>1, <3>4, <4>2
    <3>5. CASE id[2] = agent.step
      <4>1. id[3] \in Settled \cup {i}
        BY <1>1, <1>9, <3>1, <3>2, <3>5 DEF CallsInv, AnnouncedBefore
      <4>2. One(id)'
        BY <1>2, <1>5, <1>6, <3>3, <3>5, <4>1 DEF CallsInv, AnswersInStep
      <4>. QED
        BY <1>1, <3>5, <4>2
    <3>. QED
      BY <1>1, <3>3, <3>4, <3>5
  <2>. QED
    BY <2>1, <2>2, <2>3 DEF CallsInv
<1>. QED
  BY <1>7, <1>8, <1>9

\* The step is over without an answer being due.
LEMMA StepOver ==
  ASSUME TypeInv, CallsInv, UNCHANGED <<runs, strays>>, Working,
         NEW e \in Events, history' = Append(history, e), e.id = NoCall,
         e.type # "announced",
         Unannounced \/ Settled = DOMAIN agent.turn,
         \/ agent'.step = agent.step + 1 /\ Unannounced' /\ Settled' = {}
         \/ ~Working'
  PROVE  CallsInv'
<1>1. /\ history \in Seq(Events) /\ runs \in Nat /\ agent.step \in Nat
      /\ \A n \in DOMAIN history : history[n].id \in CallIds
      /\ \A id \in CallIds : id[1] \in Nat /\ id[2] \in Nat
      /\ runs > 0
      /\ e.id \in CallIds /\ e.id[1] = 0
  BY IdsTyped, NoCallTyped DEF TypeInv, Position, NoCall, Working
<1>3. /\ DOMAIN history = 1..Len(history) /\ Len(history) \in Nat
      /\ DOMAIN history' = 1..(Len(history) + 1)
      /\ \A n \in 1..Len(history) : history'[n] = history[n]
      /\ history'[Len(history) + 1] = e
  BY <1>1, Appended
<1>4. \A id \in CallIds : id[1] = runs => Answers(id)' = Answers(id)
  BY <1>1, AnswersAfter
<1>5. \A id \in CallIds : id[1] = runs /\ One(id) => One(id)'
  BY <1>4 DEF One
<1>6. CASE ~Working'
  BY <1>1, <1>3, <1>6 DEF CallsInv, IdsPast, AnswersInStep, AnnouncedBefore
<1>7. CASE agent'.step = agent.step + 1 /\ Unannounced' /\ Settled' = {}
  <2>1. IdsPast'
    BY <1>1, <1>3, <1>7 DEF CallsInv, IdsPast
  <2>2. AnswersInStep'
    <3> SUFFICES ASSUME NEW id \in CallIds, id[1] = runs, id[2] = agent.step + 1
                 PROVE  Answers(id)' = {}
      BY <1>7 DEF AnswersInStep
    <3>1. \A n \in DOMAIN history' : history'[n].id # id
      BY <1>1, <1>3 DEF CallsInv, IdsPast
    <3>. QED
      BY <3>1 DEF Answers
  <2>3. AnnouncedBefore'
    <3> SUFFICES ASSUME NEW n \in DOMAIN history', NEW id \in CallIds,
                        history'[n].type = "announced",
                        history'[n].id = id, id[1] = runs
                 PROVE  id[2] < agent.step + 1 /\ One(id)'
      BY <1>7 DEF AnnouncedBefore
    <3>1. n \in DOMAIN history /\ history'[n] = history[n]
      BY <1>3
    <3>2. history[n].id = id
      BY <3>1
    <3>3. id[2] <= agent.step
      BY <1>1, <3>1, <3>2 DEF CallsInv, IdsPast
    <3>4. One(id)
      BY <1>1, <3>1, <3>2, <3>3 DEF CallsInv, AnnouncedBefore, AnswersInStep
    <3>5. One(id)'
      BY <1>5, <3>3, <3>4
    <3>. QED
      BY <1>1, <3>3, <3>5
  <2>. QED
    BY <2>1, <2>2, <2>3 DEF CallsInv
<1>. QED
  BY <1>6, <1>7

\* The events that are no part of a call.
LEMMA NoteTyped ==
  ASSUME TypeInv, NEW e \in Events, e.id = NoCall
  PROVE  e.id[1] <= runs /\ (Working => e.id[1] < runs)
BY DEF TypeInv, Position, NoCall, Working

LEMMA NotesAre ==
  ASSUME NEW of \in Calls \cup Skills \cup Clients \cup {None}
  PROVE  /\ \A type \in EventTypes :
              Note(type) \in Events /\ Note(type).id = NoCall /\ Note(type).type = type
         /\ \A type \in EventTypes :
              /\ Event(type, of, NoCall) \in Events
              /\ Event(type, of, NoCall).id = NoCall
              /\ Event(type, of, NoCall).type = type
BY EventsTyped, NoCallTyped DEF Note, Event

\* The next call, or the next step, once call next is settled.
LEMMA AfterNext ==
  ASSUME TypeInv, InCall, agent' = NextCall
  PROVE  \/ /\ agent.next = Len(agent.turn)
            /\ \/ agent'.step = agent.step + 1 /\ Unannounced' /\ Settled' = {}
               \/ ~Working'
         \/ /\ agent.next < Len(agent.turn)
            /\ agent'.step = agent.step /\ agent'.turn = agent.turn
            /\ ~Unannounced' /\ Working'
            /\ Settled' = {i \in DOMAIN agent.turn : i < agent.next + 1}
<1>1. Position /\ agent \in Agents
  BY DEF TypeInv, Position
<1>2. CASE agent.next = Len(agent.turn) /\ agent' = NextStep
  BY <1>1, <1>2, NextStepEffect
     DEF Unannounced, BeforeTurn, Settled, InCall, Working, Resting
<1>3. CASE /\ agent.next < Len(agent.turn)
           /\ agent' = [agent EXCEPT !.at = "call", !.next = agent.next + 1,
                                     !.flight = {}]
  <2>1. /\ agent'.at = "call" /\ agent'.next = agent.next + 1
        /\ agent'.step = agent.step /\ agent'.turn = agent.turn
    BY <1>1, <1>3 DEF Agents
  <2>. QED
    BY <1>3, <2>1 DEF Unannounced, BeforeTurn, Settled, InCall, Working, Resting
<1>. QED
  BY <1>1, <1>2, <1>3, NextCallEffect

LEMMA CallsStep ==
  ASSUME TypeInv, TypeInv', CallsInv, [Next]_vars
  PROVE  CallsInv'
<1>0. Position /\ agent \in Agents /\ Flight
  BY DEF TypeInv, Position
<1>1. ASSUME Start
      PROVE  CallsInv'
  <2>1. /\ runs' = runs + 1 /\ strays' = strays
        /\ agent'.at = "compact" /\ agent'.step = 1
        /\ Len(history') = Len(history) + 2
        /\ \A n \in 1..Len(history) : history'[n] = history[n]
        /\ history'[Len(history) + 1] = Note("indexed")
        /\ history'[Len(history) + 2] = Note("started")
    BY <1>1, IdsTyped, NotesAre DEF Start, NewRun, EventTypes
  <2>2. /\ DOMAIN history' = 1..(Len(history) + 2)
        /\ DOMAIN history = 1..Len(history) /\ Len(history) \in Nat /\ runs \in Nat
        /\ \A n \in DOMAIN history' : history'[n].id \in CallIds
        /\ \A id \in CallIds : id[1] \in Nat /\ id[2] \in Nat
    <3>1. history' \in Seq(Events)
      BY DEF TypeInv, AgentTypeOK
    <3>2. \A n \in DOMAIN history' : history'[n] \in Events
      BY <3>1
    <3>. QED
      BY <2>1, <3>1, <3>2, IdsTyped DEF Events
  <2>3. \A n \in DOMAIN history' : history'[n].id[1] <= runs
    <3> SUFFICES ASSUME NEW n \in DOMAIN history'
                 PROVE  history'[n].id[1] <= runs
      OBVIOUS
    <3>1. CASE n \in DOMAIN history
      BY <2>1, <2>2, <3>1 DEF CallsInv, IdsPast
    <3>2. CASE n \in {Len(history) + 1, Len(history) + 2}
      BY <2>1, <2>2, <3>2 DEF NoCall, Note, Event
    <3>. QED
      BY <2>2, <3>1, <3>2
  <2>4. \A n \in DOMAIN history' : history'[n].id[1] < runs'
    BY <2>1, <2>2, <2>3
  <2>5. IdsPast'
    <3>1. ASSUME NEW s \in strays' PROVE s[2][1] <= runs' /\ s[2][1] < runs'
      <4>1. s[2][1] <= runs /\ s[2] \in CallIds
        BY <2>1, <3>1 DEF CallsInv, IdsPast, TypeInv, AgentTypeOK
      <4>. QED
        BY <2>1, <2>2, <4>1
    <3>2. ASSUME NEW n \in DOMAIN history'
          PROVE  history'[n].id[1] <= runs' /\ history'[n].id[1] # runs'
      <4>1. history'[n].id[1] \in Nat /\ history'[n].id[1] < runs'
        BY <2>2, <2>4
      <4>. QED
        BY <2>1, <2>2, <4>1
    <3>. QED
      BY <3>1, <3>2 DEF IdsPast
  <2>6. AnswersInStep'
    <3>1. \A id \in CallIds : id[1] = runs' => Answers(id)' = {}
      BY <2>2, <2>4 DEF Answers
    <3>2. Settled' = {}
      BY <2>1 DEF Settled, InCall
    <3>. QED
      BY <3>1, <3>2 DEF AnswersInStep
  <2>7. AnnouncedBefore'
    BY <2>2, <2>4 DEF AnnouncedBefore
  <2>. QED
    BY <2>5, <2>6, <2>7 DEF CallsInv
<1>2. ASSUME Stop
      PROVE  CallsInv'
  <2>1. UNCHANGED <<history, runs>> /\ strays' \subseteq strays
    BY <1>2 DEF Stop, Quietly, Saving, Condense
  <2>2. Working' => /\ Working
                    /\ agent'.step = agent.step
                    /\ Settled' = Settled
                    /\ \/ Unannounced
                       \/ agent'.turn = agent.turn /\ ~Unannounced'
    BY <1>2, <1>0 DEF Stop, Quietly, Over, NewRun, Resting, Working, Resting,
        Unannounced, BeforeTurn, InCall, Settled, Agents, Position
  <2>. QED
    BY <2>1, <2>2, NothingTold
<1>3. ASSUME MaybeCompact
      PROVE  CallsInv'
  <2>1. UNCHANGED <<history, runs>> /\ strays' \subseteq strays
    BY <1>3 DEF MaybeCompact, Quietly, Saving, Condense
  <2>2. Working' => /\ Working
                    /\ agent'.step = agent.step
                    /\ Settled' = Settled
                    /\ \/ Unannounced
                       \/ agent'.turn = agent.turn /\ ~Unannounced'
    BY <1>3, <1>0 DEF MaybeCompact, Condense, Saving, Quietly, To, At, Last,
        Working, Resting, Unannounced, BeforeTurn, InCall, Settled, Agents,
        Position
  <2>. QED
    BY <2>1, <2>2, NothingTold
<1>4. ASSUME TellCompacted
      PROVE  CallsInv'
  <2>1. PICK e \in Events : e = Note("compacted") /\ e.id = NoCall /\ e.type # "announced"
    BY NotesAre DEF EventTypes
  <2>2. history' = Append(history, e) /\ UNCHANGED <<runs, strays>>
    BY <1>4, <2>1 DEF TellCompacted, Telling
  <2>3. Working' => /\ Working
                    /\ agent'.step = agent.step
                    /\ Settled' = Settled
                    /\ \/ Unannounced
                       \/ agent'.turn = agent.turn /\ ~Unannounced'
    BY <1>4, <1>0 DEF TellCompacted, At, Telling, Note, Event, To, Working,
        Resting, Unannounced, BeforeTurn, InCall, Settled, Agents, Position
  <2>. QED
    BY <2>1, <2>2, <2>3, OtherTold, NoteTyped
<1>5. ASSUME TellStep
      PROVE  CallsInv'
  <2>1. PICK e \in Events : e = Note("step") /\ e.id = NoCall /\ e.type # "announced"
    BY NotesAre DEF EventTypes
  <2>2. history' = Append(history, e) /\ UNCHANGED <<runs, strays>>
    BY <1>5, <2>1 DEF TellStep, Telling
  <2>3. Working' => /\ Working
                    /\ agent'.step = agent.step
                    /\ Settled' = Settled
                    /\ \/ Unannounced
                       \/ agent'.turn = agent.turn /\ ~Unannounced'
    BY <1>5, <1>0 DEF TellStep, At, Telling, Note, Event, To, Working, Resting,
        Unannounced, BeforeTurn, InCall, Settled, Agents, Position
  <2>. QED
    BY <2>1, <2>2, <2>3, OtherTold, NoteTyped
<1>6. ASSUME EnsureAutoSkills
      PROVE  CallsInv'
  <2>1. UNCHANGED <<history, runs>> /\ strays' \subseteq strays
    BY <1>6 DEF EnsureAutoSkills, Quietly, Saving, Condense
  <2>2. Working' => /\ Working
                    /\ agent'.step = agent.step
                    /\ Settled' = Settled
                    /\ \/ Unannounced
                       \/ agent'.turn = agent.turn /\ ~Unannounced'
    BY <1>6, <1>0 DEF EnsureAutoSkills, ToSkills, Quietly, At, Working, Resting,
        Unannounced, BeforeTurn, InCall, Settled, Agents, Position
  <2>. QED
    BY <2>1, <2>2, NothingTold
<1>7. ASSUME PassOver
      PROVE  CallsInv'
  <2>1. UNCHANGED <<history, runs>> /\ strays' \subseteq strays
    BY <1>7 DEF PassOver, Quietly, Saving, Condense
  <2>2. Working' => /\ Working
                    /\ agent'.step = agent.step
                    /\ Settled' = Settled
                    /\ \/ Unannounced
                       \/ agent'.turn = agent.turn /\ ~Unannounced'
    BY <1>7, <1>0 DEF PassOver, Quietly, At, Working, Resting, Unannounced,
        BeforeTurn, InCall, Settled, Agents, Position
  <2>. QED
    BY <2>1, <2>2, NothingTold
<1>8. ASSUME Activate
      PROVE  CallsInv'
  <2>1. PICK e \in Events : e = Event("skill", Head(agent.todo), NoCall) /\ e.id = NoCall /\ e.type # "announced"
    <3>1. Head(agent.todo) \in Skills
      BY <1>8, <1>0 DEF Activate, Agents
    <3>. QED
      BY <3>1, NotesAre DEF EventTypes
  <2>2. history' = Append(history, e) /\ UNCHANGED <<runs, strays>>
    BY <1>8, <2>1 DEF Activate, Telling
  <2>3. Working' => /\ Working
                    /\ agent'.step = agent.step
                    /\ Settled' = Settled
                    /\ \/ Unannounced
                       \/ agent'.turn = agent.turn /\ ~Unannounced'
    BY <1>8, <1>0 DEF Activate, Activated, At, Telling, Event, Working, Resting,
        Unannounced, BeforeTurn, InCall, Settled, Agents, Position
  <2>. QED
    BY <2>1, <2>2, <2>3, OtherTold, NoteTyped
<1>9. ASSUME SaveSkills
      PROVE  CallsInv'
  <2>1. UNCHANGED <<history, runs>> /\ strays' \subseteq strays
    BY <1>9 DEF SaveSkills, Quietly, Saving, Condense
  <2>2. Working' => /\ Working
                    /\ agent'.step = agent.step
                    /\ Settled' = Settled
                    /\ \/ Unannounced
                       \/ agent'.turn = agent.turn /\ ~Unannounced'
    BY <1>9, <1>0 DEF SaveSkills, Saving, At, Working, Resting, Unannounced,
        BeforeTurn, InCall, Settled, Agents, Position
  <2>. QED
    BY <2>1, <2>2, NothingTold
<1>10. ASSUME BuildMessages
      PROVE  CallsInv'
  <2>1. UNCHANGED <<history, runs>> /\ strays' \subseteq strays
    BY <1>10 DEF BuildMessages, Quietly, Saving, Condense
  <2>2. Working' => /\ Working
                    /\ agent'.step = agent.step
                    /\ Settled' = Settled
                    /\ \/ Unannounced
                       \/ agent'.turn = agent.turn /\ ~Unannounced'
    BY <1>10, <1>0 DEF BuildMessages, At, To, Working, Resting, Unannounced,
        BeforeTurn, InCall, Settled, Agents, Position
  <2>. QED
    BY <2>1, <2>2, NothingTold
<1>11. ASSUME ModelTurn
      PROVE  CallsInv'
  <2>1. UNCHANGED <<history, runs>> /\ strays' \subseteq strays
    BY <1>11 DEF ModelTurn, Quietly, Saving, Condense
  <2>2. Working' => /\ Working
                    /\ agent'.step = agent.step
                    /\ Settled' = Settled
                    /\ \/ Unannounced
                       \/ agent'.turn = agent.turn /\ ~Unannounced'
    BY <1>11, <1>0 DEF ModelTurn, AfterContent, Quietly, At, Working, Resting,
        Unannounced, BeforeTurn, InCall, Settled, Agents, Position
  <2>. QED
    BY <2>1, <2>2, NothingTold
<1>12. ASSUME Say
      PROVE  CallsInv'
  <2>1. PICK e \in Events : e = Note("message") /\ e.id = NoCall /\ e.type # "announced"
    BY NotesAre DEF EventTypes
  <2>2. history' = Append(history, e) /\ UNCHANGED <<runs, strays>>
    BY <1>12, <2>1 DEF Say, Telling
  <2>3. Working' => /\ Working
                    /\ agent'.step = agent.step
                    /\ Settled' = Settled
                    /\ \/ Unannounced
                       \/ agent'.turn = agent.turn /\ ~Unannounced'
    BY <1>12, <1>0 DEF Say, AfterContent, At, Telling, Note, Event, To, Working,
        Resting, Unannounced, BeforeTurn, InCall, Settled, Agents, Position
  <2>. QED
    BY <2>1, <2>2, <2>3, OtherTold, NoteTyped
<1>13. ASSUME Nudge
      PROVE  CallsInv'
  <2>1. PICK e \in Events : e = Note("message") /\ e.id = NoCall /\ e.type # "announced"
    BY NotesAre DEF EventTypes
  <2>2. /\ history' = Append(history, e) /\ UNCHANGED <<runs, strays>>
        /\ agent.at = "nudge" /\ agent' = NextStep
    BY <1>13, <2>1 DEF Nudge, Telling, At
  <2>3. Working /\ Unannounced
    BY <2>2 DEF Working, Resting, Unannounced, BeforeTurn
  <2>4. \/ agent'.step = agent.step + 1 /\ Unannounced' /\ Settled' = {}
        \/ ~Working'
    BY <1>0, <2>2, NextStepEffect DEF Working, Resting, Unannounced, BeforeTurn, Settled, InCall
  <2>. QED
    BY <2>1, <2>2, <2>3, <2>4, StepOver
<1>14. ASSUME Announce
      PROVE  CallsInv'
  BY <1>14, AnnouncedOne
<1>15. ASSUME ExecuteTurn
      PROVE  CallsInv'
  <2>1. UNCHANGED <<history, runs, strays>> /\ agent.at = "turn" /\ agent.next = 1
    BY <1>15, <1>0 DEF ExecuteTurn, Quietly, At, Position
  <2>2. Settled = {} /\ ~Unannounced /\ Working
    BY <2>1 DEF Working, Resting, Unannounced, BeforeTurn, InCall, Settled
  <2>3. CASE agent' = [agent EXCEPT !.at = "gather", !.flight = DOMAIN agent.turn]
    <3>1. Settled' = {} /\ ~Unannounced' /\ agent'.step = agent.step /\ agent'.turn = agent.turn
      BY <1>0, <2>3 DEF Unannounced, BeforeTurn, InCall, Settled, Agents
    <3>. QED
      BY <2>1, <2>2, <3>1, NothingTold
  <2>4. CASE agent' = [agent EXCEPT !.at = "call"]
    <3>1. agent'.step = agent.step /\ agent'.turn = agent.turn /\ agent'.at = "call"
          /\ agent'.next = 1 /\ DOMAIN agent.turn = 1..Len(agent.turn)
      BY <1>0, <2>1, <2>4 DEF Agents
    <3>2. Settled' = {} /\ ~Unannounced'
      BY <3>1 DEF Unannounced, BeforeTurn, InCall, Settled
    <3>. QED
      BY <2>1, <2>2, <3>1, <3>2, NothingTold
  <2>. QED
    BY <1>15, <2>3, <2>4 DEF ExecuteTurn, Quietly, To
<1>16. ASSUME RecordParallel
      PROVE  CallsInv'
  <2>1. agent.at = "gather" /\ UNCHANGED <<runs, strays>>
    BY <1>16 DEF RecordParallel, Gathered, Telling, At
  <2>2. Working /\ ~Unannounced
    BY <2>1 DEF Working, Resting, Unannounced, BeforeTurn
  <2>3. PICK i \in agent.flight :
          /\ \E r \in Result(agent.turn[i]) :
               history' = Append(history, Event(r, agent.turn[i], Id(i)))
          /\ agent' = IF agent.flight = {i} THEN NextStep
                      ELSE [agent EXCEPT !.flight = agent.flight \ {i}]
    BY <1>16 DEF RecordParallel, Gathered, Telling
  <2>4. i \in DOMAIN agent.turn /\ agent.turn[i] \in Calls /\ Id(i) \in CallIds
    BY <1>0, <2>1, IdTyped DEF Flight, Agents
  <2>5. PICK e \in Events : /\ history' = Append(history, e)
                            /\ e.type \in {"completed", "failed"}
                            /\ e.id = Id(i)
    BY <2>3, <2>4, EventsTyped DEF Event, Result
  <2>6. Settled = DOMAIN agent.turn \ agent.flight
    BY <2>1 DEF Settled, InCall
  <2>7. CASE agent.flight = {i}
    <3>1. Settled \cup {i} = DOMAIN agent.turn
      BY <2>4, <2>6, <2>7
    <3>2. \/ agent'.step = agent.step + 1 /\ Unannounced' /\ Settled' = {}
          \/ ~Working'
      BY <1>0, <2>3, <2>7, NextStepEffect
         DEF Working, Resting, Unannounced, BeforeTurn, Settled, InCall
    <3>. QED
      BY <2>1, <2>2, <2>3, <2>4, <2>5, <2>6, <3>1, <3>2, AnsweredOne
  <2>8. CASE agent.flight # {i}
    <3>1. /\ agent'.at = "gather" /\ agent'.flight = agent.flight \ {i}
          /\ agent'.step = agent.step /\ agent'.turn = agent.turn
      BY <1>0, <2>1, <2>3, <2>8 DEF Agents
    <3>2. Settled' = Settled \cup {i} /\ ~Unannounced'
      BY <2>4, <2>6, <3>1 DEF Settled, InCall, Unannounced, BeforeTurn
    <3>. QED
      BY <2>1, <2>2, <2>3, <2>4, <2>5, <2>6, <3>1, <3>2, AnsweredOne
  <2>. QED
    BY <2>7, <2>8
<1>17. ASSUME CallTool
      PROVE  CallsInv'
  <2>1. UNCHANGED <<history, runs>> /\ strays' \subseteq strays
    BY <1>17 DEF CallTool, Quietly, Saving, Condense
  <2>2. Working' => /\ Working
                    /\ agent'.step = agent.step
                    /\ Settled' = Settled
                    /\ \/ Unannounced
                       \/ agent'.turn = agent.turn /\ ~Unannounced'
    BY <1>17, <1>0 DEF CallTool, Quietly, At, Working, Resting, Unannounced,
        BeforeTurn, InCall, Settled, Agents, Position
  <2>. QED
    BY <2>1, <2>2, NothingTold
<1>18. ASSUME RecordResult
      PROVE  CallsInv'
  <2>1. agent.at = "running" /\ UNCHANGED <<runs, strays>>
    BY <1>18 DEF RecordResult, Telling, At
  <2>2. Working /\ InCall /\ ~Unannounced
    BY <2>1 DEF Working, Resting, InCall, Unannounced, BeforeTurn
  <2>3. Call \in Calls /\ Id(agent.next) \in CallIds
    BY <1>0, <2>2, CallTyped, IdTyped DEF Position, Agents
  <2>4. PICK e \in Events : /\ history' = Append(history, e)
                            /\ e.type \in {"completed", "failed"}
                            /\ e.id = Id(agent.next)
                            /\ \E r : agent' = AfterResult(r)
    BY <1>18, <2>3, EventsTyped DEF RecordResult, Telling, Event, Result
  <2>5. PICK i \in DOMAIN agent.turn : i = agent.next /\ i \in 1..Len(agent.turn) /\ i \in Nat
    BY <1>0, <2>2 DEF Position, Agents
  <2>6. Settled = {k \in DOMAIN agent.turn : k < i}
    BY <2>1, <2>5 DEF Settled, InCall
  <2>7. i \notin Settled /\ DOMAIN agent.turn = 1..Len(agent.turn)
    BY <1>0, <2>5, <2>6 DEF Agents
  <2>8. CASE agent' = NextCall
    <3>1. CASE /\ agent.next = Len(agent.turn)
               /\ \/ agent'.step = agent.step + 1 /\ Unannounced' /\ Settled' = {}
                  \/ ~Working'
      <4>1. Settled \cup {i} = DOMAIN agent.turn
        BY <2>5, <2>6, <2>7, <3>1
      <4>. QED
        BY <2>1, <2>2, <2>4, <2>5, <2>7, <3>1, <4>1, AnsweredOne
    <3>2. CASE /\ agent'.step = agent.step /\ agent'.turn = agent.turn /\ ~Unannounced'
               /\ Settled' = {k \in DOMAIN agent.turn : k < agent.next + 1}
      <4>1. Settled' = Settled \cup {i}
        BY <2>5, <2>6, <2>7, <3>2
      <4>. QED
        BY <2>1, <2>2, <2>4, <2>5, <2>7, <3>2, <4>1, AnsweredOne
    <3>. QED
      BY <2>2, <2>8, <3>1, <3>2, AfterNext
  <2>9. CASE agent' = [agent EXCEPT !.at = "checkpointed", !.flight = {}]
    <3>1. /\ agent'.step = agent.step /\ agent'.turn = agent.turn
          /\ agent'.at = "checkpointed" /\ agent'.next = i
      BY <1>0, <2>5, <2>9 DEF Agents
    <3>2. ~Unannounced' /\ Settled' = Settled \cup {i}
      BY <2>5, <2>6, <3>1 DEF Settled, InCall, Unannounced, BeforeTurn
    <3>. QED
      BY <2>1, <2>2, <2>4, <2>5, <2>7, <3>1, <3>2, AnsweredOne
  <2>. QED
    BY <2>4, <2>8, <2>9 DEF AfterResult
<1>19. ASSUME TellCheckpoint
      PROVE  CallsInv'
  <2>1. PICK e \in Events : e = Note("checkpoint") /\ e.id = NoCall /\ e.type # "announced"
    BY NotesAre DEF EventTypes
  <2>2. /\ history' = Append(history, e) /\ UNCHANGED <<runs, strays>>
        /\ agent.at = "checkpointed" /\ agent' = NextCall
    BY <1>19, <2>1 DEF TellCheckpoint, Telling, At
  <2>3. Working /\ InCall /\ ~Unannounced
    BY <2>2 DEF Working, Resting, InCall, Unannounced, BeforeTurn
  <2>4. /\ agent.next \in 1..Len(agent.turn) /\ DOMAIN agent.turn = 1..Len(agent.turn)
        /\ agent.next \in Nat
    BY <1>0, <2>3 DEF Position, Agents
  <2>5. Settled = {i \in DOMAIN agent.turn : i < agent.next + 1}
    BY <2>2, <2>4 DEF Settled, InCall
  <2>6. CASE /\ agent.next = Len(agent.turn)
             /\ \/ agent'.step = agent.step + 1 /\ Unannounced' /\ Settled' = {}
                \/ ~Working'
    <3>1. Settled = DOMAIN agent.turn
      BY <2>4, <2>5, <2>6
    <3>. QED
      BY <2>1, <2>2, <2>3, <2>6, <3>1, StepOver
  <2>7. CASE /\ agent'.step = agent.step /\ agent'.turn = agent.turn /\ ~Unannounced'
             /\ Settled' = {i \in DOMAIN agent.turn : i < agent.next + 1}
    BY <2>1, <2>2, <2>3, <2>5, <2>7, OtherTold, NoteTyped
  <2>. QED
    BY <2>2, <2>3, <2>6, <2>7, AfterNext
<1>20. ASSUME SetPlan
      PROVE  CallsInv'
  <2>1. UNCHANGED <<history, runs>> /\ strays' \subseteq strays
    BY <1>20 DEF SetPlan, Quietly, Saving, Condense
  <2>2. Working' => /\ Working
                    /\ agent'.step = agent.step
                    /\ Settled' = Settled
                    /\ \/ Unannounced
                       \/ agent'.turn = agent.turn /\ ~Unannounced'
    BY <1>20, <1>0 DEF SetPlan, At, Quietly, To, Working, Resting, Unannounced,
        BeforeTurn, InCall, Settled, Agents, Position
  <2>. QED
    BY <2>1, <2>2, NothingTold
<1>21. ASSUME ReadConstraints
      PROVE  CallsInv'
  <2>1. UNCHANGED <<history, runs>> /\ strays' \subseteq strays
    BY <1>21 DEF ReadConstraints, Quietly, Saving, Condense
  <2>2. Working' => /\ Working
                    /\ agent'.step = agent.step
                    /\ Settled' = Settled
                    /\ \/ Unannounced
                       \/ agent'.turn = agent.turn /\ ~Unannounced'
    BY <1>21, <1>0 DEF ReadConstraints, Quietly, At, Working, Resting,
        Unannounced, BeforeTurn, InCall, Settled, Agents, Position
  <2>. QED
    BY <2>1, <2>2, NothingTold
<1>22. ASSUME RememberConstraint
      PROVE  CallsInv'
  <2>1. UNCHANGED <<history, runs>> /\ strays' \subseteq strays
    BY <1>22 DEF RememberConstraint, Quietly, Saving, Condense
  <2>2. Working' => /\ Working
                    /\ agent'.step = agent.step
                    /\ Settled' = Settled
                    /\ \/ Unannounced
                       \/ agent'.turn = agent.turn /\ ~Unannounced'
    BY <1>22, <1>0 DEF RememberConstraint, Saving, At, Working, Resting,
        Unannounced, BeforeTurn, InCall, Settled, Agents, Position
  <2>. QED
    BY <2>1, <2>2, NothingTold
<1>23. ASSUME ActivateSkill
      PROVE  CallsInv'
  <2>1. UNCHANGED <<history, runs>> /\ strays' \subseteq strays
    BY <1>23 DEF ActivateSkill, Quietly, Saving, Condense
  <2>2. Working' => /\ Working
                    /\ agent'.step = agent.step
                    /\ Settled' = Settled
                    /\ \/ Unannounced
                       \/ agent'.turn = agent.turn /\ ~Unannounced'
    BY <1>23, <1>0 DEF ActivateSkill, ToSkills, Quietly, At, Working, Resting,
        Unannounced, BeforeTurn, InCall, Settled, Agents, Position
  <2>. QED
    BY <2>1, <2>2, NothingTold
<1>24. ASSUME FinishTask
      PROVE  CallsInv'
  <2>1. UNCHANGED <<history, runs>> /\ strays' \subseteq strays
    BY <1>24 DEF FinishTask, Quietly, Saving, Condense
  <2>2. Working' => /\ Working
                    /\ agent'.step = agent.step
                    /\ Settled' = Settled
                    /\ \/ Unannounced
                       \/ agent'.turn = agent.turn /\ ~Unannounced'
    BY <1>24, <1>0 DEF FinishTask, Quietly, At, Working, Resting, Unannounced,
        BeforeTurn, InCall, Settled, Agents, Position
  <2>. QED
    BY <2>1, <2>2, NothingTold
<1>25. ASSUME Answer
      PROVE  CallsInv'
  <2>1. agent.at = "answer" /\ UNCHANGED <<runs, strays>>
    BY <1>25 DEF Answer, Telling, At
  <2>2. Working /\ InCall /\ ~Unannounced
    BY <2>1 DEF Working, Resting, InCall, Unannounced, BeforeTurn
  <2>3. Call \in Calls /\ Id(agent.next) \in CallIds
    BY <1>0, <2>2, CallTyped, IdTyped DEF Position, Agents
  <2>4. PICK e \in Events : /\ history' = Append(history, e)
                            /\ e.type \in {"completed", "failed"}
                            /\ e.id = Id(agent.next)
    <3>1. history' = Append(history, Event("completed", Call, Id(agent.next)))
      BY <1>25 DEF Answer, Telling
    <3>2. Event("completed", Call, Id(agent.next)) \in Events
      BY <2>3, EventsTyped DEF EventTypes
    <3>. QED
      BY <3>1, <3>2 DEF Event
  <2>5. PICK i \in DOMAIN agent.turn : i = agent.next /\ i \in 1..Len(agent.turn) /\ i \in Nat
    BY <1>0, <2>2 DEF Position, Agents
  <2>6. Settled = {k \in DOMAIN agent.turn : k < i}
    BY <2>1, <2>5 DEF Settled, InCall
  <2>7. i \notin Settled /\ DOMAIN agent.turn = 1..Len(agent.turn)
    BY <1>0, <2>5, <2>6 DEF Agents
  <2>8. CASE agent' = NextCall
    <3>1. CASE /\ agent.next = Len(agent.turn)
               /\ \/ agent'.step = agent.step + 1 /\ Unannounced' /\ Settled' = {}
                  \/ ~Working'
      <4>1. Settled \cup {i} = DOMAIN agent.turn
        BY <2>5, <2>6, <2>7, <3>1
      <4>. QED
        BY <2>1, <2>2, <2>4, <2>5, <2>7, <3>1, <4>1, AnsweredOne
    <3>2. CASE /\ agent'.step = agent.step /\ agent'.turn = agent.turn /\ ~Unannounced'
               /\ Settled' = {k \in DOMAIN agent.turn : k < agent.next + 1}
      <4>1. Settled' = Settled \cup {i}
        BY <2>5, <2>6, <2>7, <3>2
      <4>. QED
        BY <2>1, <2>2, <2>4, <2>5, <2>7, <3>2, <4>1, AnsweredOne
    <3>. QED
      BY <2>2, <2>8, <3>1, <3>2, AfterNext
  <2>9. CASE agent' = Over("done")
    <3>1. ~Working'
      BY <2>9 DEF Over, NewRun, Working, Resting
    <3>. QED
      BY <2>1, <2>2, <2>4, <2>5, <2>7, <3>1, AnsweredOne
  <2>. QED
    BY <1>25, <2>8, <2>9 DEF Answer, Telling
<1>26. ASSUME RecordsClash
      PROVE  CallsInv'
  <2>1. UNCHANGED <<history, runs>> /\ ~Working'
    BY <1>26 DEF RecordsClash, Over, NewRun, Working, Resting
  <2>2. \A s \in strays' : s[2][1] <= runs
    <3>1. PICK i \in agent.flight :
            strays' = strays \cup {<<agent.turn[k], Id(k)>> : k \in agent.flight \ {i}}
      BY <1>26 DEF RecordsClash
    <3>2. \A k \in agent.flight : Id(k)[1] = runs
      BY DEF Id
    <3>. QED
      BY <1>0, <3>1, <3>2 DEF CallsInv, IdsPast, Position
  <2>. QED
    BY <2>1, <2>2 DEF CallsInv, IdsPast, AnswersInStep, AnnouncedBefore
<1>27. ASSUME EndStray
      PROVE  CallsInv'
  <2>1. PICK s \in strays :
          /\ strays' = strays \ {s}
          /\ \/ \E r \in Result(s[1]) : history' = Append(history, Event(r, s[1], s[2]))
             \/ UNCHANGED history
    BY <1>27 DEF EndStray
  <2>2. UNCHANGED <<runs, agent>> /\ strays' \subseteq strays
    BY <1>27, <2>1 DEF EndStray
  <2>3. Settled' = Settled /\ (Unannounced' <=> Unannounced) /\ (Working' <=> Working)
    BY <2>2 DEF Settled, Unannounced, Working, BeforeTurn, InCall
  <2>4. CASE UNCHANGED history
    BY <2>2, <2>3, <2>4, NothingTold
  <2>5. ASSUME NEW r \in Result(s[1]), history' = Append(history, Event(r, s[1], s[2]))
        PROVE  CallsInv'
    <3>1. s[1] \in Calls /\ s[2] \in CallIds
      BY DEF TypeInv, AgentTypeOK
    <3>2. PICK e \in Events : /\ history' = Append(history, e)
                              /\ e.type # "announced"
                              /\ e.id = s[2]
      BY <2>5, <3>1, EventsTyped DEF Event, Result
    <3>3. e.id[1] <= runs /\ (Working => e.id[1] < runs)
      BY <3>2 DEF CallsInv, IdsPast
    <3>. QED
      BY <2>2, <2>3, <3>2, <3>3, OtherTold
  <2>. QED
    BY <2>1, <2>4, <2>5
<1>28. ASSUME NEW c \in Clients, ReadRow(c)
      PROVE  CallsInv'
  <2>1. UNCHANGED <<history, runs>> /\ strays' \subseteq strays
    BY <1>28 DEF ReadRow, Quietly, Saving, Condense
  <2>2. Working' => /\ Working
                    /\ agent'.step = agent.step
                    /\ Settled' = Settled
                    /\ \/ Unannounced
                       \/ agent'.turn = agent.turn /\ ~Unannounced'
    BY <1>28, <1>0 DEF ReadRow, Working, Resting, Unannounced, BeforeTurn,
        InCall, Settled, Agents, Position
  <2>. QED
    BY <2>1, <2>2, NothingTold
<1>29. ASSUME NEW c \in Clients, AppendInstruction(c)
      PROVE  CallsInv'
  <2>1. UNCHANGED <<history, runs>> /\ strays' \subseteq strays
    BY <1>29 DEF AppendInstruction, Quietly, Saving, Condense
  <2>2. Working' => /\ Working
                    /\ agent'.step = agent.step
                    /\ Settled' = Settled
                    /\ \/ Unannounced
                       \/ agent'.turn = agent.turn /\ ~Unannounced'
    BY <1>29, <1>0 DEF AppendInstruction, Working, Resting, Unannounced,
        BeforeTurn, InCall, Settled, Agents, Position
  <2>. QED
    BY <2>1, <2>2, NothingTold
<1>30. ASSUME NEW c \in Clients, TellInstruction(c)
      PROVE  CallsInv'
  <2>1. PICK e \in Events : e = Event("user", c, NoCall) /\ e.id = NoCall /\ e.type # "announced"
    BY NotesAre DEF EventTypes
  <2>2. history' = Append(history, e) /\ UNCHANGED <<runs, strays>>
    BY <1>30, <2>1 DEF TellInstruction, Telling
  <2>3. Working' => /\ Working
                    /\ agent'.step = agent.step
                    /\ Settled' = Settled
                    /\ \/ Unannounced
                       \/ agent'.turn = agent.turn /\ ~Unannounced'
    BY <1>30, <1>0 DEF TellInstruction, Event, Working, Resting, Unannounced,
        BeforeTurn, InCall, Settled, Agents, Position
  <2>. QED
    BY <2>1, <2>2, <2>3, OtherTold, NoteTyped
<1>31. ASSUME UNCHANGED vars
      PROVE  CallsInv'
  <2>1. UNCHANGED <<history, runs, agent, strays>>
    BY <1>31 DEF vars
  <2>2. Settled' = Settled /\ (Unannounced' <=> Unannounced) /\ (Working' <=> Working)
    BY <2>1 DEF Settled, Unannounced, Working, BeforeTurn, InCall
  <2>. QED
    BY <2>1, <2>2, NothingTold
<1>. QED
  BY <1>1, <1>2, <1>3, <1>4, <1>5, <1>6, <1>7, <1>8, <1>9, <1>10, <1>11,
      <1>12, <1>13, <1>14, <1>15, <1>16, <1>17, <1>18, <1>19, <1>20, <1>21,
      <1>22, <1>23, <1>24, <1>25, <1>26, <1>27, <1>28, <1>29, <1>30, <1>31 DEF
      Next, Step

\* Whatever was cut off before, when the model is asked each call that was
\* announced in this run has one answer.
THEOREM CallsGetAnswers == Spec => []CallsAreAnswered
<1>1. Init => CallsInv
  BY DEF Init, CallsInv, IdsPast, AnswersInStep, AnnouncedBefore, Working, Over,
     NewRun, Resting
<1>2. TypeInv /\ CallsInv /\ TypeInv' /\ [Next]_vars => CallsInv'
  BY CallsStep
<1>3. TypeInv /\ CallsInv => CallsAreAnswered
  <2> SUFFICES ASSUME TypeInv, CallsInv, agent.at = "model",
                      NEW n \in DOMAIN history,
                      history[n].type = "announced", history[n].id[1] = runs
               PROVE  Cardinality(Answers(history[n].id)) = 1
    BY DEF CallsAreAnswered, At
  <2>1. history[n].id \in CallIds
    BY IdsTyped
  <2>2. Working /\ Unannounced
    BY DEF Working, Resting, Unannounced, BeforeTurn
  <2>3. One(history[n].id)
    BY <2>1, <2>2 DEF CallsInv, AnnouncedBefore
  <2>. QED
    BY <2>3, FS_Singleton DEF One
<1>. QED
  BY <1>1, <1>2, <1>3, TypeCorrect, PTL DEF Spec
=============================================================================
