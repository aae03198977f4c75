----------------------------- MODULE AgentLoop -----------------------------
(***************************************************************************)
(* The coding agent of one task (runtime/agent.py) with its memory         *)
(* (runtime/context.py, SessionRepository) and the clients that send it    *)
(* instructions (Orchestrator.send_instruction).                           *)
(*                                                                         *)
(* Every step of the agent condenses old events into the summary, builds a *)
(* prompt, asks the model and executes the tool calls it asks for.  What   *)
(* happens is appended to the event log, which outlives the run: a retry   *)
(* begins again with the same log and session row.  EventLog has the way   *)
(* an event gets its number; here an append is one step.                   *)
(*                                                                         *)
(* At most one run is active for a task; that this can fail is seen in     *)
(* Orchestrator.  The payloads, the plan and what the tools do to the      *)
(* worktree are left out.  Where a text is cut the choice is free, down to *)
(* what always fits.  The mark of the summary is read by a search for its  *)
(* first occurrence; no text condensed here quotes one.                    *)
(***************************************************************************)
EXTENDS Naturals, Sequences, FiniteSets

CONSTANTS
  Clients,    \* requests that send one instruction each
  Skills,     \* the discovered skills
  Suggested,  \* what auto_activate suggests for the task, a sequence
  Turns,      \* the turns the model may take: content or not, and calls
  None,       \* no subject
  MaxSteps,   \* max_agent_steps
  Recent,     \* context_recent_events
  Threshold,  \* context_compaction_threshold
  Fit,        \* lines of a summary that always fit: 9 of 1,200 in 12,000
  Whole,      \* events that half a prompt always has: 4 of 6,000 in 30,000
  MaxActive,  \* max_active_skills
  Keep,       \* number of constraints that are kept
  MaxRuns,    \* bound: runs of the agent
  MaxOld,     \* bound: length of the log that a run starts with
  MaxSent,    \* bound: length of the log up to which clients act
  MaxElided,  \* bound: events and lines that are elided from a prompt
  Failing     \* bound: the tools that may fail

Reads == {"read", "diff"}
Edits == {"edit", "run", "checkpoint"}
Control == {"plan", "remember", "activate", "finish"}
Calls == Reads \cup Edits \cup Control

ASSUME TurnsAssumption == Turns \subseteq [said : BOOLEAN, calls : Seq(Calls)]

ASSUME ToolsAssumption == Failing \subseteq Calls \ Control

ASSUME SkillsAssumption == IsFiniteSet(Skills) /\ Suggested \in Seq(Skills)

ASSUME BoundsAssumption ==
  /\ {MaxSteps, Recent, Threshold, MaxActive, Keep, MaxRuns, MaxOld} \subseteq Nat
  /\ {Fit, Whole, MaxSent, MaxElided} \subseteq Nat
  /\ MaxSteps > 0
  /\ Keep > 0

VARIABLES
  history,  \* the events of the task
  row,      \* its row of sessions: summary, constraints and skills
  runs,     \* runs begun
  agent,    \* the local variables of the run
  prompt,   \* numbers of the events the last prompt shows, and of those
            \* elided from it
  strays,   \* calls that outlive the run that made them
  client    \* client[c]: the place of c, and the constraints as it read them

vars == <<history, row, runs, agent, prompt, strays, client>>

Resting == {"off", "done"}

Places == Resting \cup
  {"compact", "compacted", "step", "auto", "skill", "build", "model", "say",
   "nudge", "announce", "turn", "gather", "call", "running", "checkpointed",
   "remember", "answer"}

EventTypes == {"indexed", "started", "user", "step", "message", "compacted",
               "skill", "announced", "completed", "failed", "checkpoint"}

\* A call of a turn: the run and the step that made it, and its index.
CallIds == Nat \X Nat \X Nat
NoCall == <<0, 0, 0>>

Events == [type : EventTypes, of : Calls \cup Skills \cup Clients \cup {None},
           id : CallIds]

Constraints == Seq(Clients \cup {None})

\* A line of the summary: the mark under which it was written, its event.
Lines == [by : Nat, of : Nat]

\* The row; through is the mark of the summary, [compacted-through:n].
Rows == [summary : SUBSET Lines, through : Nat, constraints : Constraints,
         skills : SUBSET Skills]

\* next is the call to be announced or executed, flight are those that are
\* executed, todo the skills to be activated, fresh those not yet saved, back
\* the place to go to after that, memo the constraints that have been read.
Agents == [at : Places, step : 1..MaxSteps, turn : Seq(Calls), next : Nat,
           flight : SUBSET Nat, accepted : BOOLEAN, todo : Seq(Skills),
           fresh : SUBSET Skills, back : {"build", "answer"},
           memo : Constraints]

AgentTypeOK ==
  /\ history \in Seq(Events)
  /\ row \in Rows
  /\ row.through <= Len(history)
  /\ Len(row.constraints) <= Keep
  /\ Cardinality(row.skills) <= MaxActive
  /\ runs \in 0..MaxRuns
  /\ agent \in Agents
  /\ agent.flight \subseteq DOMAIN agent.turn
  /\ agent.at \in Resting => agent.turn = <<>> /\ agent.memo = <<>>
  /\ prompt \in [shown : SUBSET DOMAIN history, elided : SUBSET DOMAIN history]
  /\ strays \subseteq Calls \X CallIds
  /\ client \in [Clients -> [at : {"idle", "write", "tell", "told"},
                             read : Constraints]]

\* The locals of a run that begins.
NewRun == [at |-> "compact", step |-> 1, turn |-> <<>>, next |-> 1,
           flight |-> {}, accepted |-> FALSE, todo |-> <<>>, fresh |-> {},
           back |-> "build", memo |-> <<>>]

Over(end) == [NewRun EXCEPT !.at = end]

Init ==
  /\ history = <<>>
  /\ row = [summary |-> {}, through |-> 0, constraints |-> <<>>, skills |-> {}]
  /\ runs = 0
  /\ agent = Over("off")
  /\ prompt = [shown |-> {}, elided |-> {}]
  /\ strays = {}
  /\ client = [c \in Clients |-> [at |-> "idle", read |-> <<>>]]

Last == Len(history)

At(p) == agent.at = p
To(p) == [agent EXCEPT !.at = p]

Call == agent.turn[agent.next]

Event(type, of, id) == [type |-> type, of |-> of, id |-> id]

Id(i) == <<runs, agent.step, i>>

\* Steps of the agent that write nothing, append an event, write the row.
Quietly(a) ==
  agent' = a /\ UNCHANGED <<history, row, runs, prompt, strays, client>>

Telling(e, a) ==
  /\ history' = Append(history, e)
  /\ agent' = a
  /\ UNCHANGED <<row, runs, prompt, strays, client>>

Saving(r, a) ==
  /\ row' = r
  /\ agent' = a
  /\ UNCHANGED <<history, runs, prompt, strays, client>>

Note(type) == Event(type, None, NoCall)
Newest(s) == IF Len(s) <= Keep THEN s ELSE Tail(s)
-----------------------------------------------------------------------------
(***************************************************************************)
(* The beginning and the end of a run and of its steps.                    *)
(***************************************************************************)
\* A run, the first or by a retry (also when the publication has failed after
\* a finished run).  The orchestrator has indexed the repositories.
Start ==
  /\ agent.at \in Resting
  /\ runs < MaxRuns
  /\ Last <= MaxOld
  /\ runs' = runs + 1
  /\ history' = history \o <<Note("indexed"), Note("started")>>
  /\ agent' = NewRun
  /\ UNCHANGED <<row, prompt, strays, client>>

\* Deviation: the next run inherits what was to be done.
StopKeepsTurn == agent.at \notin Resting /\ Quietly(To("off"))

(***************************************************************************)
(* The run is cancelled or its process ends, or a call to the database     *)
(* raises, the model for the third time, or a control tool for want of an  *)
(* argument.                                                               *)
(***************************************************************************)
Stop == agent.at \notin Resting /\ Quietly(Over("off"))

\* The next iteration; after the last one, RuntimeError.
NextStep ==
  IF agent.step = MaxSteps THEN Over("off")
  ELSE [NewRun EXCEPT !.step = agent.step + 1]

\* The next call of the turn, or the next step.
NextCall ==
  IF agent.next = Len(agent.turn) THEN NextStep
  ELSE [agent EXCEPT !.at = "call", !.next = @ + 1, !.flight = {}]
-----------------------------------------------------------------------------
(***************************************************************************)
(* maybe_compact.                                                          *)
(***************************************************************************)
\* Events a summary tells of.
Relevant(e) ==
  \/ e.type \in {"user", "message", "failed", "checkpoint", "skill", "indexed"}
  \/ e.type = "completed" /\ e.of \in {"edit", "checkpoint", "diff", "run"}

\* The order of the lines in the text.
Before(k, l) == k.by < l.by \/ (k.by = l.by /\ k.of < l.of)

\* merged[-12_000:], the end of the text.
Tails(text) ==
  {text} \cup {tail \in {{l \in text : ~Before(l, k)} : k \in text} :
                  Cardinality(tail) >= Fit}

NewLines(from, mark) ==
  {[by |-> mark, of |-> n] :
     n \in {m \in (from + 1)..(Last - Recent) : Relevant(history[m])}}

(***************************************************************************)
(* The relevant events after from are appended to the summary, which is    *)
(* cut at its front.  Text and mark are saved together, before the event.  *)
(***************************************************************************)
Condense(due, from, mark) ==
  /\ At("compact")
  /\ IF due
     THEN \E text \in Tails(row.summary \cup NewLines(from, mark)) :
            Saving([row EXCEPT !.through = mark, !.summary = text],
                   To("compacted"))
     ELSE Quietly(To("step"))

\* Deviation: not again until there are as many events to condense.
MaybeCompactRarely ==
  Condense(Last - Recent >= row.through + Threshold, row.through, Last - Recent)

\* Deviation: what has been condensed is condensed again.
MaybeCompactAnew ==
  Condense(Last >= Threshold /\ Last - Recent > row.through, 0, Last - Recent)

MaybeCompact ==
  Condense(Last >= Threshold /\ Last - Recent > row.through,
           row.through, Last - Recent)

TellCompacted == At("compacted") /\ Telling(Note("compacted"), To("step"))

TellStep == At("step") /\ Telling(Note("step"), To("auto"))
-----------------------------------------------------------------------------
(***************************************************************************)
(* _activate_skills, for the suggested skills and for activate_skill.      *)
(***************************************************************************)
ToSkills(requested, back) ==
  [agent EXCEPT !.at = "skill", !.todo = requested, !.back = back]

EnsureAutoSkills == At("auto") /\ Quietly(ToSkills(Suggested, "build"))

\* What is active, saved or not yet.
Active == row.skills \cup agent.fresh
Room == Cardinality(Active) < MaxActive

\* A skill that is active is passed over; without room the others are.
PassOver ==
  /\ At("skill")
  /\ agent.todo # <<>>
  /\ \/ /\ Head(agent.todo) \in Active
        /\ Quietly([agent EXCEPT !.todo = Tail(@)])
     \/ /\ Head(agent.todo) \notin Active
        /\ ~Room
        /\ Quietly([agent EXCEPT !.todo = <<>>])

Activated ==
  [agent EXCEPT !.todo = Tail(@), !.fresh = @ \cup {Head(agent.todo)}]

\* Deviation: no event.
ActivateSilently ==
  At("skill") /\ agent.todo # <<>> /\ Room /\ Quietly(Activated)

Activate ==
  /\ At("skill")
  /\ agent.todo # <<>>
  /\ Head(agent.todo) \notin Active
  /\ Room
  /\ Telling(Event("skill", Head(agent.todo), NoCall), Activated)

SaveSkills ==
  /\ At("skill")
  /\ agent.todo = <<>>
  /\ Saving([row EXCEPT !.skills = @ \cup agent.fresh],
            [agent EXCEPT !.at = agent.back, !.fresh = {}])
-----------------------------------------------------------------------------
(***************************************************************************)
(* build_messages and the turn of the model.                               *)
(***************************************************************************)
Floor == IF row.through + Recent >= Last THEN row.through ELSE Last - Recent

\* The events the summary tells of.
Told == {l.of : l \in row.summary}

\* The middle of a text that is too long, but none of its newest events.
Middles(text) ==
  {middle \in {text \cap (a..b) : a, b \in 1..(Last - Whole)} :
     Cardinality(middle) <= MaxElided}

\* The summary and the events after the floor, with or without the middle.
BuildMessages ==
  /\ At("build")
  /\ LET text == Told \cup (Floor + 1)..Last IN
     \E elided \in {{}} \cup Middles(text) :
       prompt' = [shown |-> text \ elided, elided |-> elided]
  /\ agent' = To("model")
  /\ UNCHANGED <<history, row, runs, strays, client>>

AfterContent(calls) == IF calls = <<>> THEN "nudge" ELSE "announce"

ModelTurn ==
  /\ At("model")
  /\ \E t \in Turns :
       Quietly([agent EXCEPT !.turn = t.calls, !.at =
                  IF t.said THEN "say" ELSE AfterContent(t.calls)])

Say == At("say") /\ Telling(Note("message"), To(AfterContent(agent.turn)))

\* No tool call: the model is told to go on.
Nudge == At("nudge") /\ Telling(Note("message"), NextStep)
-----------------------------------------------------------------------------
(***************************************************************************)
(* _execute_turn_tools.                                                    *)
(***************************************************************************)
\* TOOL_STARTED for every call, before the first is executed.
Announce ==
  /\ At("announce")
  /\ Telling(Event("announced", Call, Id(agent.next)),
             IF agent.next = Len(agent.turn)
             THEN [agent EXCEPT !.at = "turn", !.next = 1]
             ELSE [agent EXCEPT !.next = @ + 1])

\* Deviation: one parallel-safe call is enough.
ParallelBatchAny ==
  Len(agent.turn) > 1 /\ \E i \in DOMAIN agent.turn : agent.turn[i] \in Reads

ParallelBatch ==
  Len(agent.turn) > 1 /\ \A i \in DOMAIN agent.turn : agent.turn[i] \in Reads

ExecuteTurn ==
  /\ At("turn")
  /\ Quietly(IF ParallelBatch
             THEN [agent EXCEPT !.at = "gather", !.flight = DOMAIN agent.turn]
             ELSE To("call"))

\* A tool answers; its exceptions become answers, too.
Result(call) == {"completed"} \cup (IF call \in Failing THEN {"failed"} ELSE {})

\* A call of a parallel batch is over and recorded.
Gathered(i, rest) ==
  \E r \in Result(agent.turn[i]) : Telling(Event(r, agent.turn[i], Id(i)), rest)

\* Deviation: the last result does not wake the agent.
RecordParallelForever ==
  /\ At("gather")
  /\ \E i \in agent.flight : Gathered(i, [agent EXCEPT !.flight = @ \ {i}])

\* gather waits for all.
RecordParallel ==
  /\ At("gather")
  /\ \E i \in agent.flight :
       Gathered(i, IF agent.flight = {i} THEN NextStep
                   ELSE [agent EXCEPT !.flight = @ \ {i}])

(***************************************************************************)
(* Two records overlap in the one AsyncSession, which may refuse the       *)
(* second: gather raises and leaves the other calls to themselves.         *)
(***************************************************************************)
RecordsClash ==
  /\ At("gather")
  /\ Cardinality(agent.flight) > 1
  /\ \E i \in agent.flight :
       strays' = strays \cup
         {<<agent.turn[k], Id(k)>> : k \in agent.flight \ {i}}
  /\ agent' = Over("off")
  /\ UNCHANGED <<history, row, runs, prompt, client>>

\* Such a call is recorded after all, or raises as well.
EndStray ==
  \E s \in strays :
    /\ strays' = strays \ {s}
    /\ \/ \E r \in Result(s[1]) : history' = Append(history, Event(r, s[1], s[2]))
       \/ UNCHANGED history
    /\ UNCHANGED <<row, runs, agent, prompt, client>>

CallTool ==
  /\ At("call")
  /\ Call \notin Control
  /\ Quietly([agent EXCEPT !.at = "running", !.flight = {agent.next}])

AfterResult(r) ==
  IF Call = "checkpoint" /\ r = "completed"
  THEN [agent EXCEPT !.at = "checkpointed", !.flight = {}]
  ELSE NextCall

\* Deviation: only what succeeds is recorded.
RecordResultIfOk ==
  /\ At("running")
  /\ \E r \in Result(Call) :
       IF r = "completed"
       THEN Telling(Event(r, Call, Id(agent.next)), AfterResult(r))
       ELSE Quietly(AfterResult(r))

RecordResult ==
  /\ At("running")
  /\ \E r \in Result(Call) :
       Telling(Event(r, Call, Id(agent.next)), AfterResult(r))

TellCheckpoint == At("checkpointed") /\ Telling(Note("checkpoint"), NextCall)
-----------------------------------------------------------------------------
(***************************************************************************)
(* execute_control_tool.                                                   *)
(***************************************************************************)
SetPlan == At("call") /\ Call = "plan" /\ Quietly(To("answer"))

\* remember_constraint reads the row and writes it back.
ReadConstraints ==
  /\ At("call")
  /\ Call = "remember"
  /\ Quietly([agent EXCEPT !.at = "remember", !.memo = row.constraints])

RememberConstraint ==
  /\ At("remember")
  /\ Saving([row EXCEPT !.constraints = Newest(Append(agent.memo, None))],
            [agent EXCEPT !.at = "answer", !.memo = <<>>])

ActivateSkill ==
  /\ At("call")
  /\ Call = "activate"
  /\ \E k \in Skills : Quietly(ToSkills(<<k>>, "answer"))

\* Deviation: a call that was announced is as good as one that succeeded.
SuccessfulAnnounced ==
  {e.of : e \in {history[n] : n \in {m \in DOMAIN history :
                                       history[m].type = "announced"}}}

Successful ==
  {e.of : e \in {history[n] : n \in {m \in DOMAIN history :
                                       history[m].type = "completed"}}}

\* With a verification, and evidence anywhere in the history.
FinishTask ==
  /\ At("call")
  /\ Call = "finish"
  /\ \E verification \in BOOLEAN :
       Quietly([agent EXCEPT !.at = "answer", !.accepted =
                  verification /\ {"run", "diff"} \subseteq Successful])

\* The answer of a control tool; an accepted finish ends the run.
Answer ==
  /\ At("answer")
  /\ Telling(Event("completed", Call, Id(agent.next)),
             IF agent.accepted THEN Over("done") ELSE NextCall)
-----------------------------------------------------------------------------
(***************************************************************************)
(* send_instruction: the row is read and written back, then the event.     *)
(***************************************************************************)
ReadRow(c) ==
  /\ client[c].at = "idle"
  /\ client' = [client EXCEPT ![c] =
                  [at |-> "write", read |-> row.constraints]]
  /\ UNCHANGED <<history, row, runs, agent, prompt, strays>>

AppendInstruction(c) ==
  /\ client[c].at = "write"
  /\ row' = [row EXCEPT !.constraints = Newest(Append(client[c].read, c))]
  /\ client' = [client EXCEPT ![c] = [at |-> "tell", read |-> <<>>]]
  /\ UNCHANGED <<history, runs, agent, prompt, strays>>

TellInstruction(c) ==
  /\ client[c].at = "tell"
  /\ history' = Append(history, Event("user", c, NoCall))
  /\ client' = [client EXCEPT ![c].at = "told"]
  /\ UNCHANGED <<row, runs, agent, prompt, strays>>
-----------------------------------------------------------------------------
\* What the agent does by itself once it is started.
Step ==
  \/ MaybeCompact \/ TellCompacted \/ TellStep
  \/ EnsureAutoSkills \/ PassOver \/ Activate \/ SaveSkills
  \/ BuildMessages \/ ModelTurn \/ Say \/ Nudge
  \/ Announce \/ ExecuteTurn \/ RecordParallel
  \/ CallTool \/ RecordResult \/ TellCheckpoint
  \/ SetPlan \/ ReadConstraints \/ RememberConstraint \/ ActivateSkill
  \/ FinishTask \/ Answer

Next ==
  \/ Start \/ Stop \/ Step \/ RecordsClash \/ EndStray
  \/ /\ Last <= MaxSent
     /\ \E c \in Clients : ReadRow(c) \/ AppendInstruction(c) \/ TellInstruction(c)

Spec == Init /\ [][Next]_vars

\* Tools, the model and the database answer or raise in bounded time.
FairSpec == Spec /\ WF_vars(Step)
-----------------------------------------------------------------------------
(***************************************************************************)
(* The summary tells of relevant events up to its mark, of each once and   *)
(* of none after it.  Those it does not tell of were cut off its front:    *)
(* they are older than all it tells of, and what is left is as much as     *)
(* always fits.  So over any retry between its steps (context.py:402-481). *)
(***************************************************************************)
SummaryIsExact ==
  LET due == {n \in 1..row.through : Relevant(history[n])} IN
  /\ Told \subseteq due
  /\ \A k, l \in row.summary : k.of = l.of => k = l
  /\ \A n \in due \ Told : \A m \in Told : n < m
  /\ due # Told => Cardinality(row.summary) >= Fit

(***************************************************************************)
(* When the model is asked, every call announced in this run has got       *)
(* exactly one answer (agent.py:118-166).                                  *)
(***************************************************************************)
Answers(id) ==
  {n \in DOMAIN history :
     history[n].id = id /\ history[n].type \in {"completed", "failed"}}

CallsAreAnswered ==
  At("model") =>
    \A n \in DOMAIN history :
      history[n].type = "announced" /\ history[n].id[1] = runs =>
        Cardinality(Answers(history[n].id)) = 1

(***************************************************************************)
(* LLD.md:509: "Mutating tools are never parallelized because two edits    *)
(* racing on one worktree would make results nondeterministic."            *)
(***************************************************************************)
EditsAlone ==
  \A i, j \in agent.flight : agent.turn[i] \in Edits => i = j

(***************************************************************************)
(* README.md:246: finish_task "requires evidence of: a successful          *)
(* run_command; and a successful git_diff", here of the same task and from *)
(* before its acceptance is recorded.                                      *)
(***************************************************************************)
CompletionHasEvidence ==
  At("done") =>
    \E i, j \in 1..(Last - 1) :
      /\ history[i].type = "completed" /\ history[i].of = "run"
      /\ history[j].type = "completed" /\ history[j].of = "diff"

\* Relevant events that are older than the end of prompt p and not in it.
Missing(p) ==
  {n \in DOMAIN history :
     /\ Relevant(history[n])
     /\ n \notin p.shown
     /\ \E m \in p.shown : m > n}

\* Condensed, and cut off since.
Forgotten == {n \in 1..row.through : \A m \in Told : n < m}

(***************************************************************************)
(* Events that come between the summary and the prompt move the window     *)
(* past events the summary does not tell of.  Once anything has been       *)
(* condensed, no relevant event is missing in two prompts on end for that: *)
(* one that is was elided from one of them, or has been in the summary and *)
(* was cut off it as one of the oldest (context.py:394-410, 473, 501-516   *)
(* and 572-584).                                                           *)
(***************************************************************************)
MissedOnceOnly ==
  [][BuildMessages /\ row.through > 0 =>
       Missing(prompt) \cap Missing(prompt') \subseteq
         prompt.elided \cup prompt'.elided \cup Forgotten]_vars

(***************************************************************************)
(* The session row names a skill only when the log tells of it, whatever   *)
(* has become of the run that activated it (context.py:204-226).           *)
(***************************************************************************)
SkillsAreLogged ==
  \A k \in row.skills :
    \E n \in DOMAIN history : history[n].type = "skill" /\ history[n].of = k

(***************************************************************************)
(* A run that is started returns or raises (agent.py:173-223).             *)
(***************************************************************************)
RunEnds == agent.at \notin Resting ~> agent.at \in Resting

(***************************************************************************)
(* README.md:200: "The instruction becomes a durable active constraint in  *)
(* the session".                                                           *)
(***************************************************************************)
InstructionKept ==
  \A c \in Clients :
    client[c].at = "told" =>
      \E i \in DOMAIN row.constraints : row.constraints[i] = c
=============================================================================
