------------------------- MODULE OrchestratorProofs -------------------------
(***************************************************************************)
(* The orchestrator for any processes, workers, clients and tasks: where   *)
(* its coroutines can be, that all it does to the table is what the        *)
(* repository does, and what follows for the table and the event log.      *)
(***************************************************************************)
EXTENDS OrchestratorProperties, TaskRepositoryProofs

\* Where the coroutines are, and with which task.
Control ==
  /\ proc \in [Procs -> {"down", "starting", "up"}]
  /\ at \in [Callers -> WorkerPlaces \cup ClientPlaces]
  /\ \A c \in Callers : at[c] \in PlacesOf(c)
  /\ on \in [Callers -> Tasks \cup {None}]
  /\ \A c \in Callers : on[c] = None <=> at[c] \in Resting
  /\ \A c \in Workers \cup Clients : at[c] # Rest(c) => Up(c)
  /\ \A p \in Procs : at[p] # "idle" => proc[p] = "starting"

\* What waits for them, what workers hold and what has been announced.
Supplies ==
  /\ QueueTypeOK
  /\ backlog \in [Procs -> SUBSET [task : Tasks, cancelling : BOOLEAN]]
  /\ receipt \in [Workers -> Nat]
  /\ outcome \in [Workers -> Outcomes]
  /\ log \in [Tasks -> {EventOf[e] : e \in DOMAIN EventOf} \cup {"none"}]
  /\ spent \in [Nuisances -> Nat]

LEMMA Kinds ==
  /\ \A w \in Workers : /\ w \in Callers /\ w \notin Clients /\ w \notin Procs
                        /\ PlacesOf(w) = WorkerPlaces /\ Rest(w) = "off"
  /\ \A c \in Clients : /\ c \in Callers /\ c \notin Workers /\ c \notin Procs
                        /\ PlacesOf(c) = ClientPlaces /\ Rest(c) = "idle"
  /\ \A p \in Procs : /\ p \in Callers /\ p \notin Workers /\ p \notin Clients
                      /\ PlacesOf(p) = StarterPlaces /\ Rest(p) = "idle"
  /\ \A c \in Callers : c \in Workers \/ c \in Clients \/ c \in Procs
  /\ \A c \in Callers : Home[c] \in Procs
  /\ None \notin Tasks
BY CallersAssumption, HomeAssumption, NoneAssumption DEF PlacesOf, Rest

LEMMA PlacesIncluded ==
  \A c \in Callers : PlacesOf(c) \subseteq WorkerPlaces \cup ClientPlaces
BY Kinds DEF StarterPlaces, ClientPlaces

\* A coroutine at work goes on to another place with the same task.
LEMMA GoesOn ==
  ASSUME Control, NEW c \in Callers, NEW place \in PlacesOf(c),
         at[c] \notin Resting, place \notin Resting,
         at' = [at EXCEPT ![c] = place], UNCHANGED <<on, proc>>
  PROVE  Control'
<1>1. at[c] # Rest(c)
  BY DEF Rest, Resting
<1>2. at' \in [Callers -> WorkerPlaces \cup ClientPlaces]
  BY PlacesIncluded DEF Control
<1>3. \A d \in Callers : at'[d] \in PlacesOf(d)
  BY DEF Control
<1>4. \A d \in Callers : on'[d] = None <=> at'[d] \in Resting
  BY DEF Control
<1>5. \A d \in Workers \cup Clients : at'[d] # Rest(d) => Up(d)'
  BY <1>1, Kinds DEF Control, Up
<1>6. \A p \in Procs : at'[p] # "idle" => proc'[p] = "starting"
  BY <1>1, Kinds DEF Control
<1>7. QED
  BY <1>2, <1>3, <1>4, <1>5, <1>6 DEF Control

\* A coroutine at work comes to rest.
LEMMA ComesToRest ==
  ASSUME Control, NEW c \in Callers, NEW place \in PlacesOf(c),
         at[c] \notin Resting, place \in Resting,
         at' = [at EXCEPT ![c] = place], on' = [on EXCEPT ![c] = None],
         UNCHANGED proc
  PROVE  Control'
<1>1. at[c] # Rest(c)
  BY DEF Rest, Resting
<1>2. at' \in [Callers -> WorkerPlaces \cup ClientPlaces]
  BY PlacesIncluded DEF Control
<1>3. \A d \in Callers : at'[d] \in PlacesOf(d)
  BY DEF Control
<1>4. /\ on' \in [Callers -> Tasks \cup {None}]
      /\ \A d \in Callers : on'[d] = None <=> at'[d] \in Resting
  BY DEF Control
<1>5. \A d \in Workers \cup Clients : at'[d] # Rest(d) => Up(d)'
  BY <1>1, Kinds DEF Control, Up
<1>6. \A p \in Procs : at'[p] # "idle" => proc'[p] = "starting"
  BY <1>1, Kinds DEF Control
<1>7. QED
  BY <1>2, <1>3, <1>4, <1>5, <1>6 DEF Control

\* A coroutine at rest begins work on task t.
LEMMA GoesToWork ==
  ASSUME Control, NEW c \in Callers, NEW place \in PlacesOf(c),
         NEW t \in Tasks,
         place \notin Resting,
         c \in Workers \cup Clients => Up(c),
         c \in Procs => proc[c] = "starting",
         at' = [at EXCEPT ![c] = place], on' = [on EXCEPT ![c] = t],
         UNCHANGED proc
  PROVE  Control'
<1>1. at' \in [Callers -> WorkerPlaces \cup ClientPlaces]
  BY PlacesIncluded DEF Control
<1>2. \A d \in Callers : at'[d] \in PlacesOf(d)
  BY DEF Control
<1>3. /\ on' \in [Callers -> Tasks \cup {None}]
      /\ \A d \in Callers : on'[d] = None <=> at'[d] \in Resting
  BY Kinds DEF Control
<1>4. \A d \in Workers \cup Clients : at'[d] # Rest(d) => Up(d)'
  BY Kinds DEF Control, Up
<1>5. \A p \in Procs : at'[p] # "idle" => proc'[p] = "starting"
  BY Kinds DEF Control
<1>6. QED
  BY <1>1, <1>2, <1>3, <1>4, <1>5 DEF Control

LEMMA Unmoved ==
  ASSUME Control, UNCHANGED <<at, on, proc>>
  PROVE  Control'
BY DEF Control, Up

\* The end of a process leaves its coroutines at rest and without a task.
LEMMA CollapseKeepsControl ==
  ASSUME Control, NEW p \in Procs, Collapse(p)
  PROVE  Control'
<1>1. /\ \A c \in Callers : Home[c] = p => at'[c] = Rest(c) /\ on'[c] = None
      /\ \A c \in Callers : Home[c] # p => at'[c] = at[c] /\ on'[c] = on[c]
      /\ DOMAIN at' = Callers /\ DOMAIN on' = Callers
      /\ at' = [c \in Callers |-> at'[c]] /\ on' = [c \in Callers |-> on'[c]]
  BY DEF Collapse
<1>2. \A c \in Callers : Rest(c) \in PlacesOf(c) /\ Rest(c) \in Resting
  BY Kinds DEF WorkerPlaces, ClientPlaces, StarterPlaces, Resting
<1>3. proc' \in [Procs -> {"down", "starting", "up"}]
  BY DEF Collapse, Control
<1>4. \A c \in Callers : at'[c] \in PlacesOf(c)
  BY <1>1, <1>2 DEF Control
<1>5. at' \in [Callers -> WorkerPlaces \cup ClientPlaces]
  BY <1>1, <1>4, PlacesIncluded
<1>6. on' \in [Callers -> Tasks \cup {None}]
  BY <1>1 DEF Control
<1>7. \A c \in Callers : on'[c] = None <=> at'[c] \in Resting
  BY <1>1, <1>2 DEF Control
<1>8. \A c \in Workers \cup Clients : at'[c] # Rest(c) => Up(c)'
  BY <1>1, Kinds DEF Control, Up, Collapse
<1>9. \A q \in Procs : at'[q] # "idle" => proc'[q] = "starting"
  <2> SUFFICES ASSUME NEW q \in Procs, at'[q] # "idle"
               PROVE  proc'[q] = "starting"
    OBVIOUS
  <2>1. Home[q] = q /\ q \in Callers /\ Rest(q) = "idle"
    BY Kinds, HomeAssumption
  <2>2. q # p
    BY <1>1, <2>1
  <2>3. QED
    BY <1>1, <2>1, <2>2 DEF Control, Collapse
<1>10. QED
  BY <1>3, <1>4, <1>5, <1>6, <1>7, <1>8, <1>9 DEF Control

LEMMA ExceptionKeepsControl ==
  ASSUME Control, NEW w \in Workers, ExceptionInExecution(w)
  PROVE  Control'
<1>1. PICK place \in {"failLoad", "finally", "ended"} :
        at' = [at EXCEPT ![w] = place]
  BY DEF ExceptionInExecution, GoOn, Goto, Finish
<1>2. at[w] \in Body \cup Handlers \cup {"finally"} /\ UNCHANGED <<on, proc>>
  BY DEF ExceptionInExecution, GoOn, Finish, procVars
<1>3. /\ at[w] \notin Resting /\ place \notin Resting
      /\ place \in PlacesOf(w) /\ w \in Callers
  BY <1>2, Kinds
  DEF Body, Handlers, FailHandler, CancelHandler, WorkerPlaces, Resting
<1>4. QED
  BY <1>1, <1>2, <1>3, GoesOn

LEMMA ReturnKeepsControl ==
  ASSUME Control, NEW c \in Callers, c \notin Workers, at[c] # "idle",
         Return(c), UNCHANGED proc
  PROVE  Control'
<1>1. at[c] \in ClientPlaces \cup StarterPlaces
  BY Kinds DEF Control
<1>2. at[c] \notin Resting
  BY <1>1
  DEF ClientPlaces, StarterPlaces, EnqueuePlaces, CancelPlaces, Resting
<1>3. "idle" \in PlacesOf(c) /\ "idle" \in Resting
  BY Kinds DEF ClientPlaces, StarterPlaces, Resting
<1>4. QED
  BY <1>2, <1>3, ComesToRest DEF Return, Goto

LEMMA RaiseKeepsControl ==
  ASSUME Control, NEW c \in Callers, at[c] # "idle", Raise(c)
  PROVE  Control'
<1>1. CASE c \in Workers /\ ExceptionInExecution(c)
  BY <1>1, ExceptionKeepsControl
<1>2. CASE c \in Clients /\ Return(c) /\ Forget({c}) /\ UNCHANGED procVars
  BY <1>2, Kinds, ReturnKeepsControl DEF procVars
<1>3. CASE c \in Procs /\ Collapse(c)
  BY <1>3, CollapseKeepsControl
<1>4. QED
  BY <1>1, <1>2, <1>3 DEF Raise

\* Every place with a transition is followed by one the same coroutine has.
LEMMA AfterCommitPlace ==
  ASSUME NEW c \in Callers, NEW place \in PlacesOf(c),
         place \in DOMAIN Target
  PROVE  /\ place \notin Resting
         /\ Target[place] \in Status
         /\ AfterCommit[place] \in PlacesOf(c) \ Resting
<1>1. place \in {"provision", "run", "complete", "fail", "cancel", "queue",
                 "cancelling", "cancelNow"}
  BY DEF Target
<1>2. place \notin Resting /\ Target[place] \in Status
  BY <1>1 DEF Target, Resting, Status
<1>3. CASE c \in Workers
  <2>1. place \in {"provision", "run", "complete", "fail", "cancel"}
    BY <1>1, <1>3, Kinds
    DEF WorkerPlaces, Body, Handlers, FailHandler, CancelHandler
  <2>2. AfterCommit[place] \in {"environment", "tellStarted",
          "tellCompleted", "tellFailed", "tellCancelled"}
    BY <2>1 DEF AfterCommit
  <2>3. QED
    BY <1>2, <1>3, <2>2, Kinds
    DEF WorkerPlaces, Body, Handlers, FailHandler, CancelHandler, Resting
<1>4. CASE c \notin Workers
  <2>1. PlacesOf(c) \subseteq ClientPlaces /\ CancelPlaces \subseteq PlacesOf(c)
    BY <1>4, Kinds DEF ClientPlaces, StarterPlaces
  <2>2. CASE place = "queue"
    <3>1. c \in Clients
      BY <1>4, <2>2, Kinds DEF StarterPlaces, CancelPlaces
    <3>2. AfterCommit[place] = "tellQueued"
      BY <2>2 DEF AfterCommit
    <3>3. QED
      BY <1>2, <3>1, <3>2, Kinds DEF ClientPlaces, EnqueuePlaces, Resting
  <2>3. CASE place \in {"cancelling", "cancelNow"}
    <3>1. AfterCommit[place] \in {"signal", "tellCancelled"}
      BY <2>3 DEF AfterCommit
    <3>2. QED
      BY <1>2, <2>1, <3>1 DEF CancelPlaces, Resting
  <2>4. QED
    BY <1>1, <2>1, <2>2, <2>3 DEF ClientPlaces, EnqueuePlaces, CancelPlaces
<1>5. QED
  BY <1>3, <1>4

LEMMA InitControl == Init => Control
<1>1. \A c \in Callers : Rest(c) \in PlacesOf(c) /\ Rest(c) \in Resting
  BY Kinds DEF WorkerPlaces, ClientPlaces, StarterPlaces, Resting
<1>2. \A p \in Procs : p \in Callers /\ Rest(p) = "idle"
  BY Kinds
<1>3. \A c \in Workers \cup Clients : c \in Callers
  BY Kinds
<1>4. QED
  BY <1>1, <1>2, <1>3, PlacesIncluded DEF Init, Control

\* The transitions, and the announcements that follow them.
LEMMA CommitKeepsControl ==
  ASSUME Control, NEW c \in Callers, Commit(c)
  PROVE  Control'
<1>1. at[c] \in PlacesOf(c) /\ at[c] \in DOMAIN Target
  BY DEF Control, Commit, Transitioning
<1>2. /\ at[c] \notin Resting
      /\ AfterCommit[at[c]] \in PlacesOf(c) \ Resting
  BY <1>1, AfterCommitPlace
<1>3. at' = [at EXCEPT ![c] = AfterCommit[at[c]]] /\ UNCHANGED <<on, proc>>
  BY DEF Commit, GoOn, Goto, procVars
<1>4. PICK place \in PlacesOf(c) : place = AfterCommit[at[c]]
  BY <1>2
<1>5. QED
  BY <1>2, <1>3, <1>4, GoesOn

LEMMA AnnounceKeepsControl ==
  ASSUME Control, NEW c \in Callers, Announce(c)
  PROVE  Control'
<1>1. at[c] \in DOMAIN EventOf /\ UNCHANGED proc /\ at[c] \in PlacesOf(c)
  BY DEF Announce, procVars, Control
<1>2. at[c] \notin Resting /\ at[c] # "idle"
  BY <1>1 DEF EventOf, Resting
<1>3. CASE at[c] = "tellCreated" /\ GoOn(c, "queue")
  <2>1. "queue" \in PlacesOf(c)
    BY <1>1, <1>3, Kinds
    DEF WorkerPlaces, Body, Handlers, FailHandler, CancelHandler,
        ClientPlaces, StarterPlaces, CancelPlaces, EnqueuePlaces
  <2>2. QED
    BY <1>1, <1>2, <1>3, <2>1, GoesOn DEF GoOn, Goto, Resting
<1>4. CASE at[c] = "tellQueued" /\ GoOn(c, "put")
  <2>1. "put" \in PlacesOf(c)
    BY <1>1, <1>4, Kinds
    DEF WorkerPlaces, Body, Handlers, FailHandler, CancelHandler,
        ClientPlaces, StarterPlaces, CancelPlaces, EnqueuePlaces
  <2>2. QED
    BY <1>1, <1>2, <1>4, <2>1, GoesOn DEF GoOn, Goto, Resting
<1>5. CASE at[c] = "tellStarted" /\ GoOn(c, "agent")
  <2>1. "agent" \in PlacesOf(c)
    BY <1>1, <1>5, Kinds
    DEF WorkerPlaces, Body,
        ClientPlaces, StarterPlaces, CancelPlaces, EnqueuePlaces
  <2>2. QED
    BY <1>1, <1>2, <1>5, <2>1, GoesOn DEF GoOn, Goto, Resting
<1>6. ASSUME NEW o \in Outcomes, Finish(c, o),
             at[c] \in {"tellCompleted", "tellFailed"} \/ c \in Workers
      PROVE  Control'
  <2>1. "finally" \in PlacesOf(c)
    BY <1>1, <1>6, Kinds
    DEF WorkerPlaces,
        ClientPlaces, StarterPlaces, CancelPlaces, EnqueuePlaces
  <2>2. QED
    BY <1>1, <1>2, <1>6, <2>1, GoesOn DEF Finish, Goto, Resting
<1>7. CASE c \notin Workers /\ Return(c)
  BY <1>1, <1>2, <1>7, ReturnKeepsControl
<1>8. QED
  BY <1>3, <1>4, <1>5, <1>6, <1>7 DEF Announce, Outcomes

\* The steps of requests.
LEMMA RequestKeepsControl ==
  ASSUME Control, NEW c \in Clients, Request(c)
  PROVE  Control'
<1>1. PICK t \in Tasks : Submit(c, t) \/ Retry(c, t) \/ Cancel(c, t)
  BY DEF Request
<1>2. PICK place \in {"tellCreated", "queue", "cancelling"} :
        Arrive(c, t, place) /\ Up(c)
  BY <1>1 DEF Submit, Retry, Cancel
<1>3. place \in PlacesOf(c) /\ place \notin Resting
  BY <1>2, Kinds DEF ClientPlaces, EnqueuePlaces, CancelPlaces, Resting
<1>4. QED
  BY <1>2, <1>3, Kinds, GoesToWork DEF Arrive, Goto, procVars

\* running.cancel() of request c moves the execution of w on to a place.
Interrupts(c, w, place) ==
  /\ w # c /\ w \in Callers /\ on[w] = on[c] /\ at[w] \notin Resting
  /\ at' = [at EXCEPT ![w] = place, ![c] = "idle"]
  /\ \E o \in Outcomes \cup {outcome[w]} :
       outcome' = [outcome EXCEPT ![w] = o]
  /\ on' = [on EXCEPT ![c] = None]
  /\ Forget({w})

LEMMA Signalled ==
  ASSUME Control, NEW c \in Callers, SignalRunning(c)
  PROVE  \E w \in Workers, place \in {"ended", "cancelLoad", "finally"} :
           Interrupts(c, w, place)
<1>1. at[c] = "signal" /\ c \notin Workers
  BY Kinds
  DEF SignalRunning, Control, WorkerPlaces, Body, Handlers, FailHandler,
      CancelHandler
<1>2. PICK w \in Runs(Home[c], on[c]) : \E i \in Interrupted(w) :
        /\ at' = [at EXCEPT ![w] = i[1], ![c] = "idle"]
        /\ outcome' = [outcome EXCEPT ![w] = i[2]]
        /\ on' = [on EXCEPT ![c] = None]
        /\ Forget({w})
  BY DEF SignalRunning
<1>3. PICK i \in Interrupted(w) :
        /\ at' = [at EXCEPT ![w] = i[1], ![c] = "idle"]
        /\ outcome' = [outcome EXCEPT ![w] = i[2]]
  BY <1>2
<1>4. w \in Workers /\ w # c /\ w \in Callers /\ on[w] = on[c]
  BY <1>1, <1>2, Kinds DEF Runs
<1>5. at[w] \notin Resting
  BY <1>1, <1>4 DEF Control, Resting
<1>6. at[w] \in {"scheduled", "finally", "ended"} \cup Body \cup Handlers
  BY <1>4, <1>5, Kinds DEF Control, WorkerPlaces, Resting
<1>7. /\ i[1] \in {"ended", "cancelLoad", "finally"}
      /\ i[2] \in Outcomes \cup {outcome[w]}
  <2>1. CASE at[w] \in Body
    <3>1. i = <<"cancelLoad", outcome[w]>>
      BY <1>3, <2>1
      DEF Interrupted, Body, Handlers, FailHandler, CancelHandler
    <3>2. QED
      BY <3>1
  <2>2. CASE at[w] \in Handlers
    BY <1>3, <2>2
    DEF Interrupted, Handlers, FailHandler, CancelHandler, Body, Outcomes
  <2>3. CASE at[w] \in {"scheduled", "finally", "ended"}
    BY <1>3, <2>3
    DEF Interrupted, Handlers, FailHandler, CancelHandler, Body, Outcomes
  <2>4. QED
    BY <1>6, <2>1, <2>2, <2>3
<1>8. PICK place \in {"ended", "cancelLoad", "finally"} : place = i[1]
  BY <1>7
<1>9. QED
  BY <1>2, <1>3, <1>4, <1>5, <1>7, <1>8 DEF Interrupts

LEMMA SignalKeepsControl ==
  ASSUME Control, NEW c \in Callers, SignalRunning(c)
  PROVE  Control'
<1>1. at[c] = "signal" /\ c \notin Workers /\ UNCHANGED proc
  BY Kinds
  DEF SignalRunning, Control, WorkerPlaces, Body, Handlers, FailHandler,
      CancelHandler, procVars
<1>2. PICK w \in Workers, place \in {"ended", "cancelLoad", "finally"} :
        Interrupts(c, w, place)
  BY Signalled
<1>3. place \in PlacesOf(w) /\ place \notin Resting /\ on[w] # None
  BY <1>2, Kinds
  DEF Interrupts, WorkerPlaces, Handlers, CancelHandler, Resting, Control
<1>4. "idle" \in PlacesOf(c) /\ "idle" \in Resting
  BY <1>1, Kinds DEF ClientPlaces, StarterPlaces, Resting
<1>5. at' \in [Callers -> WorkerPlaces \cup ClientPlaces]
  BY <1>2, <1>3, <1>4, PlacesIncluded DEF Control, Interrupts
<1>6. /\ at'[c] = "idle" /\ at'[w] = place
      /\ \A d \in Callers \ {c, w} : at'[d] = at[d]
  BY <1>2 DEF Control, Interrupts
<1>7. \A d \in Callers : at'[d] \in PlacesOf(d)
  BY <1>3, <1>4, <1>6 DEF Control
<1>8. /\ on' \in [Callers -> Tasks \cup {None}]
      /\ on'[c] = None
      /\ \A d \in Callers \ {c} : on'[d] = on[d]
  BY <1>2 DEF Control, Interrupts
<1>9. \A d \in Callers : on'[d] = None <=> at'[d] \in Resting
  BY <1>2, <1>3, <1>4, <1>6, <1>8 DEF Control, Interrupts
<1>10. \A d \in Workers \cup Clients : at'[d] # Rest(d) => Up(d)'
  <2>1. Up(w)
    BY <1>2, Kinds DEF Control, Resting, Interrupts
  <2>2. c \in Clients => Rest(c) = "idle"
    BY Kinds
  <2>3. \A d \in Workers \cup Clients : d \in Callers
    BY Kinds
  <2>4. QED
    BY <1>1, <1>6, <2>1, <2>2, <2>3 DEF Control, Up
<1>11. \A q \in Procs : at'[q] # "idle" => proc'[q] = "starting"
  BY <1>1, <1>2, <1>6, Kinds DEF Control, Interrupts
<1>12. QED
  BY <1>1, <1>5, <1>7, <1>8, <1>9, <1>10, <1>11 DEF Control

\* A worker at rest takes an entry, and lets go of it.
LEMMA WorkerLoopKeepsControl ==
  ASSUME Control, Supplies, NEW w \in Workers,
         TakeDuplicate(w) \/ Take(w) \/ Settle(w) \/ Die(w)
  PROVE  Control'
<1>1. w \in Callers /\ PlacesOf(w) = WorkerPlaces
  BY Kinds
<1>2. CASE TakeDuplicate(w)
  BY <1>2, Unmoved DEF TakeDuplicate, coVars, procVars
<1>3. CASE Take(w)
  <2>1. PICK e \in Deliverable(InHand) :
          /\ at' = [at EXCEPT ![w] = "scheduled"]
          /\ on' = [on EXCEPT ![w] = e.task]
    BY <1>3 DEF Take, Goto
  <2>2. Up(w)
    BY <1>3, Kinds DEF Take, Control
  <2>3. PICK t \in Tasks : t = e.task
    BY DEF Deliverable, Supplies, QueueTypeOK, Entry
  <2>4. UNCHANGED proc
    BY <1>3 DEF Take, procVars
  <2>5. QED
    BY <1>1, <2>1, <2>2, <2>3, <2>4, Kinds, GoesToWork
    DEF WorkerPlaces, Resting
<1>4. CASE Settle(w) \/ Die(w)
  <2>1. PICK place \in {"get", "dead"} : LetGo(w, place)
    BY <1>4 DEF Settle, Die
  <2>2. at[w] = "ended" /\ UNCHANGED proc
    BY <1>4 DEF Settle, Die, procVars
  <2>3. QED
    BY <1>1, <2>1, <2>2, ComesToRest DEF LetGo, Goto, WorkerPlaces, Resting
<1>5. QED
  BY <1>2, <1>3, <1>4

\* The steps of an execution.
LEMMA ExecutionKeepsControl ==
  ASSUME Control, NEW w \in Workers,
         \/ Begin(w) \/ Load(w) \/ Furnish(w) \/ RunAgent(w)
         \/ LoadFailed(w) \/ LoadCancelled(w) \/ Release(w)
  PROVE  Control'
<1>1. PICK place \in {"load", "finally", "provision", "environment",
                      "reattach", "run", "tellStarted", "complete", "fail",
                      "cancel", "ended"} :
        at' = [at EXCEPT ![w] = place]
  BY DEF Begin, Load, Furnish, RunAgent, LoadFailed, LoadCancelled, Release,
         GoOn, Finish, Goto
<1>2. UNCHANGED <<on, proc>>
  BY DEF Begin, Load, Furnish, RunAgent, LoadFailed, LoadCancelled, Release,
         ExecStep, GoOn, Finish, procVars
<1>3. at[w] \in {"scheduled", "load", "environment", "reattach", "agent",
                 "failLoad", "cancelLoad", "finally"}
  BY DEF Begin, Load, Furnish, RunAgent, LoadFailed, LoadCancelled, Release,
         ExecStep
<1>4. at[w] \notin Resting /\ place \notin Resting
  BY <1>3 DEF Resting
<1>5. w \in Callers /\ place \in PlacesOf(w)
  BY Kinds
  DEF WorkerPlaces, Body, Handlers, FailHandler, CancelHandler
<1>6. QED
  BY <1>1, <1>2, <1>4, <1>5, GoesOn

\* Start-up: list_active, one visit of reconcile after the other, service.
LEMMA StartKeepsControl ==
  ASSUME Control, Supplies, NEW p \in Procs,
         Boot(p) \/ Requeue(p) \/ Recancel(p) \/ Serve(p)
  PROVE  Control'
<1>1. p \in Callers /\ PlacesOf(p) = StarterPlaces /\ Home[p] = p
  BY Kinds, HomeAssumption
<1>2. CASE Boot(p)
  <2>1. /\ proc' = [proc EXCEPT ![p] = "starting"] /\ proc[p] = "down"
        /\ UNCHANGED <<at, on>>
    BY <1>2 DEF Boot, coVars
  <2>2. \A d \in Workers \cup Clients : at'[d] # Rest(d) => Up(d)'
    BY <2>1, Kinds DEF Control, Up
  <2>3. QED
    BY <2>1, <2>2 DEF Control
<1>3. CASE Requeue(p)
  BY <1>3, Unmoved DEF Requeue, coVars
<1>4. CASE Recancel(p)
  <2>1. PICK b \in backlog[p] :
          /\ Visit(p, b)
          /\ \/ UNCHANGED <<at, on>>
             \/ /\ at' = [at EXCEPT ![p] = "cancelling"]
                /\ on' = [on EXCEPT ![p] = b.task]
    BY <1>4 DEF Recancel, Goto
  <2>2. PICK t \in Tasks : t = b.task
    BY DEF Supplies
  <2>3. UNCHANGED proc /\ proc[p] = "starting"
    BY <1>4, <2>1 DEF Recancel, Visit
  <2>4. CASE UNCHANGED <<at, on>>
    BY <2>3, <2>4, Unmoved
  <2>5. CASE /\ at' = [at EXCEPT ![p] = "cancelling"]
             /\ on' = [on EXCEPT ![p] = b.task]
    BY <1>1, <2>2, <2>3, <2>5, Kinds, GoesToWork
    DEF StarterPlaces, CancelPlaces, Resting
  <2>6. QED
    BY <2>1, <2>4, <2>5
<1>5. CASE Serve(p)
  <2>1. /\ proc' = [proc EXCEPT ![p] = "up"] /\ proc[p] = "starting"
        /\ at[p] = "idle" /\ UNCHANGED on
        /\ at' = [c \in Callers |->
                    IF c \in Workers /\ Home[c] = p THEN "get" ELSE at[c]]
    BY <1>5 DEF Serve
  <2>2. \A w \in Workers : Home[w] = p => at[w] = "off" /\ on[w] = None
    BY <2>1, Kinds DEF Control, Up, Resting
  <2>3. \A c \in Callers : at'[c] \in PlacesOf(c)
    BY <2>1, Kinds DEF Control, WorkerPlaces
  <2>4. at' \in [Callers -> WorkerPlaces \cup ClientPlaces]
    BY <2>1, <2>3, PlacesIncluded
  <2>5. \A c \in Callers : on'[c] = None <=> at'[c] \in Resting
    BY <2>1, <2>2 DEF Control, Resting
  <2>6. \A d \in Workers \cup Clients : at'[d] # Rest(d) => Up(d)'
    BY <2>1, Kinds DEF Control, Up
  <2>7. \A q \in Procs : at'[q] # "idle" => proc'[q] = "starting"
    BY <2>1, Kinds DEF Control
  <2>8. QED
    BY <2>1, <2>3, <2>4, <2>5, <2>6, <2>7 DEF Control
<1>6. QED
  BY <1>2, <1>3, <1>4, <1>5

LEMMA FaultKeepsControl ==
  ASSUME Control, NEW c \in Callers, Fault(c)
  PROVE  Control'
<1>1. CASE c \in Workers /\ ExceptionInExecution(c)
  BY <1>1, ExceptionKeepsControl
<1>2. CASE /\ c \in Workers /\ at[c] \in {"get", "ended"}
           /\ LetGo(c, "dead")
           /\ UNCHANGED <<repoVars, procVars>>
  <2>1. at' = [at EXCEPT ![c] = "dead"] /\ on' = [on EXCEPT ![c] = None]
        /\ UNCHANGED proc
    BY <1>2 DEF LetGo, Goto, procVars
  <2>2. "dead" \in PlacesOf(c)
    BY <1>2, Kinds DEF WorkerPlaces
  <2>3. CASE at[c] = "ended"
    BY <2>1, <2>2, <2>3, ComesToRest DEF Resting
  <2>4. CASE at[c] = "get"
    <3>1. at' \in [Callers -> WorkerPlaces \cup ClientPlaces]
      BY <2>1, <2>2, PlacesIncluded DEF Control
    <3>2. on' = on
      BY <2>1, <2>4 DEF Control, Resting
    <3>3. \A d \in Callers : at'[d] \in PlacesOf(d)
      BY <2>1, <2>2 DEF Control
    <3>4. \A d \in Callers : on'[d] = None <=> at'[d] \in Resting
      BY <2>1, <2>4, <3>2 DEF Control, Resting
    <3>5. \A d \in Workers \cup Clients : at'[d] # Rest(d) => Up(d)'
      BY <1>2, <2>1, <2>4, Kinds DEF Control, Up
    <3>6. \A q \in Procs : at'[q] # "idle" => proc'[q] = "starting"
      BY <1>2, <2>1, Kinds DEF Control
    <3>7. QED
      BY <2>1, <3>1, <3>2, <3>3, <3>4, <3>5, <3>6 DEF Control
  <2>5. QED
    BY <1>2, <2>3, <2>4
<1>3. CASE c \notin Workers /\ at[c] # "idle" /\ Raise(c)
  BY <1>3, RaiseKeepsControl
<1>4. QED
  BY <1>1, <1>2, <1>3 DEF Fault

\* Whatever happens, the coroutines are where they should be.
LEMMA ControlStep ==
  ASSUME Control, Supplies, [Next]_vars
  PROVE  Control'
<1>1. ASSUME NEW c \in Callers, Step(c)
      PROVE  Control'
  <2>1. CASE Read(c)
    BY <2>1, Unmoved DEF Read, coVars, procVars
  <2>2. CASE Reject(c) \/ Conflict(c)
    <3>1. at[c] # "idle" /\ Raise(c)
      BY <2>2 DEF Reject, Conflict, Transitioning, Target
    <3>2. QED
      BY <3>1, RaiseKeepsControl
  <2>3. CASE Commit(c)
    BY <2>3, CommitKeepsControl
  <2>4. CASE Announce(c)
    BY <2>4, AnnounceKeepsControl
  <2>5. CASE SignalRunning(c)
    BY <2>5, SignalKeepsControl
  <2>6. CASE SignalNobody(c)
    <3>1. /\ at[c] = "signal" /\ at' = [at EXCEPT ![c] = "cancelNow"]
          /\ UNCHANGED <<on, proc>>
      BY <2>6 DEF SignalNobody, GoOn, Goto, procVars
    <3>2. "cancelNow" \in PlacesOf(c)
      BY <3>1, Kinds
      DEF Control, WorkerPlaces, Body, Handlers, FailHandler, CancelHandler,
          ClientPlaces, StarterPlaces, CancelPlaces
    <3>3. QED
      BY <3>1, <3>2, GoesOn DEF Resting
  <2>7. CASE c \in Clients /\ Enqueue(c)
    BY <2>7, Kinds, ReturnKeepsControl DEF Enqueue, procVars
  <2>8. CASE c \in Workers /\ AgentRaises(c)
    BY <2>8, ExceptionKeepsControl DEF AgentRaises
  <2>9. CASE /\ c \in Workers
             /\ TakeDuplicate(c) \/ Take(c) \/ Settle(c) \/ Die(c)
    BY <2>9, WorkerLoopKeepsControl
  <2>10. CASE /\ c \in Workers
              /\ \/ Begin(c) \/ Load(c) \/ Furnish(c) \/ RunAgent(c)
                 \/ LoadFailed(c) \/ LoadCancelled(c) \/ Release(c)
    BY <2>10, ExecutionKeepsControl
  <2>11. CASE c \in Procs /\ (Boot(c) \/ Requeue(c) \/ Recancel(c) \/ Serve(c))
    BY <2>11, StartKeepsControl
  <2>12. QED
    BY <1>1, <2>1, <2>2, <2>3, <2>4, <2>5, <2>6, <2>7, <2>8, <2>9, <2>10,
       <2>11
    DEF Step
<1>2. ASSUME NEW c \in Callers, Fault(c)
      PROVE  Control'
  BY <1>2, FaultKeepsControl
<1>3. ASSUME NEW c \in Clients, Request(c)
      PROVE  Control'
  BY <1>3, RequestKeepsControl
<1>4. ASSUME NEW p \in Procs, Crash(p)
      PROVE  Control'
  BY <1>4, CollapseKeepsControl DEF Crash
<1>5. CASE UNCHANGED vars
  BY <1>5, Unmoved DEF vars
<1>6. QED
  BY <1>1, <1>2, <1>3, <1>4, <1>5 DEF Next

LEMMA Busy ==
  ASSUME Control, NEW c \in Callers, at[c] \notin Resting
  PROVE  on[c] \in Tasks
BY DEF Control

LEMMA InitSupplies == Init => Supplies
BY DEF Init, QueueInit, Supplies, QueueTypeOK, Outcomes

LEMMA PutKeepsType ==
  ASSUME QueueTypeOK, NEW t \in Tasks, Put(t)
  PROVE  QueueTypeOK'
<1>1. puts + 1 \in Nat
  BY DEF QueueTypeOK
<1>2. [id |-> puts + 1, task |-> t, delivered |-> FALSE] \in Entry
  BY <1>1 DEF Entry
<1>3. QED
  BY <1>1, <1>2 DEF QueueTypeOK, Put

LEMMA AckKeepsType ==
  ASSUME QueueTypeOK, NEW receiptOfEntry, Ack(receiptOfEntry)
  PROVE  QueueTypeOK'
BY DEF QueueTypeOK, Ack

LEMMA DeliverKeepsType ==
  ASSUME QueueTypeOK, NEW e \in stream, Deliver(e)
  PROVE  QueueTypeOK'
BY DEF QueueTypeOK, Deliver, Entry

\* Exceptions and ends of processes reset what they touch.
LEMMA RaiseKeepsSupplies ==
  ASSUME Control, Supplies, NEW c \in Callers,
         Raise(c) \/ (c \in Workers /\ ExceptionInExecution(c)),
         UNCHANGED <<stream, puts, log>>, spent' \in [Nuisances -> Nat]
  PROVE  Supplies'
<1>1. QueueTypeOK'
  BY DEF Supplies, QueueTypeOK
<1>2. CASE c \in Workers /\ ExceptionInExecution(c)
  BY <1>1, <1>2
  DEF Supplies, ExceptionInExecution, GoOn, Finish, procVars, Outcomes
<1>3. CASE c \in Clients /\ Return(c) /\ UNCHANGED procVars
  BY <1>1, <1>3 DEF Supplies, Return, procVars
<1>4. CASE c \in Procs /\ Collapse(c)
  BY <1>1, <1>4 DEF Supplies, Collapse, Outcomes
<1>5. QED
  BY <1>2, <1>3, <1>4 DEF Raise

LEMMA SpendKeepsType ==
  ASSUME Supplies, NEW k \in Nuisances, Spend(k)
  PROVE  spent' \in [Nuisances -> Nat]
BY DEF Supplies, Spend

\* Supplies is preserved by what coroutine c does by itself.
LEMMA StepKeepsSupplies ==
  ASSUME Control, Supplies, NEW c \in Callers, Step(c)
  PROVE  Supplies'
<1> USE DEF Supplies
<1>1. CASE Read(c) \/ Commit(c) \/ SignalNobody(c)
  <2>1. /\ UNCHANGED <<stream, puts, backlog, receipt, outcome, log, spent>>
    BY <1>1 DEF Read, Commit, SignalNobody, GoOn, coVars, procVars
  <2>2. QED
    BY <2>1 DEF QueueTypeOK
<1>2. CASE Reject(c) \/ Conflict(c)
  BY <1>2, RaiseKeepsSupplies DEF Reject, Conflict
<1>3. CASE Announce(c)
  <2>1. /\ UNCHANGED <<stream, puts, backlog, receipt, spent>>
        /\ outcome' \in [Workers -> Outcomes]
    BY <1>3
    DEF Announce, GoOn, Finish, Return, procVars, Outcomes
  <2>2. EventOf[at[c]] \in {EventOf[e] : e \in DOMAIN EventOf}
    BY <1>3 DEF Announce
  <2>3. log' \in [Tasks -> {EventOf[e] : e \in DOMAIN EventOf} \cup {"none"}]
    BY <1>3, <2>2 DEF Announce
  <2>4. QED
    BY <2>1, <2>3 DEF QueueTypeOK
<1>4. CASE SignalRunning(c)
  <2>1. UNCHANGED <<stream, puts, backlog, receipt, log, spent>>
    BY <1>4 DEF SignalRunning, procVars
  <2>2. PICK w \in Workers, place \in {"ended", "cancelLoad", "finally"} :
          Interrupts(c, w, place)
    BY <1>4, Signalled
  <2>3. QED
    BY <2>1, <2>2 DEF QueueTypeOK, Interrupts
<1>5. CASE c \in Clients /\ Enqueue(c)
  <2>1. on[c] \in Tasks /\ Put(on[c])
    BY <1>5, Busy DEF Enqueue, Resting
  <2>2. PICK t \in Tasks : t = on[c] /\ Put(t)
    BY <2>1
  <2>3. QueueTypeOK'
    BY <2>2, PutKeepsType
  <2>4. UNCHANGED <<backlog, receipt, outcome, log, spent>>
    BY <1>5 DEF Enqueue, Return, procVars
  <2>5. QED
    BY <2>3, <2>4
<1>6. CASE c \in Workers /\ TakeDuplicate(c)
  <2>1. PICK e \in Deliverable(InHand) : Ack(e.id)
    BY <1>6 DEF TakeDuplicate
  <2>2. UNCHANGED <<backlog, receipt, outcome, log, spent>>
    BY <1>6 DEF TakeDuplicate, procVars, coVars
  <2>3. PICK id : Ack(id)
    BY <2>1
  <2>4. QED
    BY <2>2, <2>3, AckKeepsType
<1>7. CASE c \in Workers /\ Take(c)
  <2>1. PICK e \in Deliverable(InHand) :
          Deliver(e) /\ receipt' = [receipt EXCEPT ![c] = e.id]
    BY <1>7 DEF Take
  <2>2. e \in stream /\ e.id \in Nat
    BY DEF Deliverable, QueueTypeOK, Entry
  <2>3. UNCHANGED <<backlog, outcome, log, spent>>
    BY <1>7 DEF Take, procVars
  <2>4. QED
    BY <2>1, <2>2, <2>3, DeliverKeepsType
<1>8. CASE c \in Workers /\ (Settle(c) \/ Die(c))
  <2>1. /\ receipt' = [receipt EXCEPT ![c] = 0]
        /\ outcome' = [outcome EXCEPT ![c] = "none"]
        /\ UNCHANGED <<backlog, log, spent>>
    BY <1>8 DEF Settle, Die, LetGo, procVars
  <2>2. QueueTypeOK'
    <3>1. PICK id : id = receipt[c]
      OBVIOUS
    <3>2. Ack(id) \/ UNCHANGED <<stream, puts>>
      BY <1>8, <3>1 DEF Settle, Die
    <3>3. QED
      BY <3>2, AckKeepsType DEF QueueTypeOK
  <2>3. QED
    BY <2>1, <2>2 DEF Outcomes
<1>9. CASE /\ c \in Workers
           /\ \/ Begin(c) \/ Load(c) \/ Furnish(c) \/ RunAgent(c)
              \/ LoadFailed(c) \/ LoadCancelled(c) \/ Release(c)
  <2>1. ExecStep(c, at[c])
    BY <1>9 DEF Begin, Load, Furnish, RunAgent, LoadFailed, LoadCancelled,
                Release, ExecStep
  <2>2. UNCHANGED receipt /\ outcome' \in [Workers -> Outcomes]
    BY <1>9 DEF Begin, Load, Furnish, RunAgent, LoadFailed, LoadCancelled,
                Release, GoOn, Finish, Outcomes
  <2>3. UNCHANGED <<stream, puts, backlog, log, spent>>
    BY <2>1 DEF ExecStep, procVars
  <2>4. QED
    BY <2>2, <2>3 DEF QueueTypeOK
<1>10. CASE c \in Workers /\ AgentRaises(c)
  BY <1>10, RaiseKeepsSupplies DEF AgentRaises
<1>11. CASE c \in Procs /\ Boot(c)
  <2>1. UNCHANGED <<stream, puts, receipt, outcome, log, spent>>
    BY <1>11 DEF Boot, coVars
  <2>2. backlog' \in [Procs -> SUBSET [task : Tasks, cancelling : BOOLEAN]]
    <3>1. \A t \in Tasks :
            [task |-> t, cancelling |-> row[t].status = "cancelling"]
              \in [task : Tasks, cancelling : BOOLEAN]
      OBVIOUS
    <3>2. {[task |-> t, cancelling |-> row[t].status = "cancelling"] :
             t \in {u \in Tasks : row[u].status \in Active}}
            \in SUBSET [task : Tasks, cancelling : BOOLEAN]
      BY <3>1
    <3>3. QED
      BY <1>11, <3>2 DEF Boot
  <2>3. QED
    BY <2>1, <2>2 DEF QueueTypeOK
<1>12. CASE c \in Procs /\ Requeue(c)
  <2>1. PICK b \in backlog[c] : Visit(c, b) /\ Put(b.task)
    BY <1>12 DEF Requeue
  <2>2. PICK t \in Tasks : t = b.task /\ Put(t)
    BY <1>12, <2>1
  <2>3. QueueTypeOK'
    BY <2>2, PutKeepsType
  <2>4. UNCHANGED <<receipt, outcome, log, spent>>
    BY <1>12 DEF Requeue, coVars
  <2>5. QED
    BY <1>12, <2>1, <2>3, <2>4 DEF Visit
<1>13. CASE c \in Procs /\ Recancel(c)
  <2>1. PICK b \in backlog[c] : Visit(c, b)
    BY <1>13 DEF Recancel
  <2>2. UNCHANGED <<stream, puts, receipt, outcome, log, spent>>
    BY <1>13 DEF Recancel
  <2>3. QED
    BY <1>13, <2>1, <2>2 DEF Visit, QueueTypeOK
<1>14. CASE c \in Procs /\ Serve(c)
  BY <1>14 DEF Serve, QueueTypeOK
<1>15. QED
  BY <1>1, <1>2, <1>3, <1>4, <1>5, <1>6, <1>7, <1>8, <1>9, <1>10, <1>11,
     <1>12, <1>13, <1>14
  DEF Step

LEMMA SuppliesStep ==
  ASSUME Control, Supplies, [Next]_vars
  PROVE  Supplies'
<1>1. ASSUME NEW c \in Callers, Step(c)
      PROVE  Supplies'
  BY <1>1, StepKeepsSupplies
<1>2. ASSUME NEW c \in Callers, Fault(c)
      PROVE  Supplies'
  <2>1. /\ UNCHANGED <<stream, puts, log>>
        /\ spent' \in [Nuisances -> Nat]
    BY <1>2, SpendKeepsType DEF Fault, Nuisances
  <2>2. CASE \/ Raise(c)
             \/ c \in Workers /\ ExceptionInExecution(c)
    BY <2>1, <2>2, RaiseKeepsSupplies
  <2>3. CASE c \in Workers /\ LetGo(c, "dead") /\ UNCHANGED procVars
    BY <2>1, <2>3 DEF Supplies, QueueTypeOK, LetGo, procVars, Outcomes
  <2>4. QED
    BY <1>2, <2>2, <2>3 DEF Fault
<1>3. ASSUME NEW c \in Clients, Request(c)
      PROVE  Supplies'
  <2>1. UNCHANGED <<stream, puts, backlog, receipt, outcome, log>>
    BY <1>3 DEF Request, Submit, Retry, Cancel, Arrive, procVars
  <2>2. spent' \in [Nuisances -> Nat]
    BY <1>3, SpendKeepsType
    DEF Request, Submit, Retry, Cancel, Nuisances, Supplies
  <2>3. QED
    BY <2>1, <2>2 DEF Supplies, QueueTypeOK
<1>4. ASSUME NEW p \in Procs, Crash(p)
      PROVE  Supplies'
  BY <1>4, Kinds, SpendKeepsType, RaiseKeepsSupplies
  DEF Crash, Raise, Nuisances
<1>5. CASE UNCHANGED vars
  BY <1>5 DEF vars, Supplies, QueueTypeOK
<1>6. QED
  BY <1>1, <1>2, <1>3, <1>4, <1>5 DEF Next

(***************************************************************************)
(* All that the orchestrator does to the table, it does through the        *)
(* repository: every step is a step of RepoNext, or leaves the table and   *)
(* what is remembered of it alone.                                         *)
(***************************************************************************)
LEMMA ForgetIsRepoStep ==
  ASSUME NEW S \in SUBSET Callers, Forget(S)
  PROVE  RepoNext
BY DEF RepoNext

LEMMA RaiseIsRepoStep ==
  ASSUME NEW c \in Callers,
         Raise(c) \/ ExceptionInExecution(c) \/ (c \in Procs /\ Collapse(c))
  PROVE  RepoNext
<1>1. PICK S \in SUBSET Callers : Forget(S)
  <2>1. CASE ExceptionInExecution(c)
    BY <2>1 DEF ExceptionInExecution
  <2>2. CASE Return(c) /\ Forget({c})
    BY <2>2
  <2>3. CASE Collapse(c)
    BY <2>3 DEF Collapse
  <2>4. QED
    BY <2>1, <2>2, <2>3 DEF Raise
<1>2. QED
  BY <1>1, ForgetIsRepoStep

LEMMA RepoStep ==
  ASSUME Control, [Next]_vars
  PROVE  [RepoNext]_repoVars
<1>1. ASSUME NEW c \in Callers, Step(c)
      PROVE  RepoNext \/ UNCHANGED repoVars
  <2>1. CASE Read(c)
    <3>1. at[c] \in DOMAIN Target /\ at[c] \in PlacesOf(c)
      BY <2>1 DEF Read, Transitioning, Control
    <3>2. on[c] \in Tasks /\ Target[at[c]] \in Status
      BY <3>1, AfterCommitPlace, Busy
    <3>3. PICK t \in Tasks, target \in Status :
            t = on[c] /\ target = Target[at[c]]
      BY <3>2
    <3>4. ReadRow(c, t, target)
      BY <2>1, <3>3 DEF Read
    <3>5. QED
      BY <3>4 DEF RepoNext
  <2>2. CASE Reject(c) \/ Conflict(c)
    BY <2>2, RaiseIsRepoStep DEF Reject, Conflict
  <2>3. CASE Commit(c)
    BY <2>3 DEF Commit, RepoNext
  <2>4. CASE SignalRunning(c)
    <3>1. PICK w \in Workers, place \in {"ended", "cancelLoad", "finally"} :
            Interrupts(c, w, place)
      BY <2>4, Signalled
    <3>2. QED
      BY <3>1, ForgetIsRepoStep DEF Interrupts
  <2>5. CASE c \in Workers /\ AgentRaises(c)
    BY <2>5, RaiseIsRepoStep DEF AgentRaises
  <2>6. CASE \/ Announce(c) \/ SignalNobody(c) \/ Enqueue(c)
             \/ TakeDuplicate(c) \/ Take(c) \/ Settle(c) \/ Die(c)
             \/ Requeue(c) \/ Recancel(c) \/ Boot(c) \/ Serve(c)
    BY <2>6
    DEF Announce, SignalNobody, Enqueue, TakeDuplicate, Take, Settle, Die,
        Requeue, Recancel, Boot, Serve, repoVars
  <2>7. CASE \/ Begin(c) \/ Load(c) \/ Furnish(c) \/ RunAgent(c)
             \/ LoadFailed(c) \/ LoadCancelled(c) \/ Release(c)
    BY <2>7
    DEF Begin, Load, Furnish, RunAgent, LoadFailed, LoadCancelled, Release,
        ExecStep
  <2>8. QED
    BY <1>1, <2>1, <2>2, <2>3, <2>4, <2>5, <2>6, <2>7 DEF Step
<1>2. ASSUME NEW c \in Callers, Fault(c)
      PROVE  RepoNext \/ UNCHANGED repoVars
  BY <1>2, RaiseIsRepoStep DEF Fault
<1>3. ASSUME NEW c \in Clients, Request(c)
      PROVE  RepoNext \/ UNCHANGED repoVars
  BY <1>3 DEF Request, Submit, Retry, Cancel, RepoNext
<1>4. ASSUME NEW p \in Procs, Crash(p)
      PROVE  RepoNext \/ UNCHANGED repoVars
  BY <1>4, Kinds, RaiseIsRepoStep DEF Crash
<1>5. CASE UNCHANGED vars
  BY <1>5 DEF vars, repoVars
<1>6. QED
  BY <1>1, <1>2, <1>3, <1>4, <1>5 DEF Next

LEMMA Controlled == Spec => [](Control /\ Supplies)
<1>1. Init => Control /\ Supplies
  BY InitControl, InitSupplies
<1>2. Control /\ Supplies /\ [Next]_vars => Control' /\ Supplies'
  BY ControlStep, SuppliesStep
<1>3. QED
  BY <1>1, <1>2, PTL DEF Spec

(***************************************************************************)
(* The orchestrator's processes, workers and requests are callers of the   *)
(* repository: the table behaves as RepoSpec says (orchestrator.py calls   *)
(* tasks.create and tasks.transition and writes no row itself).            *)
(***************************************************************************)
THEOREM UsesTheRepository == Spec => RepoSpec
<1>1. Init => RepoInit
  BY DEF Init
<1>2. Control /\ [Next]_vars => [RepoNext]_repoVars
  BY RepoStep
<1>3. QED
  BY <1>1, <1>2, Controlled, PTL DEF Spec, RepoSpec

(***************************************************************************)
(* Types: the places of coroutines, the entries of the stream and the rows *)
(* stay what they should be.                                               *)
(***************************************************************************)
THEOREM OrchTypeCorrect == Spec => []OrchTypeOK
<1>1. Control /\ Supplies /\ RepoTypeOK => OrchTypeOK
  BY DEF Control, Supplies, OrchTypeOK
<1>2. QED
  BY <1>1, Controlled, UsesTheRepository, RepoTypeCorrect, PTL

(***************************************************************************)
(* Whatever the workers, requests and restarts of any number of processes  *)
(* do, a remembered version that is still current means a status that is   *)
(* still current (repositories.py:87-136).                                 *)
(***************************************************************************)
THEOREM OrchestratorLocksRows == Spec => []SnapshotsAgree
BY UsesTheRepository, OptimisticLocking, PTL

(***************************************************************************)
(* The orchestrator moves a task only along the edges of the state machine *)
(* (state_machine.py:14-58).                                               *)
(***************************************************************************)
THEOREM OrchestratorFollowsStateMachine == Spec => FollowsStateMachine
BY UsesTheRepository, TableRefinesLifecycle, PTL

\* What a coroutine remembers of the table belongs to the transition it is in.
Reads ==
  \A c \in Callers : seen[c] # Unread =>
    Transitioning(c) /\ seen[c].task = on[c] /\ seen[c].target = Target[at[c]]

LEMMA ReadsStay ==
  ASSUME Reads,
         \A c \in Callers :
           \/ seen'[c] = Unread
           \/ /\ seen'[c] = seen[c]
              /\ ~Transitioning(c) \/ (at'[c] = at[c] /\ on'[c] = on[c])
  PROVE  Reads'
BY DEF Reads, Transitioning

\* Coroutine c moves, and drops what it has read if that belongs to the
\* transition it leaves.
LEMMA OneMoves ==
  ASSUME RepoTypeOK, Control, Reads, NEW c \in Callers,
         NEW place, at' = [at EXCEPT ![c] = place],
         on' = on \/ \E t : on' = [on EXCEPT ![c] = t],
         \/ ~Transitioning(c) /\ UNCHANGED seen
         \/ Forget({c})
         \/ WriteRow(c)
  PROVE  Reads'
<1>1. \A d \in Callers \ {c} : at'[d] = at[d] /\ on'[d] = on[d]
  BY DEF Control
<1>2. \/ ~Transitioning(c) /\ seen' = seen
      \/ seen'[c] = Unread /\ \A d \in Callers \ {c} : seen'[d] = seen[d]
  <2>1. CASE WriteRow(c)
    <3>1. seen' = [seen EXCEPT ![c] = Unread] /\ seen[c] # Unread
      BY <2>1 DEF WriteRow
    <3>2. QED
      BY <3>1 DEF RepoTypeOK
  <2>2. QED
    BY <2>1 DEF Forget
<1>3. QED
  BY <1>1, <1>2, ReadsStay

LEMMA ExceptionKeepsReads ==
  ASSUME RepoTypeOK, Control, Reads, NEW w \in Workers,
         ExceptionInExecution(w)
  PROVE  Reads'
<1>1. w \in Callers /\ Forget({w}) /\ on' = on
  BY Kinds DEF ExceptionInExecution, GoOn, Finish
<1>2. PICK place : at' = [at EXCEPT ![w] = place]
  BY DEF ExceptionInExecution, GoOn, Goto, Finish
<1>3. QED
  BY <1>1, <1>2, OneMoves

LEMMA RaiseKeepsReads ==
  ASSUME RepoTypeOK, Control, Reads, NEW c \in Callers,
         Raise(c) \/ (c \in Procs /\ Collapse(c))
  PROVE  Reads'
<1>1. CASE c \in Workers /\ ExceptionInExecution(c)
  BY <1>1, ExceptionKeepsReads
<1>2. CASE Return(c) /\ Forget({c})
  BY <1>2, OneMoves DEF Return, Goto
<1>3. CASE Collapse(c)
  <2>1. \A d \in Callers :
          \/ seen'[d] = Unread
          \/ seen'[d] = seen[d] /\ at'[d] = at[d] /\ on'[d] = on[d]
    BY <1>3 DEF Collapse, Forget
  <2>2. QED
    BY <2>1, ReadsStay
<1>4. QED
  BY <1>1, <1>2, <1>3 DEF Raise

LEMMA StepKeepsReads ==
  ASSUME RepoTypeOK, Control, Reads, NEW c \in Callers, Step(c)
  PROVE  Reads'
<1>1. CASE Read(c)
  <2>1. /\ \A d \in Callers \ {c} : seen'[d] = seen[d]
        /\ seen'[c].task = on[c] /\ seen'[c].target = Target[at[c]]
        /\ UNCHANGED <<at, on>> /\ Transitioning(c)
    BY <1>1 DEF Read, ReadRow, coVars, RepoTypeOK
  <2>2. QED
    BY <2>1 DEF Reads, Transitioning
<1>2. CASE Reject(c) \/ Conflict(c)
  BY <1>2, RaiseKeepsReads DEF Reject, Conflict
<1>3. CASE Commit(c)
  BY <1>3, OneMoves DEF Commit, GoOn, Goto
<1>4. CASE Announce(c)
  <2>1. at[c] \in DOMAIN EventOf /\ UNCHANGED seen
    BY <1>4 DEF Announce
  <2>2. ~Transitioning(c)
    BY <2>1 DEF EventOf, Target, Transitioning
  <2>3. /\ \E place : at' = [at EXCEPT ![c] = place]
        /\ on' = on \/ on' = [on EXCEPT ![c] = None]
    BY <1>4 DEF Announce, GoOn, Goto, Finish, Return
  <2>4. QED
    BY <2>1, <2>2, <2>3, OneMoves
<1>5. CASE SignalRunning(c)
  <2>1. PICK w \in Workers, place \in {"ended", "cancelLoad", "finally"} :
          Interrupts(c, w, place)
    BY <1>5, Signalled
  <2>2. ~Transitioning(c)
    BY <1>5 DEF SignalRunning, Transitioning, Target
  <2>3. /\ seen'[w] = Unread
        /\ \A d \in Callers \ {w} : seen'[d] = seen[d]
        /\ \A d \in Callers \ {c, w} : at'[d] = at[d] /\ on'[d] = on[d]
    BY <2>1 DEF Forget, Control, Interrupts
  <2>4. QED
    BY <2>2, <2>3, ReadsStay
<1>6. CASE \/ SignalNobody(c) \/ Enqueue(c)
           \/ Take(c) \/ Settle(c) \/ Die(c)
           \/ Begin(c) \/ Load(c) \/ Furnish(c) \/ RunAgent(c)
           \/ LoadFailed(c) \/ LoadCancelled(c) \/ Release(c)
  <2>1. at[c] \in {"signal", "put", "get", "ended", "scheduled", "load",
          "environment", "reattach", "agent", "failLoad", "cancelLoad",
          "finally"}
    BY <1>6
    DEF SignalNobody, Enqueue, Take, Settle, Die, Begin, Load, Furnish,
        RunAgent, LoadFailed, LoadCancelled, Release, ExecStep
  <2>2. ~Transitioning(c)
    BY <2>1 DEF Transitioning, Target
  <2>3. UNCHANGED seen
    BY <1>6
    DEF SignalNobody, Enqueue, Take, Settle, Die, Begin, Load, Furnish,
        RunAgent, LoadFailed, LoadCancelled, Release, ExecStep, repoVars
  <2>4. /\ \E place : at' = [at EXCEPT ![c] = place]
        /\ on' = on \/ \E t : on' = [on EXCEPT ![c] = t]
    BY <1>6
    DEF SignalNobody, Enqueue, Take, Settle, Die, Begin, Load, Furnish,
        RunAgent, LoadFailed, LoadCancelled, Release, GoOn, Goto, Finish,
        Return, LetGo
  <2>5. QED
    BY <2>2, <2>3, <2>4, OneMoves
<1>7. CASE c \in Workers /\ AgentRaises(c)
  BY <1>7, ExceptionKeepsReads DEF AgentRaises
<1>8. CASE TakeDuplicate(c) \/ Boot(c) \/ Requeue(c)
  BY <1>8, ReadsStay DEF TakeDuplicate, Boot, Requeue, repoVars, coVars
<1>9. CASE c \in Procs /\ Recancel(c)
  <2>1. at[c] = "idle" /\ UNCHANGED seen
    BY <1>9 DEF Recancel, Visit, repoVars
  <2>2. UNCHANGED <<at, on>> \/ \A d \in Callers \ {c} :
                                   at'[d] = at[d] /\ on'[d] = on[d]
    BY <1>9 DEF Recancel, Goto, Control
  <2>3. ~Transitioning(c)
    BY <2>1 DEF Transitioning, Target
  <2>4. QED
    BY <2>1, <2>2, <2>3, ReadsStay
<1>10. CASE c \in Procs /\ Serve(c)
  <2>1. UNCHANGED <<seen, on>>
    BY <1>10 DEF Serve, repoVars
  <2>2. \A d \in Callers :
          at'[d] # at[d] => d \in Workers /\ Home[d] = c
    BY <1>10 DEF Serve
  <2>3. \A d \in Workers : Home[d] = c => at[d] = "off"
    BY <1>10, Kinds DEF Serve, Control, Up
  <2>4. \A d \in Callers : ~Transitioning(d) \/ at'[d] = at[d]
    BY <2>2, <2>3 DEF Transitioning, Target
  <2>5. QED
    BY <2>1, <2>4, ReadsStay
<1>11. QED
  BY <1>1, <1>2, <1>3, <1>4, <1>5, <1>6, <1>7, <1>8, <1>9, <1>10 DEF Step

LEMMA ReadsStep ==
  ASSUME RepoTypeOK, Control, Reads, [Next]_vars
  PROVE  Reads'
<1>1. ASSUME NEW c \in Callers, Step(c)
      PROVE  Reads'
  BY <1>1, StepKeepsReads
<1>2. ASSUME NEW c \in Callers, Fault(c)
      PROVE  Reads'
  <2>1. CASE c \in Workers /\ ExceptionInExecution(c)
    BY <2>1, ExceptionKeepsReads
  <2>2. CASE at[c] \in {"get", "ended"} /\ LetGo(c, "dead") /\ UNCHANGED repoVars
    BY <2>2, OneMoves DEF LetGo, Goto, Transitioning, Target, repoVars
  <2>3. CASE Raise(c)
    BY <2>3, RaiseKeepsReads
  <2>4. QED
    BY <1>2, <2>1, <2>2, <2>3 DEF Fault
<1>3. ASSUME NEW c \in Clients, Request(c)
      PROVE  Reads'
  <2>1. PICK t \in Tasks : Submit(c, t) \/ Retry(c, t) \/ Cancel(c, t)
    BY <1>3 DEF Request
  <2>2. PICK place : Arrive(c, t, place) /\ UNCHANGED seen
    BY <2>1 DEF Submit, Retry, Cancel, CreateRow, repoVars
  <2>3. QED
    BY <2>2, Kinds, OneMoves DEF Arrive, Goto, Transitioning, Target
<1>4. ASSUME NEW p \in Procs, Crash(p)
      PROVE  Reads'
  BY <1>4, Kinds, RaiseKeepsReads DEF Crash
<1>5. CASE UNCHANGED vars
  BY <1>5, ReadsStay DEF vars
<1>6. QED
  BY <1>1, <1>2, <1>3, <1>4, <1>5 DEF Next

LEMMA Remembered == Spec => []Reads
<1>1. Init => Reads
  BY DEF Init, RepoInit, Reads
<1>2. RepoTypeOK /\ Control /\ Reads /\ [Next]_vars => Reads'
  BY ReadsStep
<1>3. QED
  BY <1>1, <1>2, Controlled, UsesTheRepository, RepoTypeCorrect, PTL DEF Spec

(***************************************************************************)
(* Nothing is left behind, whichever way requests, executions and          *)
(* processes end (orchestrator.py:180-194, 412-434): a coroutine occupies  *)
(* its task exactly while it is not at rest, and remembers of the table    *)
(* only what belongs to the transition it is in.                           *)
(***************************************************************************)
THEOREM BookkeepingCorrect == Spec => []Bookkeeping
<1>1. Control /\ Reads => Bookkeeping
  BY DEF Control, Reads, Bookkeeping
<1>2. QED
  BY <1>1, Controlled, Remembered, PTL

\* A status without outgoing edges stays.
LEMMA TerminalStays ==
  ASSUME RepoTypeOK, SnapshotsAgree, [RepoNext]_repoVars, NEW t \in Tasks,
         row[t].status \in {"completed", "cancelled"}
  PROVE  row'[t].status = row[t].status
<1> DEFINE status == [u \in Tasks |-> row[u].status]
<1>1. Lifecycle!Next \/ status' = status
  BY StepFollowsStateMachine
<1>2. status[t] = row[t].status /\ status'[t] = row'[t].status
  OBVIOUS
<1>3. ASSUME NEW u \in Tasks, Lifecycle!Create(u)
      PROVE  status'[t] = status[t]
  <2>1. status' = [status EXCEPT ![u] = "created"] /\ status[u] = Absent
    BY <1>3, SameStateMachine DEF Lifecycle!Create
  <2>2. u # t
    BY <1>2, <2>1 DEF Absent
  <2>3. QED
    BY <2>1, <2>2
<1>4. ASSUME NEW u \in Tasks, NEW target \in Status, Lifecycle!Move(u, target)
      PROVE  status'[t] = status[t]
  <2>1. /\ status' = [status EXCEPT ![u] = target]
        /\ target \in Allowed[status[u]]
    BY <1>4, SameStateMachine DEF Lifecycle!Move
  <2>2. u # t
    BY <1>2, <2>1 DEF Allowed
  <2>3. QED
    BY <2>1, <2>2
<1>5. status'[t] = status[t]
  BY <1>1, <1>3, <1>4, SameStateMachine DEF Lifecycle!Next
<1>6. QED
  BY <1>2, <1>5

\* Who is about to announce an end has committed it.
Committed ==
  \A c \in Callers :
    /\ at[c] = "tellCompleted" => row[on[c]].status = "completed"
    /\ at[c] = "tellCancelled" => row[on[c]].status = "cancelled"

\* Announcing an end is entered from the transition to it alone.
LEMMA OnlyCommitTells ==
  ASSUME Control, [Next]_vars, NEW c \in Callers,
         at'[c] \in {"tellCompleted", "tellCancelled"}
  PROVE  Commit(c) \/ (at'[c] = at[c] /\ on'[c] = on[c])
<1>1. ASSUME NEW d \in Callers, Step(d)
      PROVE  Commit(c) \/ (at'[c] = at[c] /\ on'[c] = on[c])
  <2>1. CASE Read(d) \/ TakeDuplicate(d) \/ Boot(d) \/ Requeue(d)
    BY <2>1 DEF Read, TakeDuplicate, Boot, Requeue, coVars
  <2>2. CASE Reject(d) \/ Conflict(d)
    <3>1. Raise(d)
      BY <2>2 DEF Reject, Conflict
    <3>2. QED
      BY <3>1
      DEF Raise, ExceptionInExecution, GoOn, Goto, Finish, Return, Collapse,
          Control, Rest
  <2>3. CASE Commit(d)
    BY <2>3 DEF Commit, GoOn, Goto, Control
  <2>4. CASE Announce(d)
    BY <2>4 DEF Announce, GoOn, Goto, Finish, Return, Control
  <2>5. CASE SignalRunning(d)
    <3>1. PICK w \in Workers, place \in {"ended", "cancelLoad", "finally"} :
            Interrupts(d, w, place)
      BY <2>5, Signalled
    <3>2. c # d /\ c # w
      BY <3>1 DEF Control, Interrupts
    <3>3. QED
      BY <3>1, <3>2 DEF Control, Interrupts
  <2>6. CASE \/ SignalNobody(d) \/ Enqueue(d)
             \/ Take(d) \/ Settle(d) \/ Die(d)
             \/ Begin(d) \/ Load(d) \/ Furnish(d) \/ RunAgent(d)
             \/ LoadFailed(d) \/ LoadCancelled(d) \/ Release(d)
    <3>1. PICK place \in {"cancelNow", "idle", "scheduled", "get", "dead",
                          "load", "finally", "provision", "environment",
                          "reattach", "run", "tellStarted", "complete",
                          "fail", "cancel", "ended"} :
            at' = [at EXCEPT ![d] = place]
      BY <2>6
      DEF SignalNobody, Enqueue, Take, Settle, Die, Begin, Load, Furnish,
          RunAgent, LoadFailed, LoadCancelled, Release, GoOn, Goto, Finish,
          Return, LetGo
    <3>2. on' = on \/ \E t : on' = [on EXCEPT ![d] = t]
      BY <2>6
      DEF SignalNobody, Enqueue, Take, Settle, Die, Begin, Load, Furnish,
          RunAgent, LoadFailed, LoadCancelled, Release, GoOn, Finish,
          Return, LetGo
    <3>3. c # d
      BY <3>1 DEF Control
    <3>4. QED
      BY <3>1, <3>2, <3>3 DEF Control
  <2>7. CASE AgentRaises(d)
    BY <2>7
    DEF AgentRaises, ExceptionInExecution, GoOn, Goto, Finish, Control
  <2>8. CASE Recancel(d)
    BY <2>8 DEF Recancel, Goto, Control
  <2>9. CASE Serve(d)
    BY <2>9 DEF Serve
  <2>10. QED
    BY <1>1, <2>1, <2>2, <2>3, <2>4, <2>5, <2>6, <2>7, <2>8, <2>9 DEF Step
<1>2. ASSUME NEW d \in Callers, Fault(d)
      PROVE  at'[c] = at[c] /\ on'[c] = on[c]
  BY <1>2
  DEF Fault, Raise, ExceptionInExecution, GoOn, Goto, Finish, Return, LetGo,
      Collapse, Control, Rest
<1>3. ASSUME NEW d \in Clients, Request(d)
      PROVE  at'[c] = at[c] /\ on'[c] = on[c]
  BY <1>3, Kinds DEF Request, Submit, Retry, Cancel, Arrive, Goto, Control
<1>4. ASSUME NEW p \in Procs, Crash(p)
      PROVE  at'[c] = at[c] /\ on'[c] = on[c]
  BY <1>4 DEF Crash, Collapse, Rest
<1>5. CASE UNCHANGED vars
  BY <1>5 DEF vars
<1>6. QED
  BY <1>1, <1>2, <1>3, <1>4, <1>5 DEF Next

\* Only an announcement adds to the event log.
LEMMA OnlyAnnounceLogs ==
  ASSUME [Next]_vars, log' # log
  PROVE  \E c \in Callers : Announce(c)
<1>1. ASSUME NEW d \in Callers, Step(d), ~Announce(d)
      PROVE  log' = log
  BY <1>1
  DEF Step, Read, Reject, Commit, Conflict, SignalRunning, SignalNobody,
      Enqueue, TakeDuplicate, Take, Settle, Die, Begin, Load, Furnish,
      RunAgent, AgentRaises, LoadFailed, LoadCancelled, Release, ExecStep,
      Boot, Requeue, Recancel, Serve
<1>2. QED
  BY <1>1
  DEF Next, Fault, Crash, Request, Submit, Retry, Cancel, Arrive, vars

LEMMA CommittedStep ==
  ASSUME RepoTypeOK, SnapshotsAgree, Control, Reads, Committed, [Next]_vars
  PROVE  Committed'
<1> SUFFICES ASSUME NEW c \in Callers,
                    at'[c] \in {"tellCompleted", "tellCancelled"}
             PROVE  /\ at'[c] = "tellCompleted"
                         => row'[on'[c]].status = "completed"
                    /\ at'[c] = "tellCancelled"
                         => row'[on'[c]].status = "cancelled"
  BY DEF Committed
<1>1. CASE Commit(c)
  <2>1. /\ at[c] \in DOMAIN Target /\ on' = on
        /\ at'[c] = AfterCommit[at[c]]
    BY <1>1 DEF Commit, Transitioning, GoOn, Goto, Control
  <2>2. on[c] \in Tasks
    BY <2>1, AfterCommitPlace, Busy DEF Control
  <2>3. seen[c].task = on[c] /\ seen[c].target = Target[at[c]]
    BY <1>1 DEF Commit, WriteRow, Reads
  <2>4. row'[on[c]].status = Target[at[c]]
    BY <1>1, <2>2, <2>3 DEF Commit, WriteRow, RepoTypeOK
  <2>5. /\ AfterCommit[at[c]] = "tellCompleted" => Target[at[c]] = "completed"
        /\ AfterCommit[at[c]] = "tellCancelled" => Target[at[c]] = "cancelled"
    BY <2>1 DEF AfterCommit, Target
  <2>6. QED
    BY <2>1, <2>4, <2>5
<1>2. CASE at'[c] = at[c] /\ on'[c] = on[c]
  <2>1. PICK t \in Tasks : t = on[c]
    BY <1>2, Busy DEF Resting
  <2>2. row'[t].status = row[t].status
    BY <1>2, <2>1, RepoStep, TerminalStays DEF Committed
  <2>3. QED
    BY <1>2, <2>1, <2>2 DEF Committed
<1>3. QED
  BY <1>1, <1>2, OnlyCommitTells

LEMMA TruthfulStep ==
  ASSUME RepoTypeOK, SnapshotsAgree, Control, Supplies, Committed,
         TruthfulEvents, [Next]_vars
  PROVE  TruthfulEvents'
<1> SUFFICES ASSUME NEW t \in Tasks,
                    log'[t] \in {"task.completed", "task.cancelled"}
             PROVE  /\ log'[t] = "task.completed"
                         => row'[t].status = "completed"
                    /\ log'[t] = "task.cancelled"
                         => row'[t].status = "cancelled"
  BY DEF TruthfulEvents
<1>1. CASE log'[t] = log[t]
  <2>1. row'[t].status = row[t].status
    BY <1>1, RepoStep, TerminalStays DEF TruthfulEvents
  <2>2. QED
    BY <1>1, <2>1 DEF TruthfulEvents
<1>2. CASE log'[t] # log[t]
  <2>1. PICK c \in Callers : Announce(c)
    BY <1>2, OnlyAnnounceLogs
  <2>2. /\ at[c] \in DOMAIN EventOf
        /\ log' = [log EXCEPT ![on[c]] = EventOf[at[c]]]
        /\ UNCHANGED row
    BY <2>1 DEF Announce
  <2>3. on[c] = t /\ log'[t] = EventOf[at[c]]
    BY <1>2, <2>2 DEF Supplies
  <2>4. /\ log'[t] = "task.completed" => at[c] = "tellCompleted"
        /\ log'[t] = "task.cancelled" => at[c] = "tellCancelled"
    BY <2>2, <2>3 DEF EventOf
  <2>5. QED
    BY <2>2, <2>3, <2>4 DEF Committed
<1>3. QED
  BY <1>1, <1>2

(***************************************************************************)
(* The event log never tells of an end that is not in the table, however   *)
(* many executions and cancel requests race for it                         *)
(* (orchestrator.py:157-160, 355-366, 376-379).                            *)
(***************************************************************************)
THEOREM EventsAreTruthful == Spec => []TruthfulEvents
<1>1. Init => Committed /\ TruthfulEvents
  BY DEF Init, Committed, TruthfulEvents, Rest
<1>2. /\ RepoTypeOK /\ SnapshotsAgree /\ Control /\ Supplies /\ Reads
      /\ Committed /\ TruthfulEvents
      /\ [Next]_vars
      => Committed' /\ TruthfulEvents'
  BY CommittedStep, TruthfulStep
<1>3. QED
  BY <1>1, <1>2, Controlled, Remembered, UsesTheRepository, RepoTypeCorrect,
     OrchestratorLocksRows, PTL
  DEF Spec

=============================================================================
