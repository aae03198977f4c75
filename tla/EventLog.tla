------------------------------ MODULE EventLog ------------------------------
(***************************************************************************)
(* The events of one task: EventStore.append and list_after, the bus       *)
(* (minion/events.py) and the two ways the API shows them (minion/api.py). *)
(*                                                                         *)
(* append locks the session row, numbers and inserts the event, commits,   *)
(* and then publishes it; other writers commit and publish in between.  A  *)
(* reader is a client with the number of the last event it has seen, which *)
(* it passes as "after" when it asks again.  A poller gets one page of     *)
(* events per request.  A websocket gets a page, then subscribes to the    *)
(* bus, and may break at any moment.                                       *)
(*                                                                         *)
(* An event is its number and its author; its type and payload do not      *)
(* matter here.  The unique index on (task_id, sequence) never rejects an  *)
(* event as long as LogIsGapless holds.                                    *)
(***************************************************************************)
EXTENDS Integers, Sequences, FiniteSets

CONSTANTS
  Writers,    \* coroutines that append, each with a database session
  Sockets,    \* clients that follow the task over a websocket
  Pollers,    \* clients that ask for a page from time to time
  Page,       \* limit of list_after
  Capacity,   \* maxsize of a subscriber's queue
  MaxEvents   \* bound: the events appended

Readers == Sockets \cup Pollers

ASSUME ReadersAssumption == Sockets \cap Pollers = {}

ASSUME SizesAssumption ==
  Page \in Nat \ {0} /\ Capacity \in Nat \ {0} /\ MaxEvents \in Nat

VARIABLES
  events,     \* rows of the events table
  last,       \* last_event_sequence of the session row
  stage,      \* stage[w]: how far the append of w is
  number,     \* number[w]: sequence of the event w appends
  link,       \* link[s]: state of the websocket of s
  batch,      \* batch[s]: replayed events still to be sent to s
  inbox,      \* inbox[s]: the queue of s at the bus
  shown,      \* shown[r]: the events client r has got
  cursor      \* cursor[r]: sequence of the last event client r has got

logVars == <<events, last, stage, number>>
busVars == <<link, batch, inbox>>
seenVars == <<shown, cursor>>
vars == <<events, last, stage, number, link, batch, inbox, shown, cursor>>

Event == [sequence : Nat, by : Writers]

\* The queue of a client exists while it is subscribed, and never overflows.
LogTypeOK ==
  /\ events \subseteq Event
  /\ last \in Nat
  /\ stage \in [Writers -> {"idle", "locked", "committed"}]
  /\ number \in [Writers -> Nat]
  /\ link \in [Sockets -> {"closed", "replaying", "live"}]
  /\ batch \in [Sockets -> SUBSET Nat]
  /\ inbox \in [Sockets -> Seq(Nat)]
  /\ shown \in [Readers -> SUBSET Nat]
  /\ cursor \in [Readers -> Nat]
  /\ \A s \in Sockets :
       /\ link[s] # "replaying" => batch[s] = {}
       /\ link[s] # "live" => inbox[s] = <<>>
       /\ Len(inbox[s]) <= Capacity

Init ==
  /\ events = {}
  /\ last = 0
  /\ stage = [w \in Writers |-> "idle"]
  /\ number = [w \in Writers |-> 0]
  /\ link = [s \in Sockets |-> "closed"]
  /\ batch = [s \in Sockets |-> {}]
  /\ inbox = [s \in Sockets |-> <<>>]
  /\ shown = [r \in Readers |-> {}]
  /\ cursor = [r \in Readers |-> 0]

Committed == {e.sequence : e \in events}
-----------------------------------------------------------------------------
(***************************************************************************)
(* append.                                                                 *)
(***************************************************************************)
\* Deviation: no with_for_update.
LockNobody(w) ==
  /\ last < MaxEvents
  /\ stage[w] = "idle"
  /\ stage' = [stage EXCEPT ![w] = "locked"]
  /\ number' = [number EXCEPT ![w] = last + 1]
  /\ UNCHANGED <<events, last, busVars, seenVars>>

\* SELECT ... FOR UPDATE of the session row.
Lock(w) ==
  /\ last < MaxEvents
  /\ stage[w] = "idle"
  /\ \A v \in Writers : stage[v] # "locked"
  /\ stage' = [stage EXCEPT ![w] = "locked"]
  /\ number' = [number EXCEPT ![w] = last + 1]
  /\ UNCHANGED <<events, last, busVars, seenVars>>

\* INSERT of the event, UPDATE of the session row, commit.
Commit(w) ==
  /\ stage[w] = "locked"
  /\ events' = events \cup {[sequence |-> number[w], by |-> w]}
  /\ last' = number[w]
  /\ stage' = [stage EXCEPT ![w] = "committed"]
  /\ UNCHANGED <<number, busVars, seenVars>>

\* To every subscriber whose queue has room; QueueFull drops the event.
Broadcast(n) ==
  inbox' = [s \in Sockets |->
              IF link[s] = "live" /\ Len(inbox[s]) < Capacity
              THEN Append(inbox[s], n) ELSE inbox[s]]

\* Deviation: publish_live before the commit.
PublishEarly(w) ==
  /\ stage[w] = "locked"
  /\ Broadcast(number[w])
  /\ UNCHANGED <<logVars, link, batch, seenVars>>

\* publish_live, after the commit.
Publish(w) ==
  /\ stage[w] = "committed"
  /\ Broadcast(number[w])
  /\ stage' = [stage EXCEPT ![w] = "idle"]
  /\ UNCHANGED <<events, last, number, link, batch, seenVars>>

\* The writer is cancelled, crashes or loses the database or Redis: a
\* rollback before the commit, an event nobody publishes after it.
Abandon(w) ==
  /\ stage[w] # "idle"
  /\ stage' = [stage EXCEPT ![w] = "idle"]
  /\ UNCHANGED <<events, last, number, busVars, seenVars>>
-----------------------------------------------------------------------------
(***************************************************************************)
(* list_after: the Page oldest events after number n.                      *)
(***************************************************************************)
After(n) == {m \in Committed : m > n}

\* Deviation: the newest events first.
ListAfterNewest(n) ==
  {m \in After(n) : Cardinality({k \in After(n) : k > m}) < Page}

ListAfter(n) ==
  {m \in After(n) : Cardinality({k \in After(n) : k < m}) < Page}

\* Deviation: the page starts after the event that follows the cursor.
PollSkipping(r) ==
  /\ ListAfter(cursor[r] + 1) # {}
  /\ shown' = [shown EXCEPT ![r] = @ \cup ListAfter(cursor[r] + 1)]
  /\ \E m \in ListAfter(cursor[r] + 1) :
       /\ \A k \in ListAfter(cursor[r] + 1) : k <= m
       /\ cursor' = [cursor EXCEPT ![r] = m]
  /\ UNCHANGED <<logVars, busVars>>

\* GET /events?after=cursor.  An empty page changes nothing.
Poll(r) ==
  /\ ListAfter(cursor[r]) # {}
  /\ shown' = [shown EXCEPT ![r] = @ \cup ListAfter(cursor[r])]
  /\ \E m \in ListAfter(cursor[r]) :
       /\ \A k \in ListAfter(cursor[r]) : k <= m
       /\ cursor' = [cursor EXCEPT ![r] = m]
  /\ UNCHANGED <<logVars, busVars>>

Show(s, m) ==
  /\ shown' = [shown EXCEPT ![s] = @ \cup {m}]
  /\ cursor' = [cursor EXCEPT ![s] = m]

\* The websocket opens and reads its replay.
Open(s) ==
  /\ link[s] = "closed"
  /\ link' = [link EXCEPT ![s] = "replaying"]
  /\ batch' = [batch EXCEPT ![s] = ListAfter(cursor[s])]
  /\ UNCHANGED <<logVars, inbox, seenVars>>

\* The next event of the replay is sent.
Send(s) ==
  /\ link[s] = "replaying"
  /\ \E m \in batch[s] :
       /\ \A k \in batch[s] : m <= k
       /\ Show(s, m)
       /\ batch' = [batch EXCEPT ![s] = @ \ {m}]
  /\ UNCHANGED <<logVars, link, inbox>>

\* The replay has been sent; the first turn of "async for" subscribes.
Subscribe(s) ==
  /\ link[s] = "replaying"
  /\ batch[s] = {}
  /\ link' = [link EXCEPT ![s] = "live"]
  /\ UNCHANGED <<logVars, batch, inbox, seenVars>>

\* Deviation: no look at the sequence of the last event sent.
ReceiveAll(s) ==
  /\ link[s] = "live"
  /\ inbox[s] # <<>>
  /\ inbox' = [inbox EXCEPT ![s] = Tail(@)]
  /\ Show(s, Head(inbox[s]))
  /\ UNCHANGED <<logVars, link, batch>>

\* A live event is sent unless its number has been passed.
Receive(s) ==
  /\ link[s] = "live"
  /\ inbox[s] # <<>>
  /\ inbox' = [inbox EXCEPT ![s] = Tail(@)]
  /\ IF Head(inbox[s]) <= cursor[s]
     THEN UNCHANGED seenVars
     ELSE Show(s, Head(inbox[s]))
  /\ UNCHANGED <<logVars, link, batch>>

\* Deviation: the generator ends without discarding its queue.
CloseLeavesQueue(s) ==
  /\ link[s] # "closed"
  /\ link' = [link EXCEPT ![s] = "closed"]
  /\ batch' = [batch EXCEPT ![s] = {}]
  /\ UNCHANGED <<logVars, inbox, seenVars>>

\* The connection breaks, or a process at one of its ends stops.
Close(s) ==
  /\ link[s] # "closed"
  /\ link' = [link EXCEPT ![s] = "closed"]
  /\ batch' = [batch EXCEPT ![s] = {}]
  /\ inbox' = [inbox EXCEPT ![s] = <<>>]
  /\ UNCHANGED <<logVars, seenVars>>

Next ==
  \/ \E w \in Writers : Lock(w) \/ Commit(w) \/ Publish(w) \/ Abandon(w)
  \/ \E r \in Pollers : Poll(r)
  \/ \E s \in Sockets :
       Open(s) \/ Send(s) \/ Subscribe(s) \/ Receive(s) \/ Close(s)

Spec == Init /\ [][Next]_vars

\* Pollers ask again and again; nothing is assumed of writers and sockets.
FairSpec == Spec /\ \A r \in Pollers : WF_vars(Poll(r))
-----------------------------------------------------------------------------
(***************************************************************************)
(* LLD.md:141: the events of a task are numbered 1, 2, 3, ... without a    *)
(* gap and without a number used twice, and the session row knows the last *)
(* one, whatever the writers do at the same time or leave undone           *)
(* (events.py:92-129).                                                     *)
(***************************************************************************)
LogIsGapless ==
  /\ Committed = 1..last
  /\ \A e, f \in events : e.sequence = f.sequence => e = f

(***************************************************************************)
(* No client is shown, or is about to be shown, an event that a rollback   *)
(* can still take back (events.py:129-130: commit, then publish).          *)
(***************************************************************************)
OnlyCommittedIsShown ==
  /\ \A r \in Readers : shown[r] \subseteq Committed
  /\ \A s \in Sockets :
       \A i \in DOMAIN inbox[s] : inbox[s][i] \in Committed

(***************************************************************************)
(* No client gets an event twice or an older one after a newer one, across *)
(* replay, live events that overlap it or overtake each other on the bus,  *)
(* and new connections (api.py:160-170).                                   *)
(***************************************************************************)
ShownInOrder ==
  [][\A r \in Readers :
       shown'[r] # shown[r] \/ cursor'[r] # cursor[r] =>
         /\ cursor'[r] > cursor[r]
         /\ \A m \in shown'[r] \ shown[r] : m > cursor[r]
         /\ \A m \in shown[r] : m <= cursor[r]]_vars

\* The abstract feed, read off the tables, with the pollers as its readers.
Feed ==
  INSTANCE EventFeed
    WITH Authors <- Writers, Readers <- Pollers,
         length <- last,
         author <- [n \in 1..last |->
                      (CHOOSE e \in events : e.sequence = n).by],
         read <- [r \in Pollers |-> shown[r]]

(***************************************************************************)
(* The log implements the feed: since the row lock is held until the       *)
(* commit, numbers appear in the table in their order, so a client that    *)
(* asks for the events after the last one it has got, a page at a time,    *)
(* skips none (ARCHITECTURE.md:344-347).                                   *)
(***************************************************************************)
ImplementsFeed == Feed!Spec

(***************************************************************************)
(* A client that keeps asking gets every event, however the log grows in   *)
(* the meantime and however small the page is.                             *)
(***************************************************************************)
PollersCatchUp ==
  \A r \in Pollers : \A n \in 1..MaxEvents : n <= last ~> n \in shown[r]

(***************************************************************************)
(* events.py:4-6: "Reconnection always replays from SQL, so Pub/Sub loss   *)
(* cannot create a permanent history gap."  An event below the number a    *)
(* client will reconnect with is one it has got.                           *)
(***************************************************************************)
NoPermanentGap ==
  \A s \in Sockets : \A n \in 1..cursor[s] : n \in shown[s]
=============================================================================
