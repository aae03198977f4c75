--------------------------- MODULE EventLogProofs ---------------------------
(***************************************************************************)
(* The event log of a task, for any writers, websockets, pollers, page     *)
(* size and queue length.                                                  *)
(***************************************************************************)
EXTENDS EventLog, FiniteSetTheorems, TLAPS

(***************************************************************************)
(* What the writers are doing: at most one holds the session row, and its  *)
(* number is the next one; a committed number is in the table.             *)
(***************************************************************************)
RowIsLocked ==
  /\ \A w \in Writers : stage[w] = "locked" =>
       /\ number[w] = last + 1
       /\ \A v \in Writers : stage[v] = "locked" => v = w
  /\ \A w \in Writers : stage[w] = "committed" => number[w] \in Committed

\* Events on their way to a client, and those a client has got.
Delivery ==
  /\ \A r \in Readers :
       /\ shown[r] \subseteq 1..cursor[r]
       /\ cursor[r] \in 0..last
  /\ \A r \in Pollers : shown[r] = 1..cursor[r]
  /\ \A s \in Sockets :
       /\ batch[s] \subseteq Committed
       /\ \A m \in batch[s] : cursor[s] < m
       /\ \A i \in DOMAIN inbox[s] : inbox[s][i] \in Committed

LogInv == LogTypeOK /\ LogIsGapless /\ RowIsLocked /\ Delivery

LEMMA Kinds ==
  /\ \A r \in Pollers : r \in Readers /\ r \notin Sockets
  /\ \A s \in Sockets : s \in Readers /\ s \notin Pollers
BY ReadersAssumption DEF Readers

(***************************************************************************)
(* A page is a stretch of the log that begins right after the cursor: the  *)
(* oldest events first (events.py:136-141).                                *)
(***************************************************************************)
LEMMA PageIsAStretch ==
  ASSUME last \in Nat, LogIsGapless, NEW n \in Nat
  PROVE  /\ ListAfter(n) \subseteq (n + 1)..last
         /\ \A m \in ListAfter(n) : (n + 1)..m \subseteq ListAfter(n)
<1>1. After(n) = (n + 1)..last
  BY DEF After, LogIsGapless
<1>2. ListAfter(n) \subseteq (n + 1)..last
  BY <1>1 DEF ListAfter
<1>3. ASSUME NEW m \in ListAfter(n), NEW k \in (n + 1)..m
      PROVE  k \in ListAfter(n)
  <2> DEFINE Below(i) == {j \in After(n) : j < i}
  <2>1. m \in (n + 1)..last /\ Cardinality(Below(m)) < Page
    BY <1>1 DEF ListAfter
  <2>2. k \in After(n)
    BY <1>1, <2>1
  <2>3. Below(k) \subseteq Below(m)
    BY <1>1, <2>1
  <2>4. IsFiniteSet(Below(m))
    <3>1. IsFiniteSet((n + 1)..last)
      BY FS_Interval
    <3>2. QED
      BY <1>1, <3>1, FS_Subset
  <2>5. /\ Cardinality(Below(k)) <= Cardinality(Below(m))
        /\ Cardinality(Below(k)) \in Nat /\ Cardinality(Below(m)) \in Nat
    BY <2>3, <2>4, FS_Subset, FS_CardinalityType
  <2>6. Cardinality(Below(k)) < Page
    BY <2>1, <2>5, SizesAssumption
  <2>7. QED
    BY <2>2, <2>6 DEF ListAfter
<1>4. QED
  BY <1>2, <1>3

\* What a publication does to the queue of a client.
LEMMA BroadcastAdds ==
  ASSUME LogTypeOK, NEW n \in Nat, Broadcast(n)
  PROVE  /\ inbox' \in [Sockets -> Seq(Nat)]
         /\ \A s \in Sockets :
              /\ Len(inbox'[s]) <= Capacity
              /\ link[s] # "live" => inbox'[s] = inbox[s]
              /\ \A i \in DOMAIN inbox'[s] :
                   inbox'[s][i] = n \/ \E j \in DOMAIN inbox[s] :
                                         inbox'[s][i] = inbox[s][j]
<1> USE DEF LogTypeOK
<1>1. ASSUME NEW s \in Sockets
      PROVE  /\ inbox'[s] \in Seq(Nat)
             /\ Len(inbox'[s]) <= Capacity
             /\ link[s] # "live" => inbox'[s] = inbox[s]
             /\ \A i \in DOMAIN inbox'[s] :
                  inbox'[s][i] = n \/ \E j \in DOMAIN inbox[s] :
                                        inbox'[s][i] = inbox[s][j]
  <2>1. inbox[s] \in Seq(Nat)
    OBVIOUS
  <2>2. CASE link[s] = "live" /\ Len(inbox[s]) < Capacity
    <3>1. inbox'[s] = Append(inbox[s], n)
      BY <2>2 DEF Broadcast
    <3>2. Len(inbox'[s]) = Len(inbox[s]) + 1
      BY <2>1, <3>1
    <3>3. \A i \in DOMAIN inbox'[s] :
            inbox'[s][i] = n \/ (i \in DOMAIN inbox[s]
                                 /\ inbox'[s][i] = inbox[s][i])
      BY <2>1, <3>1
    <3>4. QED
      BY <2>1, <2>2, <3>1, <3>2, <3>3, SizesAssumption
  <2>3. CASE ~(link[s] = "live" /\ Len(inbox[s]) < Capacity)
    BY <2>1, <2>3 DEF Broadcast
  <2>4. QED
    BY <2>2, <2>3
<1>2. inbox' = [s \in Sockets |-> inbox'[s]]
  BY DEF Broadcast
<1>3. QED
  BY <1>1, <1>2

LEMMA TypeStep ==
  ASSUME LogTypeOK, LogIsGapless, [Next]_vars
  PROVE  LogTypeOK'
<1> USE DEF LogTypeOK
<1>1. ASSUME NEW w \in Writers, Lock(w) \/ Abandon(w)
      PROVE  LogTypeOK'
  <2>1. UNCHANGED <<events, last, link, batch, inbox, shown, cursor>>
    BY <1>1 DEF Lock, Abandon, busVars, seenVars
  <2>2. \/ stage' = [stage EXCEPT ![w] = "locked"]
        \/ stage' = [stage EXCEPT ![w] = "idle"]
    BY <1>1 DEF Lock, Abandon
  <2>3. number' = number \/ number' = [number EXCEPT ![w] = last + 1]
    BY <1>1 DEF Lock, Abandon
  <2>4. /\ stage' \in [Writers -> {"idle", "locked", "committed"}]
        /\ number' \in [Writers -> Nat]
    <3>1. number' \in [Writers -> Nat]
      BY <2>3
    <3>2. stage' \in [Writers -> {"idle", "locked", "committed"}]
      BY <2>2
    <3>3. QED
      BY <3>1, <3>2
  <2>5. QED
    BY <2>1, <2>4
<1>2. ASSUME NEW w \in Writers, Commit(w)
      PROVE  LogTypeOK'
  BY <1>2 DEF Commit, Event, busVars, seenVars
<1>3. ASSUME NEW w \in Writers, Publish(w)
      PROVE  LogTypeOK'
  <2>1. PICK n \in Nat : n = number[w] /\ Broadcast(n)
    BY <1>3 DEF Publish
  <2>2. UNCHANGED <<events, last, number, link, batch, shown, cursor>>
    BY <1>3 DEF Publish, seenVars
  <2>3. stage' \in [Writers -> {"idle", "locked", "committed"}]
    BY <1>3 DEF Publish
  <2>4. QED
    BY <2>1, <2>2, <2>3, BroadcastAdds
<1>4. ASSUME NEW r \in Pollers, Poll(r)
      PROVE  LogTypeOK'
  <2>1. ListAfter(cursor[r]) \subseteq Nat
    BY DEF ListAfter, After, LogIsGapless
  <2>2. /\ shown' \in [Readers -> SUBSET Nat]
        /\ cursor' \in [Readers -> Nat]
    BY <1>4, <2>1, Kinds DEF Poll
  <2>3. UNCHANGED <<logVars, busVars>>
    BY <1>4 DEF Poll
  <2>4. QED
    BY <2>2, <2>3 DEF logVars, busVars
<1>5. ASSUME NEW s \in Sockets, Open(s)
      PROVE  LogTypeOK'
  <2>1. ListAfter(cursor[s]) \subseteq Nat
    BY DEF ListAfter, After, LogIsGapless
  <2>2. QED
    BY <1>5, <2>1 DEF Open, logVars, seenVars
<1>6. ASSUME NEW s \in Sockets, Send(s)
      PROVE  LogTypeOK'
  <2>1. PICK m \in batch[s] :
          Show(s, m) /\ batch' = [batch EXCEPT ![s] = @ \ {m}]
    BY <1>6 DEF Send
  <2>2. UNCHANGED <<logVars, link, inbox>> /\ link[s] = "replaying"
    BY <1>6 DEF Send
  <2>3. QED
    BY <2>1, <2>2, Kinds DEF Show, logVars
<1>7. ASSUME NEW s \in Sockets, Subscribe(s) \/ Close(s)
      PROVE  LogTypeOK'
  <2>1. UNCHANGED <<events, last, stage, number, shown, cursor>>
    BY <1>7 DEF Subscribe, Close, logVars, seenVars
  <2>2. CASE Subscribe(s)
    BY <2>1, <2>2 DEF Subscribe
  <2>3. CASE Close(s)
    <3>1. <<>> \in Seq(Nat) /\ Len(<<>>) = 0
      OBVIOUS
    <3>2. /\ inbox' \in [Sockets -> Seq(Nat)]
          /\ \A t \in Sockets : Len(inbox'[t]) <= Capacity
          /\ inbox'[s] = <<>>
          /\ \A t \in Sockets \ {s} : inbox'[t] = inbox[t]
      BY <2>3, <3>1, SizesAssumption DEF Close
    <3>3. /\ link' \in [Sockets -> {"closed", "replaying", "live"}]
          /\ batch' \in [Sockets -> SUBSET Nat]
          /\ batch'[s] = {}
          /\ \A t \in Sockets \ {s} : batch'[t] = batch[t] /\ link'[t] = link[t]
      BY <2>3 DEF Close
    <3>4. QED
      BY <2>1, <3>2, <3>3
  <2>4. QED
    BY <1>7, <2>2, <2>3
<1>8. ASSUME NEW s \in Sockets, Receive(s)
      PROVE  LogTypeOK'
  <2>1. inbox[s] \in Seq(Nat) /\ inbox[s] # <<>>
    BY <1>8 DEF Receive
  <2>2. /\ Head(inbox[s]) \in Nat /\ Tail(inbox[s]) \in Seq(Nat)
        /\ Len(Tail(inbox[s])) <= Len(inbox[s])
    BY <2>1
  <2>3. UNCHANGED <<logVars, link, batch>> /\ link[s] = "live"
    BY <1>8 DEF Receive
  <2>4. inbox' = [inbox EXCEPT ![s] = Tail(inbox[s])]
    BY <1>8 DEF Receive
  <2>5. /\ shown' \in [Readers -> SUBSET Nat]
        /\ cursor' \in [Readers -> Nat]
    <3>1. CASE UNCHANGED seenVars
      BY <3>1 DEF seenVars
    <3>2. CASE Show(s, Head(inbox[s]))
      <4>1. PICK m \in Nat : m = Head(inbox[s])
        BY <2>2
      <4>2. Show(s, m)
        BY <3>2, <4>1
      <4>3. QED
        BY <4>2, Kinds DEF Show
    <3>3. QED
      BY <1>8, <3>1, <3>2 DEF Receive
  <2>6. \A t \in Sockets : Len(inbox'[t]) <= Capacity
    BY <2>1, <2>2, <2>4, SizesAssumption
  <2>7. QED
    BY <2>2, <2>3, <2>4, <2>5, <2>6 DEF logVars
<1>9. CASE UNCHANGED vars
  BY <1>9 DEF vars
<1>10. QED
  BY <1>1, <1>2, <1>3, <1>4, <1>5, <1>6, <1>7, <1>8, <1>9 DEF Next

\* Steps that leave the log and its writers alone.
ReaderStep ==
  \/ \E r \in Pollers : Poll(r)
  \/ \E s \in Sockets :
       Open(s) \/ Send(s) \/ Subscribe(s) \/ Receive(s) \/ Close(s)

LEMMA ReadersOnlyRead ==
  ASSUME ReaderStep
  PROVE  UNCHANGED logVars
BY DEF ReaderStep, Poll, Open, Send, Subscribe, Receive, Close

\* The event of the lock's holder gets the number after the last one.
LEMMA CommitAddsNext ==
  ASSUME LogTypeOK, LogIsGapless, RowIsLocked, NEW w \in Writers, Commit(w)
  PROVE  /\ number[w] = last + 1 /\ last' = last + 1
         /\ Committed' = Committed \cup {last + 1}
         /\ events' = events \cup {[sequence |-> last + 1, by |-> w]}
<1>1. number[w] = last + 1 /\ last' = last + 1
  BY DEF Commit, RowIsLocked
<1>2. events' = events \cup {[sequence |-> last + 1, by |-> w]}
  BY <1>1 DEF Commit
<1>3. Committed' = Committed \cup {last + 1}
  <2>1. [sequence |-> last + 1, by |-> w].sequence = last + 1
    OBVIOUS
  <2>2. QED
    BY <1>2, <2>1 DEF Committed
<1>4. QED
  BY <1>1, <1>2, <1>3

LEMMA LogStep ==
  ASSUME LogTypeOK, LogIsGapless, RowIsLocked, [Next]_vars
  PROVE  LogIsGapless' /\ RowIsLocked'
<1>1. ASSUME NEW w \in Writers, Lock(w)
      PROVE  LogIsGapless' /\ RowIsLocked'
  <2>1. UNCHANGED <<events, last>>
    BY <1>1 DEF Lock
  <2>2. /\ stage'[w] = "locked" /\ number'[w] = last + 1
        /\ \A v \in Writers \ {w} : stage'[v] = stage[v] /\ number'[v] = number[v]
        /\ \A v \in Writers : stage[v] # "locked"
    BY <1>1 DEF Lock, LogTypeOK
  <2>3. QED
    BY <2>1, <2>2 DEF LogIsGapless, RowIsLocked, Committed
<1>2. ASSUME NEW w \in Writers, Commit(w)
      PROVE  LogIsGapless' /\ RowIsLocked'
  <2>1. /\ number[w] = last + 1 /\ last' = last + 1
        /\ Committed' = Committed \cup {last + 1}
        /\ events' = events \cup {[sequence |-> last + 1, by |-> w]}
    BY <1>2, CommitAddsNext
  <2>2. Committed' = 1..last'
    BY <2>1 DEF LogIsGapless, LogTypeOK
  <2>3. \A e \in events : e.sequence # last + 1
    <3>1. \A e \in events : e.sequence \in 1..last
      BY DEF LogIsGapless, Committed
    <3>2. QED
      BY <3>1 DEF LogTypeOK
  <2>4. \A e, f \in events' : e.sequence = f.sequence => e = f
    BY <2>1, <2>3 DEF LogIsGapless
  <2>5. /\ stage[w] = "locked" /\ stage'[w] = "committed" /\ UNCHANGED number
        /\ \A v \in Writers \ {w} : stage'[v] = stage[v]
    BY <1>2 DEF Commit, LogTypeOK
  <2>6. \A v \in Writers : stage'[v] # "locked"
    BY <2>5 DEF RowIsLocked
  <2>7. QED
    BY <2>1, <2>2, <2>4, <2>5, <2>6 DEF LogIsGapless, RowIsLocked
<1>3. ASSUME NEW w \in Writers, Publish(w) \/ Abandon(w)
      PROVE  LogIsGapless' /\ RowIsLocked'
  <2>1. UNCHANGED <<events, last, number>>
    BY <1>3 DEF Publish, Abandon
  <2>2. \A v \in Writers : stage'[v] = stage[v] \/ stage'[v] = "idle"
    BY <1>3 DEF Publish, Abandon, LogTypeOK
  <2>3. QED
    BY <2>1, <2>2 DEF LogIsGapless, RowIsLocked, Committed
<1>4. CASE ReaderStep \/ UNCHANGED vars
  <2>1. UNCHANGED <<events, last, stage, number>>
    BY <1>4, ReadersOnlyRead DEF vars, logVars
  <2>2. QED
    BY <2>1 DEF LogIsGapless, RowIsLocked, Committed
<1>5. QED
  BY <1>1, <1>2, <1>3, <1>4 DEF Next, ReaderStep

LEMMA LogGrows ==
  ASSUME LogTypeOK, LogIsGapless, RowIsLocked, [Next]_vars
  PROVE  Committed \subseteq Committed' /\ last' \in Nat /\ last <= last'
<1>1. LogIsGapless'
  BY LogStep
<1>2. LogTypeOK'
  BY TypeStep
<1>3. ASSUME NEW w \in Writers, Commit(w)
      PROVE  last' = last + 1
  BY <1>3, CommitAddsNext
<1>4. ASSUME NEW w \in Writers, Lock(w) \/ Publish(w) \/ Abandon(w)
      PROVE  last' = last
  BY <1>4 DEF Lock, Publish, Abandon
<1>5. ASSUME ReaderStep \/ UNCHANGED vars
      PROVE  last' = last
  BY <1>5, ReadersOnlyRead DEF vars, logVars
<1>6. last' = last \/ last' = last + 1
  BY <1>3, <1>4, <1>5 DEF Next, ReaderStep
<1>7. QED
  BY <1>1, <1>2, <1>6 DEF LogIsGapless, LogTypeOK

\* A client is shown a number above all it has got.
LEMMA ShowKeepsOrder ==
  ASSUME LogTypeOK, Delivery, NEW s \in Sockets, NEW m \in 1..last,
         cursor[s] < m, Show(s, m)
  PROVE  /\ \A r \in Readers :
              /\ shown'[r] \subseteq 1..cursor'[r]
              /\ cursor'[r] \in 0..last
         /\ \A r \in Pollers : shown'[r] = 1..cursor'[r]
         /\ cursor'[s] = m /\ \A r \in Readers \ {s} : cursor'[r] = cursor[r]
<1>1. /\ shown'[s] = shown[s] \cup {m} /\ cursor'[s] = m
      /\ \A r \in Readers \ {s} : shown'[r] = shown[r] /\ cursor'[r] = cursor[r]
  BY Kinds DEF Show, LogTypeOK
<1>2. /\ shown[s] \subseteq 1..cursor[s] /\ cursor[s] \in 0..last
      /\ last \in Nat
  BY Kinds DEF Delivery, LogTypeOK
<1>3. shown'[s] \subseteq 1..cursor'[s] /\ cursor'[s] \in 0..last
  BY <1>1, <1>2
<1>4. \A r \in Pollers : r \in Readers \ {s}
  BY Kinds
<1>5. QED
  BY <1>1, <1>3, <1>4 DEF Delivery

\* A poll brings a client to the end of its page.
LEMMA PollReadsOn ==
  ASSUME LogTypeOK, LogIsGapless, Delivery, NEW r \in Pollers, Poll(r)
  PROVE  /\ cursor'[r] \in (cursor[r] + 1)..last
         /\ shown'[r] = 1..cursor'[r]
         /\ shown' = [shown EXCEPT ![r] = 1..cursor'[r]]
         /\ \A q \in Readers \ {r} :
              shown'[q] = shown[q] /\ cursor'[q] = cursor[q]
<1> DEFINE page == ListAfter(cursor[r])
<1>1. r \in Readers
  BY Kinds
<1>2. PICK m \in page :
        /\ \A k \in page : k <= m
        /\ cursor' = [cursor EXCEPT ![r] = m]
  BY DEF Poll
<1>3. /\ cursor[r] \in Nat /\ cursor[r] <= last /\ last \in Nat
      /\ shown[r] = 1..cursor[r]
  BY <1>1 DEF Delivery, LogTypeOK
<1>4. /\ page \subseteq (cursor[r] + 1)..last
      /\ (cursor[r] + 1)..m \subseteq page
  BY <1>3, PageIsAStretch
<1>5. m \in (cursor[r] + 1)..last /\ page = (cursor[r] + 1)..m
  <2> HIDE DEF page
  <2>1. m \in (cursor[r] + 1)..last
    BY <1>2, <1>4
  <2>2. \A k \in page : k \in (cursor[r] + 1)..m
    BY <1>2, <1>3, <1>4, <2>1
  <2>3. QED
    BY <1>4, <2>1, <2>2
<1>6. shown' = [shown EXCEPT ![r] = shown[r] \cup page]
  BY DEF Poll
<1>7. shown[r] \cup page = 1..m
  BY <1>3, <1>5
<1>8. cursor'[r] = m
  BY <1>1, <1>2 DEF LogTypeOK
<1> HIDE DEF page
<1>9. QED
  BY <1>1, <1>2, <1>5, <1>6, <1>7, <1>8 DEF LogTypeOK

LEMMA DeliveryStep ==
  ASSUME LogInv, [Next]_vars
  PROVE  Delivery'
<1> USE DEF LogInv
<1>1. /\ Committed \subseteq Committed' /\ last' \in Nat /\ last <= last'
      /\ last \in Nat /\ Committed = 1..last
  BY LogGrows DEF LogTypeOK, LogIsGapless
<1>2. ASSUME NEW w \in Writers, Lock(w) \/ Commit(w) \/ Abandon(w)
      PROVE  Delivery'
  <2>1. UNCHANGED <<batch, inbox, shown, cursor>>
    BY <1>2 DEF Lock, Commit, Abandon, busVars, seenVars
  <2>2. QED
    BY <1>1, <2>1 DEF Delivery
<1>3. ASSUME NEW w \in Writers, Publish(w)
      PROVE  Delivery'
  <2>1. PICK n \in Nat : n = number[w] /\ Broadcast(n)
    BY <1>3 DEF Publish, LogTypeOK
  <2>2. n \in Committed
    BY <1>3, <2>1 DEF Publish, RowIsLocked
  <2>3. \A s \in Sockets : \A i \in DOMAIN inbox'[s] :
          inbox'[s][i] \in Committed'
    BY <1>1, <2>1, <2>2, BroadcastAdds DEF Delivery
  <2>4. UNCHANGED <<batch, shown, cursor>>
    BY <1>3 DEF Publish, seenVars
  <2>5. QED
    BY <1>1, <2>3, <2>4 DEF Delivery
<1>4. ASSUME NEW r \in Pollers, Poll(r)
      PROVE  Delivery'
  <2>1. /\ cursor'[r] \in (cursor[r] + 1)..last
        /\ shown'[r] = 1..cursor'[r]
        /\ \A q \in Readers \ {r} :
             shown'[q] = shown[q] /\ cursor'[q] = cursor[q]
    BY <1>4, PollReadsOn
  <2>2. UNCHANGED <<last, events, batch, inbox>>
    BY <1>4 DEF Poll, logVars, busVars
  <2>3. cursor[r] \in Nat
    BY Kinds DEF LogTypeOK
  <2>4. /\ \A q \in Readers : shown'[q] \subseteq 1..cursor'[q]
        /\ \A q \in Readers : cursor'[q] \in 0..last'
        /\ \A q \in Pollers : shown'[q] = 1..cursor'[q]
    BY <1>1, <2>1, <2>2, <2>3, Kinds DEF Delivery
  <2>5. \A s \in Sockets :
          /\ batch'[s] \subseteq Committed'
          /\ \A m \in batch'[s] : cursor'[s] < m
          /\ \A i \in DOMAIN inbox'[s] : inbox'[s][i] \in Committed'
    BY <1>1, <2>1, <2>2, Kinds DEF Delivery
  <2>6. QED
    BY <2>4, <2>5 DEF Delivery
<1>5. ASSUME NEW s \in Sockets, Open(s)
      PROVE  Delivery'
  <2>1. UNCHANGED <<last, events, inbox, shown, cursor>>
    BY <1>5 DEF Open, logVars, seenVars
  <2>2. cursor[s] \in Nat /\ ListAfter(cursor[s]) \subseteq (cursor[s] + 1)..last
    BY PageIsAStretch, Kinds DEF LogTypeOK
  <2>3. batch' = [batch EXCEPT ![s] = ListAfter(cursor[s])]
    BY <1>5 DEF Open
  <2>4. \A t \in Sockets : /\ batch'[t] \subseteq Committed'
                           /\ \A m \in batch'[t] : cursor'[t] < m
    BY <1>1, <2>1, <2>2, <2>3 DEF Delivery, LogTypeOK
  <2>5. QED
    BY <1>1, <2>1, <2>4 DEF Delivery
<1>6. ASSUME NEW s \in Sockets, Send(s)
      PROVE  Delivery'
  <2>1. PICK m \in batch[s] :
          /\ \A k \in batch[s] : m <= k
          /\ Show(s, m)
          /\ batch' = [batch EXCEPT ![s] = @ \ {m}]
    BY <1>6 DEF Send
  <2>2. UNCHANGED <<last, events, inbox>>
    BY <1>6 DEF Send, logVars
  <2>3. m \in 1..last /\ cursor[s] < m
    BY <1>1 DEF Delivery
  <2>4. /\ \A r \in Readers : /\ shown'[r] \subseteq 1..cursor'[r]
                              /\ cursor'[r] \in 0..last
        /\ \A r \in Pollers : shown'[r] = 1..cursor'[r]
        /\ cursor'[s] = m /\ \A r \in Readers \ {s} : cursor'[r] = cursor[r]
    BY <2>1, <2>3, ShowKeepsOrder
  <2>5. \A t \in Sockets : batch'[t] \subseteq batch[t]
    BY <2>1 DEF LogTypeOK
  <2>6. \A k \in batch'[s] : cursor'[s] < k
    BY <1>1, <2>1, <2>3, <2>4 DEF LogTypeOK, Delivery
  <2>7. \A t \in Sockets : \A k \in batch'[t] : cursor'[t] < k
    BY <2>4, <2>5, <2>6, Kinds DEF Delivery
  <2>8. QED
    BY <1>1, <2>2, <2>4, <2>5, <2>7 DEF Delivery
<1>7. ASSUME NEW s \in Sockets, Subscribe(s) \/ Close(s)
      PROVE  Delivery'
  <2>1. UNCHANGED <<last, events, shown, cursor>>
    BY <1>7 DEF Subscribe, Close, logVars, seenVars
  <2>2. \A t \in Sockets : batch'[t] \subseteq batch[t]
    BY <1>7 DEF Subscribe, Close, LogTypeOK
  <2>3. \A t \in Sockets : inbox'[t] = inbox[t] \/ inbox'[t] = <<>>
    BY <1>7 DEF Subscribe, Close, LogTypeOK
  <2>4. QED
    BY <1>1, <2>1, <2>2, <2>3 DEF Delivery
<1>8. ASSUME NEW s \in Sockets, Receive(s)
      PROVE  Delivery'
  <2>1. UNCHANGED <<last, events, batch>> /\ batch[s] = {}
    BY <1>8 DEF Receive, logVars, LogTypeOK
  <2>2. inbox[s] \in Seq(Nat) /\ inbox[s] # <<>>
    BY <1>8 DEF Receive, LogTypeOK
  <2>3. PICK m \in 1..last : m = Head(inbox[s])
    BY <1>1, <2>2 DEF Delivery
  <2>4. \A t \in Sockets : \A i \in DOMAIN inbox'[t] :
          inbox'[t][i] \in Committed'
    <3>1. inbox' = [inbox EXCEPT ![s] = Tail(inbox[s])]
      BY <1>8 DEF Receive
    <3>2. \A i \in DOMAIN Tail(inbox[s]) :
            i + 1 \in DOMAIN inbox[s] /\ Tail(inbox[s])[i] = inbox[s][i + 1]
      BY <2>2
    <3>3. QED
      BY <1>1, <3>1, <3>2 DEF Delivery, LogTypeOK
  <2>5. CASE UNCHANGED seenVars
    BY <1>1, <2>1, <2>4, <2>5 DEF Delivery, seenVars
  <2>6. CASE cursor[s] < m /\ Show(s, m)
    <3>1. /\ \A r \in Readers : /\ shown'[r] \subseteq 1..cursor'[r]
                                /\ cursor'[r] \in 0..last
          /\ \A r \in Pollers : shown'[r] = 1..cursor'[r]
          /\ \A r \in Readers \ {s} : cursor'[r] = cursor[r]
      BY <2>6, ShowKeepsOrder
    <3>2. \A t \in Sockets : \A k \in batch'[t] : cursor'[t] < k
      BY <2>1, <3>1, Kinds DEF Delivery
    <3>3. QED
      BY <1>1, <2>1, <2>4, <3>1, <3>2 DEF Delivery
  <2>7. cursor[s] \in Nat
    BY Kinds DEF LogTypeOK
  <2>8. QED
    BY <1>8, <2>3, <2>5, <2>6, <2>7 DEF Receive
<1>9. CASE UNCHANGED vars
  BY <1>1, <1>9 DEF vars, Delivery
<1>10. QED
  BY <1>2, <1>3, <1>4, <1>5, <1>6, <1>7, <1>8, <1>9 DEF Next

LEMMA InvHolds == Spec => []LogInv
<1>1. Init => LogInv
  <2> SUFFICES ASSUME Init PROVE LogInv
    OBVIOUS
  <2>1. <<>> \in Seq(Nat) /\ Len(<<>>) = 0
    OBVIOUS
  <2>2. LogTypeOK
    BY <2>1, SizesAssumption DEF Init, LogTypeOK
  <2>3. LogIsGapless /\ RowIsLocked
    BY DEF Init, LogIsGapless, RowIsLocked, Committed
  <2>4. Delivery
    BY Kinds DEF Init, Delivery
  <2>5. QED
    BY <2>2, <2>3, <2>4 DEF LogInv
<1>2. LogInv /\ [Next]_vars => LogInv'
  BY TypeStep, LogStep, DeliveryStep DEF LogInv
<1>3. QED
  BY <1>1, <1>2, PTL DEF Spec

\* Types; queues belong to live connections and never overflow.
THEOREM LogTypeCorrect == Spec => []LogTypeOK
BY InvHolds, PTL DEF LogInv

(***************************************************************************)
(* The row lock of events.py:92-129 numbers the events of any number of    *)
(* writers 1, 2, 3, ... without a gap and without a number used twice.     *)
(***************************************************************************)
THEOREM NumbersAreGapless == Spec => []LogIsGapless
BY InvHolds, PTL DEF LogInv

(***************************************************************************)
(* Whatever a client has got or has in its queue is committed              *)
(* (events.py:129-130).                                                    *)
(***************************************************************************)
THEOREM ShownIsCommitted == Spec => []OnlyCommittedIsShown
<1>1. LogInv => OnlyCommittedIsShown
  BY DEF LogInv, Delivery, LogIsGapless, LogTypeOK, OnlyCommittedIsShown
<1>2. QED
  BY <1>1, InvHolds, PTL
-----------------------------------------------------------------------------
(***************************************************************************)
(* Order.                                                                  *)
(***************************************************************************)
\* What ShownInOrder says of one client.
ReadsUp(r) ==
  shown'[r] # shown[r] \/ cursor'[r] # cursor[r] =>
    /\ cursor'[r] > cursor[r]
    /\ \A m \in shown'[r] \ shown[r] : m > cursor[r]
    /\ \A m \in shown[r] : m <= cursor[r]

LEMMA ShowReadsUp ==
  ASSUME LogInv, NEW s \in Sockets, NEW m \in Nat, cursor[s] < m, Show(s, m)
  PROVE  \A r \in Readers : ReadsUp(r)
<1> USE DEF LogInv
<1>1. /\ shown'[s] = shown[s] \cup {m} /\ cursor'[s] = m
      /\ \A r \in Readers \ {s} : shown'[r] = shown[r] /\ cursor'[r] = cursor[r]
  BY Kinds DEF Show, LogTypeOK
<1>2. shown[s] \subseteq 1..cursor[s] /\ cursor[s] \in Nat
  BY Kinds DEF Delivery, LogTypeOK
<1>3. ReadsUp(s)
  BY <1>1, <1>2 DEF ReadsUp
<1>4. QED
  BY <1>1, <1>3 DEF ReadsUp

LEMMA OrderStep ==
  ASSUME LogInv, [Next]_vars
  PROVE  \A r \in Readers : ReadsUp(r)
<1> USE DEF LogInv
<1>1. ASSUME UNCHANGED seenVars
      PROVE  \A r \in Readers : ReadsUp(r)
  BY <1>1 DEF seenVars, ReadsUp
<1>2. ASSUME NEW w \in Writers, Lock(w) \/ Commit(w) \/ Publish(w) \/ Abandon(w)
      PROVE  UNCHANGED seenVars
  BY <1>2 DEF Lock, Commit, Publish, Abandon
<1>3. ASSUME NEW q \in Pollers, Poll(q)
      PROVE  \A r \in Readers : ReadsUp(r)
  <2>1. /\ cursor'[q] \in (cursor[q] + 1)..last
        /\ shown'[q] = 1..cursor'[q]
        /\ \A r \in Readers \ {q} :
             shown'[r] = shown[r] /\ cursor'[r] = cursor[r]
    BY <1>3, PollReadsOn
  <2>2. shown[q] = 1..cursor[q] /\ cursor[q] \in Nat /\ last \in Nat
    BY Kinds DEF Delivery, LogTypeOK
  <2>3. ReadsUp(q)
    BY <2>1, <2>2 DEF ReadsUp
  <2>4. QED
    BY <2>1, <2>3 DEF ReadsUp
<1>4. ASSUME NEW s \in Sockets, Send(s)
      PROVE  \A r \in Readers : ReadsUp(r)
  <2>1. PICK m \in batch[s] : Show(s, m)
    BY <1>4 DEF Send
  <2>2. m \in Nat /\ cursor[s] < m
    BY DEF LogTypeOK, Delivery
  <2>3. QED
    BY <2>1, <2>2, ShowReadsUp
<1>5. ASSUME NEW s \in Sockets, Receive(s)
      PROVE  \A r \in Readers : ReadsUp(r)
  <2>1. inbox[s] \in Seq(Nat) /\ inbox[s] # <<>>
    BY <1>5 DEF Receive, LogTypeOK
  <2>2. PICK m \in Nat : m = Head(inbox[s])
    BY <2>1
  <2>3. CASE cursor[s] < m /\ Show(s, m)
    BY <2>3, ShowReadsUp
  <2>4. cursor[s] \in Nat
    BY Kinds DEF LogTypeOK
  <2>5. QED
    BY <1>1, <1>5, <2>2, <2>3, <2>4 DEF Receive
<1>6. ASSUME NEW s \in Sockets, Open(s) \/ Subscribe(s) \/ Close(s)
      PROVE  UNCHANGED seenVars
  BY <1>6 DEF Open, Subscribe, Close
<1>7. ASSUME UNCHANGED vars
      PROVE  UNCHANGED seenVars
  BY <1>7 DEF vars, seenVars
<1>8. QED
  BY <1>1, <1>2, <1>3, <1>4, <1>5, <1>6, <1>7 DEF Next

(***************************************************************************)
(* Whatever overlap there is between replay, bus and new connections, and  *)
(* in whichever order events reach a queue, a client gets no event twice   *)
(* and none after a newer one (api.py:160-170).                            *)
(***************************************************************************)
THEOREM ClientsReadUpwards == Spec => ShownInOrder
<1>1. LogInv /\ [Next]_vars =>
        [\A r \in Readers :
           shown'[r] # shown[r] \/ cursor'[r] # cursor[r] =>
             /\ cursor'[r] > cursor[r]
             /\ \A m \in shown'[r] \ shown[r] : m > cursor[r]
             /\ \A m \in shown[r] : m <= cursor[r]]_vars
  BY OrderStep DEF ReadsUp
<1>2. QED
  BY <1>1, InvHolds, PTL DEF Spec, ShownInOrder
-----------------------------------------------------------------------------
(***************************************************************************)
(* Refinement.                                                             *)
(***************************************************************************)
AuthorOf(n) == (CHOOSE e \in events : e.sequence = n).by

\* Who wrote an entry does not depend on later ones.
LEMMA AuthorsAppend ==
  ASSUME LogTypeOK, LogIsGapless, RowIsLocked, NEW w \in Writers, Commit(w)
  PROVE  [n \in 1..last' |-> AuthorOf(n)'] =
           [n \in 1..(last + 1) |->
              IF n = last + 1 THEN w ELSE [k \in 1..last |-> AuthorOf(k)][n]]
<1>1. PICK n \in Nat, new \in Event :
        /\ n = last /\ last' = n + 1
        /\ new.sequence = n + 1 /\ new.by = w
        /\ events' = events \cup {new}
  <2>1. last \in Nat
    BY DEF LogTypeOK
  <2>2. [sequence |-> last + 1, by |-> w] \in Event
    BY <2>1 DEF Event
  <2>3. /\ [sequence |-> last + 1, by |-> w].sequence = last + 1
        /\ [sequence |-> last + 1, by |-> w].by = w
    OBVIOUS
  <2>4. QED
    BY <2>1, <2>2, <2>3, CommitAddsNext
<1>2. \A e, f \in events' : e.sequence = f.sequence => e = f
  <2>1. LogIsGapless'
    BY LogStep DEF Next
  <2>2. QED
    BY <2>1 DEF LogIsGapless
<1>3. AuthorOf(n + 1)' = w
  <2>1. (CHOOSE e \in events' : e.sequence = n + 1) = new
    BY <1>1, <1>2
  <2>2. QED
    BY <1>1, <2>1 DEF AuthorOf
<1>4. ASSUME NEW k \in 1..n
      PROVE  AuthorOf(k)' = AuthorOf(k)
  <2>1. PICK e \in events : e.sequence = k
    BY <1>1 DEF LogIsGapless, Committed
  <2>2. (CHOOSE f \in events : f.sequence = k) = e
    BY <2>1 DEF LogIsGapless
  <2>3. (CHOOSE f \in events' : f.sequence = k) = e
    BY <1>1, <1>2, <2>1
  <2>4. QED
    BY <2>2, <2>3 DEF AuthorOf
<1>5. \A k \in 1..(n + 1) :
        AuthorOf(k)' =
          IF k = n + 1 THEN w ELSE [j \in 1..n |-> AuthorOf(j)][k]
  <2>1. \A k \in 1..(n + 1) : k # n + 1 => k \in 1..n
    OBVIOUS
  <2>2. QED
    BY <1>3, <1>4, <2>1
<1>6. QED
  BY <1>1, <1>5

(***************************************************************************)
(* The log, with its lock, its bus and its clients, is a feed: every       *)
(* commit appends one entry and changes none, and a client that polls      *)
(* reads on from the entry it has reached (events.py:92-154).              *)
(***************************************************************************)
THEOREM FeedImplemented == Spec => ImplementsFeed
<1>1. Init => Feed!Init
  <2> SUFFICES ASSUME Init PROVE Feed!Init
    OBVIOUS
  <2>1. last = 0 /\ 1..last = {}
    BY DEF Init
  <2>2. [n \in 1..last |-> (CHOOSE e \in events : e.sequence = n).by]
          = [n \in {} |-> n]
    BY <2>1
  <2>3. [r \in Pollers |-> shown[r]] = [r \in Pollers |-> {}]
    BY Kinds DEF Init
  <2>4. QED
    BY <2>1, <2>2, <2>3 DEF Feed!Init
<1>2. LogInv /\ [Next]_vars => [Feed!Next]_Feed!vars
  <2> SUFFICES ASSUME LogInv, [Next]_vars PROVE [Feed!Next]_Feed!vars
    OBVIOUS
  <2> USE DEF LogInv
  <2>1. ASSUME UNCHANGED <<events, last, shown>>
        PROVE  UNCHANGED Feed!vars
    BY <2>1 DEF Feed!vars
  <2>2. ASSUME NEW w \in Writers, Commit(w)
        PROVE  Feed!Write(w)
    <3>1. last' = last + 1 /\ UNCHANGED shown
      BY <2>2, CommitAddsNext DEF Commit, seenVars
    <3>2. [n \in 1..last' |-> AuthorOf(n)'] =
            [n \in 1..(last + 1) |->
               IF n = last + 1 THEN w ELSE [k \in 1..last |-> AuthorOf(k)][n]]
      BY <2>2, AuthorsAppend
    <3>3. QED
      BY <3>1, <3>2 DEF Feed!Write, AuthorOf
  <2>3. ASSUME NEW r \in Pollers, Poll(r)
        PROVE  Feed!ReadOn(r)
    <3>1. PICK m \in Nat : m = cursor'[r]
      BY <2>3, TypeStep, Kinds DEF LogTypeOK, Next
    <3>2. /\ m \in (cursor[r] + 1)..last
          /\ shown' = [shown EXCEPT ![r] = 1..m]
      BY <2>3, <3>1, PollReadsOn
    <3>3. UNCHANGED <<events, last>>
      BY <2>3 DEF Poll, logVars
    <3>4. /\ shown[r] = 1..cursor[r] /\ cursor[r] \in Nat /\ last \in Nat
          /\ Pollers \subseteq Readers
      BY Kinds DEF Delivery, LogTypeOK
    <3>5. [q \in Pollers |-> shown'[q]] =
            [[q \in Pollers |-> shown[q]] EXCEPT ![r] = 1..m]
      BY <3>2, <3>4 DEF LogTypeOK
    <3>6. m \in 0..last /\ shown[r] \subseteq 1..m
      BY <3>2, <3>4
    <3>7. m \in 0..last /\ [q \in Pollers |-> shown[q]][r] \subseteq 1..m
      BY <3>6
    <3>8. UNCHANGED <<last, [n \in 1..last |->
                               (CHOOSE e \in events : e.sequence = n).by]>>
      BY <3>3
    <3>9. [q \in Pollers |-> shown[q]]' =
            [[q \in Pollers |-> shown[q]] EXCEPT ![r] = 1..m]
      BY <3>5
    <3>10. QED
      BY <3>7, <3>8, <3>9 DEF Feed!ReadOn
  <2>4. ASSUME NEW w \in Writers, Lock(w) \/ Publish(w) \/ Abandon(w)
        PROVE  UNCHANGED <<events, last, shown>>
    BY <2>4 DEF Lock, Publish, Abandon, seenVars
  <2>5. ASSUME NEW s \in Sockets,
               Open(s) \/ Send(s) \/ Subscribe(s) \/ Receive(s) \/ Close(s)
        PROVE  UNCHANGED Feed!vars
    <3>1. /\ UNCHANGED <<events, last>>
          /\ shown' = shown \/ \E m : shown' = [shown EXCEPT ![s] = @ \cup {m}]
      BY <2>5 DEF Open, Send, Subscribe, Receive, Close, Show, logVars, seenVars
    <3>2. \A r \in Pollers : r # s /\ r \in Readers
      BY Kinds
    <3>3. \A r \in Pollers : shown'[r] = shown[r]
      BY <3>1, <3>2 DEF LogTypeOK
    <3>4. QED
      BY <3>1, <3>3 DEF Feed!vars
  <2>6. ASSUME UNCHANGED vars
        PROVE  UNCHANGED <<events, last, shown>>
    BY <2>6 DEF vars
  <2>7. QED
    BY <2>1, <2>2, <2>3, <2>4, <2>5, <2>6 DEF Next, Feed!Next
<1>3. QED
  BY <1>1, <1>2, InvHolds, PTL DEF Spec, ImplementsFeed, Feed!Spec

=============================================================================
